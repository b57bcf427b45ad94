----------------------------- MODULE LinkStatus -----------------------------
(***************************************************************************)
(* The Wi-Fi service, the event bus and the worker of the time service:    *)
(* how svc_time.c learns of the link. It keeps a copy of its own, made of  *)
(* the events that reach it, rather than ask svc_network.c. The bus is the *)
(* one LossyFanout allows, which EventBus implements; the mailbox of       *)
(* svc_time is full whenever the worker sits in a sync for long enough.    *)
(***************************************************************************)
EXTENDS NetworkService

CONSTANT MaxEvents   \* bound: events of svc_network.c on one boot

VARIABLES
  lane, got,    \* LossyFanout: events on their way to s_mailbox, and those placed in it
  heard,        \* how many of the latter the worker has taken out
  believes,     \* s_network_connected
  lost          \* history: a link event never got to the mailbox

linkVars == <<lane, got, heard, believes, lost>>
allVars  == <<vars, linkVars>>

Box      == "svc_time"
TypesOfInterest == {"connected", "disconnected"}
BusEvent == [by : {"svc_network"}, n : 1 .. MaxEvents,
             type : {"starting", "connected", "disconnected", "error"}]

Bus == INSTANCE LossyFanout
         WITH Mailboxes <- {Box}, Event <- BusEvent, Interest <- [m \in {Box} |-> TypesOfInterest]

LinkInit == Init /\ Bus!Init /\ heard = 0 /\ believes = FALSE /\ lost = FALSE

\* A step of the network service. What it publishes is accepted by the bus in the same step.
NetworkStep ==
  /\ Next
  /\ \/ published' = published /\ UNCHANGED <<lane, got>>
     \/ /\ published' # published /\ Len(published) < MaxEvents
        /\ LET n == Len(published) + 1 IN
             Bus!Accept([by |-> "svc_network", n |-> n, type |-> published'[n]])
  /\ UNCHANGED <<heard, believes, lost>>

\* The bus drops an event, or has no room for it in the mailbox: a Bus!Lose step.
BusLoses(k) ==
  /\ lane' = [lane EXCEPT ![Box] = Bus!WithoutNth(@, k)]
  /\ lost' = (lost \/ lane[Box][k].type \in TypesOfInterest)
  /\ UNCHANGED <<vars, got, heard, believes>>

BusDelivers == Bus!Deliver(Box) /\ UNCHANGED <<vars, heard, believes, lost>>

\* Mutant of WorkerHears: only a new link is noted.
WorkerHearsUpOnly ==
  /\ heard < Len(got[Box])
  /\ heard' = heard + 1
  /\ believes' = (believes \/ got[Box][heard + 1].type = "connected")
  /\ UNCHANGED <<vars, lane, got, lost>>

\* svc_time_worker() takes the next event.
WorkerHears ==
  /\ heard < Len(got[Box])
  /\ heard' = heard + 1
  /\ believes' = (got[Box][heard + 1].type = "connected")
  /\ UNCHANGED <<vars, lane, got, lost>>

LinkNext ==
  NetworkStep \/ (\E k \in DOMAIN lane[Box] : BusLoses(k)) \/ BusDelivers \/ WorkerHears
LinkSpec == LinkInit /\ [][LinkNext]_allVars

LinkFairSpec == /\ LinkSpec
                /\ WF_allVars(Start /\ NetworkStep) /\ WF_allVars(EventLoop /\ NetworkStep)
                /\ WF_allVars(Timer /\ NetworkStep)
                /\ WF_allVars(link = "trying" /\ Driver /\ NetworkStep)

-----------------------------------------------------------------------------
\* The time service knows the link: once everything that was published has been heard, its copy is
\* what the driver says, unless the bus lost a link event or a call nobody follows up failed. No
\* order of flapping links, retries and late handlers leaves it with an old one, but for an address
\* the driver reported after the loss of its link: then the worker believes in a link that is gone
\* until the driver reports something else (svc_network.c:243-302, svc_time.c:835-858).
TimeKnowsLink ==
  /\ \A i \in DOMAIN lane[Box] : lane[Box][i].type \notin TypesOfInterest
  /\ heard = Len(got[Box]) /\ events = << >> /\ ~ lost /\ ~ broken
  => (believes <=> link = "up" \/ late)
=============================================================================
