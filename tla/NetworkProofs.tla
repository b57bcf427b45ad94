--------------------------- MODULE NetworkProofs ---------------------------
(***************************************************************************)
(* The Wi-Fi service, for any number of retries, any delays, and whatever  *)
(* calls fail: as long as no failure goes unnoticed, one thing and no more *)
(* will bring the link about - an event, the timer, an attempt - or the    *)
(* access point is up, unless a late address stopped the timer; and the    *)
(* last event in the queue says what the link is. And of what the service  *)
(* announces, nothing that is not lost comes to the time service in a      *)
(* wrong order.                                                            *)
(***************************************************************************)
EXTENDS LinkStatus, SequenceTheorems, TLAPS

DriverEvents == {"start", "lost", "got_ip"}
Messages     == {"starting", "connected", "disconnected", "error"}

Station == wifi = "sta" /\ ~ apMode
NoTimer == ~ armed /\ ~ ringing

\* What may be left in the queue: addresses, of this link or of one that is gone, or one loss among
\* them.
Addresses(s) == \A i \in 1 .. Len(s) : s[i] = "got_ip"
OneLoss(s) == \E k \in 1 .. Len(s) : /\ s[k] = "lost"
                                     /\ \A i \in 1 .. Len(s) : i # k => s[i] = "got_ip"

\* The driver has started and app_main's event of that is still to be handled.
Starting == Station /\ NoTimer /\ link = "idle" /\ ~ connected /\ events = <<"start">>

\* The timer is the only thing that will bring about another attempt.
Waiting == /\ Station /\ (armed \/ ringing) /\ ~ (armed /\ ringing)
           /\ link = "idle" /\ Addresses(events)

Trying == Station /\ NoTimer /\ link # "idle" /\ Addresses(events)

\* The link has gone, or the attempt has failed, and the handler has yet to hear of it.
Down == Station /\ NoTimer /\ link = "idle" /\ OneLoss(events)

Access == apMode /\ NoTimer /\ wifi = "ap" /\ link = "idle" /\ Addresses(events)

\* An address of a link that was gone stopped the timer that its loss had started.
Stranded == Station /\ NoTimer /\ link = "idle" /\ Addresses(events) /\ late

Before == ~ apMode /\ NoTimer /\ link = "idle" /\ ~ connected /\ events = << >> /\ ~ late

Stage == Starting \/ Waiting \/ Trying \/ Down \/ Access \/ Stranded

\* The last thing the handlers will hear, or have heard, is how it is.
LastEvent ==
  /\ events = << >> => (connected <=> link = "up" \/ late)
  /\ events # << >> => (events[Len(events)] = "got_ip" <=> link = "up" \/ late)
  /\ late => link # "up"

StageInv ==
  /\ events \in Seq(DriverEvents)
  /\ main = "before" => Before
  /\ main # "before" /\ ~ broken => Stage /\ LastEvent

-----------------------------------------------------------------------------
(* The stages *)

\* The service has not started.
LEMMA StageInit == Init => StageInv
BY DEF Init, StageInv, Before, NoTimer

\* What is left of a queue of events once its first has been handled.
LEMMA TailFacts ==
  ASSUME NEW s \in Seq(DriverEvents), s # << >>
  PROVE  /\ Tail(s) \in Seq(DriverEvents) /\ Len(s) \in Nat \ {0} /\ Head(s) = s[1]
         /\ Len(Tail(s)) = Len(s) - 1
         /\ \A i \in 1 .. Len(Tail(s)) : Tail(s)[i] = s[i + 1]
         /\ Tail(s) = << >> <=> Len(s) = 1
<1>1. /\ Tail(s) \in Seq(DriverEvents) /\ Len(s) \in Nat \ {0} /\ Head(s) = s[1]
      /\ Len(Tail(s)) = Len(s) - 1
      /\ \A i \in 1 .. Len(Tail(s)) : Tail(s)[i] = s[i + 1]
  BY HeadTailProperties, EmptySeq, LenProperties
<1>2. Tail(s) = << >> <=> Len(Tail(s)) = 0
  BY <1>1, EmptySeq
<1> QED BY <1>1, <1>2

\* The last event stays the last while others are handled.
LEMMA TailKeepsLast ==
  ASSUME NEW s \in Seq(DriverEvents), s # << >>
  PROVE  IF Tail(s) = << >> THEN s[Len(s)] = Head(s) ELSE Tail(s)[Len(Tail(s))] = s[Len(s)]
<1>1. Tail(s) # << >> => Len(Tail(s)) \in 1 .. Len(Tail(s)) /\ Len(Tail(s)) + 1 = Len(s)
  BY TailFacts
<1> QED BY <1>1, TailFacts

\* Handling an address leaves what is in the queue otherwise, handling the loss leaves addresses.
LEMMA TailOfAddresses ==
  ASSUME NEW s \in Seq(DriverEvents), s # << >>
  PROVE  /\ Addresses(s) => Head(s) = "got_ip" /\ Addresses(Tail(s))
         /\ OneLoss(s) => \/ Head(s) = "got_ip" /\ OneLoss(Tail(s))
                          \/ Head(s) = "lost" /\ Addresses(Tail(s))
<1>1. /\ Len(s) \in Nat \ {0} /\ Head(s) = s[1] /\ Len(Tail(s)) = Len(s) - 1
      /\ \A i \in 1 .. Len(Tail(s)) : Tail(s)[i] = s[i + 1]
  BY TailFacts
<1>2. Addresses(s) => Head(s) = "got_ip" /\ Addresses(Tail(s))
  BY <1>1 DEF Addresses
<1>3. ASSUME OneLoss(s)
      PROVE  \/ Head(s) = "got_ip" /\ OneLoss(Tail(s))
             \/ Head(s) = "lost" /\ Addresses(Tail(s))
  <2>1. PICK k \in 1 .. Len(s) : s[k] = "lost" /\ \A i \in 1 .. Len(s) : i # k => s[i] = "got_ip"
    BY <1>3 DEF OneLoss
  <2>2. CASE k = 1
    BY <1>1, <2>1, <2>2 DEF Addresses
  <2>3. CASE k # 1
    <3>1. /\ Head(s) = "got_ip" /\ k - 1 \in 1 .. Len(Tail(s)) /\ Tail(s)[k - 1] = "lost"
          /\ \A i \in 1 .. Len(Tail(s)) : i # k - 1 => Tail(s)[i] = "got_ip"
      BY <1>1, <2>1, <2>3
    <3> QED BY <3>1 DEF OneLoss
  <2> QED BY <2>2, <2>3
<1> QED BY <1>2, <1>3

\* What the driver adds to a queue of addresses.
LEMMA PostFacts ==
  ASSUME NEW s \in Seq(DriverEvents), NEW posts \in Seq(DriverEvents)
  PROVE  /\ s \o posts \in Seq(DriverEvents)
         /\ posts = << >> => s \o posts = s
         /\ posts = <<"got_ip">> => /\ s \o posts # << >> /\ (s \o posts)[Len(s \o posts)] = "got_ip"
                                    /\ Addresses(s) => Addresses(s \o posts)
         /\ posts = <<"lost">> => /\ s \o posts # << >> /\ (s \o posts)[Len(s \o posts)] = "lost"
                                  /\ Addresses(s) => OneLoss(s \o posts)
         /\ posts = <<"lost", "got_ip">> =>
              /\ s \o posts # << >> /\ (s \o posts)[Len(s \o posts)] = "got_ip"
              /\ Addresses(s) => OneLoss(s \o posts)
<1>1. /\ s \o posts \in Seq(DriverEvents) /\ Len(s) \in Nat /\ Len(posts) \in Nat
      /\ Len(s \o posts) = Len(s) + Len(posts)
      /\ \A i \in 1 .. Len(s) + Len(posts) :
           (s \o posts)[i] = IF i <= Len(s) THEN s[i] ELSE posts[i - Len(s)]
  BY ConcatProperties, LenProperties
<1>2. posts = << >> => s \o posts = s
  BY ConcatEmptySeq
<1>3. Len(posts) # 0 => s \o posts # << >>
  BY <1>1, EmptySeq
<1> DEFINE t == s \o posts
<1>4. ASSUME posts = <<"got_ip">>
      PROVE  t # << >> /\ t[Len(t)] = "got_ip" /\ (Addresses(s) => Addresses(t))
  <2>1. Len(posts) = 1 /\ posts[1] = "got_ip"
    BY <1>4
  <2>2. Len(t) = Len(s) + 1 /\ t[Len(s) + 1] = "got_ip" /\ \A i \in 1 .. Len(s) : t[i] = s[i]
    BY <1>1, <2>1
  <2> HIDE DEF t
  <2> QED BY <1>1, <1>3, <2>1, <2>2 DEF Addresses, t
<1>5. ASSUME posts = <<"lost">>
      PROVE  t # << >> /\ t[Len(t)] = "lost" /\ (Addresses(s) => OneLoss(t))
  <2>1. Len(posts) = 1 /\ posts[1] = "lost"
    BY <1>5
  <2>2. Len(t) = Len(s) + 1 /\ t[Len(s) + 1] = "lost" /\ \A i \in 1 .. Len(s) : t[i] = s[i]
    BY <1>1, <2>1
  <2>3. t # << >>
    BY <1>3, <2>1
  <2> HIDE DEF t
  <2>4. Addresses(s) => OneLoss(t)
    BY <1>1, <2>2 DEF Addresses, OneLoss
  <2> QED BY <2>2, <2>3, <2>4
<1>6. ASSUME posts = <<"lost", "got_ip">>
      PROVE  t # << >> /\ t[Len(t)] = "got_ip" /\ (Addresses(s) => OneLoss(t))
  <2>1. Len(posts) = 2 /\ posts[1] = "lost" /\ posts[2] = "got_ip"
    BY <1>6
  <2>2. /\ Len(t) = Len(s) + 2 /\ t[Len(s) + 1] = "lost" /\ t[Len(s) + 2] = "got_ip"
        /\ \A i \in 1 .. Len(s) : t[i] = s[i]
    BY <1>1, <2>1
  <2>3. t # << >>
    BY <1>3, <2>1
  <2> HIDE DEF t
  <2>4. ASSUME Addresses(s) PROVE OneLoss(t)
    <3>1. \A n \in Nat : \A i \in 1 .. n + 2 : i \in 1 .. n \/ i = n + 1 \/ i = n + 2
      OBVIOUS
    <3>2. Len(s) + 1 \in 1 .. Len(t)
      BY <1>1, <2>2
    <3> QED BY <1>1, <2>2, <2>4, <3>1, <3>2 DEF Addresses, OneLoss
  <2> QED BY <2>2, <2>3, <2>4
<1> QED BY <1>1, <1>2, <1>4, <1>5, <1>6

\* A start, of a station or for the access point.
LEMMA StartStages == ASSUME StageInv, Start PROVE StageInv'
<1>1. CASE StartWithoutCredentials
  <2>1. Before /\ main' # "before" /\ UNCHANGED <<connected, armed, ringing, link, events, late>>
    BY <1>1 DEF StartWithoutCredentials, StageInv, timerVars
  <2>2. ASSUME ~ broken' PROVE wifi' = "ap" /\ apMode'
    BY <1>1, <2>2 DEF StartWithoutCredentials
  <2>3. events = << >> /\ Len(events) = 0
    BY <2>1, EmptySeq DEF Before
  <2> QED BY <2>1, <2>2, <2>3 DEF StageInv, Before, Stage, Access, LastEvent, Addresses, NoTimer
<1>2. CASE StartFails
  BY <1>2 DEF StartFails, StageInv, Before, NoTimer, staticVars, timerVars, driverVars
<1>3. CASE StartStation
  <2>1. Before /\ main' # "before" /\ wifi' = "sta" /\ events' = Append(events, "start")
        /\ UNCHANGED <<connected, apMode, armed, ringing, link, late>>
    BY <1>3 DEF StartStation, StageInv, staticVars, timerVars
  <2>2. events' = <<"start">>
    BY <2>1 DEF Before
  <2>3. events' # << >> /\ events'[Len(events')] = "start" /\ events' \in Seq(DriverEvents)
    BY <2>2 DEF DriverEvents
  <2>4. Starting' /\ LastEvent'
    BY <2>1, <2>2, <2>3 DEF Before, Starting, Station, NoTimer, LastEvent
  <2> QED BY <2>1, <2>3, <2>4 DEF StageInv, Stage
<1>4. CASE StartReturns
  BY <1>4 DEF StartReturns, StageInv, Before, Stage, Starting, Waiting, Trying, Down, Access, Stranded,
              Station, NoTimer, Addresses, OneLoss, LastEvent, timerVars, driverVars
<1> QED BY <1>1, <1>2, <1>3, <1>4 DEF Start

\* The first attempt.
LEMMA StaStartStages == ASSUME StageInv, StaStart PROVE StageInv'
<1>1. /\ events # << >> /\ Head(events) = "start" /\ events' = Tail(events)
      /\ UNCHANGED <<main, connected, apMode, armed, ringing, wifi, late>>
  BY DEF StaStart, Handles, staticVars, timerVars
<1>2. main # "before"
  BY <1>1 DEF StageInv, Before
<1>3. events' \in Seq(DriverEvents)
  BY <1>1, TailFacts DEF StageInv
<1>4. ASSUME ~ broken' PROVE Trying' /\ LastEvent'
  <2>1. ~ broken /\ Stage /\ LastEvent /\ ConnectBegins
    BY <1>2, <1>4 DEF StaStart, StageInv
  <2>2. ~ Addresses(events) /\ ~ OneLoss(events)
    BY <1>1, TailOfAddresses DEF StageInv
  <2>3. Starting
    BY <2>1, <2>2 DEF Stage, Waiting, Trying, Down, Access, Stranded
  <2>4. Len(events) = 1 /\ events[Len(events)] = "start"
    BY <2>3 DEF Starting
  <2>5. events' = << >>
    BY <1>1, <2>4, TailFacts DEF StageInv
  <2>6. Addresses(events')
    BY <2>5 DEF Addresses
  <2>7. link' = "trying" /\ ~ late
    BY <1>1, <2>1, <2>4 DEF ConnectBegins, LastEvent
  <2> QED BY <1>1, <2>3, <2>5, <2>6, <2>7 DEF Starting, Trying, Station, NoTimer, LastEvent
<1> QED BY <1>1, <1>2, <1>3, <1>4 DEF StageInv, Stage

\* A link that was lost, or an attempt that failed: the timer or the access point takes over.
LEMMA StaDisconnectedStages == ASSUME StageInv, StaDisconnected PROVE StageInv'
<1>1. /\ events # << >> /\ Head(events) = "lost" /\ events' = Tail(events)
      /\ ~ connected' /\ UNCHANGED <<main, ringing, late>>
  BY DEF StaDisconnected, Handles
<1>2. main # "before"
  BY <1>1 DEF StageInv, Before
<1>3. events \in Seq(DriverEvents) /\ events' \in Seq(DriverEvents)
  BY <1>1, TailFacts DEF StageInv
<1>4. ASSUME ~ broken' PROVE Stage' /\ LastEvent'
  <2>1. ~ broken
    BY <1>4 DEF StaDisconnected, StartApMode, ScheduleReconnect
  <2>2. Stage /\ LastEvent
    BY <1>2, <2>1 DEF StageInv
  <2>3. ~ Addresses(events)
    BY <1>1, <1>3, TailOfAddresses
  <2>4. ~ Starting
    BY <1>1, <1>3, TailFacts DEF Starting
  <2>5. Down
    BY <2>2, <2>3, <2>4 DEF Stage, Waiting, Trying, Access, Stranded
  <2>6. Addresses(events')
    BY <1>1, <1>3, <2>5, TailOfAddresses DEF Down
  <2>7. CASE StartApMode /\ UNCHANGED <<armed, backoff>>
    <3>1. Access' /\ link' = "idle"
      BY <1>1, <1>4, <2>5, <2>6, <2>7 DEF StartApMode, Down, Station, Access, NoTimer
    <3> QED BY <1>1, <1>3, <2>2, <2>5, <3>1, TailKeepsLast DEF Stage, Down, LastEvent
  <2>8. CASE ScheduleReconnect /\ UNCHANGED <<started, apMode, wifi, link>>
    <3>1. Waiting' /\ link' = "idle"
      BY <1>1, <1>4, <2>5, <2>6, <2>8 DEF ScheduleReconnect, Down, Station, Waiting, NoTimer
    <3> QED BY <1>1, <1>3, <2>2, <2>5, <3>1, TailKeepsLast DEF Stage, Down, LastEvent
  <2> QED BY <2>7, <2>8 DEF StaDisconnected
<1> QED BY <1>1, <1>2, <1>3, <1>4 DEF StageInv

\* An address, of the link there is, of one that has gone again, or of one that was gone before it
\* came: that one stops the timer, unless it is ringing already.
LEMMA StaGotIpStages == ASSUME StageInv, StaGotIp PROVE StageInv'
<1>1. /\ events # << >> /\ Head(events) = "got_ip" /\ events' = Tail(events)
      /\ connected' /\ ~ armed'
      /\ UNCHANGED <<main, apMode, ringing, wifi, link, late, broken>>
  BY DEF StaGotIp, Handles
<1>2. main # "before"
  BY <1>1 DEF StageInv, Before
<1>3. events \in Seq(DriverEvents) /\ events' \in Seq(DriverEvents)
  BY <1>1, TailFacts DEF StageInv
<1>4. ASSUME ~ broken' PROVE Stage' /\ LastEvent'
  <2>1. Stage /\ LastEvent
    BY <1>1, <1>2, <1>4 DEF StageInv
  <2>2. LastEvent'
    BY <1>1, <1>3, <2>1, TailKeepsLast DEF LastEvent
  <2>3. ~ Starting
    BY <1>1, <1>3, TailFacts DEF Starting
  <2>4. Addresses(events) => Addresses(events')
    BY <1>1, <1>3, TailOfAddresses
  <2>5. CASE Waiting
    <3>1. late
      <4>1. Len(events) \in 1 .. Len(events)
        BY <1>1, <1>3, TailFacts
      <4> QED BY <1>1, <2>1, <2>5, <4>1 DEF Waiting, LastEvent, Addresses
    <3>2. Waiting' \/ Stranded'
      BY <1>1, <2>4, <2>5, <3>1 DEF Waiting, Stranded, Station, NoTimer
    <3> QED BY <2>2, <3>2 DEF Stage
  <2>6. CASE Trying
    <3>1. Trying'
      BY <1>1, <2>4, <2>6 DEF Trying, Station, NoTimer
    <3> QED BY <2>2, <3>1 DEF Stage
  <2>7. CASE Down
    <3>1. OneLoss(events')
      BY <1>1, <1>3, <2>7, TailOfAddresses DEF Down
    <3>2. Down'
      BY <1>1, <2>7, <3>1 DEF Down, Station, NoTimer
    <3> QED BY <2>2, <3>2 DEF Stage
  <2>8. CASE Access
    <3>1. Access'
      BY <1>1, <2>4, <2>8 DEF Access, NoTimer
    <3> QED BY <2>2, <3>1 DEF Stage
  <2>9. CASE Stranded
    <3>1. Stranded'
      BY <1>1, <2>4, <2>9 DEF Stranded, Station, NoTimer
    <3> QED BY <2>2, <3>1 DEF Stage
  <2> QED BY <2>1, <2>3, <2>5, <2>6, <2>7, <2>8, <2>9 DEF Stage
<1> QED BY <1>1, <1>2, <1>3, <1>4 DEF StageInv

\* The timer.
LEMMA TimerStages == ASSUME StageInv, Timer PROVE StageInv'
<1>1. (armed \/ ringing) /\ UNCHANGED <<main, events, apMode, connected, wifi, late>>
  BY DEF Timer, TimerExpires, ReconnectTimerCb, staticVars, driverVars
<1>2. main # "before"
  BY <1>1 DEF StageInv, Before, NoTimer
<1>3. ASSUME ~ broken' PROVE Stage' /\ LastEvent'
  <2>1. ~ broken
    BY <1>3 DEF Timer, TimerExpires, ReconnectTimerCb
  <2>2. Waiting /\ LastEvent
    BY <1>1, <1>2, <2>1 DEF StageInv, Stage, Starting, Waiting, Trying, Down, Access, Stranded, NoTimer
  <2>3. CASE TimerExpires
    <3>1. Waiting' /\ link' = link
      BY <1>1, <2>2, <2>3 DEF TimerExpires, Waiting, Station, Addresses, driverVars
    <3> QED BY <1>1, <2>2, <3>1 DEF Stage, LastEvent
  <2>4. CASE ReconnectTimerCb
    <3>1. ConnectBegins /\ ~ ringing' /\ armed' = armed /\ ringing
      BY <1>3, <2>4 DEF ReconnectTimerCb
    <3>2. Trying' /\ link = "idle" /\ link' = "trying"
      BY <1>1, <2>2, <3>1 DEF ConnectBegins, Waiting, Trying, Station, NoTimer, Addresses
    <3> QED BY <1>1, <2>2, <3>2 DEF Stage, LastEvent
  <2> QED BY <2>3, <2>4 DEF Timer
<1> QED BY <1>1, <1>2, <1>3 DEF StageInv

\* The driver posts what happens to the link, and an address of a link it has lost.
LEMMA DriverStages == ASSUME StageInv, Driver PROVE StageInv'
<1>1. UNCHANGED <<main, apMode, connected, armed, ringing, wifi, broken>> /\ link # "idle"
  BY DEF Driver, Associate, LoseLink, GetIp, LoseLinkBeforeIp, DriverStep, staticVars, timerVars
<1>2. main # "before"
  BY <1>1 DEF StageInv, Before
<1>3. events \in Seq(DriverEvents)
  BY DEF StageInv
<1> DEFINE Posts == {<< >>, <<"lost">>, <<"got_ip">>, <<"lost", "got_ip">>}
<1>4. Posts \subseteq Seq(DriverEvents)
  BY DEF DriverEvents
<1>5. events' \in Seq(DriverEvents)
  <2>1. \E posts \in Posts : events' = events \o posts
    BY DEF Driver, Associate, LoseLink, GetIp, LoseLinkBeforeIp, DriverStep
  <2> HIDE DEF Posts
  <2> QED BY <1>3, <1>4, <2>1, ConcatProperties
<1>6. ASSUME ~ broken' PROVE Stage' /\ LastEvent'
  <2>1. Trying /\ LastEvent
    BY <1>1, <1>2, <1>6 DEF StageInv, Stage, Starting, Waiting, Down, Access, Stranded
  <2>2. Addresses(events) /\ Station' /\ NoTimer'
    BY <1>1, <2>1 DEF Trying, Station, NoTimer
  <2>3. CASE Associate
    <3>1. link = "trying" /\ link' = "associated" /\ events' = events \o << >> /\ late' = late
      BY <2>3 DEF Associate, DriverStep
    <3>2. events' = events
      BY <1>3, <3>1, ConcatEmptySeq
    <3>3. Trying'
      BY <2>2, <3>1, <3>2 DEF Trying
    <3> QED BY <1>1, <2>1, <3>1, <3>2, <3>3 DEF Stage, LastEvent
  <2>4. CASE LoseLink
    <3>1. link' = "idle" /\ events' = events \o <<"lost">> /\ late' = FALSE
      BY <2>4 DEF LoseLink, DriverStep
    <3>2. events' # << >> /\ events'[Len(events')] = "lost" /\ OneLoss(events')
      BY <1>3, <1>4, <2>2, <3>1, PostFacts
    <3> QED BY <2>2, <3>1, <3>2 DEF Stage, Down, LastEvent
  <2>5. CASE GetIp
    <3>1. link' = "up" /\ events' = events \o <<"got_ip">> /\ late' = FALSE
      BY <2>5 DEF GetIp, DriverStep
    <3>2. events' # << >> /\ events'[Len(events')] = "got_ip" /\ Addresses(events')
      BY <1>3, <1>4, <2>2, <3>1, PostFacts
    <3> QED BY <2>2, <3>1, <3>2 DEF Stage, Trying, LastEvent
  <2>6. CASE LoseLinkBeforeIp
    <3>1. link' = "idle" /\ events' = events \o <<"lost", "got_ip">> /\ late' = TRUE
      BY <2>6 DEF LoseLinkBeforeIp, DriverStep
    <3>2. events' # << >> /\ events'[Len(events')] = "got_ip" /\ OneLoss(events')
      BY <1>3, <1>4, <2>2, <3>1, PostFacts
    <3> QED BY <2>2, <3>1, <3>2 DEF Stage, Down, LastEvent
  <2> QED BY <2>3, <2>4, <2>5, <2>6 DEF Driver
<1> QED BY <1>1, <1>2, <1>5, <1>6 DEF StageInv

\* Nothing happens.
LEMMA StageStutter == ASSUME StageInv, UNCHANGED vars PROVE StageInv'
BY DEF StageInv, Before, Stage, Starting, Waiting, Trying, Down, Access, Stranded, Station, NoTimer,
       Addresses, OneLoss, LastEvent, vars, staticVars, timerVars, driverVars

\* Every step keeps the stages of a connection in order.
LEMMA StageNext == StageInv /\ [Next]_vars => StageInv'
BY StartStages, StaStartStages, StaDisconnectedStages, StaGotIpStages, TimerStages, DriverStages,
   StageStutter DEF Next, EventLoop

\* The stages are in order throughout.
LEMMA AlwaysStaged == Spec => []StageInv
BY StageInit, StageNext, PTL DEF Spec

-----------------------------------------------------------------------------
(* What the bus was told *)

ToldInv == published \in Seq(Messages) /\ MatchesBus

\* A step says nothing and leaves s_connected alone, or says one thing, which is true of it.
Says(e) ==
  /\ Tell(e)
  /\ e = "connected" => connected'
  /\ e = "disconnected" => ~ connected'
  /\ e \in {"starting", "error"} => (connected' <=> connected)
Silent == published' = published /\ (connected' <=> connected)

\* What one more event does to the last word on the link.
LEMMA TellMatches ==
  ASSUME ToldInv, NEW e \in Messages, Says(e)
  PROVE  ToldInv'
<1>1. /\ published' \in Seq(Messages) /\ Len(published) \in Nat
      /\ Len(published') = Len(published) + 1 /\ published'[Len(published) + 1] = e
      /\ \A i \in 1 .. Len(published) : published'[i] = published[i]
      /\ DOMAIN published = 1 .. Len(published) /\ DOMAIN published' = 1 .. Len(published) + 1
  BY DEF ToldInv, Says, Tell
<1>2. CASE e = "connected"
  <2>1. published'[Len(published) + 1] = "connected" /\ connected'
    BY <1>1, <1>2 DEF Says
  <2>2. \A j \in Len(published) + 1 .. Len(published') : published'[j] # "disconnected"
    BY <1>1, <1>2
  <2> QED BY <1>1, <2>1, <2>2 DEF ToldInv, MatchesBus
<1>3. CASE e = "disconnected"
  <2>1. \A i \in DOMAIN published' : Len(published') \in i .. Len(published')
    BY <1>1
  <2>2. published'[Len(published')] = "disconnected" /\ ~ connected'
    BY <1>1, <1>3 DEF Says
  <2> QED BY <1>1, <2>1, <2>2 DEF ToldInv, MatchesBus
<1>4. CASE e \in {"starting", "error"}
  <2>1. \A i \in DOMAIN published :
          (\A j \in i .. Len(published) : published[j] # "disconnected")
            <=> \A j \in i .. Len(published') : published'[j] # "disconnected"
    BY <1>1, <1>4
  <2>2. (\E i \in DOMAIN published : /\ published[i] = "connected"
                                    /\ \A j \in i .. Len(published) : published[j] # "disconnected")
          <=> \E i \in DOMAIN published' : /\ published'[i] = "connected"
                                          /\ \A j \in i .. Len(published') : published'[j] # "disconnected"
    BY <1>1, <1>4, <2>1
  <2> QED BY <1>1, <1>4, <2>2 DEF ToldInv, MatchesBus, Says
<1> QED BY <1>2, <1>3, <1>4 DEF Messages

\* A step that announces nothing keeps what was told true.
LEMMA SilentMatches == ASSUME ToldInv, Silent PROVE ToldInv'
BY DEF ToldInv, MatchesBus, Silent

\* Nothing has been told at the start.
LEMMA ToldInit == Init => ToldInv
<1> SUFFICES ASSUME Init PROVE ToldInv
  OBVIOUS
<1>1. published = << >> /\ connected = FALSE
  BY DEF Init
<1> QED BY <1>1, EmptySeq DEF ToldInv, MatchesBus

\* Every step is silent or announces what it does.
LEMMA SaysTheTruth == Next => Silent \/ \E e \in Messages : Says(e)
<1> SUFFICES ASSUME Next PROVE Silent \/ \E e \in Messages : Says(e)
  OBVIOUS
<1>1. CASE StartWithoutCredentials \/ StartStation \/ StaStart \/ TimerExpires \/ Driver
  BY <1>1 DEF Silent, StartWithoutCredentials, StartStation, StaStart, TimerExpires, Driver, Associate,
              LoseLink, GetIp, LoseLinkBeforeIp, DriverStep, staticVars
<1>2. CASE StartFails
  <2>1. Says("error")
    BY <1>2 DEF StartFails, Says, staticVars
  <2> QED BY <2>1 DEF Messages
<1>3. CASE StartReturns
  <2>1. Says("starting")
    BY <1>3 DEF StartReturns, Says
  <2> QED BY <2>1 DEF Messages
<1>4. CASE StaDisconnected
  <2>1. ~ connected' /\ Tells(IF connected THEN "disconnected" ELSE "nothing")
    BY <1>4 DEF StaDisconnected
  <2>2. ASSUME connected PROVE Says("disconnected")
    BY <2>1, <2>2 DEF Tells, Says
  <2>3. ASSUME ~ connected PROVE Silent
    BY <2>1, <2>3 DEF Tells, Silent
  <2> QED BY <2>2, <2>3 DEF Messages
<1>5. CASE StaGotIp
  <2>1. Says("connected")
    BY <1>5 DEF StaGotIp, Says
  <2> QED BY <2>1 DEF Messages
<1>6. CASE ReconnectTimerCb
  <2>1. connected' = connected
    BY <1>6 DEF ReconnectTimerCb, staticVars
  <2>2. CASE Tell("error")
    <3>1. Says("error")
      BY <2>1, <2>2 DEF Says
    <3> QED BY <3>1 DEF Messages
  <2>3. CASE UNCHANGED published
    BY <2>1, <2>3 DEF Silent
  <2> QED BY <1>6, <2>2, <2>3 DEF ReconnectTimerCb
<1> QED BY <1>1, <1>2, <1>3, <1>4, <1>5, <1>6 DEF Next, Start, EventLoop, Timer

\* Every step keeps what was told true.
LEMMA ToldNext == ToldInv /\ [Next]_vars => ToldInv'
<1>1. UNCHANGED vars => Silent
  BY DEF vars, staticVars, Silent
<1> QED BY <1>1, SaysTheTruth, TellMatches, SilentMatches

\* What was told is true throughout.
LEMMA AlwaysMatches == Spec => []ToldInv
BY ToldInit, ToldNext, PTL DEF Spec

-----------------------------------------------------------------------------
(* What the time service hears *)

Word      == [by : {"svc_network"}, n : Nat, type : Messages]
OnWay     == lane[Box]
Arrived   == got[Box]
OnLink(e) == e.type \in TypesOfInterest

Silence(s) == \A i \in 1 .. Len(s) : ~ OnLink(s[i])

\* The last word on the link in s is what s_connected is.
LastWord(s) ==
  \E i \in 1 .. Len(s) : /\ OnLink(s[i]) /\ (s[i].type = "connected" <=> connected)
                        /\ \A j \in i + 1 .. Len(s) : ~ OnLink(s[j])

\* The last word is on its way, or waits to be taken, or is what the worker believes.
OnItsWay == LastWord(OnWay)
InMailbox == /\ Silence(OnWay) /\ heard < Len(Arrived)
             /\ Arrived[Len(Arrived)].type = "connected" <=> connected
Believed == Silence(OnWay) /\ heard = Len(Arrived) /\ (believes <=> connected)

HearInv ==
  /\ lane \in [{Box} -> Seq(Word)] /\ got \in [{Box} -> Seq(Word)] /\ heard \in 0 .. Len(Arrived)
  /\ ~ lost => OnItsWay \/ InMailbox \/ Believed

\* At the start the worker believes what is so.
LEMMA HearInit == LinkInit => HearInv
<1> SUFFICES ASSUME LinkInit PROVE HearInv
  OBVIOUS
<1>1. /\ lane = [m \in {Box} |-> << >>] /\ got = [m \in {Box} |-> << >>] /\ heard = 0
      /\ believes = FALSE /\ connected = FALSE
  BY DEF LinkInit, Init, Bus!Init
<1>2. OnWay = << >> /\ Arrived = << >>
  BY <1>1 DEF OnWay, Arrived
<1>3. Believed
  BY <1>1, <1>2 DEF Believed, Silence
<1> QED BY <1>1, <1>2, <1>3 DEF HearInv

\* The service says nothing, and the bus and the worker do nothing.
LEMMA SilentHears ==
  ASSUME HearInv, UNCHANGED linkVars, connected' <=> connected
  PROVE  HearInv'
BY DEF HearInv, OnItsWay, InMailbox, Believed, LastWord, Silence, OnLink, OnWay, Arrived, linkVars

\* An event joins the lane: it becomes the last word, or says nothing of the link.
LEMMA AcceptHears ==
  ASSUME HearInv, NEW e \in Word, Says(e.type), lane' = [m \in {Box} |-> Append(lane[m], e)],
         UNCHANGED <<got, heard, believes, lost>>
  PROVE  HearInv'
<1>1. OnWay \in Seq(Word) /\ OnWay' = Append(OnWay, e) /\ Arrived' = Arrived
  BY DEF HearInv, OnWay, Arrived
<1>2. /\ Len(OnWay) \in Nat /\ Len(OnWay') = Len(OnWay) + 1 /\ OnWay'[Len(OnWay) + 1] = e
      /\ \A i \in 1 .. Len(OnWay) : OnWay'[i] = OnWay[i]
  BY <1>1
<1>3. /\ lane' \in [{Box} -> Seq(Word)] /\ got' \in [{Box} -> Seq(Word)] /\ heard' \in 0 .. Len(Arrived')
  BY <1>1 DEF HearInv
<1>4. CASE OnLink(e)
  <2>1. e.type = "connected" <=> connected'
    BY <1>4 DEF OnLink, TypesOfInterest, Says
  <2>2. OnItsWay'
    BY <1>2, <1>4, <2>1 DEF OnItsWay, LastWord, OnLink
  <2> QED BY <1>3, <2>2 DEF HearInv
<1>5. CASE ~ OnLink(e)
  <2>1. connected' <=> connected
    BY <1>5 DEF OnLink, TypesOfInterest, Says, Word, Messages
  <2>2. OnItsWay => OnItsWay'
    <3> SUFFICES ASSUME NEW i \in 1 .. Len(OnWay), OnLink(OnWay[i]), OnWay[i].type = "connected" <=> connected,
                        \A j \in i + 1 .. Len(OnWay) : ~ OnLink(OnWay[j])
                 PROVE  OnItsWay'
      BY DEF OnItsWay, LastWord
    <3>1. i \in 1 .. Len(OnWay') /\ OnWay'[i] = OnWay[i]
      BY <1>2
    <3>2. ASSUME NEW j \in i + 1 .. Len(OnWay') PROVE ~ OnLink(OnWay'[j])
      <4>1. j \in i + 1 .. Len(OnWay) + 1
        BY <1>2
      <4>2. j = Len(OnWay) + 1 \/ (j \in i + 1 .. Len(OnWay) /\ j \in 1 .. Len(OnWay))
        BY <1>2, <4>1
      <4>3. CASE j = Len(OnWay) + 1
        BY <1>2, <1>5, <4>3
      <4>4. CASE j \in i + 1 .. Len(OnWay) /\ j \in 1 .. Len(OnWay)
        <5>1. OnWay'[j] = OnWay[j]
          BY <1>2, <4>4
        <5> QED BY <4>4, <5>1
      <4> QED BY <4>2, <4>3, <4>4
    <3>3. OnLink(OnWay'[i]) /\ (OnWay'[i].type = "connected" <=> connected')
      BY <2>1, <3>1
    <3> QED BY <3>1, <3>2, <3>3 DEF OnItsWay, LastWord, OnLink
  <2>3. Silence(OnWay) => Silence(OnWay')
    BY <1>2, <1>5 DEF Silence
  <2>4. InMailbox => InMailbox'
    BY <1>1, <2>1, <2>3 DEF InMailbox
  <2>5. Believed => Believed'
    BY <1>1, <2>1, <2>3 DEF Believed
  <2> QED BY <1>3, <2>2, <2>4, <2>5 DEF HearInv
<1> QED BY <1>4, <1>5

\* An event that is lost said nothing of the link, or is counted as lost.
LEMMA LoseHears ==
  ASSUME HearInv, NEW k \in DOMAIN lane[Box], BusLoses(k)
  PROVE  HearInv'
<1>1. /\ OnWay \in Seq(Word) /\ OnWay' = Bus!WithoutNth(OnWay, k) /\ UNCHANGED <<got, heard, believes>>
      /\ connected' = connected /\ lost' = (lost \/ OnLink(OnWay[k]))
  BY DEF HearInv, OnWay, OnLink, BusLoses, vars, staticVars
<1>2. k \in 1 .. Len(OnWay) /\ Len(OnWay) \in Nat
  BY <1>1 DEF OnWay
<1>3. /\ OnWay' \in Seq(Word) /\ Len(OnWay') = Len(OnWay) - 1
      /\ \A i \in 1 .. Len(OnWay) - 1 : OnWay'[i] = IF i < k THEN OnWay[i] ELSE OnWay[i + 1]
  BY <1>1, <1>2 DEF Bus!WithoutNth
<1>4. /\ lane' \in [{Box} -> Seq(Word)] /\ got' \in [{Box} -> Seq(Word)] /\ heard' \in 0 .. Len(Arrived')
      /\ Arrived' = Arrived
  BY <1>1, <1>3 DEF HearInv, BusLoses, Arrived, OnWay
<1>5. ASSUME ~ lost' PROVE (OnItsWay \/ InMailbox \/ Believed)'
  <2>1. ~ lost /\ ~ OnLink(OnWay[k])
    BY <1>1, <1>5
  <2>2. OnItsWay => OnItsWay'
    <3> SUFFICES ASSUME NEW i \in 1 .. Len(OnWay), OnLink(OnWay[i]), OnWay[i].type = "connected" <=> connected,
                        \A j \in i + 1 .. Len(OnWay) : ~ OnLink(OnWay[j])
                 PROVE  OnItsWay'
      BY DEF OnItsWay, LastWord
    <3>1. i # k
      BY <2>1
    <3>2. PICK h \in 1 .. Len(OnWay') : /\ OnWay'[h] = OnWay[i]
                                        /\ \A j \in h + 1 .. Len(OnWay') :
                                             \E l \in i + 1 .. Len(OnWay) : OnWay'[j] = OnWay[l]
      <4>1. CASE i < k
        <5>1. i \in 1 .. Len(OnWay') /\ OnWay'[i] = OnWay[i]
          BY <1>2, <1>3, <4>1
        <5>2. \A j \in i + 1 .. Len(OnWay') : OnWay'[j] = OnWay[j] \/ OnWay'[j] = OnWay[j + 1]
          BY <1>2, <1>3, <4>1
        <5>3. \A j \in i + 1 .. Len(OnWay') : j \in i + 1 .. Len(OnWay) /\ j + 1 \in i + 1 .. Len(OnWay)
          BY <1>2, <1>3
        <5> QED BY <5>1, <5>2, <5>3
      <4>2. CASE i > k
        <5>1. i - 1 \in 1 .. Len(OnWay') /\ OnWay'[i - 1] = OnWay[i]
          BY <1>2, <1>3, <4>2
        <5>2. \A j \in i .. Len(OnWay') : OnWay'[j] = OnWay[j + 1] /\ j + 1 \in i + 1 .. Len(OnWay)
          BY <1>2, <1>3, <4>2
        <5>3. \A j \in (i - 1) + 1 .. Len(OnWay') : j \in i .. Len(OnWay')
          BY <1>2, <1>3
        <5> QED BY <5>1, <5>2, <5>3
      <4> QED BY <3>1, <4>1, <4>2, <1>2
    <3>3. \A j \in h + 1 .. Len(OnWay') : ~ OnLink(OnWay'[j])
      BY <3>2
    <3>4. OnLink(OnWay'[h]) /\ (OnWay'[h].type = "connected" <=> connected')
      BY <1>1, <3>2
    <3> QED BY <3>3, <3>4 DEF OnItsWay, LastWord, OnLink
  <2>3. Silence(OnWay) => Silence(OnWay')
    <3> SUFFICES ASSUME Silence(OnWay), NEW i \in 1 .. Len(OnWay') PROVE ~ OnLink(OnWay'[i])
      BY DEF Silence
    <3>1. \E l \in 1 .. Len(OnWay) : OnWay'[i] = OnWay[l]
      BY <1>2, <1>3
    <3> QED BY <3>1 DEF Silence
  <2>4. (InMailbox => InMailbox') /\ (Believed => Believed')
    BY <1>1, <1>4, <2>3 DEF InMailbox, Believed
  <2> QED BY <2>1, <2>2, <2>4 DEF HearInv
<1> QED BY <1>4, <1>5 DEF HearInv

\* Only events on the link are delivered, and in order.
LEMMA DeliverHears == ASSUME HearInv, BusDelivers PROVE HearInv'
<1>1. /\ OnWay \in Seq(Word) /\ OnWay # << >> /\ OnLink(Head(OnWay))
      /\ OnWay' = Tail(OnWay) /\ Arrived \in Seq(Word) /\ Arrived' = Append(Arrived, Head(OnWay))
      /\ connected' = connected /\ UNCHANGED <<heard, believes, lost>>
  BY DEF HearInv, OnWay, Arrived, OnLink, BusDelivers, Bus!Deliver, vars, staticVars
<1>2. /\ Len(OnWay) \in Nat \ {0} /\ Head(OnWay) = OnWay[1] /\ Head(OnWay) \in Word
      /\ OnWay' \in Seq(Word) /\ Len(OnWay') = Len(OnWay) - 1
      /\ \A i \in 1 .. Len(OnWay') : OnWay'[i] = OnWay[i + 1]
  BY <1>1, HeadTailProperties, EmptySeq
<1>3. /\ Arrived' \in Seq(Word) /\ Len(Arrived) \in Nat /\ Len(Arrived') = Len(Arrived) + 1
      /\ Arrived'[Len(Arrived')] = OnWay[1]
  BY <1>1, <1>2
<1>4. /\ lane' \in [{Box} -> Seq(Word)] /\ got' \in [{Box} -> Seq(Word)] /\ heard' \in 0 .. Len(Arrived')
      /\ heard' < Len(Arrived')
  BY <1>1, <1>2, <1>3 DEF HearInv, BusDelivers, Bus!Deliver, Arrived, OnWay
<1>5. ASSUME ~ lost' PROVE (OnItsWay \/ InMailbox)'
  <2>1. ~ Silence(OnWay)
    BY <1>1, <1>2 DEF Silence
  <2>2. OnItsWay
    BY <1>1, <1>5, <2>1 DEF HearInv, InMailbox, Believed
  <2>3. PICK i \in 1 .. Len(OnWay) : /\ OnLink(OnWay[i]) /\ (OnWay[i].type = "connected" <=> connected)
                                     /\ \A j \in i + 1 .. Len(OnWay) : ~ OnLink(OnWay[j])
    BY <2>2 DEF OnItsWay, LastWord
  <2>4. CASE i = 1
    <3>1. Silence(OnWay')
      BY <1>2, <2>3, <2>4 DEF Silence
    <3> QED BY <1>1, <1>3, <1>4, <2>3, <2>4, <3>1 DEF InMailbox
  <2>5. CASE i # 1
    <3>1. i - 1 \in 1 .. Len(OnWay') /\ OnWay'[i - 1] = OnWay[i]
      BY <1>2, <2>5
    <3>2. \A j \in (i - 1) + 1 .. Len(OnWay') : OnWay'[j] = OnWay[j + 1] /\ j + 1 \in i + 1 .. Len(OnWay)
      BY <1>2
    <3>3. \A j \in (i - 1) + 1 .. Len(OnWay') : ~ OnLink(OnWay'[j])
      BY <2>3, <3>2
    <3>4. OnLink(OnWay'[i - 1]) /\ (OnWay'[i - 1].type = "connected" <=> connected')
      BY <1>1, <2>3, <3>1
    <3>5. OnItsWay'
      BY <3>1, <3>3, <3>4 DEF OnItsWay, LastWord, OnLink
    <3> QED BY <3>5
  <2> QED BY <2>4, <2>5
<1> QED BY <1>4, <1>5 DEF HearInv

\* The worker takes an event: the last one it takes is the last word.
LEMMA WorkerHearsIt == ASSUME HearInv, WorkerHears PROVE HearInv'
<1>1. /\ OnWay' = OnWay /\ Arrived' = Arrived /\ lost' = lost /\ connected' = connected
      /\ lane' = lane /\ got' = got
      /\ heard < Len(Arrived) /\ heard' = heard + 1
      /\ believes' <=> Arrived[heard + 1].type = "connected"
  BY DEF WorkerHears, OnWay, Arrived, vars, staticVars
<1>2. Len(Arrived) \in Nat /\ heard \in 0 .. Len(Arrived)
  BY DEF HearInv, Arrived
<1>3. OnItsWay => OnItsWay'
  BY <1>1 DEF OnItsWay, LastWord, OnLink
<1>4. InMailbox => InMailbox' \/ Believed'
  <2>1. CASE heard + 1 = Len(Arrived)
    BY <1>1, <2>1 DEF InMailbox, Believed, Silence, OnLink
  <2>2. CASE heard + 1 # Len(Arrived)
    <3>1. heard' < Len(Arrived')
      BY <1>1, <1>2, <2>2
    <3> QED BY <1>1, <3>1 DEF InMailbox, Silence, OnLink
  <2> QED BY <2>1, <2>2
<1>5. ~ Believed
  BY <1>1, <1>2 DEF Believed
<1>6. heard' \in 0 .. Len(Arrived')
  BY <1>1, <1>2
<1> QED BY <1>1, <1>3, <1>4, <1>5, <1>6 DEF HearInv

\* Every step keeps the news on its way to the worker, in its mailbox or believed, unless some was
\* lost.
LEMMA HearNext == ToldInv /\ HearInv /\ [LinkNext]_allVars => HearInv'
<1> SUFFICES ASSUME ToldInv, HearInv, [LinkNext]_allVars PROVE HearInv'
  OBVIOUS
<1>1. CASE NetworkStep
  <2>1. CASE Silent
    <3>1. UNCHANGED linkVars /\ (connected' <=> connected)
      BY <1>1, <2>1 DEF NetworkStep, Silent, linkVars
    <3> QED BY <3>1, SilentHears
  <2>2. CASE \E type \in Messages : Says(type)
    <3>1. PICK type \in Messages : Says(type)
      BY <2>2
    <3>2. /\ Len(published) + 1 \in Nat /\ published' # published
          /\ published'[Len(published) + 1] = type
      BY <3>1 DEF ToldInv, Says, Tell
    <3> DEFINE e == [by |-> "svc_network", n |-> Len(published) + 1, type |-> type]
    <3>3. Bus!Accept(e) /\ UNCHANGED <<heard, believes, lost>>
      BY <1>1, <3>2 DEF NetworkStep
    <3>4. e \in Word /\ e.type = type
      BY <3>2 DEF Word
    <3>5. lane' = [m \in {Box} |-> Append(lane[m], e)] /\ got' = got
      BY <3>3 DEF Bus!Accept
    <3> HIDE DEF e
    <3> QED BY <3>1, <3>3, <3>4, <3>5, AcceptHears
  <2> QED BY <1>1, <2>1, <2>2, SaysTheTruth DEF NetworkStep
<1>2. CASE \E k \in DOMAIN lane[Box] : BusLoses(k)
  BY <1>2, LoseHears
<1>3. CASE BusDelivers
  BY <1>3, DeliverHears
<1>4. CASE WorkerHears
  BY <1>4, WorkerHearsIt
<1>5. CASE UNCHANGED allVars
  <2>1. UNCHANGED linkVars /\ (connected' <=> connected)
    BY <1>5 DEF allVars, vars, staticVars
  <2> QED BY <2>1, SilentHears
<1> QED BY <1>1, <1>2, <1>3, <1>4, <1>5 DEF LinkNext

\* The composition runs the network service as it is.
LEMMA LinkRunsNetwork == LinkSpec => Spec
<1>1. LinkInit => Init
  BY DEF LinkInit
<1>2. [LinkNext]_allVars => [Next]_vars
  BY DEF LinkNext, NetworkStep, BusLoses, BusDelivers, WorkerHears, allVars
<1> QED BY <1>1, <1>2, PTL DEF LinkSpec, Spec

-----------------------------------------------------------------------------
(* Results *)

\* The station never ends up with no link, no access point and nothing that will bring either about,
\* but after a call that failed unnoticed or a late address; s_connected being set is no excuse
\* (svc_network.c:196-302).
THEOREM StationNeverStranded == Spec => []NeverStranded
<1>1. StageInv => NeverStranded
  <2> SUFFICES ASSUME StageInv, main = "after", ~ broken
               PROVE  apMode \/ armed \/ ringing \/ link # "idle" \/ events # << >> \/ late
    BY DEF NeverStranded
  <2>1. Stage
    BY DEF StageInv
  <2>2. Starting => events # << >>
    BY DEF Starting
  <2>3. Waiting => armed \/ ringing
    BY DEF Waiting
  <2>4. Trying => link # "idle"
    BY DEF Trying
  <2>5. Down => events # << >>
    BY EmptySeq DEF Down, OneLoss
  <2>6. (Access => apMode) /\ (Stranded => late)
    BY DEF Access, Stranded
  <2> QED BY <2>1, <2>2, <2>3, <2>4, <2>5, <2>6 DEF Stage
<1> QED BY <1>1, AlwaysStaged, PTL

\* What svc_network_is_connected() answers is what the bus was last told, and, once the event loop
\* has caught up, what the driver says, but for a late address, which leaves s_connected set
\* (svc_network.c:243-302, 308-348).
THEOREM LinkStateIsTrue == Spec => []LinkIsTrue
<1>1. StageInv => MatchesDriver
  <2> SUFFICES ASSUME StageInv, events = << >>, ~ broken
               PROVE  /\ connected <=> link = "up" \/ late
                      /\ late => link # "up"
                      /\ apMode => wifi = "ap" /\ ~ armed /\ ~ ringing
    BY DEF MatchesDriver
  <2>1. CASE main = "before"
    BY <2>1 DEF StageInv, Before
  <2>2. CASE main # "before"
    <3>1. Stage /\ LastEvent
      BY <2>2 DEF StageInv
    <3>2. apMode => wifi = "ap" /\ ~ armed /\ ~ ringing
      BY <3>1 DEF Stage, Starting, Waiting, Trying, Down, Access, Stranded, Station, NoTimer
    <3> QED BY <3>1, <3>2 DEF LastEvent
  <2> QED BY <2>1, <2>2
<1>2. ToldInv => MatchesBus
  BY DEF ToldInv
<1> QED BY <1>1, <1>2, AlwaysStaged, AlwaysMatches, PTL DEF LinkIsTrue

\* The time service knows the link, in whatever order flapping links, retries, late handlers and
\* the bus bring it about, unless an event is lost or a call failed unnoticed; a late address makes
\* it believe in a link that is gone (svc_network.c:243-302, svc_time.c:835-858).
THEOREM TimeServiceKnowsLink == LinkSpec => []TimeKnowsLink
<1>1. StageInv /\ HearInv => TimeKnowsLink
  <2> SUFFICES ASSUME StageInv, HearInv, \A i \in DOMAIN lane[Box] : lane[Box][i].type \notin TypesOfInterest,
                      heard = Len(got[Box]), events = << >>, ~ lost, ~ broken
               PROVE  believes <=> link = "up" \/ late
    BY DEF TimeKnowsLink
  <2>1. Silence(OnWay) /\ heard = Len(Arrived)
    BY DEF HearInv, Silence, OnLink, OnWay, Arrived
  <2>2. ~ OnItsWay /\ ~ InMailbox
    BY <2>1 DEF OnItsWay, InMailbox, LastWord, Silence
  <2>3. believes <=> connected
    BY <2>2 DEF HearInv, Believed
  <2>4. connected <=> link = "up" \/ late
    BY DEF StageInv, Before, LastEvent
  <2> QED BY <2>3, <2>4
<1>2. LinkSpec => [][LinkNext]_allVars
  BY DEF LinkSpec
<1>3. LinkSpec => [](ToldInv /\ StageInv)
  BY LinkRunsNetwork, AlwaysStaged, AlwaysMatches, PTL
<1>4. LinkSpec => []HearInv
  <2>1. LinkSpec => HearInv
    BY HearInit DEF LinkSpec
  <2> QED BY <2>1, <1>2, <1>3, HearNext, PTL
<1> QED BY <1>1, <1>3, <1>4, PTL
=============================================================================
