--------------------------- MODULE NetworkService ---------------------------
(***************************************************************************)
(* The Wi-Fi service, svc_network.c: a station that retries with a growing *)
(* delay and gives up for the access point.                                *)
(*                                                                         *)
(* Three tasks touch its statics without a lock: app_main, once, in        *)
(* svc_network_start(); the event loop, which runs the two handlers one    *)
(* after the other; and the esp_timer task with reconnect_timer_cb(). The  *)
(* driver posts its events into the queue of the event loop and goes on,   *)
(* so a handler may run when the link is no longer what the event says.    *)
(* svc_network_stop() has no caller and is left out.                       *)
(***************************************************************************)
EXTENDS Naturals, Sequences

CONSTANTS
  MaxRetries,   \* AP_MAX_RETRIES
  BackoffMin,   \* SVC_NETWORK_BACKOFF_MIN_MS
  BackoffMax,   \* SVC_NETWORK_BACKOFF_MAX_MS
  MaxUps,       \* bound: IP addresses the driver reports
  Faults        \* what may go wrong, of "init", "connect", "timer", "ap", "late_ip"

ASSUME ConstantsOK ==
  /\ MaxRetries \in Nat \ {0} /\ BackoffMin \in Nat \ {0} /\ BackoffMax \in Nat
  /\ BackoffMin <= BackoffMax /\ MaxUps \in Nat
  /\ Faults \subseteq {"init", "connect", "timer", "ap", "late_ip"}

VARIABLES
  creds,      \* NVS holds an SSID
  main,       \* app_main: "before", "inside", "after" svc_network_start()
  started, connected, apMode, retry, backoff,   \* statics of svc_network.c
  armed,      \* s_reconnect_timer is running
  ringing,    \* the esp_timer task has taken the timer off its list and is about to call back
  wifi,       \* the driver: "off", "sta", "ap"
  link,       \* the station's link: "idle", "trying", "associated", "up"
  events,     \* posted to the event loop and not handled
  published,  \* history: what the service told the event bus
  ups,        \* history: addresses reported so far
  late,       \* history: the driver last reported an address of a link it had already lost
  broken      \* history: a call failed that nothing in the code follows up

staticVars == <<started, connected, apMode, retry, backoff>>
timerVars  == <<armed, ringing>>
driverVars == <<wifi, link, events, ups, late>>
vars == <<creds, main, staticVars, timerVars, driverVars, published, broken>>

TypeOK ==
  /\ creds \in BOOLEAN /\ main \in {"before", "inside", "after"}
  /\ {started, connected, apMode, armed, ringing, late, broken} \subseteq BOOLEAN
  /\ retry \in 0 .. MaxRetries /\ backoff \in BackoffMin .. BackoffMax
  /\ wifi \in {"off", "sta", "ap"} /\ link \in {"idle", "trying", "associated", "up"}
  /\ events \in Seq({"start", "lost", "got_ip"}) /\ ups \in 0 .. MaxUps
  /\ published \in Seq({"starting", "connected", "disconnected", "error"})
  /\ link # "idle" => wifi = "sta"

Init ==
  /\ creds \in BOOLEAN /\ main = "before"
  /\ started = FALSE /\ connected = FALSE /\ apMode = FALSE
  /\ retry = 0 /\ backoff = BackoffMin
  /\ armed = FALSE /\ ringing = FALSE
  /\ wifi = "off" /\ link = "idle" /\ events = << >> /\ ups = 0 /\ late = FALSE
  /\ published = << >> /\ broken = FALSE

Tell(type) == published' = Append(published, type)
Tells(type) == IF type = "nothing" THEN UNCHANGED published ELSE Tell(type)

-----------------------------------------------------------------------------
(* Pieces shared by the handlers *)

\* esp_wifi_connect(): an attempt begins, or an error is returned and no event will follow.
ConnectBegins == wifi = "sta" /\ link = "idle" /\ link' = "trying"
ConnectFails  == (wifi # "sta" \/ link # "idle" \/ "connect" \in Faults) /\ UNCHANGED link

\* start_ap_mode(): the station is stopped first, whether or not the access point comes up. Both
\* callers come with s_connected false.
StartApMode ==
  \/ apMode /\ UNCHANGED <<started, apMode, wifi, link, broken>>
  \/ /\ ~ apMode /\ wifi' = "ap" /\ link' = "idle" /\ apMode' = TRUE /\ started' = TRUE
     /\ UNCHANGED broken
  \/ /\ ~ apMode /\ "ap" \in Faults /\ wifi' = "off" /\ link' = "idle" /\ broken' = TRUE
     /\ UNCHANGED <<started, apMode>>

Doubled == IF 2 * backoff > BackoffMax THEN BackoffMax ELSE 2 * backoff

\* schedule_reconnect(): the delay doubles only once the timer runs.
ScheduleReconnect ==
  \/ armed' = TRUE /\ backoff' = Doubled /\ UNCHANGED broken
  \/ "timer" \in Faults /\ armed' = FALSE /\ broken' = TRUE /\ UNCHANGED backoff

-----------------------------------------------------------------------------
(* svc_network_start() *)

\* Without credentials there is no station, no handler and no timer.
StartWithoutCredentials ==
  /\ main = "before" /\ ~ creds /\ main' = "after"
  /\ \/ /\ ~ apMode /\ wifi' = "ap" /\ apMode' = TRUE /\ started' = TRUE
        /\ UNCHANGED broken
     \/ /\ "init" \in Faults /\ broken' = TRUE /\ UNCHANGED <<wifi, apMode, started>>
     \/ /\ "ap" \in Faults /\ broken' = TRUE /\ started' = TRUE /\ UNCHANGED <<wifi, apMode>>
  /\ UNCHANGED <<creds, connected, retry, backoff, timerVars, link, events, ups, late, published>>

\* One of the steps up to esp_wifi_start() fails: an error event, and no access point either.
StartFails ==
  /\ main = "before" /\ creds /\ "init" \in Faults
  /\ main' = "after" /\ broken' = TRUE /\ Tell("error")
  /\ UNCHANGED <<creds, staticVars, timerVars, driverVars>>

StartStation ==
  /\ main = "before" /\ creds
  /\ main' = "inside" /\ wifi' = "sta" /\ events' = Append(events, "start")
  /\ UNCHANGED <<creds, staticVars, timerVars, link, ups, late, published, broken>>

StartReturns ==
  /\ main = "inside"
  /\ main' = "after" /\ started' = TRUE /\ Tell("starting")
  /\ UNCHANGED <<creds, connected, apMode, retry, backoff, timerVars, driverVars, broken>>

-----------------------------------------------------------------------------
(* The event loop *)

Handles(e) == events # << >> /\ Head(events) = e /\ events' = Tail(events)

\* WIFI_EVENT_STA_START: the result of esp_wifi_connect() is not looked at.
StaStart ==
  /\ Handles("start")
  /\ \/ ConnectBegins /\ UNCHANGED broken
     \/ ConnectFails /\ broken' = TRUE
  /\ UNCHANGED <<creds, main, staticVars, timerVars, wifi, ups, late, published>>

\* Mutants of StaDisconnected: a lost link stays marked as up, only a link that was up is tried
\* again, or failures are not counted.
StaDisconnectedAs(clears, retries, counts) ==
  /\ Handles("lost")
  /\ Tells(IF connected THEN "disconnected" ELSE "nothing")
  /\ retry' = (IF counts THEN retry + 1 ELSE retry)
  /\ connected' = (connected /\ ~ clears)
  /\ \/ /\ retry' >= MaxRetries /\ StartApMode /\ UNCHANGED <<armed, backoff>>
     \/ /\ retry' < MaxRetries /\ UNCHANGED <<started, apMode, wifi, link>>
        /\ IF retries \/ connected THEN ScheduleReconnect ELSE UNCHANGED <<armed, backoff, broken>>
  /\ UNCHANGED <<creds, main, ringing, ups, late>>

StaDisconnectedStale == StaDisconnectedAs(FALSE, TRUE, TRUE)
StaDisconnectedOnce == StaDisconnectedAs(TRUE, FALSE, TRUE)
StaDisconnectedUncounted == StaDisconnectedAs(TRUE, TRUE, FALSE)

\* WIFI_EVENT_STA_DISCONNECTED, for a link that was lost and for an attempt that failed.
StaDisconnected ==
  /\ Handles("lost")
  /\ Tells(IF connected THEN "disconnected" ELSE "nothing")
  /\ connected' = FALSE /\ retry' = retry + 1
  /\ \/ /\ retry + 1 >= MaxRetries /\ StartApMode /\ UNCHANGED <<armed, backoff>>
     \/ /\ retry + 1 < MaxRetries /\ ScheduleReconnect /\ UNCHANGED <<started, apMode, wifi, link>>
  /\ UNCHANGED <<creds, main, ringing, ups, late>>

\* IP_EVENT_STA_GOT_IP: whether the link is still there is not looked at, and esp_timer_stop() cannot
\* call back a timer that is ringing.
StaGotIp ==
  /\ Handles("got_ip")
  /\ connected' = TRUE /\ retry' = 0 /\ backoff' = BackoffMin /\ armed' = FALSE
  /\ Tell("connected")
  /\ UNCHANGED <<creds, main, started, apMode, ringing, wifi, link, ups, late, broken>>

EventLoop == StaStart \/ StaDisconnected \/ StaGotIp

-----------------------------------------------------------------------------
(* The esp_timer task *)

TimerExpires ==
  /\ armed /\ ~ ringing /\ armed' = FALSE /\ ringing' = TRUE
  /\ UNCHANGED <<creds, main, staticVars, driverVars, published, broken>>

\* reconnect_timer_cb(): a refused attempt is reported and not scheduled again.
ReconnectTimerCb ==
  /\ ringing /\ ringing' = FALSE
  /\ \/ ConnectBegins /\ UNCHANGED <<published, broken>>
     \/ ConnectFails /\ Tell("error") /\ broken' = TRUE
  /\ UNCHANGED <<creds, main, staticVars, armed, wifi, events, ups, late>>

-----------------------------------------------------------------------------
(* The Wi-Fi driver and the world behind it *)

DriverStep(from, to, posts) ==
  /\ link \in from /\ link' = to /\ events' = events \o posts
  /\ UNCHANGED <<creds, main, staticVars, timerVars, wifi, published, broken>>

Associate == DriverStep({"trying"}, "associated", << >>) /\ UNCHANGED <<ups, late>>

LoseLink ==
  DriverStep({"trying", "associated", "up"}, "idle", <<"lost">>) /\ late' = FALSE /\ UNCHANGED ups

\* The first address, or another one later on.
GetIp ==
  /\ ups < MaxUps /\ ups' = ups + 1 /\ late' = FALSE
  /\ DriverStep({"associated", "up"}, "up", <<"got_ip">>)

\* The address is still on its way through the IP stack when the link goes.
LoseLinkBeforeIp ==
  /\ "late_ip" \in Faults /\ ups < MaxUps /\ ups' = ups + 1 /\ late' = TRUE
  /\ DriverStep({"associated"}, "idle", <<"lost", "got_ip">>)

Driver == Associate \/ LoseLink \/ GetIp \/ LoseLinkBeforeIp

-----------------------------------------------------------------------------
Start == StartWithoutCredentials \/ StartFails \/ StartStation \/ StartReturns
Timer == TimerExpires \/ ReconnectTimerCb
Next  == Start \/ EventLoop \/ Timer \/ Driver
Spec  == Init /\ [][Next]_vars

\* The tasks run, the timer goes off, and every attempt to connect ends one way or the other. An
\* access point that never hands out an address keeps the station waiting.
Fairness == /\ WF_vars(Start) /\ WF_vars(EventLoop) /\ WF_vars(Timer)
            /\ WF_vars(link = "trying" /\ Driver)

-----------------------------------------------------------------------------
(* Properties *)

\* The station never ends up with a dead link, no access point and nothing that will bring either
\* about, unless a call it does not follow up failed, or the driver last reported an address of a
\* link that was gone: s_connected being set is no excuse. That is through flapping links, a timer
\* that rings while an address arrives, and driver events handled late (svc_network.c:196-302). The
\* late address is left out because the handler stops the timer that the loss had started.
NeverStranded ==
  main = "after" =>
    apMode \/ armed \/ ringing \/ link # "idle" \/ events # << >> \/ late \/ broken

\* Once the event loop has caught up, s_connected is what the driver says, but for an address it
\* reported after the loss of its link, which leaves s_connected set until the driver reports
\* something else; an access point excludes a station and a timer, whatever came late; and at any
\* time what the bus was last told is what svc_network_is_connected() answers
\* (svc_network.c:243-302, 308-348).
MatchesDriver ==
  events = << >> /\ ~ broken =>
    /\ connected <=> link = "up" \/ late
    /\ late => link # "up"
    /\ apMode => wifi = "ap" /\ ~ armed /\ ~ ringing
MatchesBus ==
  connected <=> \E i \in DOMAIN published :
                  /\ published[i] = "connected"
                  /\ \A j \in i .. Len(published) : published[j] # "disconnected"
LinkIsTrue == MatchesDriver /\ MatchesBus

\* A station with credentials gets somewhere: it is connected, waits for an address, or gives up
\* for the access point, however its attempts fail.
GetsSomewhere ==
  main = "inside" ~> connected \/ apMode \/ link = "associated" \/ broken
=============================================================================
