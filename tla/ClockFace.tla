----------------------------- MODULE ClockFace ------------------------------
(***************************************************************************)
(* The clock face: ui_producer.c polls the services and sends a frame when *)
(* the text has changed, display_manager.c queues frames, and core1_task   *)
(* draws them on a panel that keeps what nobody paints over.               *)
(*                                                                         *)
(* The producer decides what to draw from what it believes to be on the    *)
(* panel, s_last_text, and never looks. A frame is the commands it holds;  *)
(* what it is meant to show goes with it as a history. Ink is a rectangle  *)
(* of the panel with the text it belongs to: of the fonts only the extent  *)
(* of a text is kept.                                                      *)
(***************************************************************************)
EXTENDS Integers, Sequences, SequencesExt

CONSTANTS
  Width, Height,   \* of the panel
  QueueDepth,      \* DM_FRAME_QUEUE_DEPTH
  MaxClock,        \* bound: minutes that pass
  MaxFlips,        \* bound: times svc_prayer_engine_service_is_regenerating() changes
  Faults           \* what may be missing from the start, of "queue", "core1"

ASSUME FaceConstantsOK ==
  /\ Width \in Nat \ {0} /\ Height \in Nat \ {0} /\ QueueDepth \in Nat \ {0}
  /\ MaxClock \in Nat /\ MaxFlips \in Nat /\ Faults \subseteq {"queue", "core1"}

VARIABLES
  apMode, snap, clock, regen, late,   \* what the services and the tick count answer
  flips,          \* history: changes of regen so far
  pc,             \* the producer: "before", "splash", "sleep", "submit"
  firstFrame,     \* first_frame
  key,            \* s_last_text
  frame,          \* the frame on the producer's stack
  dmReady,        \* s_initialized
  core1,          \* core1_task exists
  queue,          \* s_frame_queue
  panel,          \* the ink on the panel, which is black elsewhere
  shown           \* history: what the last frame drawn was meant to show

worldVars == <<apMode, snap, clock, regen, late, flips>>
uiVars    == <<pc, firstFrame, key, frame>>
dmVars    == <<dmReady, core1>>
drawVars  == <<queue, panel, shown>>
vars == <<worldVars, uiVars, dmVars, drawVars>>

-----------------------------------------------------------------------------
(* What can be shown *)

Nothing == [page |-> "nothing"]
Splash  == [page |-> "splash"]
Setup   == [page |-> "setup"]

\* A clock face, as draw_key has it: "--:--" or the time, the marks behind it, and the banner.
ClockFaces == [page : {"clock"}, time : {-1} \cup 0 .. MaxClock, nosync : BOOLEAN,
               upd : BOOLEAN, banner : BOOLEAN]
Pages == {Nothing, Splash, Setup} \cup ClockFaces

\* draw_key for what the services answer. The banner waits for a minute of a normal start.
FaceNow ==
  [page |-> "clock",
   time |-> IF snap = "untrusted" THEN -1 ELSE clock,
   nosync |-> snap = "rtc", upd |-> regen,
   banner |-> snap = "untrusted" /\ late]

\* What the producer would draw next, Nothing while there is no valid time.
Wanted == IF apMode THEN Setup ELSE IF snap = "none" THEN Nothing ELSE FaceNow

\* strlen(buf): every other minute of the model has two digits for the hour.
TextLength(f) ==
  (IF f.time = -1 THEN 5 ELSE IF f.time % 2 = 1 THEN 7 ELSE 6)
    + (IF f.nosync THEN 9 ELSE 0) + (IF f.upd THEN 5 ELSE 0)

-----------------------------------------------------------------------------
(* Frames *)

Lesser(a, b)  == IF a < b THEN a ELSE b
Greater(a, b) == IF a < b THEN b ELSE a

\* Division as C does it.
Quotient(a, b) == IF a >= 0 THEN a \div b ELSE -((-a) \div b)

Clear == [op |-> "clear"]
Ink(of, x1, y1, x2, y2) == [op |-> "ink", of |-> of, x1 |-> x1, y1 |-> y1, x2 |-> x2, y2 |-> y2]

\* 5/16 of the height or a third of 80% of the width, whichever is less.
TargetH == Lesser((Height * 5) \div 16, ((Width * 8) \div 10) \div 3)

ClockTextAt(f, raise) ==
  LET x0 == Quotient(Width - TextLength(f) * ((TargetH * 2) \div 3), 2)
      y0 == (Height - TargetH) \div 2 - (IF f.banner THEN raise ELSE 0)
  IN  Ink(f, Greater(x0, 0), y0, Width - 1, y0 + TargetH - 1)

\* Mutant of ClockText: a text raised by its whole height.
ClockTextHigher(f) == ClockTextAt(f, TargetH)

\* The text is placed by an estimate of its width, and clipped to the panel: the ink is what falls
\* on it. The glyphs of the font that is built in are as wide as they are high, so every face is cut
\* at the right edge, and one of six letters or more begins left of the panel and is cut there too.
ClockText(f) == ClockTextAt(f, TargetH \div 3)

Banner(f) == Ink(f, 0, Height - 70, Width - 1, Height - 11)

ClockCmds(f, first) ==
  (IF first THEN <<Clear>> ELSE << >>) \o <<ClockText(f)>> \o (IF f.banner THEN <<Banner(f)>> ELSE << >>)

SplashCmds == <<Clear, Ink(Splash, 80, 200, 259, 223)>>
SetupCmds  == <<Clear, Ink(Setup, 10, 40, Width - 1, 213)>>

Frame(of, cmds) == [of |-> of, cmds |-> cmds]
NoFrame == Frame(Nothing, << >>)

\* On this panel a face of five letters begins within half a glyph of the left edge, no rounding
\* makes a raise a whole third of a text's height, the banner begins below the text, and the splash
\* lies where the text of a face will.
ASSUME FaceFits ==
  /\ 2 * Quotient(Width - 5 * ((TargetH * 2) \div 3), 2) < TargetH
  /\ TargetH % 3 # 0
  /\ (Height - TargetH) \div 2 + TargetH <= Height - 70
  /\ (Height - TargetH) \div 2 <= 200 /\ 224 <= (Height - TargetH) \div 2 - TargetH \div 3 + TargetH
  /\ 260 <= Width

-----------------------------------------------------------------------------

\* core_os_init() and core_os_start() have run; the time service and Wi-Fi start later.
Init ==
  /\ apMode = FALSE /\ snap = "none" /\ clock = 0 /\ regen = FALSE /\ late = FALSE /\ flips = 0
  /\ pc = "before" /\ firstFrame = TRUE /\ key = Nothing /\ frame = NoFrame
  /\ dmReady \in {TRUE} \cup (IF "queue" \in Faults THEN {FALSE} ELSE {})
  /\ core1 \in {TRUE} \cup (IF "core1" \in Faults THEN {FALSE} ELSE {})
  /\ queue = << >> /\ panel = {} /\ shown = Nothing

-----------------------------------------------------------------------------
(* The services, as the producer sees them *)

\* Wi-Fi gives up for the access point, and stays there until the next boot.
GoesAp == ~ apMode /\ apMode' = TRUE /\ UNCHANGED <<snap, clock, regen, late, flips>>

\* The RTC is read once, a sync may come at any time, and both are for good.
TimeSet ==
  /\ \/ snap = "none" /\ snap' \in {"untrusted", "rtc"}
     \/ snap # "ntp" /\ snap' = "ntp"
  /\ UNCHANGED <<apMode, clock, regen, late, flips>>

ClockTicks == clock < MaxClock /\ clock' = clock + 1 /\ UNCHANGED <<apMode, snap, regen, late, flips>>

RegenFlips == /\ flips < MaxFlips /\ flips' = flips + 1 /\ regen' = ~ regen
              /\ UNCHANGED <<apMode, snap, clock, late>>

MinutePasses == pc # "before" /\ ~ late /\ late' = TRUE
                /\ UNCHANGED <<apMode, snap, clock, regen, flips>>

World == /\ GoesAp \/ TimeSet \/ ClockTicks \/ RegenFlips \/ MinutePasses
         /\ UNCHANGED <<uiVars, dmVars, drawVars>>

-----------------------------------------------------------------------------
(* ui_producer_task() *)

Builds(f) == frame' = f /\ pc' = "submit"

\* ui_producer_start(): the font is registered and the splash frame built.
UiStart ==
  /\ pc = "before" /\ pc' = "splash" /\ frame' = Frame(Splash, SplashCmds)
  /\ UNCHANGED <<worldVars, firstFrame, key, dmVars, drawVars>>

\* A poll in access point mode.
PollSetup ==
  /\ pc = "sleep" /\ apMode /\ key # Setup
  /\ Builds(Frame(Setup, SetupCmds))
  /\ UNCHANGED <<worldVars, firstFrame, key, dmVars, drawVars>>

\* A poll that draws the time. first_frame goes when the frame is built, not when it is accepted.
\* The branch for a device that has left the access point mode is never taken, as none does.
PollClock ==
  /\ pc = "sleep" /\ ~ apMode /\ snap # "none" /\ FaceNow # key
  /\ Builds(Frame(FaceNow, ClockCmds(FaceNow, firstFrame)))
  /\ firstFrame' = FALSE
  /\ UNCHANGED <<worldVars, key, dmVars, drawVars>>

\* Mutant of SubmitRefused: what was not drawn is taken for drawn.
SubmitRefusedForgotten ==
  /\ pc \in {"splash", "submit"} /\ (~ dmReady \/ Len(queue) = QueueDepth)
  /\ pc' = "sleep" /\ frame' = NoFrame /\ key' = (IF pc = "splash" THEN key ELSE frame.of)
  /\ UNCHANGED <<worldVars, firstFrame, dmVars, drawVars>>

\* display_manager_submit_frame(): no queue, or no room in it for five milliseconds. The splash is
\* given up, any other frame is built again at the next poll.
SubmitRefused ==
  /\ pc \in {"splash", "submit"} /\ (~ dmReady \/ Len(queue) = QueueDepth)
  /\ pc' = "sleep" /\ frame' = NoFrame
  /\ UNCHANGED <<worldVars, firstFrame, key, dmVars, drawVars>>

SubmitTaken ==
  /\ pc \in {"splash", "submit"} /\ dmReady /\ Len(queue) < QueueDepth
  /\ queue' = Append(queue, frame) /\ frame' = NoFrame
  /\ pc' = "sleep" /\ key' = (IF pc = "splash" THEN key ELSE frame.of)
  /\ UNCHANGED <<worldVars, firstFrame, dmVars, panel, shown>>

Submit == SubmitTaken \/ SubmitRefused
Ui     == UiStart \/ PollSetup \/ PollClock \/ Submit

-----------------------------------------------------------------------------
(* core1_task() *)

Covers(r, s) == r.x1 <= s.x1 /\ s.x2 <= r.x2 /\ r.y1 <= s.y1 /\ s.y2 <= r.y2

\* dm_execute_cmd(): a clear blackens the panel, a text or a filled rectangle hides what lies
\* wholly under it.
Hides(cmd, r) == cmd.op = "clear" \/ Covers(cmd, r)

\* What the commands of a frame, one after another, leave of the ink and of their own.
Executed(ink, cmds) ==
  LET Stays(r, from) == \A i \in from .. Len(cmds) : ~ Hides(cmds[i], r)
      Drawn == {i \in DOMAIN cmds : cmds[i].op = "ink" /\ Stays(cmds[i], i + 1)}
  IN  {r \in ink : Stays(r, 1)} \cup {cmds[i] : i \in Drawn}

\* Mutant of ProcessFrame: the newest frame is drawn first.
ProcessFrameNewest ==
  /\ dmReady /\ core1 /\ queue # << >>
  /\ queue' = Front(queue) /\ panel' = Executed(panel, Last(queue).cmds)
  /\ shown' = Last(queue).of
  /\ UNCHANGED <<worldVars, uiVars, dmVars>>

\* display_manager_process_frame(): one frame, every 16 ms.
ProcessFrame ==
  /\ dmReady /\ core1 /\ queue # << >>
  /\ queue' = Tail(queue) /\ panel' = Executed(panel, Head(queue).cmds)
  /\ shown' = Head(queue).of
  /\ UNCHANGED <<worldVars, uiVars, dmVars>>

-----------------------------------------------------------------------------
Next == World \/ Ui \/ ProcessFrame
Spec == Init /\ [][Next]_vars
FairSpec == Spec /\ WF_vars(Ui) /\ WF_vars(ProcessFrame)

-----------------------------------------------------------------------------
(* Properties *)

\* What the producer believes to be on the panel is there or is the newest frame on its way: it
\* never takes a frame that was refused for drawn, so no change is lost to a full queue
\* (ui_producer.c:215-221, display_manager.c:225-249).
Newest == IF queue = << >> THEN shown ELSE Last(queue).of
BelievedIsComing == key # Nothing => Newest = key

\* Two faces are never seen at once, although no frame but the first clears the panel: while a face
\* is shown, what of its text falls on the panel is there with no banner over it, so is its own
\* banner, and of all that was drawn before it (the splash, the texts of other faces) no more is left
\* than a third of a text's height and half a glyph at its side. The one exception is the banner of
\* an earlier face, which stays below the text and which nothing erases (ui_producer.c:167-213,
\* display_manager.c:251-306).
HiddenBy(r, s) == /\ 3 * (s.y1 - r.y1) < TargetH /\ 3 * (r.y2 - s.y2) < TargetH
                  /\ 2 * (s.x1 - r.x1) < TargetH /\ r.x2 <= s.x2
OneFaceSeen ==
  shown.page = "clock" =>
    LET text == ClockText(shown) IN
    /\ text \in panel /\ (shown.banner => Banner(shown) \in panel)
    /\ \A r \in panel : IF r = Banner(r.of) THEN text.y2 < r.y1 ELSE HiddenBy(r, text)

\* The panel catches up with the services: once what they answer stops changing, it is drawn and
\* stays, whichever frames were refused on the way. It says "--:--" with the banner after a minute
\* without a time, and the page of the access point in its mode (ui_producer.c:89-222).
PanelCatchesUp ==
  \A f \in Pages \ {Nothing, Splash} :
    <>[](Wanted = f /\ dmReady /\ core1) => <>[](shown = f)

=============================================================================
