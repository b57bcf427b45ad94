-------------------------- MODULE ClockFaceProofs --------------------------
(***************************************************************************)
(* Safety of the clock face, for any number of minutes, changes and faults *)
(* and any length of the queue, on any panel that FaceFits: what the       *)
(* producer believes to be shown is there or coming, and of two faces no more than  *)
(* one is seen.                                                            *)
(***************************************************************************)
EXTENDS ClockFace, SequenceTheorems, TLAPS

-----------------------------------------------------------------------------
(* Sequences *)

\* What Append does to the entries of a sequence, and to the last of them.
LEMMA AppendFacts ==
  ASSUME NEW S, NEW s \in Seq(S), NEW e \in S
  PROVE  /\ Append(s, e) \in Seq(S) /\ Append(s, e) # << >> /\ Last(Append(s, e)) = e
         /\ \A i \in DOMAIN Append(s, e) : Append(s, e)[i] = e \/ \E j \in DOMAIN s : Append(s, e)[i] = s[j]
BY DEF Last

\* What Tail does.
LEMMA TailFacts ==
  ASSUME NEW S, NEW s \in Seq(S), s # << >>
  PROVE  /\ Tail(s) \in Seq(S) /\ 1 \in DOMAIN s /\ Head(s) = s[1]
         /\ \A i \in DOMAIN Tail(s) : \E j \in DOMAIN s : Tail(s)[i] = s[j]
         /\ Tail(s) = << >> => Last(s) = Head(s)
         /\ Tail(s) # << >> => Last(Tail(s)) = Last(s)
<1>1. Len(s) \in Nat \ {0} /\ DOMAIN s = 1 .. Len(s) /\ Head(s) = s[1]
  OBVIOUS
<1>2. Tail(s) \in Seq(S) /\ Len(Tail(s)) = Len(s) - 1 /\ DOMAIN Tail(s) = 1 .. Len(s) - 1
  OBVIOUS
<1>3. \A i \in 1 .. Len(s) - 1 : Tail(s)[i] = s[i + 1]
  OBVIOUS
<1>4. \A i \in DOMAIN Tail(s) : i + 1 \in DOMAIN s
  BY <1>1, <1>2
<1>5. Tail(s) = << >> => Len(s) = 1
  <2>1. Tail(s) = << >> => Len(Tail(s)) = 0
    BY <1>2, EmptySeq
  <2> QED BY <1>1, <1>2, <2>1
<1>6. Tail(s) # << >> => Len(s) - 1 \in 1 .. Len(s) - 1
  BY <1>1, <1>2, EmptySeq
<1>7. Tail(s) # << >> => Last(Tail(s)) = Last(s)
  BY <1>1, <1>2, <1>3, <1>6 DEF Last
<1> QED BY <1>1, <1>2, <1>3, <1>4, <1>5, <1>7 DEF Last

-----------------------------------------------------------------------------
(* Types *)

\* The frames the producer builds.
ClockFrames == {Frame(f, ClockCmds(f, first)) : f \in ClockFaces, first \in BOOLEAN}
Frames == {Frame(Splash, SplashCmds), Frame(Setup, SetupCmds)} \cup ClockFrames

FaceTypes ==
  /\ snap \in {"none", "untrusted", "rtc", "ntp"} /\ clock \in 0 .. MaxClock
  /\ regen \in BOOLEAN /\ late \in BOOLEAN
  /\ pc \in {"before", "splash", "sleep", "submit"} /\ firstFrame \in BOOLEAN
  /\ pc \in {"splash", "submit"} => frame \in Frames
  /\ queue \in Seq(Frames)

\* What clock_face_build() makes is a clock face.
LEMMA FaceNowFits == FaceTypes => FaceNow \in ClockFaces
BY DEF FaceTypes, FaceNow, ClockFaces

\* At the start there are only faces that the producer builds.
LEMMA TypesInit == Init => FaceTypes
<1> SUFFICES ASSUME Init PROVE FaceTypes
  OBVIOUS
<1>1. queue \in Seq(Frames)
  BY DEF Init
<1>2. clock \in 0 .. MaxClock
  BY FaceConstantsOK DEF Init
<1>3. snap = "none" /\ regen = FALSE /\ late = FALSE /\ pc = "before" /\ firstFrame = TRUE
  BY DEF Init
<1>4. pc \notin {"splash", "submit"}
  BY <1>3
<1> QED BY <1>1, <1>2, <1>3, <1>4 DEF FaceTypes

\* No step puts another face in the queue or in a task's hands.
LEMMA TypesStep == FaceTypes /\ [Next]_vars => FaceTypes'
<1> SUFFICES ASSUME FaceTypes, [Next]_vars PROVE FaceTypes'
  OBVIOUS
<1>1. CASE World
  <2>1. UNCHANGED <<pc, firstFrame, frame, queue>>
    BY <1>1 DEF World, uiVars, drawVars
  <2>2. snap' \in {"none", "untrusted", "rtc", "ntp"}
    BY <1>1 DEF FaceTypes, World, GoesAp, TimeSet, ClockTicks, RegenFlips, MinutePasses
  <2>3. clock' \in 0 .. MaxClock
    BY <1>1, FaceConstantsOK
    DEF FaceTypes, World, GoesAp, TimeSet, ClockTicks, RegenFlips, MinutePasses
  <2>4. regen' \in BOOLEAN /\ late' \in BOOLEAN
    BY <1>1 DEF FaceTypes, World, GoesAp, TimeSet, ClockTicks, RegenFlips, MinutePasses
  <2> QED BY <2>1, <2>2, <2>3, <2>4 DEF FaceTypes
<1>2. CASE UiStart
  BY <1>2 DEF FaceTypes, UiStart, worldVars, dmVars, drawVars, Frames
<1>3. CASE PollSetup
  BY <1>3 DEF FaceTypes, PollSetup, Builds, worldVars, dmVars, drawVars, Frames
<1>4. CASE PollClock
  <2>1. Frame(FaceNow, ClockCmds(FaceNow, firstFrame)) \in Frames
    BY FaceNowFits DEF Frames, ClockFrames, FaceTypes
  <2> QED BY <1>4, <2>1 DEF FaceTypes, PollClock, Builds, worldVars, dmVars, drawVars
<1>5. CASE SubmitTaken
  BY <1>5, AppendFacts DEF FaceTypes, SubmitTaken, worldVars, dmVars
<1>6. CASE SubmitRefused
  BY <1>6 DEF FaceTypes, SubmitRefused, worldVars, dmVars, drawVars
<1>7. CASE ProcessFrame
  BY <1>7, TailFacts DEF FaceTypes, ProcessFrame, worldVars, uiVars, dmVars
<1>8. CASE UNCHANGED vars
  BY <1>8 DEF FaceTypes, vars, worldVars, uiVars, drawVars
<1> QED BY <1>1, <1>2, <1>3, <1>4, <1>5, <1>6, <1>7, <1>8 DEF Next, Ui, Submit

-----------------------------------------------------------------------------
(* What the producer believes *)

\* Until the first poll nothing is believed to be shown.
BeliefInv == FaceTypes /\ (pc \in {"before", "splash"} => key = Nothing) /\ BelievedIsComing

\* Every step keeps the producer's belief true or on its way.
LEMMA BeliefStep == BeliefInv /\ [Next]_vars => BeliefInv'
<1> SUFFICES ASSUME BeliefInv, [Next]_vars PROVE BeliefInv'
  OBVIOUS
<1>0. FaceTypes'
  BY TypesStep DEF BeliefInv
<1>1. CASE World
  BY <1>0, <1>1 DEF BeliefInv, World, BelievedIsComing, Newest, uiVars, drawVars
<1>2. CASE UiStart \/ PollSetup \/ PollClock
  BY <1>0, <1>2
  DEF BeliefInv, UiStart, PollSetup, PollClock, Builds, BelievedIsComing, Newest, drawVars
<1>3. CASE SubmitTaken
  <2>1. queue' # << >> /\ Last(queue') = frame
    BY <1>3, AppendFacts DEF BeliefInv, FaceTypes, SubmitTaken
  <2>2. CASE pc = "splash"
    BY <1>0, <1>3, <2>2 DEF BeliefInv, SubmitTaken, BelievedIsComing
  <2>3. CASE pc = "submit"
    BY <1>0, <1>3, <2>1, <2>3 DEF BeliefInv, SubmitTaken, BelievedIsComing, Newest
  <2> QED BY <1>3, <2>2, <2>3 DEF SubmitTaken
<1>4. CASE SubmitRefused
  BY <1>0, <1>4 DEF BeliefInv, SubmitRefused, BelievedIsComing, Newest, drawVars
<1>5. CASE ProcessFrame
  <2>1. Newest' = Newest
    BY <1>5, TailFacts DEF BeliefInv, FaceTypes, ProcessFrame, Newest
  <2> QED BY <1>0, <1>5, <2>1 DEF BeliefInv, ProcessFrame, BelievedIsComing, uiVars
<1>6. CASE UNCHANGED vars
  BY <1>0, <1>6 DEF BeliefInv, vars, BelievedIsComing, Newest, uiVars, drawVars
<1> QED BY <1>1, <1>2, <1>3, <1>4, <1>5, <1>6 DEF Next, Ui, Submit

\* What the producer takes for shown is on the panel or the newest frame on its way to it, so that
\* a refused frame is built again at the next poll (ui_producer.c:215-221, display_manager.c:225-249).
THEOREM BeliefIsTrue == Spec => []BelievedIsComing
<1>1. Init => BeliefInv
  BY TypesInit DEF Init, BeliefInv, BelievedIsComing
<1>2. BeliefInv => BelievedIsComing
  BY DEF BeliefInv
<1> QED BY <1>1, <1>2, BeliefStep, PTL DEF Spec

-----------------------------------------------------------------------------
(* Where the texts lie *)

\* A face has at least five letters, so its text begins no further right than that of "--:--".
LEMMA ClockTextPlace ==
  ASSUME NEW f \in ClockFaces
  PROVE  LET t == ClockText(f)  middle == (Height - TargetH) \div 2 IN
           /\ t.op = "ink" /\ t.of = f /\ t.x2 = Width - 1 /\ t.y2 = t.y1 + TargetH - 1
           /\ t.x1 \in Int /\ t.x1 >= 0 /\ 2 * t.x1 < TargetH
           /\ t.y1 \in Int /\ t.y2 \in Int
           /\ t.y1 = IF f.banner THEN middle - TargetH \div 3 ELSE middle
<1> DEFINE g == (TargetH * 2) \div 3
           n == TextLength(f)
<1>1. TargetH \in Nat /\ Width \in Nat /\ Height \in Nat
  BY FaceConstantsOK DEF TargetH, Lesser
<1>2. n \in Nat /\ n >= 5
  BY FaceConstantsOK DEF TextLength, ClockFaces
<1>3. g \in Nat
  BY <1>1
<1>4. n * g >= 5 * g
  <2>1. (n - 5) * g >= 0
    BY <1>2, <1>3
  <2> QED BY <1>2, <1>3, <2>1
<1> HIDE DEF g, n
<1>5. \A a, b \in Int : a <= b => Quotient(a, 2) \in Int /\ Quotient(a, 2) <= Quotient(b, 2)
  BY DEF Quotient
<1>6. n * g \in Int /\ 5 * g \in Int
  BY <1>2, <1>3
<1>7. Quotient(Width - n * g, 2) \in Int /\ Quotient(Width - n * g, 2) <= Quotient(Width - 5 * g, 2)
      /\ Quotient(Width - 5 * g, 2) \in Int
  BY <1>1, <1>4, <1>5, <1>6
<1>8. 2 * Quotient(Width - 5 * g, 2) < TargetH /\ TargetH > 0
  BY <1>1, FaceFits DEF g
<1>9. ClockText(f).x1 = Greater(Quotient(Width - n * g, 2), 0)
  BY DEF ClockText, ClockTextAt, Ink, g, n
<1> QED BY <1>1, <1>7, <1>8, <1>9 DEF ClockText, ClockTextAt, Ink, Greater

-----------------------------------------------------------------------------
(* What can be read *)

\* Of two texts of faces the later leaves less than a third of a height and half a glyph of the
\* earlier.
LEMMA TextHidesText ==
  ASSUME NEW f \in ClockFaces, NEW g \in ClockFaces
  PROVE  HiddenBy(ClockText(f), ClockText(g))
<1>1. TargetH \in Nat /\ Height \in Nat /\ Width \in Nat /\ 3 * (TargetH \div 3) < TargetH
  BY FaceConstantsOK, FaceFits DEF TargetH, Lesser
<1> QED BY <1>1, ClockTextPlace DEF HiddenBy

\* The ink of the splash.
SplashInk == Ink(Splash, 80, 200, 259, 223)

\* Every face is drawn where the splash was.
LEMMA TextHidesSplash ==
  ASSUME NEW f \in ClockFaces
  PROVE  HiddenBy(SplashInk, ClockText(f))
<1>1. TargetH \in Nat \ {0} /\ Height \in Nat /\ Width \in Nat
  BY FaceConstantsOK, FaceFits DEF TargetH, Lesser
<1>2. SplashInk.x1 = 80 /\ SplashInk.y1 = 200 /\ SplashInk.x2 = 259 /\ SplashInk.y2 = 223
  BY DEF SplashInk, Ink
<1> QED BY <1>1, <1>2, ClockTextPlace, FaceFits DEF HiddenBy

\* A banner lies below the text of every face.
LEMMA BannerBelow ==
  ASSUME NEW f \in ClockFaces, NEW r, r = Banner(r.of)
  PROVE  ClockText(f).y2 < r.y1
<1>1. TargetH \in Nat /\ Height \in Nat
  BY FaceConstantsOK DEF TargetH, Lesser
<1>2. r.y1 = Height - 70
  BY DEF Banner, Ink
<1> QED BY <1>1, <1>2, ClockTextPlace, FaceFits

\* A banner is no clear, and leaves the text above it.
LEMMA BannerSparesText ==
  ASSUME NEW f \in ClockFaces, f.banner
  PROVE  ~ Hides(Banner(f), ClockText(f))
<1>1. TargetH \in Nat /\ Height \in Nat
  BY FaceConstantsOK DEF TargetH, Lesser
<1>2. ClockText(f).y1 = (Height - TargetH) \div 2 - TargetH \div 3
  BY ClockTextPlace
<1>3. Banner(f).op = "ink" /\ Banner(f).y1 = Height - 70
  BY DEF Banner, Ink
<1> QED BY <1>1, <1>2, <1>3, FaceFits DEF Hides, Covers

\* The commands of a face: the text, and the banner at the end if there is one.
LEMMA FaceCommands ==
  ASSUME NEW f \in ClockFaces, NEW first \in BOOLEAN
  PROVE  LET cmds == ClockCmds(f, first)  n == Len(cmds) IN
           /\ n \in Nat /\ DOMAIN cmds = 1 .. n
           /\ \A i \in 1 .. n : cmds[i] \in {Clear, ClockText(f), Banner(f)}
           /\ ~ f.banner => n > 0 /\ cmds[n] = ClockText(f)
           /\ f.banner => n > 1 /\ cmds[n] = Banner(f) /\ cmds[n - 1] = ClockText(f)
<1> DEFINE text == ClockText(f)
           banner == Banner(f)
           S == {Clear, text, banner}
           before == IF first THEN <<Clear>> ELSE << >>
           after  == IF f.banner THEN <<banner>> ELSE << >>
           start  == before \o <<text>>
           cmds   == ClockCmds(f, first)
<1>1. Clear \in S /\ text \in S /\ banner \in S
  OBVIOUS
<1> HIDE DEF text, banner, S
<1>2. \A e \in S : <<e>> \in Seq(S) /\ Len(<<e>>) = 1 /\ <<e>>[1] = e
  OBVIOUS
<1>3. << >> \in Seq(S) /\ Len(<< >>) = 0
  BY EmptySeq
<1>4. before \in Seq(S) /\ <<text>> \in Seq(S) /\ after \in Seq(S)
  BY <1>1, <1>2, <1>3
<1>5. Len(after) = (IF f.banner THEN 1 ELSE 0) /\ (f.banner => after[1] = banner)
  BY <1>1, <1>2, <1>3
<1>6. cmds = start \o after
  BY DEF ClockCmds, text, banner
<1> HIDE DEF before, after, cmds
<1>7. start \in Seq(S) /\ Len(start) = Len(before) + 1 /\ start[Len(before) + 1] = text
  BY <1>1, <1>2, <1>4, ConcatProperties, LenProperties
<1> HIDE DEF start
<1>8. cmds \in Seq(S) /\ Len(cmds) = Len(start) + Len(after)
  BY <1>4, <1>6, <1>7, ConcatProperties
<1>9. \A i \in 1 .. Len(start) : cmds[i] = start[i]
  BY <1>4, <1>6, <1>7, <1>8, ConcatProperties, LenProperties
<1>10. f.banner => cmds[Len(start) + 1] = banner
  BY <1>4, <1>5, <1>6, <1>7, <1>8, ConcatProperties, LenProperties
<1>11. Len(before) \in Nat /\ Len(cmds) \in Nat /\ DOMAIN cmds = 1 .. Len(cmds)
  BY <1>4, <1>8, LenProperties
<1>12. \A i \in 1 .. Len(cmds) : cmds[i] \in S
  BY <1>8, ElementOfSeq
<1> QED BY <1>5, <1>7, <1>8, <1>9, <1>10, <1>11, <1>12 DEF cmds, S, text, banner

\* What shows what it is meant to.
Shows(ink, f) ==
  f.page = "clock" => ClockText(f) \in ink /\ (f.banner => Banner(f) \in ink)

\* Of a frame the panel keeps what nothing after it hides.
LEMMA KeptInk ==
  ASSUME NEW cmds, NEW ink, NEW j \in DOMAIN cmds, cmds[j].op = "ink",
         \A i \in j + 1 .. Len(cmds) : ~ Hides(cmds[i], cmds[j])
  PROVE  cmds[j] \in Executed(ink, cmds)
BY DEF Executed

\* A clock face, drawn over any ink, shows its text and its banner.
LEMMA FaceDrawn ==
  ASSUME NEW f \in ClockFaces, NEW first \in BOOLEAN, NEW ink
  PROVE  Shows(Executed(ink, ClockCmds(f, first)), f)
<1> DEFINE cmds == ClockCmds(f, first)
           n == Len(cmds)
<1>0. n \in Nat /\ DOMAIN cmds = 1 .. n
  BY FaceCommands
<1>1. ClockText(f).op = "ink" /\ Banner(f).op = "ink"
  BY DEF ClockText, ClockTextAt, Banner, Ink
<1>2. CASE ~ f.banner
  <2>1. n > 0 /\ cmds[n] = ClockText(f)
    BY <1>2, FaceCommands
  <2> HIDE DEF cmds
  <2>2. cmds[n] \in Executed(ink, cmds)
    BY <1>0, <1>1, <2>1, KeptInk
  <2> QED BY <1>2, <2>1, <2>2 DEF Shows, cmds
<1>3. CASE f.banner
  <2>1. n > 1 /\ cmds[n] = Banner(f) /\ cmds[n - 1] = ClockText(f)
    BY <1>3, FaceCommands
  <2> HIDE DEF cmds
  <2>2. cmds[n] \in Executed(ink, cmds)
    BY <1>0, <1>1, <2>1, KeptInk
  <2>3. cmds[n - 1] \in Executed(ink, cmds)
    BY <1>0, <1>1, <1>3, <2>1, BannerSparesText, KeptInk
  <2> QED BY <2>1, <2>2, <2>3 DEF Shows, cmds
<1> QED BY <1>2, <1>3

\* The ink of the access point's page.
SetupInk == Ink(Setup, 10, 40, Width - 1, 213)

\* All the ink there is.
FaceInk == {ClockText(f) : f \in ClockFaces} \cup {Banner(f) : f \in ClockFaces}
AllInk  == {SplashInk, SetupInk} \cup FaceInk

\* A frame draws the ink of its page.
LEMMA FrameInk ==
  ASSUME NEW fr \in Frames, NEW i \in DOMAIN fr.cmds, fr.cmds[i].op = "ink"
  PROVE  fr.cmds[i] \in AllInk /\ (fr.cmds[i] = SetupInk => fr.of = Setup)
<1>1. CASE fr = Frame(Splash, SplashCmds)
  <2>1. fr.cmds[i] \in {Clear, SplashInk}
    BY <1>1 DEF Frame, SplashCmds, SplashInk
  <2> QED BY <2>1 DEF AllInk, Clear, SplashInk, SetupInk, Ink, Splash, Setup
<1>2. CASE fr = Frame(Setup, SetupCmds)
  <2>1. fr.cmds[i] \in {Clear, SetupInk} /\ fr.of = Setup
    BY <1>2 DEF Frame, SetupCmds, SetupInk
  <2> QED BY <2>1 DEF AllInk, Clear
<1>3. ASSUME NEW f \in ClockFaces, NEW first \in BOOLEAN, fr = Frame(f, ClockCmds(f, first))
      PROVE  fr.cmds[i] \in AllInk /\ (fr.cmds[i] = SetupInk => fr.of = Setup)
  <2>1. fr.cmds[i] \in {Clear, ClockText(f), Banner(f)} /\ fr.of = f
    BY <1>3, FaceCommands DEF Frame
  <2>2. ClockText(f).of = f /\ Banner(f).of = f /\ SetupInk.of = Setup
    BY DEF ClockText, ClockTextAt, Banner, SetupInk, Ink
  <2> QED BY <2>1, <2>2 DEF Clear, AllInk, FaceInk
<1> QED BY <1>1, <1>2, <1>3 DEF Frames, ClockFrames

\* The page of a frame.
LEMMA FramePage ==
  ASSUME NEW fr \in Frames
  PROVE  /\ fr.of \in Pages /\ (fr.of = Setup <=> fr.of.page = "setup")
         /\ fr.of.page = "clock" => \E f \in ClockFaces, first \in BOOLEAN : fr = Frame(f, ClockCmds(f, first))
BY DEF Frames, ClockFrames, Frame, Pages, Splash, Setup, ClockFaces

\* The page of the access point is the last there is: no face is built after it.
HandIs(page)     == pc \in {"splash", "submit"} /\ frame.of.page = page
WaitsAt(i, page) == queue[i].of.page = page
SetupOut ==
  SetupInk \in panel \/ HandIs("setup") \/ \E i \in DOMAIN queue : WaitsAt(i, "setup")
SetupLast ==
  /\ SetupOut => apMode /\ ~ HandIs("clock")
  /\ \A i, j \in DOMAIN queue : i < j /\ WaitsAt(i, "setup") => ~ WaitsAt(j, "clock")
  /\ SetupInk \in panel => shown.page # "clock" /\ \A j \in DOMAIN queue : ~ WaitsAt(j, "clock")

ReadInv ==
  FaceTypes /\ shown \in Pages /\ panel \subseteq AllInk /\ Shows(panel, shown) /\ SetupLast

\* No step leaves the access point's page and draws a face.
LEMMA SetupLastStep == ReadInv /\ [Next]_vars => SetupLast'
<1> SUFFICES ASSUME ReadInv, [Next]_vars PROVE SetupLast'
  OBVIOUS
<1> USE DEF SetupLast, SetupOut, HandIs, WaitsAt
<1>1. CASE World
  BY <1>1 DEF ReadInv, World, GoesAp, TimeSet, ClockTicks, RegenFlips, MinutePasses, uiVars, drawVars
<1>2. CASE UiStart
  BY <1>2 DEF ReadInv, UiStart, Frame, Splash, worldVars, drawVars
<1>3. CASE PollSetup
  BY <1>3 DEF ReadInv, PollSetup, Builds, Frame, Setup, worldVars, drawVars
<1>4. CASE PollClock
  BY <1>4 DEF ReadInv, PollClock, Builds, FaceNow, Frame, worldVars, drawVars
<1>5. CASE SubmitTaken
  <2>1. DOMAIN queue = 1 .. Len(queue) /\ Len(queue) \in Nat
        /\ DOMAIN queue' = 1 .. Len(queue) + 1 /\ queue'[Len(queue) + 1] = frame
        /\ \A i \in DOMAIN queue : queue'[i] = queue[i]
    BY <1>5 DEF ReadInv, FaceTypes, SubmitTaken
  <2>2. pc' = "sleep" /\ pc \in {"splash", "submit"} /\ UNCHANGED <<apMode, panel, shown>>
    BY <1>5 DEF SubmitTaken, worldVars
  <2>3. \A i \in DOMAIN queue' : i \in DOMAIN queue \/ i = Len(queue) + 1
    BY <2>1
  <2>4. \A i, j \in DOMAIN queue' : i < j => i \in DOMAIN queue
    BY <2>1
  <2> QED BY <2>1, <2>2, <2>3, <2>4 DEF ReadInv
<1>6. CASE SubmitRefused
  BY <1>6 DEF ReadInv, SubmitRefused, worldVars, drawVars
<1>7. CASE ProcessFrame
  <2> DEFINE fr == Head(queue)
  <2>1. fr \in Frames /\ fr = queue[1] /\ 1 \in DOMAIN queue
    BY <1>7, TailFacts DEF ReadInv, FaceTypes, ProcessFrame
  <2>2. panel' = Executed(panel, fr.cmds) /\ shown' = fr.of /\ UNCHANGED <<apMode, pc, frame>>
    BY <1>7 DEF ProcessFrame, worldVars, uiVars
  <2>3. DOMAIN queue = 1 .. Len(queue) /\ Len(queue) \in Nat
        /\ DOMAIN queue' = 1 .. Len(queue) - 1 /\ \A i \in DOMAIN queue' : queue'[i] = queue[i + 1]
    BY <1>7 DEF ReadInv, FaceTypes, ProcessFrame
  <2>4. \A i \in DOMAIN queue' : i + 1 \in DOMAIN queue /\ 1 < i + 1 /\ i \in Nat
    BY <2>3
  <2> HIDE DEF fr
  <2>5. SetupInk \in panel' => SetupInk \in panel \/ fr.of = Setup
    BY <2>1, <2>2, FrameInk DEF Executed
  <2>6. fr.of = Setup <=> fr.of.page = "setup"
    BY <2>1, FramePage
  <2>7. SetupOut' => SetupOut
    BY <2>1, <2>2, <2>3, <2>4, <2>5, <2>6
  <2>8. SetupInk \in panel' => \A j \in DOMAIN queue' : ~ WaitsAt(j, "clock")'
    BY <2>1, <2>2, <2>3, <2>4, <2>5, <2>6 DEF ReadInv
  <2>9. SetupInk \in panel' => shown'.page # "clock"
    BY <2>1, <2>2, <2>5, <2>6 DEF ReadInv
  <2>10. \A i, j \in DOMAIN queue' : i < j /\ WaitsAt(i, "setup")' => ~ WaitsAt(j, "clock")'
    BY <2>3, <2>4 DEF ReadInv
  <2> QED BY <2>2, <2>7, <2>8, <2>9, <2>10 DEF ReadInv
<1>8. CASE UNCHANGED vars
  BY <1>8 DEF ReadInv, vars, worldVars, uiVars, drawVars
<1> QED BY <1>1, <1>2, <1>3, <1>4, <1>5, <1>6, <1>7, <1>8 DEF Next, Ui, Submit

\* Every step leaves on the panel the text of the last face drawn.
LEMMA ReadStep == ReadInv /\ [Next]_vars => ReadInv'
<1> SUFFICES ASSUME ReadInv, [Next]_vars PROVE ReadInv'
  OBVIOUS
<1>0. FaceTypes' /\ SetupLast'
  BY TypesStep, SetupLastStep DEF ReadInv
<1>1. CASE UNCHANGED <<panel, shown>>
  BY <1>0, <1>1 DEF ReadInv, Shows
<1>2. CASE ProcessFrame
  <2> DEFINE fr == Head(queue)
  <2>1. fr \in Frames /\ panel' = Executed(panel, fr.cmds) /\ shown' = fr.of
    BY <1>2 DEF ReadInv, FaceTypes, ProcessFrame
  <2> HIDE DEF fr
  <2>2. panel' \subseteq AllInk
    BY <2>1, FrameInk DEF ReadInv, Executed
  <2>3. shown' \in Pages
    BY <2>1, FramePage
  <2>4. Shows(panel', shown')
    <3>1. SUFFICES ASSUME fr.of.page = "clock" PROVE Shows(panel', shown')
      BY <2>1 DEF Shows
    <3>2. PICK f \in ClockFaces, first \in BOOLEAN : fr = Frame(f, ClockCmds(f, first))
      BY <2>1, <3>1, FramePage
    <3>3. shown' = f /\ panel' = Executed(panel, ClockCmds(f, first))
      BY <2>1, <3>2 DEF Frame
    <3> QED BY <3>3, FaceDrawn
  <2> QED BY <1>0, <2>2, <2>3, <2>4 DEF ReadInv, Shows
<1> QED
  BY <1>1, <1>2
  DEF Next, World, Ui, UiStart, PollSetup, PollClock, Submit, SubmitTaken, SubmitRefused, vars, drawVars

\* Whenever a face is shown, what of its text falls on the panel is there with no banner over it, and
\* of the splash and the texts of earlier faces no more than a rim is left, though only the first
\* frame clears the panel and may itself be refused. Earlier banners are excepted: they stay below
\* the text (ui_producer.c:167-213, display_manager.c:251-306).
THEOREM OneFaceIsSeen == Spec => []OneFaceSeen
<1>1. Init => ReadInv
  <2> SUFFICES ASSUME Init PROVE ReadInv
    OBVIOUS
  <2>1. shown = Nothing /\ panel = {} /\ pc = "before" /\ queue = << >>
    BY DEF Init
  <2>2. SetupLast
    BY <2>1 DEF SetupLast, SetupOut, HandIs, WaitsAt
  <2> QED BY <2>1, <2>2, TypesInit DEF ReadInv, Shows, Nothing, Pages
<1>2. ReadInv => OneFaceSeen
  <2> SUFFICES ASSUME ReadInv, shown.page = "clock"
               PROVE  /\ ClockText(shown) \in panel /\ (shown.banner => Banner(shown) \in panel)
                      /\ \A r \in panel :
                           IF r = Banner(r.of) THEN ClockText(shown).y2 < r.y1
                                               ELSE HiddenBy(r, ClockText(shown))
    BY DEF OneFaceSeen
  <2>1. shown \in ClockFaces
    BY DEF ReadInv, Pages, Nothing, Splash, Setup
  <2>2. ClockText(shown) \in panel /\ (shown.banner => Banner(shown) \in panel)
    BY DEF ReadInv, Shows
  <2>3. ASSUME NEW r \in panel, r # Banner(r.of)
        PROVE  HiddenBy(r, ClockText(shown))
    <3>1. r = SplashInk \/ r \in FaceInk
      BY DEF ReadInv, SetupLast, AllInk
    <3>2. \A f \in ClockFaces : Banner(f).of = f
      BY DEF Banner, Ink
    <3>3. CASE r = SplashInk
      BY <2>1, <3>3, TextHidesSplash
    <3>4. CASE r \in FaceInk
      BY <2>1, <2>3, <3>2, <3>4, TextHidesText DEF FaceInk
    <3> QED BY <3>1, <3>3, <3>4
  <2> QED BY <2>1, <2>2, <2>3, BannerBelow
<1> QED BY <1>1, <1>2, ReadStep, PTL DEF Spec
=============================================================================
