---------------------------- MODULE DisplayProofs ----------------------------
(***************************************************************************)
(* A lit panel is one that is set up, and every command draws exactly what *)
(* it is meant to draw, for any panel, any clips and commands within the   *)
(* range of int16_t, and any number of failing transfers and restarts.     *)
(*                                                                         *)
(* The second is proved from below: what the jobs of a drawing write       *)
(* (ShownJobs), what jobs each primitive asks for (FillCovers to           *)
(* RoundDrawn), and that the history of a behaviour is what the jobs of    *)
(* the last command have left (AlwaysFramed). The loops are recursive      *)
(* functions; Induction is proved here for sets, from the finiteness of    *)
(* 0 .. n.                                                                 *)
(***************************************************************************)
EXTENDS DisplayManager, FiniteSetTheorems, FunctionTheorems, TLAPS

-----------------------------------------------------------------------------
(* The order of HAL_Init() *)

\* u is s and then t, of elements of T.
Joins(u, s, t, T) ==
  /\ u \in Seq(T) /\ Len(u) = Len(s) + Len(t)
  /\ \A i \in 1 .. Len(s) : u[i] = s[i]
  /\ \A i \in 1 .. Len(t) : u[Len(s) + i] = t[i]

\* Two sequences of T, joined.
LEMMA Joined ==
  ASSUME NEW T, NEW s \in Seq(T), NEW t \in Seq(T)
  PROVE  Joins(s \o t, s, t, T)
<1>1. s \o t \in Seq(T) /\ Len(s \o t) = Len(s) + Len(t)
  OBVIOUS
<1>2. \A i \in 1 .. Len(s) + Len(t) : (s \o t)[i] = IF i <= Len(s) THEN s[i] ELSE t[i - Len(s)]
  OBVIOUS
<1>3. Len(s) \in Nat /\ Len(t) \in Nat
  OBVIOUS
<1> DEFINE u == s \o t
           m == Len(s)
           n == Len(t)
<1> HIDE DEF u, m, n
<1>4. \A i \in 1 .. m + n : u[i] = IF i <= m THEN s[i] ELSE t[i - m]
  BY <1>2 DEF u, m, n
<1>5. m \in Nat /\ n \in Nat
  BY <1>3 DEF m, n
<1>6. \A i \in 1 .. m : u[i] = s[i]
  BY <1>4, <1>5
<1>7. \A i \in 1 .. n : u[m + i] = t[i]
  BY <1>4, <1>5
<1> QED BY <1>1, <1>6, <1>7 DEF u, m, n, Joins

\* A function on 1 .. n is a sequence.
LEMMA ListIsSeq ==
  ASSUME NEW T, NEW n \in Nat, NEW s \in [1 .. n -> T]
  PROVE  s \in Seq(T)
OBVIOUS

Before == <<"board", "i2c", "spi", "rtc", "mutex", "gpio", "reset", "device">>
After  == <<"RDDID", "light", "sensors", "audio">>
Steps  == {Before[i] : i \in 1 .. 8} \cup {InitSequence[i] : i \in 1 .. 20} \cup {After[i] : i \in 1 .. 4}

\* The 32 steps of HAL_Init() by their number: those before the panel's commands, the commands, and
\* those after.
LEMMA BringUpIs ==
  /\ Len(BringUp) = 32
  /\ \A i \in 1 .. 8 : BringUp[i] = Before[i]
  /\ \A i \in 1 .. 20 : BringUp[8 + i] = InitSequence[i]
  /\ \A i \in 1 .. 4 : BringUp[28 + i] = After[i]
  /\ ToSet(InitSequence) = {InitSequence[i] : i \in 1 .. 20}
<1>1. Len(Before) = 8 /\ DOMAIN Before = 1 .. 8 /\ Before = [i \in 1 .. 8 |-> Before[i]]
  BY DEF Before
<1>2. Len(InitSequence) = 20 /\ DOMAIN InitSequence = 1 .. 20 /\ InitSequence = [i \in 1 .. 20 |-> InitSequence[i]]
  BY DEF InitSequence
<1>3. Len(After) = 4 /\ DOMAIN After = 1 .. 4 /\ After = [i \in 1 .. 4 |-> After[i]]
  BY DEF After
<1>4. BringUp = (Before \o InitSequence) \o After
  BY DEF BringUp, Before, After
<1> DEFINE T == Steps
<1>5. Before \in Seq(T) /\ InitSequence \in Seq(T) /\ After \in Seq(T)
  <2>1. Before \in [1 .. 8 -> T] /\ InitSequence \in [1 .. 20 -> T] /\ After \in [1 .. 4 -> T]
    BY <1>1, <1>2, <1>3 DEF Steps
  <2>2. 8 \in Nat /\ 20 \in Nat /\ 4 \in Nat
    OBVIOUS
  <2> HIDE DEF T
  <2> QED BY <2>1, <2>2, ListIsSeq, Zenon
<1> HIDE DEF T
<1> DEFINE most == Before \o InitSequence
<1>6. /\ most \in Seq(T) /\ Len(most) = 28
      /\ \A i \in 1 .. 8 : most[i] = Before[i]
      /\ \A i \in 1 .. 20 : most[8 + i] = InitSequence[i]
  <2>1. Len(Before) = 8 /\ Len(InitSequence) = 20
    BY <1>1, <1>2
  <2>2. Joins(most, Before, InitSequence, T)
    BY <1>5, Joined
  <2> HIDE DEF most
  <2> QED BY <2>1, <2>2 DEF Joins
<1> HIDE DEF most
<1> DEFINE whole == most \o After
<1>7. BringUp = whole
  BY <1>4 DEF most
<1>8. /\ Len(whole) = 32
      /\ \A i \in 1 .. 28 : whole[i] = most[i]
      /\ \A i \in 1 .. 4 : whole[28 + i] = After[i]
  <2>1. Len(After) = 4 /\ Len(most) = 28 /\ most \in Seq(T)
    BY <1>3, <1>6
  <2>2. Joins(whole, most, After, T)
    BY <1>5, <2>1, Joined
  <2> HIDE DEF whole
  <2> QED BY <2>1, <2>2 DEF Joins
<1> HIDE DEF whole
<1>10. /\ Len(BringUp) = 32 /\ \A i \in 1 .. 28 : BringUp[i] = most[i]
       /\ \A i \in 1 .. 4 : BringUp[28 + i] = After[i]
  BY <1>7, <1>8
<1>11. ToSet(InitSequence) = {InitSequence[i] : i \in 1 .. 20}
  BY <1>2 DEF ToSet
<1>12. (\A i \in 1 .. 8 : i \in 1 .. 28) /\ (\A i \in 1 .. 20 : 8 + i \in 1 .. 28)
  OBVIOUS
<1> QED BY <1>6, <1>10, <1>11, <1>12

\* Where the steps that matter are.
LEMMA StepFacts ==
  /\ \A i \in 1 .. 32 :
       /\ BringUp[i] = "board" <=> i = 1
       /\ BringUp[i] = "gpio" <=> i = 6
       /\ BringUp[i] = "reset" <=> i = 7
       /\ BringUp[i] = "SWRESET" <=> i = 9
       /\ BringUp[i] = "SLPOUT" <=> i = 10
       /\ BringUp[i] = "MADCTL" <=> i = 11
       /\ BringUp[i] = "COLMOD" <=> i = 12
       /\ BringUp[i] = "DISPON" <=> i = 28
       /\ BringUp[i] = "light" <=> i = 30
       /\ BringUp[i] \in ToSet(InitSequence) => i \in 9 .. 28
<1> SUFFICES ASSUME NEW i \in 1 .. 32
             PROVE  /\ BringUp[i] = "board" <=> i = 1
                    /\ BringUp[i] = "gpio" <=> i = 6
                    /\ BringUp[i] = "reset" <=> i = 7
                    /\ BringUp[i] = "SWRESET" <=> i = 9
                    /\ BringUp[i] = "SLPOUT" <=> i = 10
                    /\ BringUp[i] = "MADCTL" <=> i = 11
                    /\ BringUp[i] = "COLMOD" <=> i = 12
                    /\ BringUp[i] = "DISPON" <=> i = 28
                    /\ BringUp[i] = "light" <=> i = 30
                    /\ BringUp[i] \in ToSet(InitSequence) => i \in 9 .. 28
  OBVIOUS
<1> DEFINE s == BringUp[i]
<1>1. CASE i \in 1 .. 8
  <2>1. s = Before[i]
    BY <1>1, BringUpIs
  <2>2. /\ s \in {"board", "i2c", "spi", "rtc", "mutex", "gpio", "reset", "device"}
        /\ (s = "board" <=> i = 1) /\ (s = "gpio" <=> i = 6) /\ (s = "reset" <=> i = 7)
    BY <1>1, <2>1 DEF Before
  <2>3. s \notin ToSet(InitSequence)
    BY <2>2, BringUpIs DEF InitSequence
  <2> QED BY <1>1, <2>2, <2>3
<1>2. CASE i \in 9 .. 28
  <2> DEFINE j == i - 8
  <2>1. j \in 1 .. 20 /\ i = 8 + j /\ s = InitSequence[j]
    BY <1>2, BringUpIs
  <2> HIDE DEF s, j
  <2>2. /\ s \notin {"board", "gpio", "reset", "light"}
        /\ (s = "SWRESET" <=> j = 1) /\ (s = "SLPOUT" <=> j = 2) /\ (s = "MADCTL" <=> j = 3)
        /\ (s = "COLMOD" <=> j = 4) /\ (s = "DISPON" <=> j = 20)
    BY <2>1 DEF InitSequence
  <2> QED BY <1>2, <2>1, <2>2 DEF s
<1>3. CASE i \in 29 .. 32
  <2> DEFINE j == i - 28
  <2>1. j \in 1 .. 4 /\ i = 28 + j /\ s = After[j]
    BY <1>3, BringUpIs
  <2> HIDE DEF s, j
  <2>2. s \in {"RDDID", "light", "sensors", "audio"} /\ (s = "light" <=> j = 2)
    BY <2>1 DEF After
  <2>3. s \notin ToSet(InitSequence)
    BY <2>2, BringUpIs DEF InitSequence
  <2> QED BY <1>3, <2>1, <2>2, <2>3 DEF s
<1> QED BY <1>1, <1>2, <1>3

\* No step that the setup of the panel needs is one whose failure is passed over.
LEMMA SoftFacts == Soft \cap {"SWRESET", "SLPOUT", "MADCTL", "COLMOD", "DISPON", "board", "gpio", "reset", "light"} = {}
  BY DEF Soft

-----------------------------------------------------------------------------
(* The invariant *)

Ready == {"SLPOUT", "MADCTL", "COLMOD", "DISPON"}

\* The backlight is off while the panel is set up, and goes on at the end of it. The setup goes on
\* only from a step that was obeyed, and nothing after SWRESET makes the panel forget one. A warm
\* restart may find a ready panel, but its setup begins with the resets.
SetUp ==
  /\ hal \in {"starting", "up", "failed"} /\ step \in 1 .. 32 /\ (hal = "up" => step = 1)
  /\ hal = "up" => Ready \subseteq heeded
  /\ step \in 7 .. 30 => light = "off"
  /\ step > 10 => "SLPOUT" \in heeded
  /\ step > 11 => "MADCTL" \in heeded
  /\ step > 12 => "COLMOD" \in heeded
  /\ step > 28 => "DISPON" \in heeded

\* A step of HAL_Init() other than its commands to the panel and the backlight.
Other ==
  /\ hal = "starting" /\ (Succeeds \/ Fails) /\ UNCHANGED <<heeded, light>>
  /\ step \notin {1, 6, 7, 30} /\ step \notin 9 .. 28

\* Which action takes which step.
LEMMA StepsAre ==
  ASSUME SetUp, HalInit
  PROVE  \/ Board /\ step = 1
         \/ GpioInit /\ step = 6
         \/ HardReset /\ step = 7
         \/ SendCommand /\ step \in 9 .. 28
         \/ LightsOn /\ step = 30
         \/ Other
<1> DEFINE s == BringUp[step]
<1>1. step \in 1 .. 32
  BY DEF SetUp
<1>2. /\ (s = "board" <=> step = 1) /\ (s = "gpio" <=> step = 6) /\ (s = "reset" <=> step = 7)
      /\ (s = "light" <=> step = 30) /\ (s \in ToSet(InitSequence) => step \in 9 .. 28)
      /\ (step \in 9 .. 28 => s \in ToSet(InitSequence))
  <2>1. step \in 9 .. 28 => s \in ToSet(InitSequence)
    <3> SUFFICES ASSUME step \in 9 .. 28 PROVE s \in ToSet(InitSequence)
      OBVIOUS
    <3>1. step - 8 \in 1 .. 20 /\ step = 8 + (step - 8)
      OBVIOUS
    <3>2. s = InitSequence[step - 8]
      BY <3>1, BringUpIs
    <3> QED BY <3>1, <3>2, BringUpIs
  <2> QED BY <1>1, <2>1, StepFacts
<1>3. ToSet(InitSequence) \cap {"i2c", "spi", "rtc", "mutex", "device", "RDDID", "sensors", "audio"} = {}
  BY BringUpIs DEF InitSequence
<1> HIDE DEF s
<1>4. CASE Board
  BY <1>2, <1>4 DEF Board, Doing, s
<1>5. CASE GpioInit
  BY <1>2, <1>5 DEF GpioInit, Doing, s
<1>6. CASE HardReset
  BY <1>2, <1>6 DEF HardReset, Doing, s
<1>7. CASE LightsOn
  BY <1>2, <1>7 DEF LightsOn, Doing, s
<1>8. CASE SendCommand
  BY <1>2, <1>8 DEF SendCommand, Doing, s
<1>9. CASE I2cInit \/ SpiInit \/ RtcInit \/ CreateMutex \/ AddDevice \/ ReadId \/ SensorsInit \/ AudioInit
  <2>1. /\ s \in {"i2c", "spi", "rtc", "mutex", "device", "RDDID", "sensors", "audio"} /\ hal = "starting"
        /\ (Succeeds \/ Fails) /\ UNCHANGED <<heeded, light>>
    BY <1>9
    DEF I2cInit, SpiInit, RtcInit, CreateMutex, AddDevice, ReadId, SensorsInit, AudioInit, Doing, s
  <2> QED BY <1>2, <1>3, <2>1 DEF Other
<1> QED BY <1>4, <1>5, <1>6, <1>7, <1>8, <1>9 DEF HalInit

\* Where a step leads: on, or to a failure, which a step that is not soft may come to.
LEMMA Onward ==
  ASSUME SetUp, hal = "starting"
  PROVE  /\ Proceed => IF step = 32 THEN hal' = "up" /\ step' = 1 ELSE hal' = "starting" /\ step' = step + 1
         /\ Failed => hal' = "failed" /\ step' = step
         /\ Succeeds => Proceed
         /\ Fails => IF BringUp[step] \in Soft THEN Proceed ELSE Failed
<1>1. Len(BringUp) = 32
  BY BringUpIs
<1> QED BY <1>1 DEF SetUp, Proceed, Failed, Succeeds, Fails

\* Every step of HAL_Init() keeps the setup in order.
LEMMA BringUpKeeps == SetUp /\ HalInit => SetUp'
<1> SUFFICES ASSUME SetUp, HalInit PROVE SetUp'
  OBVIOUS
<1>1. CASE Board /\ step = 1
  <2>1. hal = "starting" /\ (Proceed \/ Failed) /\ heeded' = heeded
    BY <1>1 DEF Board, Doing
  <2> QED BY <1>1, <2>1, Onward DEF SetUp
<1>2. CASE GpioInit /\ step = 6
  <2>1. hal = "starting" /\ Proceed /\ heeded' = heeded /\ light' = "off"
    BY <1>2 DEF GpioInit, Doing, Succeeds
  <2> QED BY <1>2, <2>1, Onward DEF SetUp
<1>3. CASE HardReset /\ step = 7
  <2>1. hal = "starting" /\ Proceed /\ light' = light
    BY <1>3 DEF HardReset, Doing, Succeeds
  <2> QED BY <1>3, <2>1, Onward DEF SetUp
<1>4. CASE LightsOn /\ step = 30
  <2>1. hal = "starting" /\ Proceed /\ heeded' = heeded
    BY <1>4 DEF LightsOn, Doing, Succeeds
  <2> QED BY <1>4, <2>1, Onward DEF SetUp
<1>5. CASE Other
  <2>1. hal = "starting" /\ (Proceed \/ Failed) /\ heeded' = heeded /\ light' = light
    BY <1>5, Onward DEF Other
  <2>2. step \in 1 .. 32 /\ step \notin {1, 6, 7, 30} /\ step \notin 9 .. 28
    BY <1>5 DEF Other, SetUp
  <2> QED BY <2>1, <2>2, Onward DEF SetUp, Ready
<1>6. CASE SendCommand /\ step \in 9 .. 28
  <2> DEFINE s == BringUp[step]
  <2>1. /\ hal = "starting" /\ light' = light
        /\ (Succeeds /\ Obeys(s)) \/ (Fails /\ heeded' = heeded) \/ (Fails /\ Obeys(s))
    BY <1>6 DEF SendCommand, Doing
  <2>2. (Proceed /\ (Obeys(s) \/ (s \in Soft /\ heeded' = heeded))) \/ (Failed /\ (heeded' = heeded \/ Obeys(s)))
    BY <2>1, Onward
  <2>3. /\ (s = "SWRESET" <=> step = 9) /\ (s = "SLPOUT" <=> step = 10) /\ (s = "MADCTL" <=> step = 11)
        /\ (s = "COLMOD" <=> step = 12) /\ (s = "DISPON" <=> step = 28)
    BY <1>6, StepFacts
  <2> HIDE DEF s
  <2>4. CASE step = 9
    <3>1. hal' \in {"starting", "failed"} /\ step' \in {9, 10}
      BY <2>1, <2>2, <2>4, Onward
    <3> QED BY <2>1, <2>4, <3>1 DEF SetUp
  <2>5. CASE step # 9
    <3>1. heeded \subseteq heeded'
      BY <2>2, <2>3, <2>5 DEF Obeys
    <3>2. CASE Failed
      BY <2>1, <3>1, <3>2, Onward DEF SetUp
    <3>3. CASE Proceed /\ (Obeys(s) \/ (s \in Soft /\ heeded' = heeded))
      <4>1. s \in {"SLPOUT", "MADCTL", "COLMOD", "DISPON"} => s \in heeded'
        BY <2>3, <2>5, <3>3, SoftFacts DEF Obeys
      <4>2. hal' = "starting" /\ step' = step + 1
        BY <1>6, <2>1, <3>3, Onward
      <4>3. /\ step = 10 => "SLPOUT" \in heeded'
            /\ step = 11 => "MADCTL" \in heeded'
            /\ step = 12 => "COLMOD" \in heeded'
            /\ step = 28 => "DISPON" \in heeded'
        BY <2>3, <4>1
      <4> QED BY <1>6, <2>1, <2>5, <3>1, <4>2, <4>3 DEF SetUp
    <3> QED BY <2>2, <3>2, <3>3
  <2> QED BY <2>4, <2>5
<1> QED BY <1>1, <1>2, <1>3, <1>4, <1>5, <1>6, StepsAre

\* The setup is in order throughout.
LEMMA Always == Spec => []SetUp
<1>1. Init => SetUp
  BY DEF Init, PanelInit, SetUp
<1>2. SetUp /\ [Next]_vars => SetUp'
  <2> SUFFICES ASSUME SetUp, [Next]_vars PROVE SetUp'
    OBVIOUS
  <2>1. CASE BringUpStep
    BY <2>1, BringUpKeeps DEF BringUpStep
  <2>2. CASE Restart
    <3>1. hal' = "starting" /\ step' = 1
      BY <2>2 DEF Restart, Restarted
    <3> QED BY <3>1 DEF SetUp
  <2>3. CASE UNCHANGED <<hal, step, heeded, light>>
    BY <2>3 DEF SetUp
  <2>4. ProcessFrame \/ (\E c \in Clips \cup {FullClip} : SetClip(c)) \/ (\E k \in Commands : Draw(k)) \/ UNCHANGED vars
          => UNCHANGED <<hal, step, heeded, light>>
    BY DEF ProcessFrame, SetClip, Draw, vars, panelVars
  <2> QED BY <2>1, <2>2, <2>3, <2>4 DEF Next
<1> QED BY <1>1, <1>2, PTL DEF Spec

-----------------------------------------------------------------------------
(* Theorem *)

\* Nobody sees a panel that is not awake, has no orientation or pixel format or is not switched on:
\* from when the driver holds the backlight it is off until all of that has been obeyed, whatever
\* transfers fail and whatever a warm restart left in the controller.
THEOREM LitPanelIsReady == Spec => []LitIsReady
<1>1. SetUp => LitIsReady
  <2> SUFFICES ASSUME SetUp, light = "on", hal = "up" \/ (\E i \in 1 .. step - 1 : BringUp[i] = "gpio")
               PROVE  Ready \subseteq heeded
    BY DEF LitIsReady, Ready
  <2>1. CASE hal = "up"
    BY <2>1 DEF SetUp
  <2>2. ASSUME NEW i \in 1 .. step - 1, BringUp[i] = "gpio"
        PROVE  Ready \subseteq heeded
    <3>1. step \in 1 .. 32 /\ i \in 1 .. 32
      BY DEF SetUp
    <3>2. step > 6
      BY <2>2, <3>1, StepFacts
    <3>3. step > 30
      BY <3>1, <3>2 DEF SetUp
    <3> QED BY <3>3, <3>1 DEF SetUp, Ready
  <2> QED BY <2>1, <2>2
<1> QED BY <1>1, Always, PTL

-----------------------------------------------------------------------------
(* Induction, and lists *)

\* Induction, for a set: an element of the rest would be matched with its successor by a
\* map of a finite set onto itself.
LEMMA Induction ==
  ASSUME NEW S, 0 \in S, \A n \in Nat : n \in S => n + 1 \in S
  PROVE  Nat \subseteq S
<1> SUFFICES ASSUME NEW x \in Nat, x \notin S PROVE FALSE
  OBVIOUS
<1> DEFINE W == {n \in 0 .. x : n \notin S}
           f == [n \in W |-> n - 1]
<1>1. IsFiniteSet(W)
  <2>1. IsFiniteSet(0 .. x)
    BY FS_Interval
  <2> QED BY <2>1, FS_Subset
<1>2. \A n \in W : n - 1 \in W
  <2> TAKE n \in W
  <2>1. n # 0 /\ n \in Nat
    OBVIOUS
  <2>2. n - 1 \in Nat /\ (n - 1) + 1 = n
    BY <2>1
  <2> QED BY <2>2
<1>3. f \in Injection(W, W)
  <2>1. f \in [W -> W]
    BY <1>2
  <2>2. \A a, b \in W : f[a] = f[b] => a = b
    OBVIOUS
  <2> HIDE DEF f, W
  <2> QED BY <2>1, <2>2 DEF Injection, IsInjective
<1>4. f \in Surjection(W, W)
  <2> HIDE DEF f
  <2> QED BY <1>1, <1>3, FS_Injection
<1>5. PICK n \in W : f[n] = x
  <2>1. x \in W
    OBVIOUS
  <2> HIDE DEF f, W
  <2> QED BY <1>4, <2>1 DEF Surjection
<1> QED BY <1>5

\* What FlattenSeq() computes, a sequence at a time.
Flattened(seqs, f) == f = [i \in 1 .. Len(seqs) |-> IF i = 1 THEN seqs[i] ELSE f[i - 1] \o seqs[i]]

\* FlattenSeq() joins a list from its start.
LEMMA Flattening ==
  ASSUME NEW seqs, Len(seqs) \in Nat \ {0}
  PROVE  \E f : Flattened(seqs, f) /\ FlattenSeq(seqs) = f[Len(seqs)]
<1> DEFINE N == Len(seqs)
           UpTo(m, f) == f = [i \in 1 .. m |-> IF i = 1 THEN seqs[i] ELSE f[i - 1] \o seqs[i]]
           S == {m \in Nat : \E f : UpTo(m, f)}
<1>1. 0 \in S
  <2>1. UpTo(0, [i \in 1 .. 0 |-> 0])
    OBVIOUS
  <2> QED BY <2>1
<1>2. \A m \in Nat : m \in S => m + 1 \in S
  <2> SUFFICES ASSUME NEW m \in Nat, m \in S PROVE m + 1 \in S
    OBVIOUS
  <2> PICK f : UpTo(m, f)
    OBVIOUS
  <2> DEFINE e(h, i) == IF i = 1 THEN seqs[i] ELSE h[i - 1] \o seqs[i]
             g == [i \in 1 .. m + 1 |-> e(f, i)]
  <2>1. \A i \in 1 .. m : f[i] = e(f, i)
    <3>1. f = [i \in 1 .. m |-> e(f, i)]
      OBVIOUS
    <3> HIDE DEF e
    <3> QED BY <3>1
  <2>2. \A i \in 1 .. m : g[i] = f[i]
    <3> HIDE DEF e, UpTo
    <3> QED BY <2>1
  <2>3. \A i \in 1 .. m + 1 : e(f, i) = e(g, i)
    <3>1. \A i \in 1 .. m + 1 : i = 1 \/ i - 1 \in 1 .. m
      OBVIOUS
    <3> HIDE DEF g, UpTo
    <3> QED BY <2>2, <3>1
  <2>4. UpTo(m + 1, g)
    <3>1. g = [i \in 1 .. m + 1 |-> e(g, i)]
      <4> HIDE DEF e
      <4> QED BY <2>3
    <3> HIDE DEF g
    <3> QED BY <3>1
  <2> HIDE DEF g, UpTo
  <2> QED BY <2>4
<1>3. \E f : UpTo(N, f)
  <2> HIDE DEF UpTo, N
  <2>1. N \in S
    <3>1. Nat \subseteq S
      <4> HIDE DEF S
      <4> QED BY <1>1, <1>2, Induction
    <3> HIDE DEF S
    <3> QED BY <3>1 DEF N
  <2> QED BY <2>1
<1> DEFINE flat == CHOOSE f : UpTo(N, f)
<1>4. UpTo(N, flat)
  BY <1>3
<1>5. FlattenSeq(seqs) = flat[N]
  BY DEF FlattenSeq
<1> QED BY <1>4, <1>5 DEF Flattened

\* FlattenSeq() lists what its sequences list, and no more.
LEMMA FlatSet ==
  ASSUME NEW T, NEW n \in Nat, NEW ds \in [1 .. n -> Seq(T)]
  PROVE  FlattenSeq(ds) \in Seq(T) /\ ToSet(FlattenSeq(ds)) = UNION {ToSet(ds[i]) : i \in 1 .. n}
<1>1. ds \in Seq(Seq(T)) /\ Len(ds) = n
  OBVIOUS
<1>2. CASE n = 0
  <2>1. FlattenSeq(ds) = ds
    BY <1>1, <1>2 DEF FlattenSeq
  <2>2. ds \in Seq(T) /\ ToSet(ds) = {}
    BY <1>2 DEF ToSet
  <2>3. UNION {ToSet(ds[i]) : i \in 1 .. n} = {}
    BY <1>2
  <2> QED BY <2>1, <2>2, <2>3
<1>3. CASE n # 0
  <2>1. PICK f : Flattened(ds, f) /\ FlattenSeq(ds) = f[n]
    BY <1>1, <1>3, Flattening
  <2> DEFINE e(i) == IF i = 1 THEN ds[i] ELSE f[i - 1] \o ds[i]
  <2>2. \A i \in 1 .. n : f[i] = e(i)
    <3>1. f = [i \in 1 .. n |-> e(i)]
      BY <1>1, <2>1 DEF Flattened
    <3> HIDE DEF e
    <3> QED BY <3>1
  <2> DEFINE Lists(m) == f[m] \in Seq(T) /\ ToSet(f[m]) = UNION {ToSet(ds[i]) : i \in 1 .. m}
             S == {m \in Nat : m \in 1 .. n => Lists(m)}
  <2>3. 0 \in S
    OBVIOUS
  <2>4. \A m \in Nat : m \in S => m + 1 \in S
    <3> HIDE DEF Lists
    <3> SUFFICES ASSUME NEW m \in Nat, m \in 1 .. n => Lists(m), m + 1 \in 1 .. n PROVE Lists(m + 1)
      OBVIOUS
    <3> USE DEF Lists
    <3> DEFINE d == ds[m + 1]
    <3>1. d \in Seq(T)
      OBVIOUS
    <3>2. f[m + 1] = IF m = 0 THEN d ELSE f[m] \o d
      BY <2>2
    <3>3. CASE m = 0
      BY <3>1, <3>2, <3>3
    <3>4. CASE m # 0
      <4> DEFINE g == f[m]
      <4>1. g \in Seq(T) /\ ToSet(g) = UNION {ToSet(ds[i]) : i \in 1 .. m}
        BY <3>4
      <4>2. 1 .. m + 1 = (1 .. m) \cup {m + 1}
        OBVIOUS
      <4> HIDE DEF g, S, e
      <4>3. g \o d \in Seq(T) /\ ToSet(g \o d) = ToSet(g) \cup ToSet(d)
        <5> HIDE DEF d
        <5>1. g \o d \in Seq(T) /\ Len(g \o d) = Len(g) + Len(d) /\ Len(g) \in Nat /\ Len(d) \in Nat
          BY <3>1, <4>1
        <5>2. \A i \in 1 .. Len(g) + Len(d) : (g \o d)[i] = IF i <= Len(g) THEN g[i] ELSE d[i - Len(g)]
          BY <3>1, <4>1
        <5>3. /\ DOMAIN g = 1 .. Len(g) /\ DOMAIN d = 1 .. Len(d)
              /\ DOMAIN (g \o d) = 1 .. Len(g) + Len(d)
          BY <3>1, <4>1, <5>1
        <5> DEFINE u == g \o d
        <5>4. \A i \in 1 .. Len(g) : u[i] = g[i]
          BY <5>1, <5>2
        <5>5. \A i \in 1 .. Len(d) : u[Len(g) + i] = d[i] /\ Len(g) + i \in 1 .. Len(g) + Len(d)
          BY <5>1, <5>2
        <5> HIDE DEF u
        <5>6. \A i \in 1 .. Len(g) + Len(d) : i \in 1 .. Len(g) \/ (i - Len(g) \in 1 .. Len(d) /\ i = Len(g) + (i - Len(g)))
          BY <5>1
        <5>7. DOMAIN u = 1 .. Len(g) + Len(d)
          BY <5>3 DEF u
        <5>8. ToSet(u) \subseteq ToSet(g) \cup ToSet(d)
          <6> SUFFICES ASSUME NEW i \in 1 .. Len(g) + Len(d) PROVE u[i] \in ToSet(g) \cup ToSet(d)
            BY <5>7 DEF ToSet
          <6>1. CASE i \in 1 .. Len(g)
            BY <6>1, <5>3, <5>4 DEF ToSet
          <6>2. CASE i - Len(g) \in 1 .. Len(d) /\ i = Len(g) + (i - Len(g))
            <7>1. u[i] = d[i - Len(g)]
              BY <6>2, <5>5
            <7> QED BY <7>1, <6>2, <5>3 DEF ToSet
          <6> QED BY <6>1, <6>2, <5>6
        <5>9. ToSet(g) \subseteq ToSet(u)
          <6>1. \A i \in 1 .. Len(g) : i \in 1 .. Len(g) + Len(d)
            BY <5>1
          <6> QED BY <5>3, <5>4, <5>7, <6>1 DEF ToSet
        <5>10. ToSet(d) \subseteq ToSet(u)
          BY <5>3, <5>5, <5>7 DEF ToSet
        <5> QED BY <5>1, <5>8, <5>9, <5>10 DEF u
      <4>4. f[m + 1] = g \o d
        BY <3>2, <3>4 DEF g
      <4>5. UNION {ToSet(ds[i]) : i \in 1 .. m + 1} = (UNION {ToSet(ds[i]) : i \in 1 .. m}) \cup ToSet(d)
        BY <4>2
      <4> HIDE DEF d
      <4> QED BY <4>1, <4>3, <4>4, <4>5
    <3> QED BY <3>3, <3>4
  <2>5. n \in S
    <3> HIDE DEF S
    <3> QED BY <2>3, <2>4, Induction
  <2> QED BY <2>1, <2>5, <1>3
<1> QED BY <1>2, <1>3

\* SetToSeq() lists every element of a finite set.
LEMMA SetSeq ==
  ASSUME NEW S, IsFiniteSet(S)
  PROVE  /\ Cardinality(S) \in Nat
         /\ SetToSeq(S) \in [1 .. Cardinality(S) -> S]
         /\ ToSet(SetToSeq(S)) = S
<1> DEFINE n == Cardinality(S)
<1>1. n \in Nat /\ ExistsBijection(1 .. n, S)
  BY FS_CardinalityType
<1>2. PICK b \in Bijection(1 .. n, S) : TRUE
  BY <1>1 DEF ExistsBijection
<1>3. b \in [1 .. n -> S] /\ IsInjective(b)
  BY <1>2 DEF Bijection, Injection, IsInjective
<1> DEFINE s == SetToSeq(S)
<1>4. s \in [1 .. n -> S] /\ IsInjective(s)
  BY <1>3 DEF SetToSeq
<1> HIDE DEF s
<1>5. s \in Surjection(1 .. n, S)
  <2>1. s \in Injection(1 .. n, S)
    BY <1>4 DEF Injection, IsInjective
  <2>2. IsFiniteSet(1 .. n) /\ Cardinality(1 .. n) = n
    BY <1>1, FS_Interval
  <2>3. Cardinality(1 .. n) = Cardinality(S) <=> s \in Surjection(1 .. n, S)
    BY <2>1, FS_Injection
  <2> QED BY <2>2, <2>3
<1>6. ToSet(s) = S
  BY <1>4, <1>5 DEF Surjection, ToSet
<1> QED BY <1>1, <1>4, <1>6 DEF s

\* Quotient and remainder.
LEMMA DivMod ==
  ASSUME NEW k \in Nat, NEW w \in Nat \ {0}
  PROVE  k % w \in 0 .. w - 1 /\ k \div w \in Nat /\ k = w * (k \div w) + (k % w)
<1>1. k % w \in 0 .. w - 1
  OBVIOUS
<1>2. k = w * (k \div w) + (k % w)
  OBVIOUS
<1>3. k \div w \in Int
  OBVIOUS
<1> DEFINE q == k \div w
           m == k % w
<1>4. q \in Int /\ m \in 0 .. w - 1 /\ k = w * q + m
  BY <1>1, <1>2, <1>3
<1> HIDE DEF q, m
<1>5. q \in Nat
  <2>1. q + 1 <= 0 => w * (q + 1) <= 0
    BY <1>4
  <2>2. w * (q + 1) = w * q + w
    BY <1>4
  <2> QED BY <1>4, <2>1, <2>2
<1> QED BY <1>1, <1>2, <1>5 DEF q

\* A number split into row and column has them back.
LEMMA DivModIs ==
  ASSUME NEW w \in Nat \ {0}, NEW b \in Nat, NEW a \in 0 .. w - 1, NEW k \in Int, k = w * b + a
  PROVE  k % w = a /\ k \div w = b
OBVIOUS

\* A place in a row of a rectangle is one of its places.
LEMMA Within ==
  ASSUME NEW w \in Nat \ {0}, NEW h \in Nat \ {0}, NEW a \in 0 .. w - 1, NEW b \in 0 .. h - 1
  PROVE  w * b + a \in 0 .. w * h - 1
OBVIOUS

\* The remainder of what is smaller.
LEMMA ModSmall ==
  ASSUME NEW w \in Nat \ {0}, NEW k \in 0 .. w - 1
  PROVE  k % w = k /\ k \div w = 0
OBVIOUS

\* A list of one list.
LEMMA FlatOne ==
  ASSUME NEW d
  PROVE  FlattenSeq(<<d>>) = d
<1> DEFINE s == <<d>>
<1>1. Len(s) = 1 /\ s[1] = d
  OBVIOUS
<1> HIDE DEF s
<1>2. PICK f : Flattened(s, f) /\ FlattenSeq(s) = f[1]
  <2>1. Len(s) \in Nat \ {0}
    BY <1>1
  <2>2. \E f : Flattened(s, f) /\ FlattenSeq(s) = f[Len(s)]
    BY <2>1, Flattening
  <2> QED BY <1>1, <2>2
<1>3. f = [i \in 1 .. 1 |-> IF i = 1 THEN s[i] ELSE f[i - 1] \o s[i]]
  BY <1>1, <1>2 DEF Flattened
<1>4. f[1] = s[1]
  <2> DEFINE e(i) == IF i = 1 THEN s[i] ELSE f[i - 1] \o s[i]
  <2>1. f = [i \in 1 .. 1 |-> e(i)]
    BY <1>3
  <2> HIDE DEF e
  <2>2. f[1] = e(1)
    BY <2>1
  <2> QED BY <2>2 DEF e
<1> QED BY <1>1, <1>2, <1>4 DEF s

\* Joined lists.
LEMMA Joining ==
  ASSUME NEW T, NEW s \in Seq(T), NEW t \in Seq(T)
  PROVE  s \o t \in Seq(T) /\ Len(s \o t) = Len(s) + Len(t)
OBVIOUS

\* A list by its elements.
LEMMA ListIn ==
  ASSUME NEW T, NEW n \in Nat, NEW s \in [1 .. n -> T]
  PROVE  s \in Seq(T) /\ Len(s) = n /\ ToSet(s) = {s[i] : i \in 1 .. n}
BY DEF ToSet

-----------------------------------------------------------------------------
(* The jobs of the driver on the controller *)

\* A job of the driver: its window lies on the panel, and its data fills it.
Wide(job) == job.cols[2] - job.cols[1] + 1
High(job) == job.rows[2] - job.rows[1] + 1
Jobs ==
  {job \in [cols : Int \X Int, rows : Int \X Int, parts : Seq(Seq(Int))] :
     /\ job.cols[1] <= job.cols[2] /\ job.rows[1] <= job.rows[2] /\ Area(job) \subseteq Panel
     /\ Len(FlattenSeq(job.parts)) = Wide(job) * High(job)}

\* An address window.
Window(win) ==
  /\ win.cols \in Int \X Int /\ win.rows \in Int \X Int
  /\ win.cols[1] <= win.cols[2] /\ win.rows[1] <= win.rows[2]

\* A job of one transfer, one row high.
OneRow(job) == job.rows[1] = job.rows[2] /\ job.parts = <<job.parts[1]>>

Covers(jobs) == UNION {Area(job) : job \in ToSet(jobs)}

\* Data fills its window from the start, and all of it when there is enough.
LEMMA StreamedIn ==
  ASSUME NEW win, Window(win), NEW data, Len(data) \in Nat
  PROVE  /\ DOMAIN Streamed(win, data) \subseteq Area(win)
         /\ Len(data) = 0 => DOMAIN Streamed(win, data) = {}
         /\ Len(data) = Wide(win) * High(win) => Area(win) \subseteq DOMAIN Streamed(win, data)
<1> DEFINE w == win.cols[2] - win.cols[1] + 1
           h == win.rows[2] - win.rows[1] + 1
           n == Len(data)
           At(k) == <<win.cols[1] + (k % w), win.rows[1] + ((k \div w) % h)>>
           final(p) == Max({k \in 0 .. n - 1 : At(k) = p})
           D == {At(k) : k \in 0 .. n - 1}
<1>1. Streamed(win, data) = [p \in D |-> data[final(p) + 1]]
  BY DEF Streamed
<1>2. DOMAIN Streamed(win, data) = D
  <2> HIDE DEF final, D
  <2> QED BY <1>1
<1> HIDE DEF D, final, At
<1>3. w \in Nat \ {0} /\ h \in Nat \ {0} /\ w = Wide(win) /\ h = High(win)
  <2>1. w \in Nat \ {0} /\ h \in Nat \ {0}
    <3> DEFINE c1 == win.cols[1]  c2 == win.cols[2]  r1 == win.rows[1]  r2 == win.rows[2]
    <3>1. c1 \in Int /\ c2 \in Int /\ r1 \in Int /\ r2 \in Int
      BY DEF Window
    <3>2. c1 <= c2 /\ r1 <= r2
      BY DEF Window
    <3>3. w = c2 - c1 + 1 /\ h = r2 - r1 + 1
      OBVIOUS
    <3> HIDE DEF c1, c2, r1, r2, w, h
    <3> QED BY <3>1, <3>2, <3>3
  <2>2. w = Wide(win) /\ h = High(win)
    BY DEF Wide, High
  <2> QED BY <2>1, <2>2
<1> USE DEF D, final, At
<1> DEFINE x0 == win.cols[1]
           y0 == win.rows[1]
<1>4. /\ x0 \in Int /\ y0 \in Int
      /\ Area(win) = (x0 .. x0 + w - 1) \X (y0 .. y0 + h - 1)
  <2>1. win.cols[2] \in Int /\ win.rows[2] \in Int /\ x0 \in Int /\ y0 \in Int
    BY DEF Window
  <2>2. win.cols[2] = x0 + w - 1 /\ win.rows[2] = y0 + h - 1
    BY <2>1
  <2> HIDE DEF w, h
  <2> QED BY <2>1, <2>2 DEF Area
<1> HIDE DEF w, h, n, x0, y0
<1>5. D \subseteq Area(win)
  <2> SUFFICES ASSUME NEW k \in 0 .. n - 1 PROVE At(k) \in Area(win)
    OBVIOUS
  <2>1. k \in Nat
    BY DEF n
  <2>2. (k % w) \in 0 .. w - 1 /\ k \div w \in Nat
    BY <1>3, <2>1, DivMod
  <2>3. ((k \div w) % h) \in 0 .. h - 1
    BY <1>3, <2>2, DivMod
  <2> DEFINE a == k % w
             b == (k \div w) % h
  <2>4. <<x0 + a, y0 + b>> \in Area(win)
    <3> HIDE DEF a, b
    <3>1. a \in 0 .. w - 1 /\ b \in 0 .. h - 1
      BY <2>2, <2>3 DEF a, b
    <3> HIDE DEF At, final, D
    <3>2. x0 + a \in x0 .. x0 + w - 1 /\ y0 + b \in y0 .. y0 + h - 1
      BY <1>3, <1>4, <3>1
    <3> QED BY <1>4, <3>2
  <2> QED BY <2>4 DEF x0, y0
<1>6. n = 0 => D = {}
  OBVIOUS
<1>8. ASSUME NEW p \in Area(win)
      PROVE  /\ p[1] - x0 \in 0 .. w - 1 /\ p[2] - y0 \in 0 .. h - 1
             /\ p = <<x0 + (p[1] - x0), y0 + (p[2] - y0)>>
  <2> DEFINE a == p[1] - x0
             b == p[2] - y0
  <2> HIDE DEF At, D, final
  <2>1. a \in 0 .. w - 1 /\ b \in 0 .. h - 1 /\ p = <<x0 + a, y0 + b>>
    <3>1. p \in (x0 .. x0 + w - 1) \X (y0 .. y0 + h - 1)
      BY <1>4
    <3>2. p[1] \in x0 .. x0 + w - 1 /\ p[2] \in y0 .. y0 + h - 1
      BY <3>1
    <3>6. p = <<p[1], p[2]>>
      BY <3>1
    <3> DEFINE u == p[1]  v == p[2]
    <3>7. u \in x0 .. x0 + w - 1 /\ v \in y0 .. y0 + h - 1 /\ a = u - x0 /\ b = v - y0
      BY <3>2
    <3> HIDE DEF u, v, a, b
    <3>3. x0 \in Int /\ y0 \in Int /\ w \in Int /\ h \in Int
      BY <1>3, <1>4
    <3>4. a \in 0 .. w - 1 /\ b \in 0 .. h - 1
      BY <3>3, <3>7
    <3>5. u = x0 + a /\ v = y0 + b
      BY <3>3, <3>7
    <3> QED BY <3>4, <3>5, <3>6 DEF u, v
  <2> QED BY <2>1
<1>7. n = w * h => Area(win) \subseteq D
  <2> SUFFICES ASSUME n = w * h, NEW p \in Area(win) PROVE p \in D
    OBVIOUS
  <2> DEFINE a == p[1] - x0
             b == p[2] - y0
  <2> HIDE DEF At, D, final
  <2>1. a \in 0 .. w - 1 /\ b \in 0 .. h - 1 /\ p = <<x0 + a, y0 + b>>
    BY <1>8, Zenon
  <2> HIDE DEF a, b
  <2> DEFINE k == w * b + a
  <2>2. k \in 0 .. n - 1
    BY <1>3, <2>1, Within
  <2>3. k \in Int /\ k = w * b + a /\ b \in Nat
    BY <1>3, <2>1
  <2>7. w \in Nat \ {0} /\ a \in 0 .. w - 1
    BY <1>3, <2>1
  <2> HIDE DEF k
  <2>4. (b % h) = b
    BY <1>3, <2>1, ModSmall
  <2>6. (k % w) = a /\ k \div w = b
    BY <2>3, <2>7, DivModIs, Zenon
  <2>5. At(k) = p
    BY <2>1, <2>6, <2>4 DEF x0, y0, At
  <2> QED BY <2>2, <2>5 DEF D
<1> QED BY <1>2, <1>3, <1>5, <1>6, <1>7 DEF n

\* A row fills its window from left to right.
LEMMA StreamedRow ==
  ASSUME NEW win, Window(win), win.rows[1] = win.rows[2], NEW data, Len(data) \in Nat, Len(data) <= Wide(win)
  PROVE  \A p \in DOMAIN Streamed(win, data) : Streamed(win, data)[p] = data[p[1] - win.cols[1] + 1]
<1> DEFINE w == win.cols[2] - win.cols[1] + 1
           h == win.rows[2] - win.rows[1] + 1
           n == Len(data)
           At(k) == <<win.cols[1] + (k % w), win.rows[1] + ((k \div w) % h)>>
           final(p) == Max({k \in 0 .. n - 1 : At(k) = p})
           D == {At(k) : k \in 0 .. n - 1}
<1>1. Streamed(win, data) = [p \in D |-> data[final(p) + 1]]
  BY DEF Streamed
<1>2. w \in Nat \ {0} /\ w = Wide(win) /\ win.cols[1] \in Int
  BY DEF Window, Wide
<1> DEFINE x0 == win.cols[1]
<1>3. \A k \in 0 .. n - 1 : At(k)[1] = x0 + k
  <2> SUFFICES ASSUME NEW k \in 0 .. n - 1 PROVE x0 + (k % w) = x0 + k
    OBVIOUS
  <2>1. k \in 0 .. w - 1
    BY <1>2
  <2> HIDE DEF w
  <2> QED BY <1>2, <2>1, ModSmall
<1> HIDE DEF w, h, x0, At
<1>4. ASSUME NEW k \in 0 .. n - 1
      PROVE  final(At(k)) = k
  <2> DEFINE K == {m \in 0 .. n - 1 : At(m) = At(k)}
  <2>1. K = {k}
    <3>1. \A m \in 0 .. n - 1 : At(m) = At(k) => x0 + m = x0 + k
      BY <1>3
    <3> QED BY <1>2, <3>1 DEF x0
  <2>2. Max({k}) = k
    BY DEF Max
  <2> QED BY <2>1, <2>2
<1> SUFFICES ASSUME NEW k \in 0 .. n - 1
             PROVE  data[final(At(k)) + 1] = data[At(k)[1] - x0 + 1]
  <2> HIDE DEF final
  <2> QED BY <1>1 DEF x0
<1>5. final(At(k)) = k /\ At(k)[1] = x0 + k
  BY <1>3, <1>4
<1>6. k + 1 = (x0 + k) - x0 + 1
  BY <1>2 DEF x0
<1> HIDE DEF final
<1> QED BY <1>5, <1>6

Sent(job, cut) == [i \in DOMAIN job.parts |-> IF Obeyed(cut, 5 + i) THEN job.parts[i] ELSE << >>]

\* A job that is not cut short sends all its data, one whose window is not set none (st7796s_send_data()).
LEMMA SentData ==
  ASSUME NEW job \in Jobs, NEW cut, cut.at \in Int
  PROVE  /\ FlattenSeq(Sent(job, cut)) \in Seq(Int)
         /\ cut.at <= 5 => Len(FlattenSeq(Sent(job, cut))) = 0
         /\ cut.at > Transfers(job) => FlattenSeq(Sent(job, cut)) = FlattenSeq(job.parts)
<1> DEFINE n == Len(job.parts)
           ds == Sent(job, cut)
<1>1. job.parts \in Seq(Seq(Int)) /\ n \in Nat /\ DOMAIN job.parts = 1 .. n
  BY DEF Jobs
<1>2. ds = [i \in 1 .. n |-> IF Obeyed(cut, 5 + i) THEN job.parts[i] ELSE << >>]
  BY <1>1 DEF Sent
<1> HIDE DEF n, ds
<1>3. \A i \in 1 .. n : job.parts[i] \in Seq(Int) /\ << >> \in Seq(Int)
  BY <1>1 DEF n
<1>4. ds \in [1 .. n -> Seq(Int)]
  BY <1>2, <1>3
<1>5. FlattenSeq(ds) \in Seq(Int) /\ ToSet(FlattenSeq(ds)) = UNION {ToSet(ds[i]) : i \in 1 .. n}
  BY <1>1, <1>4, FlatSet
<1>6. ASSUME cut.at <= 5
      PROVE  Len(FlattenSeq(ds)) = 0
  <2>1. \A i \in 1 .. n : ds[i] = << >>
    BY <1>1, <1>2, <1>6 DEF Obeyed
  <2>2. ToSet(<< >>) = {}
    BY DEF ToSet
  <2>3. ToSet(FlattenSeq(ds)) = {}
    BY <1>5, <2>1, <2>2
  <2> DEFINE f == FlattenSeq(ds)
  <2> HIDE DEF f
  <2>4. \A i \in DOMAIN f : f[i] \in ToSet(f)
    BY DEF ToSet
  <2>5. f \in Seq(Int) /\ ToSet(f) = {}
    BY <1>5, <2>3 DEF f
  <2>6. Len(f) \in Nat /\ DOMAIN f = 1 .. Len(f)
    BY <2>5
  <2>7. Len(f) # 0 => 1 \in DOMAIN f
    BY <2>6
  <2> QED BY <2>4, <2>5, <2>7 DEF f
<1>7. ASSUME cut.at > Transfers(job)
      PROVE  ds = job.parts
  <2>1. \A i \in 1 .. n : ds[i] = job.parts[i]
    BY <1>1, <1>2, <1>7 DEF Obeyed, Transfers, n
  <2>2. ds = [i \in 1 .. n |-> ds[i]]
    BY <1>2
  <2>3. job.parts = [i \in 1 .. n |-> job.parts[i]]
    BY <1>1 DEF n
  <2> QED BY <2>1, <2>2, <2>3
<1> QED BY <1>5, <1>6, <1>7 DEF ds

\* A job of one part sends it or nothing.
LEMMA SentRow ==
  ASSUME NEW job \in Jobs, NEW cut, OneRow(job)
  PROVE  FlattenSeq(Sent(job, cut)) \in {job.parts[1], << >>}
<1>1. job.parts \in Seq(Seq(Int)) /\ job.parts = <<job.parts[1]>>
  BY DEF Jobs, OneRow
<1> DEFINE d == job.parts[1]
<1>2. DOMAIN job.parts = {1}
  <2> HIDE DEF d
  <2>1. DOMAIN <<d>> = {1}
    OBVIOUS
  <2> QED BY <1>1, <2>1 DEF d
<1>3. Sent(job, cut) \in {<<d>>, << << >> >>}
  BY <1>2 DEF Sent
<1> QED BY <1>3, FlatOne

\* What one job writes: nothing outside its window, all of it when nothing fails, and over that
\* nothing is lost of what was there.
Writes(job, cut, before, after) ==
  /\ DOMAIN after \subseteq DOMAIN before \cup Area(job)
  /\ DOMAIN before \subseteq DOMAIN after
  /\ cut.at > Transfers(job) => Area(job) \subseteq DOMAIN after
  /\ OneRow(job) => \A p \in DOMAIN after :
                      \/ p \in DOMAIN before /\ after[p] = before[p]
                      \/ p \in Area(job) /\ after[p] = job.parts[1][p[1] - job.cols[1] + 1]

\* A job writes within its window, and all of it when no transfer fails.
LEMMA PlayedJob ==
  ASSUME NEW s, NEW job \in Jobs, NEW cut, cut.at \in Int
  PROVE  Writes(job, cut, s.out, Played(s, job, cut).out)
<1> DEFINE win == SetAddressWindow(s.win, job, cut)
           data == FlattenSeq(Sent(job, cut))
           written == Streamed(win, data)
           out == Over(s.out, written)
<1>1. Played(s, job, cut).out = out
  BY DEF Played, Sent
<1>2. data \in Seq(Int) /\ Len(data) \in Nat
  BY SentData
<1>3. /\ DOMAIN out = DOMAIN s.out \cup DOMAIN written
      /\ \A p \in DOMAIN out : out[p] = IF p \in DOMAIN written THEN written[p] ELSE s.out[p]
  <2> HIDE DEF written
  <2> QED BY DEF Over
<1> HIDE DEF out
<1>4. CASE cut.at <= 5
  <2>1. Len(data) = 0
    BY <1>4, SentData
  <2>2. DOMAIN written = {}
    <3>1. {k \in 0 .. Len(data) - 1 : TRUE} = {}
      BY <2>1
    <3>2. 0 .. Len(data) - 1 = {}
      BY <2>1
    <3> HIDE DEF win, data
    <3> QED BY <3>2 DEF Streamed
  <2>3. ~(cut.at > Transfers(job))
    <3>1. Len(job.parts) \in Nat
      BY DEF Jobs
    <3> QED BY <1>4, <3>1 DEF Transfers
  <2> HIDE DEF written
  <2> QED BY <1>1, <1>3, <2>2, <2>3 DEF Writes
<1>5. CASE cut.at > 5
  <2>1. win.cols = job.cols /\ win.rows = job.rows
    BY <1>5 DEF SetAddressWindow, Obeyed
  <2>2. Window(win) /\ Area(win) = Area(job) /\ Wide(win) = Wide(job) /\ High(win) = High(job)
    BY <2>1 DEF Window, Jobs, Area, Wide, High
  <2> HIDE DEF win
  <2>3. DOMAIN written \subseteq Area(job)
    BY <1>2, <2>2, StreamedIn
  <2>4. cut.at > Transfers(job) => Area(job) \subseteq DOMAIN written
    <3> SUFFICES ASSUME cut.at > Transfers(job) PROVE Area(job) \subseteq DOMAIN written
      OBVIOUS
    <3>1. Len(data) = Wide(job) * High(job)
      BY SentData DEF Jobs
    <3> HIDE DEF data
    <3> QED BY <1>2, <2>2, <3>1, StreamedIn
  <2>5. OneRow(job) => \A p \in DOMAIN written : written[p] = job.parts[1][p[1] - job.cols[1] + 1]
    <3> SUFFICES ASSUME OneRow(job) PROVE \A p \in DOMAIN written : written[p] = job.parts[1][p[1] - job.cols[1] + 1]
      OBVIOUS
    <3>1. data \in {job.parts[1], << >>}
      BY SentRow
    <3>2. CASE data = << >>
      <4>1. 0 .. Len(data) - 1 = {}
        BY <3>2
      <4>2. DOMAIN written = {}
        <5> HIDE DEF data
        <5> QED BY <4>1 DEF Streamed
      <4> QED BY <4>2
    <3>3. CASE data = job.parts[1]
      <4>1. FlattenSeq(job.parts) = job.parts[1]
        BY FlatOne DEF OneRow
      <4>2. Len(data) = Wide(win) * High(win)
        BY <2>2, <3>3, <4>1 DEF Jobs
      <4>3. High(win) = 1 /\ Wide(win) \in Nat /\ win.rows[1] = win.rows[2]
        BY <2>1, <2>2 DEF OneRow, High, Wide, Window
      <4>4. Len(data) <= Wide(win)
        BY <4>2, <4>3
      <4> HIDE DEF data
      <4>5. \A p \in DOMAIN written : written[p] = data[p[1] - win.cols[1] + 1]
        BY <1>2, <2>2, <4>3, <4>4, StreamedRow
      <4> QED BY <2>1, <3>3, <4>5
    <3> QED BY <3>1, <3>2, <3>3
  <2> HIDE DEF written
  <2> QED BY <1>1, <1>3, <2>3, <2>4, <2>5 DEF Writes
<1> QED BY <1>4, <1>5

\* The drawing of Shown, job by job.
Cut(jobs, cut, j) == IF j = cut.job THEN cut ELSE Whole(jobs[j])
Plays(jobs, cut, win, m, f) ==
  f = [j \in 0 .. m |-> IF j = 0 THEN [win |-> win, out |-> Blank] ELSE Played(f[j - 1], jobs[j], Cut(jobs, cut, j))]

\* The jobs of a drawing are played one after another.
LEMMA Playing ==
  ASSUME NEW jobs, Len(jobs) \in Nat, NEW cut, NEW win
  PROVE  \E f : Plays(jobs, cut, win, Len(jobs), f) /\ Shown(jobs, cut, win) = f[Len(jobs)].out
<1> DEFINE N == Len(jobs)
           e(h, j) == IF j = 0 THEN [win |-> win, out |-> Blank] ELSE Played(h[j - 1], jobs[j], Cut(jobs, cut, j))
           UpTo(m, f) == f = [j \in 0 .. m |-> e(f, j)]
           S == {m \in Nat : \E f : UpTo(m, f)}
<1>1. 0 \in S
  <2> DEFINE f == [j \in 0 .. 0 |-> [win |-> win, out |-> Blank]]
  <2>1. UpTo(0, f)
    OBVIOUS
  <2> HIDE DEF f, UpTo
  <2> QED BY <2>1
<1>2. \A m \in Nat : m \in S => m + 1 \in S
  <2> SUFFICES ASSUME NEW m \in Nat, m \in S PROVE m + 1 \in S
    OBVIOUS
  <2> PICK f : UpTo(m, f)
    OBVIOUS
  <2> DEFINE g == [j \in 0 .. m + 1 |-> e(f, j)]
  <2>1. \A j \in 0 .. m : f[j] = e(f, j)
    <3> HIDE DEF e
    <3> QED OBVIOUS
  <2>2. \A j \in 0 .. m : g[j] = f[j]
    <3> HIDE DEF e, UpTo
    <3> QED BY <2>1
  <2>3. \A j \in 0 .. m + 1 : e(f, j) = e(g, j)
    <3>1. \A j \in 0 .. m + 1 : j = 0 \/ j - 1 \in 0 .. m
      OBVIOUS
    <3> HIDE DEF g, UpTo
    <3> QED BY <2>2, <3>1
  <2>4. UpTo(m + 1, g)
    <3>1. g = [j \in 0 .. m + 1 |-> e(g, j)]
      <4> HIDE DEF e
      <4> QED BY <2>3
    <3> HIDE DEF g
    <3> QED BY <3>1
  <2> HIDE DEF g, UpTo
  <2> QED BY <2>4
<1>3. \E f : UpTo(N, f)
  <2> HIDE DEF UpTo, N
  <2>1. Nat \subseteq S
    <3> HIDE DEF S
    <3> QED BY <1>1, <1>2, Induction
  <2> QED BY <2>1 DEF N
<1> DEFINE after == CHOOSE f : UpTo(N, f)
<1>4. UpTo(N, after)
  BY <1>3
<1>5. Shown(jobs, cut, win) = after[N].out
  BY DEF Shown, Cut
<1> QED BY <1>4, <1>5 DEF Plays

\* What a drawing writes: nothing but what its jobs cover, and everything of a job that does not fail;
\* in rows, every pixel from the row of a job that covers it.
LEMMA ShownJobs ==
  ASSUME NEW jobs \in Seq(Jobs), NEW cut, cut.at \in Int, NEW win
  PROVE  LET out == Shown(jobs, cut, win) IN
         /\ DOMAIN out \subseteq Covers(jobs)
         /\ \A j \in DOMAIN jobs : j # cut.job => Area(jobs[j]) \subseteq DOMAIN out
         /\ (\A job \in ToSet(jobs) : OneRow(job)) =>
              \A p \in DOMAIN out : \E job \in ToSet(jobs) :
                 p \in Area(job) /\ out[p] = job.parts[1][p[1] - job.cols[1] + 1]
<1> DEFINE N == Len(jobs)
<1>1. N \in Nat /\ DOMAIN jobs = 1 .. N /\ \A j \in 1 .. N : jobs[j] \in Jobs /\ jobs[j] \in ToSet(jobs)
  BY DEF ToSet
<1>2. PICK f : Plays(jobs, cut, win, N, f) /\ Shown(jobs, cut, win) = f[N].out
  BY <1>1, Playing
<1> HIDE DEF N
<1> DEFINE e(j) == IF j = 0 THEN [win |-> win, out |-> Blank] ELSE Played(f[j - 1], jobs[j], Cut(jobs, cut, j))
<1>3. \A j \in 0 .. N : f[j] = e(j)
  <2>1. f = [j \in 0 .. N |-> e(j)]
    BY <1>2 DEF Plays
  <2> HIDE DEF e
  <2> QED BY <2>1
<1> DEFINE Rows == \A job \in ToSet(jobs) : OneRow(job)
           Ok(m) == /\ DOMAIN f[m].out \subseteq Covers(jobs)
                    /\ \A j \in 1 .. m : j # cut.job => Area(jobs[j]) \subseteq DOMAIN f[m].out
                    /\ Rows => \A p \in DOMAIN f[m].out : \E job \in ToSet(jobs) :
                                  p \in Area(job) /\ f[m].out[p] = job.parts[1][p[1] - job.cols[1] + 1]
           S == {m \in Nat : m \in 0 .. N => Ok(m)}
<1>4. 0 \in S
  <2>1. f[0].out = Blank
    BY <1>1, <1>3
  <2>2. DOMAIN Blank = {}
    BY DEF Blank
  <2>3. Ok(0)
    BY <2>1, <2>2
  <2> HIDE DEF Ok
  <2> QED BY <2>3
<1>5. \A m \in Nat : m \in S => m + 1 \in S
  <2> HIDE DEF Ok
  <2> SUFFICES ASSUME NEW m \in Nat, m \in 0 .. N => Ok(m), m + 1 \in 0 .. N PROVE Ok(m + 1)
    OBVIOUS
  <2> DEFINE job == jobs[m + 1]
             c == Cut(jobs, cut, m + 1)
             s == f[m]
             t == f[m + 1]
  <2>1. Ok(m) /\ m + 1 \in 1 .. N /\ job \in Jobs /\ job \in ToSet(jobs)
    BY <1>1
  <2>2. c.at \in Int /\ (m + 1 # cut.job => c.at > Transfers(job))
    <3>1. Transfers(job) \in Int
      BY <2>1 DEF Transfers, Jobs
    <3> HIDE DEF job
    <3> QED BY <3>1 DEF Cut, Whole, job
  <2>3. t = Played(s, job, c)
    <3>1. t = e(m + 1)
      <4> HIDE DEF e
      <4> QED BY <1>3
    <3>2. m + 1 # 0 /\ (m + 1) - 1 = m
      OBVIOUS
    <3> QED BY <3>1, <3>2
  <2> HIDE DEF job, c, s, t, e
  <2>4. Writes(job, c, s.out, t.out)
    BY <2>1, <2>2, <2>3, PlayedJob
  <2>5. /\ DOMAIN s.out \subseteq Covers(jobs)
        /\ \A j \in 1 .. m : j # cut.job => Area(jobs[j]) \subseteq DOMAIN s.out
        /\ Rows => \A p \in DOMAIN s.out : \E k \in ToSet(jobs) :
                     p \in Area(k) /\ s.out[p] = k.parts[1][p[1] - k.cols[1] + 1]
    BY <2>1 DEF Ok, s
  <2>6. Area(job) \subseteq Covers(jobs)
    BY <2>1 DEF Covers
  <2>7. DOMAIN t.out \subseteq Covers(jobs)
    BY <2>4, <2>5, <2>6 DEF Writes
  <2>8. \A j \in 1 .. m + 1 : j # cut.job => Area(jobs[j]) \subseteq DOMAIN t.out
    <3>1. \A j \in 1 .. m + 1 : j \in 1 .. m \/ j = m + 1
      OBVIOUS
    <3> QED BY <2>2, <2>4, <2>5, <3>1 DEF job, Writes
  <2>9. Rows => \A p \in DOMAIN t.out : \E k \in ToSet(jobs) :
                  p \in Area(k) /\ t.out[p] = k.parts[1][p[1] - k.cols[1] + 1]
    BY <2>1, <2>4, <2>5 DEF Writes
  <2> QED BY <2>7, <2>8, <2>9 DEF Ok, t
<1>6. Ok(N)
  <2>1. Nat \subseteq S
    <3> HIDE DEF S
    <3> QED BY <1>4, <1>5, Induction
  <2> HIDE DEF Ok
  <2> QED BY <1>1, <2>1
<1> QED BY <1>1, <1>2, <1>6

-----------------------------------------------------------------------------
(* Drawings: jobs one after another, pixels and filled rectangles *)

\* Multiples keep their order.
LEMMA TimesLess ==
  ASSUME NEW c \in Nat, NEW a \in Int, NEW b \in Int, a <= b
  PROVE  a * c <= b * c /\ a * c \in Int /\ (a + 1) * c = a * c + c
OBVIOUS

\* A quotient rounded up.
LEMMA CeilDiv ==
  ASSUME NEW c \in Nat \ {0}, NEW t \in Nat \ {0}, NEW n, n = (t + c - 1) \div c
  PROVE  n \in Nat \ {0} /\ t <= n * c /\ (n - 1) * c < t
<1> DEFINE k == t + c - 1
           m == k % c
<1>1. k \in Nat /\ n = k \div c
  OBVIOUS
<1> HIDE DEF k
<1>2. m \in 0 .. c - 1 /\ n \in Nat /\ k = c * n + m
  BY <1>1, DivMod
<1> HIDE DEF m
<1>3. c * n = n * c /\ (n - 1) * c = n * c - c
  BY <1>2
<1> DEFINE x == n * c
<1>4. x \in Int /\ k = x + m /\ (n - 1) * c = x - c
  BY <1>2, <1>3
<1>5. n # 0
  <2>1. n = 0 => x = 0
    OBVIOUS
  <2> HIDE DEF x
  <2> QED BY <1>2, <1>4, <2>1 DEF k
<1> HIDE DEF x
<1>6. t <= x /\ x - c < t
  BY <1>2, <1>4 DEF k
<1> QED BY <1>2, <1>4, <1>5, <1>6 DEF x

\* A fill sends as many pixels as its window has, whatever the size of the buffer.
LEMMA ChunksFill ==
  ASSUME NEW total \in Nat \ {0}
  PROVE  Chunks(total) \in Seq(Seq(Int)) /\ Len(FlattenSeq(Chunks(total))) = total
<1> DEFINE n == (total + Chunk - 1) \div Chunk
           size(i) == Lesser(Chunk, total - (i - 1) * Chunk)
           ds == Chunks(total)
           upTo(i) == Lesser(i * Chunk, total)
<1>1. Chunk \in Nat \ {0}
  BY PanelOK
<1>2. n \in Nat \ {0} /\ total <= n * Chunk /\ (n - 1) * Chunk < total
  BY <1>1, CeilDiv
<1>3. ds = [i \in 1 .. n |-> [k \in 1 .. size(i) |-> Paint]]
  BY DEF Chunks
<1> HIDE DEF n, ds
<1>4. \A i \in 1 .. n : (i - 1) * Chunk \in Int /\ (i - 1) * Chunk < total /\ i * Chunk = (i - 1) * Chunk + Chunk
  <2> SUFFICES ASSUME NEW i \in 1 .. n
               PROVE  (i - 1) * Chunk \in Int /\ (i - 1) * Chunk < total /\ i * Chunk = (i - 1) * Chunk + Chunk
    OBVIOUS
  <2> DEFINE a == i - 1
  <2>1. a \in Int /\ n - 1 \in Int /\ a <= n - 1 /\ a + 1 = i
    BY <1>2
  <2> HIDE DEF a
  <2>2. a * Chunk <= (n - 1) * Chunk /\ a * Chunk \in Int /\ (a + 1) * Chunk = a * Chunk + Chunk
    BY <1>1, <1>2, <2>1, TimesLess
  <2>3. (n - 1) * Chunk \in Int
    BY <1>1, <1>2
  <2>4. a * Chunk < total
    BY <1>2, <2>2, <2>3
  <2> QED BY <2>1, <2>2, <2>4 DEF a
<1>5. \A i \in 1 .. n : size(i) \in Nat /\ upTo(i) = upTo(i - 1) + size(i) /\ upTo(i) \in Int
  <2> SUFFICES ASSUME NEW i \in 1 .. n
               PROVE  size(i) \in Nat /\ upTo(i) = upTo(i - 1) + size(i) /\ upTo(i) \in Int
    OBVIOUS
  <2> DEFINE x == (i - 1) * Chunk
  <2>1. x \in Int /\ x < total /\ i * Chunk = x + Chunk
    BY <1>4
  <2> HIDE DEF x
  <2> QED BY <1>1, <2>1 DEF Lesser, x
<1> HIDE DEF upTo, size
<1>6. \A i \in 1 .. n : ds[i] \in Seq(Int) /\ Len(ds[i]) = size(i)
  <2> SUFFICES ASSUME NEW i \in 1 .. n PROVE ds[i] \in Seq(Int) /\ Len(ds[i]) = size(i)
    OBVIOUS
  <2>1. ds[i] = [k \in 1 .. size(i) |-> Paint] /\ size(i) \in Nat /\ Paint \in Int
    BY <1>3, <1>5 DEF Paint
  <2> QED BY <2>1
<1>7. ds \in Seq(Seq(Int)) /\ Len(ds) = n
  <2>1. ds \in [1 .. n -> Seq(Int)] /\ n \in Nat
    BY <1>2, <1>3, <1>6
  <2> QED BY <2>1
<1>8. PICK f : Flattened(ds, f) /\ FlattenSeq(ds) = f[n]
  BY <1>2, <1>7, Flattening
<1> DEFINE e(i) == IF i = 1 THEN ds[i] ELSE f[i - 1] \o ds[i]
<1>9. \A i \in 1 .. n : f[i] = e(i)
  <2>1. f = [i \in 1 .. n |-> e(i)]
    BY <1>7, <1>8 DEF Flattened
  <2> HIDE DEF e
  <2> QED BY <2>1
<1> DEFINE Ok(i) == f[i] \in Seq(Int) /\ Len(f[i]) = upTo(i)
           S == {i \in Nat : i \in 1 .. n => Ok(i)}
<1>10. 0 \in S
  OBVIOUS
<1>11. \A i \in Nat : i \in S => i + 1 \in S
  <2> HIDE DEF Ok
  <2> SUFFICES ASSUME NEW i \in Nat, i \in 1 .. n => Ok(i), i + 1 \in 1 .. n PROVE Ok(i + 1)
    OBVIOUS
  <2>1. ds[i + 1] \in Seq(Int) /\ Len(ds[i + 1]) = size(i + 1)
    BY <1>6
  <2>2. upTo(i + 1) = upTo(i) + size(i + 1)
    <3>1. (i + 1) - 1 = i
      OBVIOUS
    <3> QED BY <1>5, <3>1
  <2>3. f[i + 1] = IF i = 0 THEN ds[i + 1] ELSE f[i] \o ds[i + 1]
    <3>1. f[i + 1] = e(i + 1)
      <4> HIDE DEF e
      <4> QED BY <1>9
    <3>2. (i + 1) - 1 = i /\ (i + 1 = 1 <=> i = 0)
      OBVIOUS
    <3> QED BY <3>1, <3>2
  <2> HIDE DEF e
  <2>4. CASE i = 0
    <3>1. upTo(i) = 0
      BY <1>1, <2>4 DEF upTo, Lesser
    <3>2. size(i + 1) \in Nat
      BY <1>5
    <3> QED BY <2>1, <2>2, <2>3, <2>4, <3>1, <3>2 DEF Ok
  <2>5. CASE i # 0
    <3>1. f[i] \in Seq(Int) /\ Len(f[i]) = upTo(i)
      <4>1. i \in 1 .. n
        BY <1>2, <2>5
      <4> QED BY <4>1 DEF Ok
    <3>2. f[i] \o ds[i + 1] \in Seq(Int) /\ Len(f[i] \o ds[i + 1]) = Len(f[i]) + Len(ds[i + 1])
      BY <2>1, <3>1, Joining
    <3> QED BY <2>1, <2>2, <2>3, <2>5, <3>1, <3>2 DEF Ok
  <2> QED BY <2>4, <2>5
<1>12. Ok(n)
  <2>1. Nat \subseteq S
    <3> HIDE DEF S
    <3> QED BY <1>10, <1>11, Induction
  <2> HIDE DEF Ok
  <2> QED BY <1>2, <2>1
<1>13. upTo(n) = total
  <2> DEFINE x == n * Chunk
  <2>1. x \in Int /\ total <= x
    BY <1>1, <1>2
  <2> HIDE DEF x
  <2> QED BY <2>1 DEF upTo, Lesser, x
<1> QED BY <1>7, <1>8, <1>12, <1>13 DEF ds

\* A drawing of one job.
LEMMA OneJob ==
  ASSUME NEW job \in Jobs
  PROVE  <<job>> \in Seq(Jobs) /\ ToSet(<<job>>) = {job} /\ Covers(<<job>>) = Area(job)
<1>1. <<job>> \in Seq(Jobs)
  OBVIOUS
<1>2. ToSet(<<job>>) = {job}
  BY DEF ToSet
<1>3. UNION {Area(j) : j \in {job}} = Area(job)
  OBVIOUS
<1> QED BY <1>1, <1>2, <1>3 DEF Covers

\* A drawing of none.
LEMMA NoJob == << >> \in Seq(Jobs) /\ ToSet(<< >>) = {} /\ Covers(<< >>) = {}
<1>1. ToSet(<< >>) = {}
  BY DEF ToSet
<1> QED BY <1>1 DEF Covers

\* Drawings one after another.
LEMMA AllCovers ==
  ASSUME NEW n \in Nat, NEW ds \in [1 .. n -> Seq(Jobs)]
  PROVE  /\ All(ds) \in Seq(Jobs)
         /\ ToSet(All(ds)) = UNION {ToSet(ds[i]) : i \in 1 .. n}
         /\ Covers(All(ds)) = UNION {Covers(ds[i]) : i \in 1 .. n}
<1>1. All(ds) \in Seq(Jobs) /\ ToSet(All(ds)) = UNION {ToSet(ds[i]) : i \in 1 .. n}
  BY FlatSet DEF All
<1> QED BY <1>1 DEF Covers

\* Drawings in any order.
LEMMA AllOfSet ==
  ASSUME NEW D, IsFiniteSet(D), D \subseteq Seq(Jobs)
  PROVE  /\ All(SetToSeq(D)) \in Seq(Jobs)
         /\ ToSet(All(SetToSeq(D))) = UNION {ToSet(d) : d \in D}
         /\ Covers(All(SetToSeq(D))) = UNION {Covers(d) : d \in D}
<1> DEFINE ds == SetToSeq(D)
           n == Cardinality(D)
<1>1. n \in Nat /\ ds \in [1 .. n -> D] /\ ToSet(ds) = D
  BY SetSeq
<1> HIDE DEF ds, n
<1>2. ds \in [1 .. n -> Seq(Jobs)] /\ D = {ds[i] : i \in 1 .. n}
  BY <1>1 DEF ToSet
<1>3. /\ UNION {Covers(ds[i]) : i \in 1 .. n} = UNION {Covers(d) : d \in D}
      /\ UNION {ToSet(ds[i]) : i \in 1 .. n} = UNION {ToSet(d) : d \in D}
  BY <1>2
<1> QED BY <1>1, <1>2, <1>3, AllCovers DEF ds

-----------------------------------------------------------------------------
(* Pixels and rectangles *)

\* A clip of a frame, and what can be seen through it.
Clip(c) == c \in [x : Nat, y : Nat, w : Nat, h : Nat] /\ Fits(c.x + c.w - 1) /\ Fits(c.y + c.h - 1)
View(c) == {p \in Panel : Clipped(c, p[1], p[2])}

\* The panel, in the numbers of the primitives.
LEMMA Sizes == PanelW \in Nat \ {0} /\ PanelH \in Nat \ {0} /\ PanelW <= Int16Max /\ PanelH <= Int16Max /\ Int16Max \in Nat
BY PanelOK, GraphicsOK

\* The whole panel is a clip.
LEMMA FullIsClip == Clip(FullClip)
BY Sizes DEF Clip, FullClip, Rect, Fits

\* HAL_GFX_DrawPixel() draws the pixel if clip and panel let it.
LEMMA PixelCovers ==
  ASSUME NEW c, NEW x \in Int, NEW y \in Int
  PROVE  DrawPixel(c, x, y) \in Seq(Jobs) /\ Covers(DrawPixel(c, x, y)) = {<<x, y>>} \cap View(c)
<1>1. CASE Clipped(c, x, y) /\ <<x, y>> \in Panel
  <2> DEFINE job == Job(x, y, x, y, << <<Paint>> >>)
  <2>1. /\ job.cols = <<x, x>> /\ job.rows = <<y, y>> /\ job.parts = << <<Paint>> >>
        /\ job \in [cols : Int \X Int, rows : Int \X Int, parts : Seq(Seq(Int))]
    BY DEF Job, Paint
  <2>2. DrawPixel(c, x, y) = <<job>>
    BY <1>1 DEF DrawPixel, PanelPixel
  <2> HIDE DEF job
  <2>3. Area(job) = {<<x, y>>} /\ Wide(job) = 1 /\ High(job) = 1
    <3>1. x .. x = {x} /\ y .. y = {y}
      OBVIOUS
    <3> QED BY <2>1, <3>1 DEF Area, Wide, High
  <2>4. Len(FlattenSeq(job.parts)) = 1
    <3>1. FlattenSeq(job.parts) = <<Paint>>
      BY <2>1, FlatOne
    <3> QED BY <3>1
  <2>5. job \in Jobs
    BY <1>1, <2>1, <2>3, <2>4 DEF Jobs
  <2>6. <<x, y>> \in View(c)
    BY <1>1 DEF View
  <2> QED BY <2>2, <2>3, <2>5, <2>6, OneJob
<1>2. CASE ~(Clipped(c, x, y) /\ <<x, y>> \in Panel)
  <2>1. DrawPixel(c, x, y) = << >>
    BY <1>2 DEF DrawPixel, PanelPixel, Nothing
  <2>2. <<x, y>> \notin View(c)
    BY <1>2 DEF View
  <2> QED BY <2>1, <2>2, NoJob
<1> QED BY <1>1, <1>2

\* A rectangle of the driver is what of it lies on the panel.
LEMMA PanelFills ==
  ASSUME NEW x \in Nat, NEW y \in Nat, NEW w \in Int, NEW h \in Int
  PROVE  /\ PanelFillRect(x, y, w, h) \in Seq(Jobs)
         /\ Covers(PanelFillRect(x, y, w, h)) = Box(x, y, w, h) \cap Panel
<1>1. CASE w > 0 /\ h > 0 /\ <<x, y>> \in Panel
  <2> DEFINE x2 == Lesser(x + w - 1, PanelW - 1)
             y2 == Lesser(y + h - 1, PanelH - 1)
             total == (x2 - x + 1) * (y2 - y + 1)
             job == Job(x, y, x2, y2, Chunks(total))
  <2>1. /\ x2 \in Int /\ y2 \in Int /\ x <= x2 /\ y <= y2
        /\ Box(x, y, w, h) \cap Panel = (x .. x2) \X (y .. y2)
        /\ (x .. x2) \X (y .. y2) \subseteq Panel
    <3>1. x2 \in Int /\ y2 \in Int /\ x <= x2 /\ y <= y2
      BY <1>1, Sizes DEF Panel, Lesser
    <3>2. /\ (x .. x + w - 1) \cap (0 .. PanelW - 1) = x .. x2
          /\ (y .. y + h - 1) \cap (0 .. PanelH - 1) = y .. y2
      BY <1>1, Sizes DEF Panel, Lesser
    <3> HIDE DEF x2, y2
    <3> QED BY <3>1, <3>2 DEF Box, Panel
  <2>2. PanelFillRect(x, y, w, h) = <<job>>
    BY <1>1 DEF PanelFillRect
  <2> HIDE DEF x2, y2
  <2>3. total \in Nat \ {0}
    <3> DEFINE a == x2 - x + 1
               b == y2 - y + 1
    <3>1. a \in Nat \ {0} /\ b \in Nat \ {0}
      BY <2>1
    <3> HIDE DEF a, b
    <3>2. a * b \in Nat \ {0}
      BY <3>1
    <3> QED BY <3>2 DEF a, b
  <2> HIDE DEF total
  <2>4. Chunks(total) \in Seq(Seq(Int)) /\ Len(FlattenSeq(Chunks(total))) = total
    BY <2>3, ChunksFill
  <2>5. /\ job.cols = <<x, x2>> /\ job.rows = <<y, y2>> /\ job.parts = Chunks(total)
        /\ job \in [cols : Int \X Int, rows : Int \X Int, parts : Seq(Seq(Int))]
    BY <2>1, <2>4 DEF Job
  <2> HIDE DEF job
  <2>6. Area(job) = (x .. x2) \X (y .. y2) /\ Wide(job) * High(job) = total
    BY <2>5 DEF Area, Wide, High, total
  <2>7. job \in Jobs
    BY <2>1, <2>4, <2>5, <2>6 DEF Jobs
  <2> QED BY <2>1, <2>2, <2>6, <2>7, OneJob
<1>2. CASE ~(w > 0 /\ h > 0 /\ <<x, y>> \in Panel)
  <2>1. PanelFillRect(x, y, w, h) = << >>
    BY <1>2 DEF PanelFillRect
  <2>2. Box(x, y, w, h) \cap Panel = {}
    BY <1>2, Sizes DEF Box, Panel
  <2> QED BY <2>1, <2>2, NoJob
<1> QED BY <1>1, <1>2

\* A number that fits is what its conversion gives.
LEMMA Int16Is ==
  ASSUME NEW n, Fits(n)
  PROVE  Int16(n) = n /\ n \in Int
<1> DEFINE H == Int16Max + 1
           w == 2 * H
           k == n + Int16Max + 1
<1>1. H \in Nat \ {0} /\ n \in Int /\ w \in Nat \ {0} /\ k \in 0 .. w - 1 /\ k = n + H
  BY Sizes DEF Fits
<1>2. Int16(n) = (k % w) - H
  BY DEF Int16
<1> HIDE DEF H, w, k
<1>3. (k % w) = k
  BY <1>1, ModSmall
<1> QED BY <1>1, <1>2, <1>3

\* A rectangle with its far corner within int16_t, or an empty one.
Sized(x, y, w, h) ==
  /\ x \in Int /\ y \in Int /\ w \in Int /\ h \in Int
  /\ w > 0 /\ h > 0 => Fits(x + w - 1) /\ Fits(y + h - 1)

\* A figure within int16_t has its far corner there.
LEMMA BoxedIsSized ==
  ASSUME NEW x, NEW y, NEW w, NEW h, Boxed(x, y, w, h)
  PROVE  Sized(x, y, w, h)
BY Sizes DEF Boxed, Spans, Fits, Sized

\* The rectangle cut to the clip.
LEMMA Intersected ==
  ASSUME NEW c, Clip(c), NEW x, NEW y, NEW w, NEW h, Sized(x, y, w, h)
  PROVE  LET r == RectIntersect(c, x, y, w, h) IN
         /\ r \in [x : Nat, y : Nat, w : Nat, h : Nat]
         /\ Box(r.x, r.y, r.w, r.h) = {p \in Box(x, y, w, h) : Clipped(c, p[1], p[2])}
<1>1. x \in Int /\ y \in Int /\ w \in Int /\ h \in Int
  BY DEF Sized
<1>2. c.x \in Nat /\ c.y \in Nat /\ c.w \in Nat /\ c.h \in Nat
  BY DEF Clip
<1>3. Int16(c.x + c.w - 1) = c.x + c.w - 1 /\ Int16(c.y + c.h - 1) = c.y + c.h - 1
  BY Int16Is DEF Clip
<1>4. CASE w > 0 /\ h > 0
  <2>1. Int16(x + w - 1) = x + w - 1 /\ Int16(y + h - 1) = y + h - 1
    BY <1>1, <1>4, Int16Is DEF Sized
  <2> DEFINE x1 == Greater(x, c.x)
             x2 == Lesser(x + w - 1, c.x + c.w - 1)
             y1 == Greater(y, c.y)
             y2 == Lesser(y + h - 1, c.y + c.h - 1)
             r == IF x1 > x2 \/ y1 > y2 THEN Rect(0, 0, 0, 0) ELSE Rect(x1, y1, x2 - x1 + 1, y2 - y1 + 1)
  <2>2. RectIntersect(c, x, y, w, h) = r
    <3>1. ~(w <= 0) /\ ~(h <= 0)
      BY <1>1, <1>4
    <3> QED BY <1>3, <2>1, <3>1 DEF RectIntersect, CutTo
  <2>3. x1 \in Nat /\ x2 \in Int /\ y1 \in Nat /\ y2 \in Int
    BY <1>1, <1>2 DEF Greater, Lesser
  <2>4. {p \in Box(x, y, w, h) : Clipped(c, p[1], p[2])} = (x1 .. x2) \X (y1 .. y2)
    BY <1>1, <1>2 DEF Box, Clipped, Greater, Lesser
  <2> HIDE DEF x1, x2, y1, y2
  <2>5. r \in [x : Nat, y : Nat, w : Nat, h : Nat] /\ Box(r.x, r.y, r.w, r.h) = (x1 .. x2) \X (y1 .. y2)
    <3>1. CASE x1 > x2 \/ y1 > y2
      <4>1. (x1 .. x2) \X (y1 .. y2) = {}
        BY <2>3, <3>1
      <4>2. Box(0, 0, 0, 0) = {}
        BY DEF Box
      <4> QED BY <3>1, <4>1, <4>2 DEF Rect
    <3>2. CASE ~(x1 > x2 \/ y1 > y2)
      <4>1. x1 + (x2 - x1 + 1) - 1 = x2 /\ y1 + (y2 - y1 + 1) - 1 = y2
        BY <2>3
      <4>2. x2 - x1 + 1 \in Nat /\ y2 - y1 + 1 \in Nat
        BY <2>3, <3>2
      <4> QED BY <2>3, <3>2, <4>1, <4>2 DEF Rect, Box
    <3> QED BY <3>1, <3>2
  <2> QED BY <2>2, <2>4, <2>5
<1>5. CASE w <= 0 \/ h <= 0
  <2>1. RectIntersect(c, x, y, w, h) = Rect(0, 0, 0, 0)
    BY <1>5 DEF RectIntersect, CutTo
  <2>2. Box(x, y, w, h) = {} /\ Box(0, 0, 0, 0) = {}
    BY <1>1, <1>5 DEF Box
  <2> QED BY <2>1, <2>2 DEF Rect
<1> QED BY <1>1, <1>4, <1>5

\* HAL_GFX_FillRect() draws what of the rectangle clip and panel let through.
LEMMA FillCovers ==
  ASSUME NEW c, Clip(c), NEW x, NEW y, NEW w, NEW h, Sized(x, y, w, h)
  PROVE  FillRect(c, x, y, w, h) \in Seq(Jobs) /\ Covers(FillRect(c, x, y, w, h)) = Box(x, y, w, h) \cap View(c)
<1> DEFINE r == RectIntersect(c, x, y, w, h)
<1>1. /\ r \in [x : Nat, y : Nat, w : Nat, h : Nat]
      /\ Box(r.x, r.y, r.w, r.h) = {p \in Box(x, y, w, h) : Clipped(c, p[1], p[2])}
  BY Intersected
<1>2. FillRect(c, x, y, w, h) = PanelFillRect(r.x, r.y, r.w, r.h)
  BY DEF FillRect
<1> HIDE DEF r
<1>3. Box(r.x, r.y, r.w, r.h) \cap Panel = Box(x, y, w, h) \cap View(c)
  BY <1>1 DEF View
<1>4. /\ PanelFillRect(r.x, r.y, r.w, r.h) \in Seq(Jobs)
      /\ Covers(PanelFillRect(r.x, r.y, r.w, r.h)) = Box(r.x, r.y, r.w, r.h) \cap Panel
  <2> DEFINE a == r.x
             b == r.y
             u == r.w
             v == r.h
  <2>1. a \in Nat /\ b \in Nat /\ u \in Int /\ v \in Int
    BY <1>1
  <2> HIDE DEF a, b, u, v
  <2>2. PanelFillRect(a, b, u, v) \in Seq(Jobs) /\ Covers(PanelFillRect(a, b, u, v)) = Box(a, b, u, v) \cap Panel
    BY <2>1, PanelFills
  <2> QED BY <2>2 DEF a, b, u, v
<1> QED BY <1>2, <1>3, <1>4

-----------------------------------------------------------------------------
(* Rims, and the rectangle *)

\* A set of integers between two bounds has a least and a greatest element.
LEMMA Bounded ==
  ASSUME NEW S, NEW lo \in Int, NEW hi \in Int, S \subseteq lo .. hi, S # {}
  PROVE  /\ Min(S) \in S /\ \A y \in S : Min(S) <= y
         /\ Max(S) \in S /\ \A y \in S : y <= Max(S)
<1>1. \E m \in S : \A y \in S : m <= y
  <2> SUFFICES ASSUME \A m \in S : \E y \in S : y < m
               PROVE  FALSE
    OBVIOUS
  <2> DEFINE T == {n \in Nat : \A y \in S : y > lo + n}
  <2> DEFINE U == {n \in Nat : \A y \in S : y >= lo + n}
  <2>1. 0 \in U
    OBVIOUS
  <2>2. \A n \in Nat : n \in U => n + 1 \in U
    OBVIOUS
  <2>3. Nat \subseteq U
    <3> HIDE DEF U
    <3> QED BY <2>1, <2>2, Induction
  <2>4. PICK z \in S : TRUE
    OBVIOUS
  <2>5. z - lo + 1 \in Nat /\ z \in Int
    BY <2>4
  <2>6. z - lo + 1 \in U
    BY <2>3, <2>5
  <2> QED BY <2>4, <2>5, <2>6
<1>2. \E m \in S : \A y \in S : y <= m
  <2> SUFFICES ASSUME \A m \in S : \E y \in S : y > m
               PROVE  FALSE
    OBVIOUS
  <2> DEFINE U == {n \in Nat : \A y \in S : y <= hi - n}
  <2>1. 0 \in U
    OBVIOUS
  <2>2. \A n \in Nat : n \in U => n + 1 \in U
    OBVIOUS
  <2>3. Nat \subseteq U
    <3> HIDE DEF U
    <3> QED BY <2>1, <2>2, Induction
  <2>4. PICK z \in S : TRUE
    OBVIOUS
  <2>5. hi - z + 1 \in Nat /\ z \in Int
    BY <2>4
  <2>6. hi - z + 1 \in U
    BY <2>3, <2>5
  <2> QED BY <2>4, <2>5, <2>6
<1>3. Min(S) \in S /\ \A y \in S : Min(S) <= y
  <2>1. Min(S) = CHOOSE x \in S : \A y \in S : x <= y
    BY DEF Min
  <2> QED BY <1>1, <2>1
<1>4. Max(S) \in S /\ \A y \in S : Max(S) >= y
  <2>1. Max(S) = CHOOSE x \in S : \A y \in S : x >= y
    BY DEF Max
  <2>2. \E m \in S : \A y \in S : m >= y
    BY <1>2
  <2> QED BY <2>1, <2>2
<1> QED BY <1>3, <1>4

Between(S, lo, hi) == S \subseteq lo .. hi

\* The least and the greatest of a bounded set.
LEMMA Extreme ==
  ASSUME NEW S, NEW lo \in Int, NEW hi \in Int, Between(S, lo, hi), NEW m \in S
  PROVE  (m = Min(S) <=> \A y \in S : m <= y) /\ (m = Max(S) <=> \A y \in S : y <= m)
<1> DEFINE a == Min(S)
           b == Max(S)
<1>1. a \in S /\ (\A y \in S : a <= y) /\ b \in S /\ (\A y \in S : y <= b)
  BY Bounded DEF Between
<1>3. S \subseteq Int
  BY DEF Between
<1> HIDE DEF a, b
<1>2. (m = a <=> \A y \in S : m <= y) /\ (m = b <=> \A y \in S : y <= m)
  BY <1>1, <1>3
<1> QED BY <1>2 DEF a, b

\* Nothing of ps lies beyond p in its row, or in its column.
AtEdge(ps, p) ==
  \/ \A q \in ps : q[2] = p[2] => q[1] >= p[1]
  \/ \A q \in ps : q[2] = p[2] => q[1] <= p[1]
  \/ \A q \in ps : q[1] = p[1] => q[2] >= p[2]
  \/ \A q \in ps : q[1] = p[1] => q[2] <= p[2]

\* The rim of a set of pixels, without its rows and columns.
LEMMA RimIs ==
  ASSUME NEW ps, NEW a \in Int, NEW b \in Int, NEW c \in Int, NEW d \in Int, ps \subseteq (a .. b) \X (c .. d)
  PROVE  Rim(ps) = {p \in ps : AtEdge(ps, p)}
<1> SUFFICES ASSUME NEW p \in ps
             PROVE  LET row == {q[1] : q \in {r \in ps : r[2] = p[2]}}
                        col == {q[2] : q \in {r \in ps : r[1] = p[1]}}
                    IN  (p[1] \in {Min(row), Max(row)} \/ p[2] \in {Min(col), Max(col)}) <=> AtEdge(ps, p)
  BY DEF Rim
<1> DEFINE row == {q[1] : q \in {r \in ps : r[2] = p[2]}}
           col == {q[2] : q \in {r \in ps : r[1] = p[1]}}
<1>1. p[1] \in row /\ p[2] \in col /\ row \subseteq a .. b /\ col \subseteq c .. d
  OBVIOUS
<1>2. /\ (\A q \in ps : q[2] = p[2] => q[1] >= p[1]) <=> (\A y \in row : p[1] <= y)
      /\ (\A q \in ps : q[2] = p[2] => q[1] <= p[1]) <=> (\A y \in row : y <= p[1])
      /\ (\A q \in ps : q[1] = p[1] => q[2] >= p[2]) <=> (\A y \in col : p[2] <= y)
      /\ (\A q \in ps : q[1] = p[1] => q[2] <= p[2]) <=> (\A y \in col : y <= p[2])
  <2>1. \A u, v : u >= v <=> v <= u
    OBVIOUS
  <2> QED BY <2>1
<1> HIDE DEF row, col
<1> DEFINE u == p[1]
           v == p[2]
<1>3. u \in row /\ v \in col /\ Between(row, a, b) /\ Between(col, c, d)
  BY <1>1 DEF Between
<1> HIDE DEF u, v
<1>7. (u = Min(row) <=> \A y \in row : u <= y) /\ (u = Max(row) <=> \A y \in row : y <= u)
  BY <1>3, Extreme
<1>8. (v = Min(col) <=> \A y \in col : v <= y) /\ (v = Max(col) <=> \A y \in col : y <= v)
  BY <1>3, Extreme
<1> QED BY <1>2, <1>7, <1>8 DEF AtEdge, row, col, u, v

\* The rim of a rectangle is its four sides.
LEMMA RimOfBox ==
  ASSUME NEW x \in Int, NEW y \in Int, NEW w \in Nat \ {0}, NEW h \in Nat \ {0}
  PROVE  Rim(Box(x, y, w, h)) =
           UNION {Box(x, y, w, 1), Box(x, y + h - 1, w, 1), Box(x, y + 1, 1, h - 2), Box(x + w - 1, y + 1, 1, h - 2)}
<1> DEFINE ps == Box(x, y, w, h)
           x2 == x + w - 1
           y2 == y + h - 1
<1>1. x2 \in Int /\ y2 \in Int /\ x <= x2 /\ y <= y2 /\ ps = (x .. x2) \X (y .. y2)
  BY DEF Box
<1>2. /\ Box(x, y, w, 1) = (x .. x2) \X (y .. y)
      /\ Box(x, y2, w, 1) = (x .. x2) \X (y2 .. y2)
      /\ Box(x, y + 1, 1, h - 2) = (x .. x) \X (y + 1 .. y2 - 1)
      /\ Box(x2, y + 1, 1, h - 2) = (x2 .. x2) \X (y + 1 .. y2 - 1)
  <2>1. y + 1 - 1 = y /\ x + 1 - 1 = x /\ y2 + 1 - 1 = y2 /\ x2 + 1 - 1 = x2 /\ y + 1 + (h - 2) - 1 = y2 - 1
    OBVIOUS
  <2>2. y + 1 - 1 = y
    OBVIOUS
  <2> QED BY <2>1 DEF Box
<1> HIDE DEF ps, x2, y2
<1>3. Rim(ps) = {p \in ps : AtEdge(ps, p)}
  BY <1>1, RimIs
<1>4. \A p \in ps : AtEdge(ps, p) <=> p[1] = x \/ p[1] = x2 \/ p[2] = y \/ p[2] = y2
  <2> SUFFICES ASSUME NEW p \in ps PROVE AtEdge(ps, p) <=> p[1] = x \/ p[1] = x2 \/ p[2] = y \/ p[2] = y2
    OBVIOUS
  <2>1. p = <<p[1], p[2]>> /\ p[1] \in x .. x2 /\ p[2] \in y .. y2
    BY <1>1
  <2>2. <<x, p[2]>> \in ps /\ <<x2, p[2]>> \in ps /\ <<p[1], y>> \in ps /\ <<p[1], y2>> \in ps
    BY <1>1, <2>1
  <2>3. \A q \in ps : q[1] \in x .. x2 /\ q[2] \in y .. y2
    BY <1>1
  <2>4. (\A q \in ps : q[2] = p[2] => q[1] >= p[1]) <=> p[1] = x
    BY <1>1, <2>1, <2>2, <2>3
  <2>5. (\A q \in ps : q[2] = p[2] => q[1] <= p[1]) <=> p[1] = x2
    BY <1>1, <2>1, <2>2, <2>3
  <2>6. (\A q \in ps : q[1] = p[1] => q[2] >= p[2]) <=> p[2] = y
    BY <1>1, <2>1, <2>2, <2>3
  <2>7. (\A q \in ps : q[1] = p[1] => q[2] <= p[2]) <=> p[2] = y2
    BY <1>1, <2>1, <2>2, <2>3
  <2> QED BY <2>4, <2>5, <2>6, <2>7 DEF AtEdge
<1>5. {p \in ps : p[1] = x \/ p[1] = x2 \/ p[2] = y \/ p[2] = y2} =
        UNION {(x .. x2) \X (y .. y), (x .. x2) \X (y2 .. y2), (x .. x) \X (y + 1 .. y2 - 1), (x2 .. x2) \X (y + 1 .. y2 - 1)}
  BY <1>1
<1> QED BY <1>2, <1>3, <1>4, <1>5 DEF ps, x2, y2

\* Nothing has no rim.
LEMMA RimOfNothing == Rim({}) = {}
BY DEF Rim

\* Four drawings one after another.
LEMMA Drawing4 ==
  ASSUME NEW a \in Seq(Jobs), NEW b \in Seq(Jobs), NEW c \in Seq(Jobs), NEW d \in Seq(Jobs)
  PROVE  /\ All(<<a, b, c, d>>) \in Seq(Jobs)
         /\ Covers(All(<<a, b, c, d>>)) = UNION {Covers(a), Covers(b), Covers(c), Covers(d)}
<1> DEFINE ds == <<a, b, c, d>>
<1>1. ds \in [1 .. 4 -> Seq(Jobs)]
  OBVIOUS
<1>2. {Covers(ds[i]) : i \in 1 .. 4} = {Covers(a), Covers(b), Covers(c), Covers(d)}
  <2>1. 1 .. 4 = {1, 2, 3, 4} /\ ds[1] = a /\ ds[2] = b /\ ds[3] = c /\ ds[4] = d
    OBVIOUS
  <2> HIDE DEF ds
  <2> QED BY <2>1
<1> HIDE DEF ds
<1>3. All(ds) \in Seq(Jobs) /\ Covers(All(ds)) = UNION {Covers(ds[i]) : i \in 1 .. 4}
  BY <1>1, AllCovers
<1> QED BY <1>2, <1>3 DEF ds

\* What a drawing covers.
Draws(jobs, c, ps) == jobs \in Seq(Jobs) /\ Covers(jobs) = ps \cap View(c)

\* The same as a drawing.
LEMMA Fill ==
  ASSUME NEW c, Clip(c), NEW x, NEW y, NEW w, NEW h, Sized(x, y, w, h)
  PROVE  Draws(FillRect(c, x, y, w, h), c, Box(x, y, w, h))
BY FillCovers DEF Draws

\* Four drawings show what each of them shows.
LEMMA DrawsAll4 ==
  ASSUME NEW cl, NEW a, NEW b, NEW c, NEW d, NEW A, NEW B, NEW C, NEW D,
         Draws(a, cl, A), Draws(b, cl, B), Draws(c, cl, C), Draws(d, cl, D)
  PROVE  Draws(All(<<a, b, c, d>>), cl, UNION {A, B, C, D})
<1>1. /\ All(<<a, b, c, d>>) \in Seq(Jobs)
      /\ Covers(All(<<a, b, c, d>>)) = UNION {Covers(a), Covers(b), Covers(c), Covers(d)}
  BY Drawing4 DEF Draws
<1>2. UNION {A \cap View(cl), B \cap View(cl), C \cap View(cl), D \cap View(cl)} = (UNION {A, B, C, D}) \cap View(cl)
  OBVIOUS
<1> QED BY <1>1, <1>2 DEF Draws

\* HAL_GFX_DrawRect() draws the rim of the box.
LEMMA RectCovers ==
  ASSUME NEW c, Clip(c), NEW x, NEW y, NEW w, NEW h, Boxed(x, y, w, h)
  PROVE  Draws(DrawRect(c, x, y, w, h), c, Rim(Box(x, y, w, h)))
<1>0. x \in Int /\ y \in Int /\ w \in Int /\ h \in Int
  BY BoxedIsSized DEF Sized
<1>1. CASE w <= 0 \/ h <= 0
  <2>1. DrawRect(c, x, y, w, h) = << >>
    BY <1>1 DEF DrawRect, Nothing
  <2>2. Box(x, y, w, h) = {}
    BY <1>0, <1>1 DEF Box
  <2> QED BY <2>1, <2>2, RimOfNothing, NoJob DEF Draws
<1>2. CASE w > 0 /\ h > 0
  <2>1. /\ Sized(x, y, w, 1) /\ Sized(x, y + h - 1, w, 1)
        /\ Sized(x, y + 1, 1, h - 2) /\ Sized(x + w - 1, y + 1, 1, h - 2)
    BY <1>0, <1>2, Sizes DEF Boxed, Spans, Fits, Sized
  <2> DEFINE p == DrawHLine(c, x, y, w)
             q == DrawHLine(c, x, y + h - 1, w)
             r == DrawVLine(c, x, y + 1, h - 2)
             s == DrawVLine(c, x + w - 1, y + 1, h - 2)
  <2>2. /\ Draws(p, c, Box(x, y, w, 1)) /\ Draws(q, c, Box(x, y + h - 1, w, 1))
        /\ Draws(r, c, Box(x, y + 1, 1, h - 2)) /\ Draws(s, c, Box(x + w - 1, y + 1, 1, h - 2))
    BY <2>1, Fill DEF DrawHLine, DrawVLine
  <2>3. DrawRect(c, x, y, w, h) = All(<<p, q, r, s>>)
    <3>1. ~(w <= 0 \/ h <= 0)
      BY <1>0, <1>2
    <3> QED BY <3>1 DEF DrawRect
  <2> HIDE DEF p, q, r, s
  <2>4. Draws(All(<<p, q, r, s>>), c,
          UNION {Box(x, y, w, 1), Box(x, y + h - 1, w, 1), Box(x, y + 1, 1, h - 2), Box(x + w - 1, y + 1, 1, h - 2)})
    BY <2>2, DrawsAll4
  <2>5. w \in Nat \ {0} /\ h \in Nat \ {0}
    BY <1>0, <1>2
  <2>6. Rim(Box(x, y, w, h)) =
          UNION {Box(x, y, w, 1), Box(x, y + h - 1, w, 1), Box(x, y + 1, 1, h - 2), Box(x + w - 1, y + 1, 1, h - 2)}
    BY <1>0, <2>5, RimOfBox
  <2> QED BY <2>3, <2>4, <2>6
<1> QED BY <1>0, <1>1, <1>2

-----------------------------------------------------------------------------
(* Bitmaps *)

\* A function on a finite set has finitely many values.
LEMMA FiniteRange ==
  ASSUME NEW S, IsFiniteSet(S), NEW f, DOMAIN f = S
  PROVE  IsFiniteSet({f[x] : x \in S})
<1> DEFINE T == {f[x] : x \in S}
           g == [x \in S |-> f[x]]
<1>1. g \in Surjection(S, T)
  <2>1. g \in [S -> T]
    OBVIOUS
  <2>2. \A t \in T : \E s \in S : g[s] = t
    OBVIOUS
  <2> HIDE DEF T, g
  <2> QED BY <2>1, <2>2 DEF Surjection
<1> HIDE DEF T, g
<1> QED BY <1>1, FS_Surjection DEF T

\* Jobs of a row each, with the value of every pixel they write.
Shades(jobs, V) ==
  \A job \in ToSet(jobs) : OneRow(job) /\ \A p \in Area(job) : job.parts[1][p[1] - job.cols[1] + 1] = V[p]

\* HAL_ST7796S_BlitRow() sends one row, each pixel its own value.
LEMMA BlitRowCovers ==
  ASSUME NEW x \in Nat, NEW y \in Nat, NEW n \in Nat \ {0}, NEW row \in [1 .. n -> Int], NEW V,
         \A i \in 1 .. n : row[i] = V[<<x + i - 1, y>>]
  PROVE  /\ PanelBlitRow(x, y, row) \in Seq(Jobs)
         /\ Covers(PanelBlitRow(x, y, row)) = Box(x, y, n, 1) \cap Panel
         /\ Shades(PanelBlitRow(x, y, row), V)
<1>1. row \in Seq(Int) /\ Len(row) = n /\ row # << >>
  OBVIOUS
<1>2. CASE <<x, y>> \in Panel
  <2> DEFINE len == Lesser(n, PanelW - x)
             data == SubSeq(row, 1, len)
             job == Job(x, y, x + len - 1, y, <<data>>)
  <2>1. x \in 0 .. PanelW - 1 /\ y \in 0 .. PanelH - 1
    BY <1>2 DEF Panel
  <2>2. len \in 1 .. n /\ len <= PanelW - x
    BY <2>1, Sizes DEF Lesser
  <2>3. PanelBlitRow(x, y, row) = <<job>>
    BY <1>1, <1>2 DEF PanelBlitRow
  <2>4. Box(x, y, n, 1) \cap Panel = (x .. x + len - 1) \X {y}
    <3>1. y .. y + 1 - 1 = {y}
      OBVIOUS
    <3>2. (x .. x + n - 1) \cap (0 .. PanelW - 1) = x .. x + len - 1
      BY <2>1, <2>2, Sizes DEF Lesser
    <3> HIDE DEF len
    <3> QED BY <2>1, <2>2, <3>1, <3>2 DEF Box, Panel
  <2> HIDE DEF len
  <2>5. data \in Seq(Int) /\ Len(data) = len /\ \A i \in 1 .. len : data[i] = row[i]
    BY <1>1, <2>2
  <2> HIDE DEF data
  <2>6. /\ job.cols = <<x, x + len - 1>> /\ job.rows = <<y, y>> /\ job.parts = <<data>>
        /\ job \in [cols : Int \X Int, rows : Int \X Int, parts : Seq(Seq(Int))]
    BY <2>2, <2>5 DEF Job
  <2> HIDE DEF job
  <2>7. Area(job) = (x .. x + len - 1) \X {y} /\ Wide(job) = len /\ High(job) = 1
    <3>1. y .. y = {y}
      OBVIOUS
    <3>2. (x + len - 1) - x + 1 = len /\ y - y + 1 = 1
      BY <2>2
    <3>3. job.cols[1] = x /\ job.cols[2] = x + len - 1 /\ job.rows[1] = y /\ job.rows[2] = y
      BY <2>6
    <3>4. Area(job) = (x .. x + len - 1) \X (y .. y)
      BY <3>3 DEF Area
    <3>5. Wide(job) = len /\ High(job) = 1
      <4>1. Wide(job) = (x + len - 1) - x + 1 /\ High(job) = y - y + 1
        BY <3>3 DEF Wide, High
      <4> QED BY <3>2, <4>1
    <3> QED BY <3>1, <3>4, <3>5
  <2>8. FlattenSeq(job.parts) = data
    BY <2>6, FlatOne
  <2>9. job \in Jobs
    <3>1. Area(job) \subseteq Panel
      BY <2>4, <2>7
    <3>2. len * 1 = len
      BY <2>2
    <3>3. job.cols[1] <= job.cols[2] /\ job.rows[1] <= job.rows[2]
      BY <2>2, <2>6
    <3>4. Len(FlattenSeq(job.parts)) = Wide(job) * High(job)
      BY <2>5, <2>7, <2>8, <3>2
    <3> QED BY <2>6, <3>1, <3>3, <3>4 DEF Jobs
  <2>10. OneRow(job) /\ \A p \in Area(job) : job.parts[1][p[1] - job.cols[1] + 1] = V[p]
    <3>1. OneRow(job)
      BY <2>6 DEF OneRow
    <3>2. ASSUME NEW p \in Area(job)
          PROVE  job.parts[1][p[1] - job.cols[1] + 1] = V[p]
      <4> DEFINE i == p[1] - x + 1
      <4>1. p = <<p[1], y>> /\ p[1] \in x .. x + len - 1
        BY <2>7
      <4>2. i \in 1 .. len /\ i \in 1 .. n /\ p = <<x + i - 1, y>>
        BY <2>2, <4>1
      <4>3. job.parts[1] = data /\ job.cols[1] = x
        BY <2>6
      <4> HIDE DEF i
      <4>4. data[i] = V[<<x + i - 1, y>>]
        BY <2>5, <4>2
      <4> QED BY <4>2, <4>3, <4>4 DEF i
    <3> QED BY <3>1, <3>2
  <2> QED BY <2>3, <2>4, <2>7, <2>9, <2>10, OneJob DEF Shades
<1>3. CASE <<x, y>> \notin Panel
  <2>1. PanelBlitRow(x, y, row) = << >>
    BY <1>3 DEF PanelBlitRow
  <2>2. Box(x, y, n, 1) \cap Panel = {}
    BY <1>3, Sizes DEF Box, Panel
  <2> QED BY <2>1, <2>2, NoJob DEF Shades
<1> QED BY <1>2, <1>3

\* Columns 0 .. w - 1 in chunks of b: the chunk of a column.
LEMMA Chunked ==
  ASSUME NEW b \in Nat \ {0}, NEW w \in Nat \ {0}
  PROVE  /\ (w - 1) \div b \in Nat
         /\ \A k \in 0 .. (w - 1) \div b : b * k \in 0 .. w - 1
         /\ \A i \in 0 .. w - 1 : i \div b \in 0 .. (w - 1) \div b /\ i - b * (i \div b) \in 0 .. b - 1
<1> DEFINE u == w - 1
           q == u \div b
           m == u % b
<1>1. u \in Nat
  OBVIOUS
<1> HIDE DEF u
<1>2. m \in 0 .. b - 1 /\ q \in Nat /\ u = b * q + m
  BY <1>1, DivMod
<1> HIDE DEF m, q
<1>3. ASSUME NEW k \in 0 .. q
      PROVE  b * k \in 0 .. u
  <2>1. b * k \in Nat /\ b * k <= b * q
    BY <1>2
  <2> QED BY <1>1, <1>2, <2>1
<1>4. ASSUME NEW i \in 0 .. u
      PROVE  i \div b \in 0 .. q /\ i - b * (i \div b) \in 0 .. b - 1
  <2> DEFINE d == i \div b
             e == i % b
  <2>1. e \in 0 .. b - 1 /\ d \in Nat /\ i = b * d + e
    <3>1. i \in Nat
      BY <1>1
    <3> QED BY <3>1, DivMod
  <2> HIDE DEF d, e
  <2>2. d <= q
    <3> SUFFICES ASSUME d >= q + 1 PROVE FALSE
      BY <1>2, <2>1
    <3>1. b * d >= b * (q + 1) /\ b * (q + 1) = b * q + b /\ b * d \in Int /\ b * q \in Int
      BY <1>2, <2>1
    <3> DEFINE x == b * d
               y == b * q
               z == b * (q + 1)
    <3>2. x >= z /\ z = y + b /\ x \in Int /\ y \in Int /\ i = x + e /\ u = y + m
      BY <1>2, <2>1, <3>1
    <3> HIDE DEF x, y, z
    <3> QED BY <1>1, <1>2, <2>1, <3>2
  <2>3. i - b * d = e
    BY <2>1
  <2> QED BY <2>1, <2>2, <2>3 DEF d
<1> QED BY <1>1, <1>2, <1>3, <1>4 DEF u, q

\* A row cut into pieces of the row buffer is the whole row.
LEMMA RowCovers ==
  ASSUME NEW x1 \in Nat, NEW y \in Nat, NEW w \in Nat \ {0}, NEW src, NEW V,
         \A x \in x1 .. x1 + w - 1 : src[x] \in Int /\ src[x] = V[<<x, y>>]
  PROVE  /\ Row(x1, y, w, src) \in Seq(Jobs)
         /\ Covers(Row(x1, y, w, src)) = Box(x1, y, w, 1) \cap Panel
         /\ Shades(Row(x1, y, w, src), V)
<1> DEFINE n == (w - 1) \div RowBuf
           At(k) == x1 + RowBuf * k
           size(x) == Lesser(RowBuf, x1 + w - x)
           row(x) == [i \in 1 .. size(x) |-> src[x + i - 1]]
           part(x) == PanelBlitRow(x, y, row(x))
           P == [k \in 0 .. n |-> part(At(k))]
           D == {P[k] : k \in 0 .. n}
<1>1. RowBuf \in Nat \ {0}
  BY GraphicsOK
<1>2. /\ n \in Nat
      /\ \A k \in 0 .. n : RowBuf * k \in 0 .. w - 1
      /\ \A i \in 0 .. w - 1 : i \div RowBuf \in 0 .. n /\ i - RowBuf * (i \div RowBuf) \in 0 .. RowBuf - 1
  BY <1>1, Chunked
<1>3. Row(x1, y, w, src) = All(SetToSeq(D))
  <2>1. {part(x) : x \in {At(k) : k \in 0 .. n}} = D
    <3> HIDE DEF n, At, part
    <3> QED OBVIOUS
  <2> QED BY <2>1 DEF Row
<1> HIDE DEF n
<1>4. ASSUME NEW k \in 0 .. n
      PROVE  /\ P[k] \in Seq(Jobs)
             /\ Covers(P[k]) = Box(At(k), y, size(At(k)), 1) \cap Panel
             /\ Shades(P[k], V)
             /\ At(k) \in x1 .. x1 + w - 1
  <2> DEFINE x == At(k)
  <2>1. x \in x1 .. x1 + w - 1 /\ x \in Nat
    <3> DEFINE o == RowBuf * k
    <3>1. o \in 0 .. w - 1
      BY <1>2
    <3> HIDE DEF o
    <3> QED BY <3>1 DEF o
  <2>2. P[k] = part(x)
    OBVIOUS
  <2> HIDE DEF x, P
  <2> DEFINE l == size(x)
             r == row(x)
  <2>3. l \in Nat \ {0} /\ x + l - 1 <= x1 + w - 1
    BY <1>1, <2>1 DEF Lesser
  <2>4. r = [i \in 1 .. l |-> src[x + i - 1]]
    OBVIOUS
  <2> HIDE DEF l, r
  <2>5. r \in [1 .. l -> Int] /\ \A i \in 1 .. l : r[i] = V[<<x + i - 1, y>>]
    <3>1. \A i \in 1 .. l : x + i - 1 \in x1 .. x1 + w - 1
      BY <2>1, <2>3
    <3> QED BY <2>4, <3>1
  <2>6. /\ PanelBlitRow(x, y, r) \in Seq(Jobs)
        /\ Covers(PanelBlitRow(x, y, r)) = Box(x, y, l, 1) \cap Panel
        /\ Shades(PanelBlitRow(x, y, r), V)
    BY <2>1, <2>3, <2>5, BlitRowCovers
  <2>7. P[k] = PanelBlitRow(x, y, r)
    BY <2>2 DEF r
  <2> QED BY <2>1, <2>6, <2>7 DEF x, l
<1>5. IsFiniteSet(D) /\ D \subseteq Seq(Jobs)
  <2>1. IsFiniteSet(0 .. n)
    BY <1>2, FS_Interval
  <2>2. DOMAIN P = 0 .. n
    OBVIOUS
  <2>3. \A k \in 0 .. n : P[k] \in Seq(Jobs)
    BY <1>4
  <2> HIDE DEF P
  <2>4. IsFiniteSet(D)
    BY <2>1, <2>2, FiniteRange, Zenon
  <2> QED BY <2>3, <2>4
<1>6. /\ All(SetToSeq(D)) \in Seq(Jobs)
      /\ ToSet(All(SetToSeq(D))) = UNION {ToSet(d) : d \in D}
      /\ Covers(All(SetToSeq(D))) = UNION {Covers(d) : d \in D}
  <2> HIDE DEF D
  <2> QED BY <1>5, AllOfSet
<1> HIDE DEF P
<1>7. UNION {Covers(d) : d \in D} = Box(x1, y, w, 1) \cap Panel
  <2> HIDE DEF At, size
  <2>1. ASSUME NEW k \in 0 .. n
        PROVE  Covers(P[k]) \subseteq Box(x1, y, w, 1) \cap Panel
    <3> DEFINE x == At(k)
               l == size(x)
    <3>1. x \in x1 .. x1 + w - 1
      BY <1>4
    <3>2. x + l - 1 <= x1 + w - 1 /\ l \in Int
      BY <1>1, <3>1 DEF size, Lesser
    <3>3. Covers(P[k]) = Box(x, y, l, 1) \cap Panel
      BY <1>4
    <3> HIDE DEF x, l
    <3> QED BY <3>1, <3>2, <3>3 DEF Box
  <2>2. ASSUME NEW p \in Box(x1, y, w, 1) \cap Panel
        PROVE  \E k \in 0 .. n : p \in Covers(P[k])
    <3> DEFINE i == p[1] - x1
               k == i \div RowBuf
               x == At(k)
               l == size(x)
               o == RowBuf * k
    <3>1. p = <<p[1], y>> /\ p[1] \in x1 .. x1 + w - 1 /\ i \in 0 .. w - 1
      <4>1. y .. y + 1 - 1 = {y}
        OBVIOUS
      <4> QED BY <4>1 DEF Box
    <3> HIDE DEF i
    <3>2. k \in 0 .. n /\ i - o \in 0 .. RowBuf - 1
      BY <1>2, <3>1
    <3> HIDE DEF k, o
    <3>3. o \in 0 .. w - 1 /\ x = x1 + o
      BY <1>2, <3>2 DEF o, At
    <3> HIDE DEF x
    <3>4. p[1] = x1 + i
      BY <3>1 DEF i
    <3>5. l \in Int /\ p[1] \in x .. x + l - 1
      BY <1>1, <3>1, <3>2, <3>3, <3>4 DEF size, Lesser
    <3> HIDE DEF l
    <3>6. p \in Box(x, y, l, 1)
      <4>1. y \in y .. y + 1 - 1
        OBVIOUS
      <4> QED BY <3>1, <3>5, <4>1 DEF Box
    <3>7. Covers(P[k]) = Box(x, y, l, 1) \cap Panel
      BY <1>4, <3>2 DEF x, l
    <3> QED BY <3>2, <3>6, <3>7
  <2> QED BY <2>1, <2>2
<1>8. Shades(All(SetToSeq(D)), V)
  BY <1>4, <1>6 DEF Shades
<1> QED BY <1>3, <1>6, <1>7, <1>8

-----------------------------------------------------------------------------

\* What the rows of a blit cover and show.
Copying(jobs, c, ps, V) == Draws(jobs, c, ps) /\ Shades(jobs, V)

\* What is empty stays so.
LEMMA IntersectedEmpty ==
  ASSUME NEW c, Clip(c), NEW x, NEW y, NEW w, NEW h, Sized(x, y, w, h)
  PROVE  LET r == RectIntersect(c, x, y, w, h) IN r.w > 0 <=> r.h > 0
<1> DEFINE x1 == Greater(x, c.x)
           x2 == Lesser(Int16(x + w - 1), Int16(c.x + c.w - 1))
           y1 == Greater(y, c.y)
           y2 == Lesser(Int16(y + h - 1), Int16(c.y + c.h - 1))
           empty == w <= 0 \/ h <= 0 \/ x1 > x2 \/ y1 > y2
           r == RectIntersect(c, x, y, w, h)
<1>1. r = IF empty THEN Rect(0, 0, 0, 0) ELSE Rect(x1, y1, x2 - x1 + 1, y2 - y1 + 1)
  BY DEF RectIntersect, CutTo
<1>2. ~empty => x1 \in Int /\ x2 \in Int /\ y1 \in Int /\ y2 \in Int
  <2> SUFFICES ASSUME ~empty PROVE x1 \in Int /\ x2 \in Int /\ y1 \in Int /\ y2 \in Int
    OBVIOUS
  <2>1. x \in Int /\ y \in Int /\ w > 0 /\ h > 0 /\ c.x \in Nat /\ c.y \in Nat /\ c.w \in Nat /\ c.h \in Nat
    BY DEF Sized, Clip
  <2>2. Fits(x + w - 1) /\ Fits(y + h - 1) /\ Fits(c.x + c.w - 1) /\ Fits(c.y + c.h - 1)
    BY <2>1 DEF Sized, Clip
  <2>3. /\ Int16(x + w - 1) \in Int /\ Int16(y + h - 1) \in Int
        /\ Int16(c.x + c.w - 1) \in Int /\ Int16(c.y + c.h - 1) \in Int
    BY <2>2, Int16Is
  <2> QED BY <2>1, <2>3 DEF Greater, Lesser
<1> HIDE DEF x1, x2, y1, y2, r
<1>3. CASE empty
  BY <1>1, <1>3 DEF Rect, r
<1>4. CASE ~empty
  <2>1. r.w = x2 - x1 + 1 /\ r.h = y2 - y1 + 1
    BY <1>1, <1>4 DEF Rect
  <2> QED BY <1>2, <1>4, <2>1 DEF r
<1> QED BY <1>3, <1>4

\* The rows of a blit to r, from sources of the right value.
Rows(jobs, r, src, V) ==
  /\ \A k \in 1 .. r.h : \A i \in r.x .. r.x + r.w - 1 : src[k][i] \in Int /\ src[k][i] = V[<<i, r.y + k - 1>>]
  /\ jobs = All([k \in 1 .. r.h |-> Row(r.x, r.y + k - 1, r.w, src[k])])

\* The rows of a rectangle that is cut to the clip.
LEMMA RowsCover ==
  ASSUME NEW c, Clip(c), NEW x, NEW y, NEW w, NEW h, Sized(x, y, w, h),
         NEW V, NEW src, NEW jobs, Rows(jobs, RectIntersect(c, x, y, w, h), src, V)
  PROVE  Copying(jobs, c, Box(x, y, w, h), V)
<1> DEFINE r == RectIntersect(c, x, y, w, h)
           rx == r.x
           ry == r.y
           rw == r.w
           rh == r.h
           ds == [k \in 1 .. rh |-> Row(rx, ry + k - 1, rw, src[k])]
<1>1. /\ rx \in Nat /\ ry \in Nat /\ rw \in Nat /\ rh \in Nat
      /\ Box(rx, ry, rw, rh) = {p \in Box(x, y, w, h) : Clipped(c, p[1], p[2])}
  BY Intersected
<1>2. rw > 0 <=> rh > 0
  BY IntersectedEmpty
<1>3. ASSUME NEW k \in 1 .. rh
      PROVE  /\ ds[k] \in Seq(Jobs)
             /\ Covers(ds[k]) = Box(rx, ry + k - 1, rw, 1) \cap Panel
             /\ Shades(ds[k], V)
  <2> DEFINE b == ry + k - 1
             s == src[k]
  <2>1. \A i \in rx .. rx + rw - 1 : s[i] \in Int /\ s[i] = V[<<i, b>>]
    BY DEF Rows
  <2>2. ds[k] = Row(rx, b, rw, s)
    OBVIOUS
  <2> HIDE DEF rx, ry, rw, rh, ds
  <2>3. b \in Nat /\ rw \in Nat \ {0}
    BY <1>1, <1>2
  <2> HIDE DEF s
  <2>4. /\ Row(rx, b, rw, s) \in Seq(Jobs)
        /\ Covers(Row(rx, b, rw, s)) = Box(rx, b, rw, 1) \cap Panel
        /\ Shades(Row(rx, b, rw, s), V)
    <3> HIDE DEF b
    <3> QED BY <1>1, <2>1, <2>3, RowCovers
  <2> QED BY <2>2, <2>4
<1>4. DOMAIN ds = 1 .. rh /\ ds = [k \in 1 .. rh |-> ds[k]]
  <2> HIDE DEF rx, ry, rw, rh
  <2> QED OBVIOUS
<1>5. jobs = All(ds)
  BY DEF Rows
<1> HIDE DEF rx, ry, rw, rh, ds
<1>6. ds \in [1 .. rh -> Seq(Jobs)]
  BY <1>3, <1>4
<1>7. /\ All(ds) \in Seq(Jobs)
      /\ ToSet(All(ds)) = UNION {ToSet(ds[k]) : k \in 1 .. rh}
      /\ Covers(All(ds)) = UNION {Covers(ds[k]) : k \in 1 .. rh}
  BY <1>1, <1>6, AllCovers
<1>8. UNION {Box(rx, ry + k - 1, rw, 1) : k \in 1 .. rh} = Box(rx, ry, rw, rh)
  <2>1. ASSUME NEW k \in 1 .. rh
        PROVE  Box(rx, ry + k - 1, rw, 1) \subseteq Box(rx, ry, rw, rh)
    BY <1>1 DEF Box
  <2>2. ASSUME NEW p \in Box(rx, ry, rw, rh)
        PROVE  \E k \in 1 .. rh : p \in Box(rx, ry + k - 1, rw, 1)
    <3> DEFINE k == p[2] - ry + 1
    <3>1. p = <<p[1], p[2]>> /\ p[1] \in rx .. rx + rw - 1 /\ p[2] \in ry .. ry + rh - 1
      BY DEF Box
    <3>2. k \in 1 .. rh /\ p[2] \in ry + k - 1 .. ry + k - 1 + 1 - 1
      BY <1>1, <3>1
    <3> HIDE DEF k
    <3> QED BY <3>1, <3>2 DEF Box
  <2> QED BY <2>1, <2>2
<1>9. Covers(All(ds)) = Box(rx, ry, rw, rh) \cap Panel
  BY <1>3, <1>7, <1>8
<1>10. Covers(All(ds)) = Box(x, y, w, h) \cap View(c)
  BY <1>1, <1>9 DEF View
<1>11. Shades(All(ds), V)
  BY <1>3, <1>7 DEF Shades
<1> QED BY <1>5, <1>7, <1>10, <1>11 DEF Copying, Draws

\* Nearest neighbour stays inside.
LEMMA Nearest ==
  ASSUME NEW to \in Nat \ {0}, NEW d \in 0 .. to - 1, NEW size \in Nat \ {0}
  PROVE  (d * size) \div to \in 0 .. size - 1
<1> DEFINE n == d * size
           q == n \div to
           m == n % to
<1>1. n \in Nat /\ n < to * size
  <2>1. d * size <= (to - 1) * size /\ (to - 1) * size = to * size - size /\ to * size \in Int
    OBVIOUS
  <2>2. n \in Nat
    OBVIOUS
  <2> QED BY <2>1, <2>2
<1> HIDE DEF n
<1>2. m \in 0 .. to - 1 /\ q \in Nat /\ n = to * q + m
  BY <1>1, DivMod
<1> HIDE DEF q, m
<1>3. q < size
  <2> SUFFICES ASSUME q >= size PROVE FALSE
    BY <1>2
  <2>1. to * q >= to * size
    BY <1>2
  <2>2. to * q \in Int /\ to * size \in Int
    BY <1>2
  <2> DEFINE a == to * q
             b == to * size
  <2>3. a \in Int /\ b \in Int /\ a >= b /\ n = a + m /\ n < b
    BY <1>1, <1>2, <2>1, <2>2
  <2> HIDE DEF a, b
  <2> QED BY <1>2, <2>3
<1> QED BY <1>2, <1>3 DEF q, n

\* HAL_GFX_Blit() copies what of the source lies under the destination.
LEMMA BlitCovers ==
  ASSUME NEW c, Clip(c), NEW sw \in Nat \ {0}, NEW sh \in Nat \ {0}, NEW dx, NEW dy, NEW sx \in Int, NEW sy \in Int,
         NEW cw, NEW ch, Boxed(dx, dy, cw, ch),
         NEW V, V = [p \in Int \X Int |-> (p[2] - dy + sy) * sw + (p[1] - dx + sx)],
         NEW ps, ps = {p \in Box(dx, dy, cw, ch) : p[1] - dx + sx \in 0 .. sw - 1 /\ p[2] - dy + sy \in 0 .. sh - 1}
  PROVE  Copying(Blit(c, sw, sh, dx, dy, sx, sy, cw, ch), c, ps, V)
<1> DEFINE ax == Lesser(sx, 0)
           ay == Lesser(sy, 0)
           w == Lesser(cw + ax, sw - Greater(sx, 0))
           h == Lesser(ch + ay, sh - Greater(sy, 0))
           x == dx - ax
           y == dy - ay
           r == RectIntersect(c, x, y, w, h)
           fromX == Greater(sx, 0) + r.x - x
           fromY == Greater(sy, 0) + r.y - y
           from(b) == [i \in r.x .. r.x + r.w - 1 |-> (fromY + b - r.y) * sw + fromX + i - r.x]
           src == [k \in 1 .. r.h |-> from(r.y + k - 1)]
<1>0. dx \in Int /\ dy \in Int /\ cw \in Int /\ ch \in Int
  BY BoxedIsSized DEF Sized
<1>1. x \in Int /\ y \in Int /\ w \in Int /\ h \in Int /\ ax \in Int /\ ay \in Int
  BY <1>0 DEF Lesser, Greater
<1>2. Sized(x, y, w, h)
  <2>1. w > 0 => Fits(x + w - 1)
    BY <1>0, Sizes DEF Lesser, Greater, Boxed, Spans, Fits
  <2>2. h > 0 => Fits(y + h - 1)
    BY <1>0, Sizes DEF Lesser, Greater, Boxed, Spans, Fits
  <2> HIDE DEF x, y, w, h
  <2> QED BY <1>1, <2>1, <2>2 DEF Sized
<1>3. ps = Box(x, y, w, h)
  <2>1. \A i \in Int : i \in x .. x + w - 1 <=> i \in dx .. dx + cw - 1 /\ i - dx + sx \in 0 .. sw - 1
    BY <1>0 DEF Lesser, Greater
  <2>2. \A i \in Int : i \in y .. y + h - 1 <=> i \in dy .. dy + ch - 1 /\ i - dy + sy \in 0 .. sh - 1
    BY <1>0 DEF Lesser, Greater
  <2> HIDE DEF x, y, w, h
  <2>3. x .. x + w - 1 \subseteq Int /\ y .. y + h - 1 \subseteq Int /\ dx .. dx + cw - 1 \subseteq Int /\ dy .. dy + ch - 1 \subseteq Int
    OBVIOUS
  <2> QED BY <2>1, <2>2, <2>3 DEF Box
<1>4. Blit(c, sw, sh, dx, dy, sx, sy, cw, ch) = All([k \in 1 .. r.h |-> Row(r.x, r.y + k - 1, r.w, src[k])])
  <2>1. [k \in 1 .. r.h |-> Row(r.x, r.y + k - 1, r.w, from(r.y + k - 1))] = [k \in 1 .. r.h |-> Row(r.x, r.y + k - 1, r.w, src[k])]
    <3> HIDE DEF from, r
    <3> QED OBVIOUS
  <2>2. Blit(c, sw, sh, dx, dy, sx, sy, cw, ch) = All([k \in 1 .. r.h |-> Row(r.x, r.y + k - 1, r.w, from(r.y + k - 1))])
    BY DEF Blit
  <2> QED BY <2>1, <2>2
<1>5. r \in [x : Nat, y : Nat, w : Nat, h : Nat]
  <2> HIDE DEF x, y, w, h
  <2> QED BY <1>2, Intersected
<1>6. ASSUME NEW k \in 1 .. r.h, NEW i \in r.x .. r.x + r.w - 1
      PROVE  src[k][i] \in Int /\ src[k][i] = V[<<i, r.y + k - 1>>]
  <2> DEFINE rx == r.x
             ry == r.y
             b == ry + k - 1
             u == fromY + b - ry
             v == fromX + i - rx
  <2>1. rx \in Nat /\ ry \in Nat /\ k \in Int /\ i \in Int
    BY <1>5
  <2>2. src[k][i] = u * sw + fromX + i - rx
    <3>1. src[k] = from(b)
      <4> HIDE DEF from, r
      <4> QED OBVIOUS
    <3>2. from(b)[i] = (fromY + b - r.y) * sw + fromX + i - r.x
      <4> HIDE DEF r, fromX, fromY, b
      <4> QED OBVIOUS
    <3> QED BY <3>1, <3>2
  <2> HIDE DEF r, src
  <2>3. /\ u = b - dy + sy /\ fromX = sx - dx + rx /\ u \in Int /\ fromX \in Int /\ b \in Int
    <3> HIDE DEF rx, ry
    <3> QED BY <1>0, <2>1 DEF Lesser, Greater, rx, ry
  <2> HIDE DEF rx, ry, b, u, fromX
  <2>4. V[<<i, b>>] = (b - dy + sy) * sw + (i - dx + sx)
    BY <2>1, <2>3
  <2> DEFINE z == u * sw
  <2>5. z \in Int
    BY <2>3
  <2>6. V[<<i, b>>] = z + (i - dx + sx)
    BY <2>3, <2>4
  <2>7. src[k][i] = z + fromX + i - rx
    BY <2>2
  <2> HIDE DEF z
  <2>8. src[k][i] = z + (i - dx + sx)
    BY <1>0, <2>1, <2>3, <2>5, <2>7
  <2>9. z + (i - dx + sx) \in Int
    BY <1>0, <2>1, <2>5
  <2> QED BY <2>6, <2>8, <2>9 DEF b, ry
<1> HIDE DEF r, src, x, y, w, h
<1> DEFINE jobs == All([k \in 1 .. r.h |-> Row(r.x, r.y + k - 1, r.w, src[k])])
<1>8. Rows(jobs, r, src, V)
  BY <1>6 DEF Rows
<1> HIDE DEF jobs
<1>7. Copying(jobs, c, Box(x, y, w, h), V)
  BY <1>2, <1>8, RowsCover DEF r
<1> QED BY <1>3, <1>4, <1>7 DEF jobs

\* The far edges of a clip stay in int16_t, so that it is the same to compare them as int.
LEMMA CutIsSame ==
  ASSUME NEW c, Clip(c), NEW x, NEW y, NEW w, NEW h
  PROVE  CutTo(c, c.x + c.w - 1, c.y + c.h - 1, x, y, w, h) = RectIntersect(c, x, y, w, h)
<1>1. Int16(c.x + c.w - 1) = c.x + c.w - 1 /\ Int16(c.y + c.h - 1) = c.y + c.h - 1
  BY Int16Is DEF Clip
<1> QED BY <1>1 DEF RectIntersect

\* The rows of a scaled blit that has been cut to r.
ScaledRows(sw, sh, dx, dy, dw, dh, r) ==
  LET From(d, size, to) == Lesser((d * size) \div to, size - 1)
      from(b) == [i \in r.x .. r.x + r.w - 1 |-> From(b - dy, sh, dh) * sw + From(i - dx, sw, dw)]
  IN  All([k \in 1 .. r.h |-> Row(r.x, r.y + k - 1, r.w, from(r.y + k - 1))])

\* HAL_GFX_BlitScaled() fills the destination with the nearest of the source.
LEMMA ScaledCovers ==
  ASSUME NEW c, Clip(c), NEW sw \in Nat \ {0}, NEW sh \in Nat \ {0}, NEW dx, NEW dy, NEW dw, NEW dh, Boxed(dx, dy, dw, dh),
         NEW V, V = [p \in Int \X Int |-> (((p[2] - dy) * sh) \div dh) * sw + ((p[1] - dx) * sw) \div dw]
  PROVE  Copying(BlitScaled(c, sw, sh, dx, dy, dw, dh), c, Box(dx, dy, dw, dh), V)
<1> DEFINE r == RectIntersect(c, dx, dy, dw, dh)
           From(d, size, to) == Lesser((d * size) \div to, size - 1)
           from(b) == [i \in r.x .. r.x + r.w - 1 |-> From(b - dy, sh, dh) * sw + From(i - dx, sw, dw)]
           src == [k \in 1 .. r.h |-> from(r.y + k - 1)]
<1>0. dx \in Int /\ dy \in Int /\ dw \in Int /\ dh \in Int
  BY BoxedIsSized DEF Sized
<1>2. Sized(dx, dy, dw, dh)
  BY BoxedIsSized
<1>4. BlitScaled(c, sw, sh, dx, dy, dw, dh) = All([k \in 1 .. r.h |-> Row(r.x, r.y + k - 1, r.w, src[k])])
  <2>1. [k \in 1 .. r.h |-> Row(r.x, r.y + k - 1, r.w, from(r.y + k - 1))] = [k \in 1 .. r.h |-> Row(r.x, r.y + k - 1, r.w, src[k])]
    <3> HIDE DEF from, r
    <3> QED OBVIOUS
  <2>2. BlitScaled(c, sw, sh, dx, dy, dw, dh) = All([k \in 1 .. r.h |-> Row(r.x, r.y + k - 1, r.w, from(r.y + k - 1))])
    <3>1. BlitScaled(c, sw, sh, dx, dy, dw, dh)
            = ScaledRows(sw, sh, dx, dy, dw, dh, CutTo(c, c.x + c.w - 1, c.y + c.h - 1, dx, dy, dw, dh))
      BY DEF BlitScaled, ScaledRows
    <3>2. CutTo(c, c.x + c.w - 1, c.y + c.h - 1, dx, dy, dw, dh) = r
      BY CutIsSame
    <3>3. ScaledRows(sw, sh, dx, dy, dw, dh, r)
            = All([k \in 1 .. r.h |-> Row(r.x, r.y + k - 1, r.w, from(r.y + k - 1))])
      BY DEF ScaledRows
    <3> QED BY <3>1, <3>2, <3>3
  <2> QED BY <2>1, <2>2
<1>5. /\ r \in [x : Nat, y : Nat, w : Nat, h : Nat]
      /\ Box(r.x, r.y, r.w, r.h) = {p \in Box(dx, dy, dw, dh) : Clipped(c, p[1], p[2])}
  BY <1>2, Intersected
<1>6. ASSUME NEW k \in 1 .. r.h, NEW i \in r.x .. r.x + r.w - 1
      PROVE  src[k][i] \in Int /\ src[k][i] = V[<<i, r.y + k - 1>>]
  <2> DEFINE b == r.y + k - 1
             u == (b - dy) * sh
             v == (i - dx) * sw
  <2>1. src[k][i] = From(b - dy, sh, dh) * sw + From(i - dx, sw, dw)
    <3>1. src[k] = from(b)
      <4> HIDE DEF from, r
      <4> QED OBVIOUS
    <3>2. from(b)[i] = From(b - dy, sh, dh) * sw + From(i - dx, sw, dw)
      <4> HIDE DEF r, From, b
      <4> QED OBVIOUS
    <3> QED BY <3>1, <3>2
  <2> HIDE DEF r, src
  <2>2. <<i, b>> \in Box(r.x, r.y, r.w, r.h)
    <3>1. b \in r.y .. r.y + r.h - 1
      BY <1>5
    <3> HIDE DEF b
    <3> QED BY <3>1 DEF Box
  <2> HIDE DEF b
  <2>3. <<i, b>> \in Box(dx, dy, dw, dh)
    BY <1>5, <2>2
  <2>4. i - dx \in 0 .. dw - 1 /\ b - dy \in 0 .. dh - 1 /\ dw \in Nat \ {0} /\ dh \in Nat \ {0}
    <3>1. i \in dx .. dx + dw - 1 /\ b \in dy .. dy + dh - 1
      BY <2>3 DEF Box
    <3> QED BY <1>0, <3>1
  <2>5. u \div dh \in 0 .. sh - 1 /\ v \div dw \in 0 .. sw - 1
    BY <2>4, Nearest
  <2>6. From(b - dy, sh, dh) = u \div dh /\ From(i - dx, sw, dw) = v \div dw
    <3> HIDE DEF u, v
    <3>1. Lesser(u \div dh, sh - 1) = u \div dh /\ Lesser(v \div dw, sw - 1) = v \div dw
      BY <2>5 DEF Lesser
    <3> QED BY <3>1 DEF u, v
  <2>7. i \in Int /\ b \in Int
    BY <1>0, <2>3 DEF Box
  <2>8. V[<<i, b>>] = (u \div dh) * sw + v \div dw
    BY <2>7
  <2> HIDE DEF u, v
  <2>9. (u \div dh) * sw + v \div dw \in Int
    BY <2>5
  <2> QED BY <2>1, <2>6, <2>8, <2>9 DEF b
<1> HIDE DEF r, src
<1> DEFINE jobs == All([k \in 1 .. r.h |-> Row(r.x, r.y + k - 1, r.w, src[k])])
<1>8. Rows(jobs, r, src, V)
  BY <1>6 DEF Rows
<1> HIDE DEF jobs
<1>7. Copying(jobs, c, Box(dx, dy, dw, dh), V)
  BY <1>2, <1>8, RowsCover DEF r
<1> QED BY <1>4, <1>7 DEF jobs

-----------------------------------------------------------------------------
(* The rounds of a line *)

\* A function defined by recursion exists.
Recurs(n, St, a, F, f) == f \in [0 .. n -> St] /\ f[0] = a /\ \A i \in 1 .. n : f[i] = F[<<i, f[i - 1]>>]

\* A function over 0 .. n that is recursive exists as its rounds say.
LEMMA Recursion ==
  ASSUME NEW n \in Nat, NEW St, NEW a \in St, NEW F \in [(0 .. n) \X St -> St]
  PROVE  \E f : Recurs(n, St, a, F, f)
<1> DEFINE Rec(m, f) == f[0] = a /\ \A i \in 1 .. m : f[i] = F[<<i, f[i - 1]>>]
           S == {m \in Nat : m <= n => \E f \in [0 .. m -> St] : Rec(m, f)}
<1>1. 0 \in S
  <2> DEFINE f == [i \in 0 .. 0 |-> a]
  <2>1. f \in [0 .. 0 -> St] /\ f[0] = a
    OBVIOUS
  <2>2. 1 .. 0 = {}
    OBVIOUS
  <2> HIDE DEF f
  <2>3. Rec(0, f)
    BY <2>1, <2>2
  <2> HIDE DEF Rec
  <2> QED BY <2>1, <2>3
<1>2. \A m \in Nat : m \in S => m + 1 \in S
  <2> SUFFICES ASSUME NEW m \in Nat, m \in S, m + 1 <= n PROVE \E f \in [0 .. m + 1 -> St] : Rec(m + 1, f)
    OBVIOUS
  <2>1. PICK f \in [0 .. m -> St] : Rec(m, f)
    <3>1. m <= n
      OBVIOUS
    <3> QED BY <3>1
  <2> DEFINE b == F[<<m + 1, f[m]>>]
             g == [i \in 0 .. m + 1 |-> IF i = m + 1 THEN b ELSE f[i]]
  <2>2. b \in St
    BY <2>1
  <2>3. \A i \in 0 .. m : i # m + 1 /\ g[i] = f[i] /\ f[i] \in St
    OBVIOUS
  <2>4. g[m + 1] = b
    OBVIOUS
  <2>5. g \in [0 .. m + 1 -> St]
    BY <2>2, <2>3
  <2>6. ASSUME NEW i \in 1 .. m + 1
        PROVE  g[i] = F[<<i, g[i - 1]>>]
    <3> HIDE DEF g
    <3>1. CASE i = m + 1
      <4>1. m \in 0 .. m /\ i - 1 = m
        BY <3>1
      <4>2. g[m] = f[m]
        BY <4>1, <2>3
      <4> QED BY <3>1, <4>1, <4>2, <2>4
    <3>2. CASE i # m + 1
      <4>1. i \in 1 .. m /\ i \in 0 .. m /\ i - 1 \in 0 .. m
        BY <3>2
      <4>2. g[i] = f[i] /\ g[i - 1] = f[i - 1] /\ f[i] = F[<<i, f[i - 1]>>]
        BY <2>1, <2>3, <4>1
      <4> QED BY <4>2
    <3> QED BY <3>1, <3>2
  <2>7. g[0] = a
    <3>1. g[0] = f[0]
      <4>1. 0 \in 0 .. m
        OBVIOUS
      <4> QED BY <2>3, <4>1
    <3> QED BY <2>1, <3>1
  <2> HIDE DEF g
  <2> QED BY <2>5, <2>6, <2>7
<1>3. Nat \subseteq S
  <2> HIDE DEF S
  <2> QED BY <1>1, <1>2, Induction
<1>4. n \in S
  BY <1>3
<1> QED BY <1>4 DEF Recurs

-----------------------------------------------------------------------------

\* Pixels drawn in any order.
LEMMA PixelsCover ==
  ASSUME NEW c, NEW ps, IsFiniteSet(ps), ps \subseteq Int \X Int
  PROVE  Draws(DrawPixels(c, ps), c, ps)
<1> DEFINE f == [p \in ps |-> DrawPixel(c, p[1], p[2])]
           D == {f[p] : p \in ps}
<1>1. DrawPixels(c, ps) = All(SetToSeq(D))
  <2>1. {DrawPixel(c, p[1], p[2]) : p \in ps} = D
    OBVIOUS
  <2> QED BY <2>1 DEF DrawPixels
<1>2. DOMAIN f = ps
  OBVIOUS
<1>3. ASSUME NEW p \in ps
      PROVE  f[p] \in Seq(Jobs) /\ Covers(f[p]) = {p} \cap View(c)
  <2> DEFINE x == p[1]
             y == p[2]
  <2>1. x \in Int /\ y \in Int /\ p = <<x, y>>
    OBVIOUS
  <2>2. f[p] = DrawPixel(c, x, y)
    OBVIOUS
  <2> HIDE DEF x, y, f
  <2> QED BY <2>1, <2>2, PixelCovers
<1> HIDE DEF f
<1>4. IsFiniteSet(D) /\ D \subseteq Seq(Jobs)
  BY <1>2, <1>3, FiniteRange
<1> HIDE DEF D
<1>5. All(SetToSeq(D)) \in Seq(Jobs) /\ Covers(All(SetToSeq(D))) = UNION {Covers(d) : d \in D}
  BY <1>4, AllOfSet
<1>6. UNION {Covers(d) : d \in D} = ps \cap View(c)
  BY <1>3 DEF D
<1> QED BY <1>1, <1>5, <1>6 DEF Draws

-----------------------------------------------------------------------------
(* Bresenham's line: D pixels along it and d across, after i of which it is v across. *)

Along(D, d, i, e, v) ==
  e \in 0 .. D - 1 /\ v \in Nat /\ e = D \div 2 + D * v - d * i

\* The bounds on err carry over to the next column.
LEMMA AlongStep ==
  ASSUME NEW D \in Nat, NEW d \in Nat, 0 < d, d <= D, NEW i \in Nat, NEW e, NEW v, Along(D, d, i, e, v)
  PROVE  Along(D, d, i + 1, IF e < d THEN e - d + D ELSE e - d, IF e < d THEN v + 1 ELSE v)
<1> DEFINE a == D * v
           b == d * i
           h == D \div 2
<1>1. D * (v + 1) = a + D /\ d * (i + 1) = b + d /\ a \in Int /\ b \in Int
  BY DEF Along
<1>2. e \in 0 .. D - 1 /\ v \in Nat /\ e = h + a - b /\ h \in Int
  BY DEF Along
<1> HIDE DEF a, b, h
<1>3. CASE e < d
  <2>1. e - d + D \in 0 .. D - 1 /\ e - d + D = h + (a + D) - (b + d)
    BY <1>1, <1>2, <1>3
  <2> QED BY <1>1, <1>2, <1>3, <2>1 DEF Along, h
<1>4. CASE ~(e < d)
  <2>1. e - d \in 0 .. D - 1 /\ e - d = h + a - (b + d)
    BY <1>1, <1>2, <1>4
  <2> QED BY <1>1, <1>2, <1>4, <2>1 DEF Along, h, a
<1> QED BY <1>3, <1>4

\* After the last column the end is reached.
LEMMA AlongEnd ==
  ASSUME NEW D \in Nat, NEW d \in Nat, 0 < d, d <= D, NEW i \in 0 .. D, NEW e, NEW v, Along(D, d, i, e, v)
  PROVE  v \in 0 .. d /\ 2 * Abs(D * v - d * i) <= D /\ (i = D => v = d)
<1> DEFINE a == D * v
           b == d * i
           h == D \div 2
<1>1. e \in 0 .. D - 1 /\ v \in Nat /\ e = h + a - b /\ a \in Int /\ b \in Int
  BY DEF Along
<1>2. h \in Int /\ (D = 2 * h \/ D = 2 * h + 1)
  OBVIOUS
<1>3. b <= d * D /\ d * D = D * d /\ D * d \in Int
  OBVIOUS
<1>4. v <= d
  <2> SUFFICES ASSUME v >= d + 1 PROVE FALSE
    BY <1>1
  <2>1. a >= D * (d + 1) /\ D * (d + 1) = D * d + D
    BY <1>1
  <2> DEFINE z == D * d
  <2>2. z \in Int /\ a >= z + D /\ b <= z
    BY <1>3, <2>1
  <2> HIDE DEF a, b, h, z
  <2> QED BY <1>1, <1>2, <2>2
<1>5. i = D => v >= d
  <2> SUFFICES ASSUME i = D, v + 1 <= d PROVE FALSE
    BY <1>1
  <2>1. D * (v + 1) <= D * d /\ D * (v + 1) = a + D /\ b = D * d
    BY <1>1
  <2> DEFINE z == D * d
  <2>2. z \in Int /\ a + D <= z /\ b = z
    BY <1>3, <2>1
  <2> HIDE DEF a, b, h, z
  <2> QED BY <1>1, <1>2, <2>2
<1>6. 2 * Abs(a - b) <= D
  <2> HIDE DEF a, b, h
  <2> QED BY <1>1, <1>2 DEF Abs
<1> QED BY <1>1, <1>4, <1>5, <1>6

Towards(a, b) == IF a < b THEN 1 ELSE -1
States == [x : Int, y : Int, e : Int]

\* The states of the loop, of which there are enough to reach the end.
Tracing(x0, y0, x1, y1, at) ==
  LET dx == Abs(x1 - x0)  dy == Abs(y1 - y0) IN
    /\ at \in [0 .. dx + dy -> States]
    /\ at[0] = [x |-> x0, y |-> y0, e |-> Quotient(IF dx > dy THEN dx ELSE -dy, 2)]
    /\ \A i \in 1 .. dx + dy : at[i] = LineStep(dx, dy, Towards(x0, x1), Towards(y0, y1), at[i - 1])

\* The loop ends at i; the pixels of the line are those of the rounds up to the first end.
EndsAt(at, x1, y1, i) == at[i].x = x1 /\ at[i].y = y1
Traced(x0, y0, x1, y1, at) ==
  /\ Tracing(x0, y0, x1, y1, at)
  /\ \A m \in 0 .. Abs(x1 - x0) + Abs(y1 - y0) :
       EndsAt(at, x1, y1, m) /\ (\A j \in 0 .. m - 1 : ~EndsAt(at, x1, y1, j))
         => LinePixels(x0, y0, x1, y1) = {<<at[i].x, at[i].y>> : i \in 0 .. m}

\* A step of one, in the direction s, counted from b.
LEMMA Signed ==
  ASSUME NEW s \in {-1, 1}, NEW a \in Int, NEW b \in Int, NEW m \in Int
  PROVE  s * ((a + s) - b) = s * (a - b) + 1 /\ s * (m + 1) = s * m + s /\ s * m \in Int /\ s * (a - b) \in Int
OBVIOUS

\* The loop of HAL_GFX_DrawLine() as the sequence of its rounds.
LEMMA LineTraced ==
  ASSUME NEW x0 \in Int, NEW y0 \in Int, NEW x1 \in Int, NEW y1 \in Int
  PROVE  \E at : Traced(x0, y0, x1, y1, at)
<1> DEFINE dx == Abs(x1 - x0)
           dy == Abs(y1 - y0)
           sx == IF x0 < x1 THEN 1 ELSE -1
           sy == IF y0 < y1 THEN 1 ELSE -1
           n == dx + dy
           s0 == [x |-> x0, y |-> y0, e |-> Quotient(IF dx > dy THEN dx ELSE -dy, 2)]
           e(h, i) == IF i = 0 THEN s0 ELSE LineStep(dx, dy, sx, sy, h[i - 1])
           F == [q \in (0 .. n) \X States |-> LineStep(dx, dy, sx, sy, q[2])]
           Is(f) == f = [i \in 0 .. n |-> e(f, i)]
           at == CHOOSE f : Is(f)
           Ends(i) == at[i].x = x1 /\ at[i].y = y1
           last == CHOOSE i \in 0 .. n : Ends(i) /\ \A j \in 0 .. i - 1 : ~Ends(j)
<1>1. dx \in Nat /\ dy \in Nat /\ sx \in Int /\ sy \in Int /\ n \in Nat
  BY DEF Abs
<1>2. s0 \in States
  <2>1. Quotient(IF dx > dy THEN dx ELSE -dy, 2) \in Int
    <3> HIDE DEF dx, dy
    <3> QED BY <1>1 DEF Quotient
  <2> QED BY <2>1 DEF States
<1>3. F \in [(0 .. n) \X States -> States]
  <2> SUFFICES ASSUME NEW s \in States PROVE LineStep(dx, dy, sx, sy, s) \in States
    <3> HIDE DEF n, dx, dy, sx, sy
    <3> QED OBVIOUS
  <2> HIDE DEF dx, dy, sx, sy
  <2> QED BY <1>1 DEF LineStep, States
<1>4. LinePixels(x0, y0, x1, y1) = {<<at[i].x, at[i].y>> : i \in 0 .. last}
  BY DEF LinePixels
<1>5. \E f : Is(f)
  <2> HIDE DEF F, s0, n
  <2>1. PICK f \in [0 .. n -> States] : f[0] = s0 /\ \A i \in 1 .. n : f[i] = F[<<i, f[i - 1]>>]
    <3>1. \E f : Recurs(n, States, s0, F, f)
      BY <1>1, <1>2, <1>3, Recursion
    <3> QED BY <3>1 DEF Recurs
  <2>2. \A i \in 0 .. n : f[i] = e(f, i)
    <3> SUFFICES ASSUME NEW i \in 0 .. n PROVE f[i] = e(f, i)
      OBVIOUS
    <3> HIDE DEF dx, dy, sx, sy
    <3>1. CASE i = 0
      BY <2>1, <3>1
    <3>2. CASE i # 0
      <4>1. i \in 1 .. n /\ i - 1 \in 0 .. n
        BY <1>1, <3>2
      <4>2. f[i - 1] \in States
        BY <2>1, <4>1
      <4>3. F[<<i, f[i - 1]>>] = LineStep(dx, dy, sx, sy, f[i - 1])
        BY <4>2 DEF F
      <4> QED BY <2>1, <3>2, <4>1, <4>3
    <3> QED BY <3>1, <3>2
  <2>3. Is(f)
    <3> HIDE DEF e
    <3> QED BY <2>1, <2>2
  <2> QED BY <2>3
<1>6. Is(at)
  <2> HIDE DEF Is
  <2> QED BY <1>5
<1> HIDE DEF at
<1>7. \A i \in 0 .. n : at[i] = e(at, i)
  <2> HIDE DEF e, n
  <2> QED BY <1>6
<1>8. at[0] = s0 /\ \A i \in 1 .. n : at[i] = LineStep(dx, dy, sx, sy, at[i - 1])
  <2> HIDE DEF dx, dy, sx, sy, s0
  <2> QED BY <1>1, <1>7
<1>9. at \in [0 .. n -> States]
  <2> DEFINE S == {m \in Nat : m <= n => at[m] \in States}
  <2> HIDE DEF dx, dy, sx, sy, s0, n, F
  <2>1. 0 \in S
    BY <1>2, <1>8
  <2>2. \A m \in Nat : m \in S => m + 1 \in S
    <3> SUFFICES ASSUME NEW m \in Nat, m \in S, m + 1 <= n PROVE at[m + 1] \in States
      OBVIOUS
    <3>1. at[m] \in States /\ m + 1 \in 1 .. n /\ (m + 1) - 1 = m
      BY <1>1
    <3>2. at[m + 1] = LineStep(dx, dy, sx, sy, at[m])
      BY <1>8, <3>1
    <3> HIDE DEF S
    <3> QED BY <1>1, <3>1, <3>2 DEF LineStep, States
  <2>3. Nat \subseteq S
    <3> HIDE DEF S
    <3> QED BY <2>1, <2>2, Induction
  <2>4. \A i \in 0 .. n : at[i] \in States
    BY <2>3
  <2>5. at = [i \in 0 .. n |-> e(at, i)]
    BY <1>6
  <2> HIDE DEF e
  <2> QED BY <2>4, <2>5
<1>10. Tracing(x0, y0, x1, y1, at)
  <2> HIDE DEF s0
  <2> QED BY <1>8, <1>9 DEF Tracing, Towards, s0
<1>11. ASSUME NEW m \in 0 .. n, Ends(m), \A j \in 0 .. m - 1 : ~Ends(j)
       PROVE  last = m
  <2> HIDE DEF Ends, n
  <2> DEFINE G(i) == Ends(i) /\ \A j \in 0 .. i - 1 : ~Ends(j)
  <2>1. \A i \in 0 .. n : G(i) => i = m
    <3> SUFFICES ASSUME NEW i \in 0 .. n, G(i) PROVE i = m
      OBVIOUS
    <3>1. i \in Int /\ m \in Int /\ i >= 0 /\ m >= 0
      BY <1>1
    <3>2. ~(m < i)
      <4> SUFFICES ASSUME m < i PROVE FALSE
        OBVIOUS
      <4>1. m \in 0 .. i - 1
        BY <3>1
      <4> QED BY <1>11, <4>1
    <3>3. ~(i < m)
      <4> SUFFICES ASSUME i < m PROVE FALSE
        OBVIOUS
      <4>1. i \in 0 .. m - 1
        BY <3>1
      <4> QED BY <1>11, <4>1
    <3> QED BY <3>1, <3>2, <3>3
  <2>2. G(m)
    BY <1>11
  <2>3. last = CHOOSE i \in 0 .. n : G(i)
    OBVIOUS
  <2> HIDE DEF G, last
  <2>4. last \in 0 .. n /\ G(last)
    BY <2>2, <2>3
  <2> QED BY <2>1, <2>4
<1> HIDE DEF last
<1> QED BY <1>4, <1>10, <1>11 DEF EndsAt, Traced

-----------------------------------------------------------------------------

\* The pixels of a line: one for every step along it, at most half a pixel away.
Close(V, D, d) == V \in [0 .. D -> 0 .. d] /\ \A i \in 0 .. D : 2 * Abs(D * V[i] - d * i) <= D
ShallowPath(x0, y0, sx, sy, V, n) == {<<x0 + sx * i, y0 + sy * V[i]>> : i \in 0 .. n}
SteepPath(x0, y0, sx, sy, V, n)   == {<<x0 + sx * V[i], y0 + sy * i>> : i \in 0 .. n}
IsShallow(x0, y0, x1, y1) ==
  \E V : /\ Close(V, Abs(x1 - x0), Abs(y1 - y0))
         /\ LinePixels(x0, y0, x1, y1) = ShallowPath(x0, y0, Towards(x0, x1), Towards(y0, y1), V, Abs(x1 - x0))
SteepIsh(x0, y0, x1, y1) ==
  \E V : /\ Close(V, Abs(y1 - y0), Abs(x1 - x0))
         /\ LinePixels(x0, y0, x1, y1) = SteepPath(x0, y0, Towards(x0, x1), Towards(y0, y1), V, Abs(y1 - y0))

\* A shallow line takes a step of x in every round.
LEMMA ShallowLine ==
  ASSUME NEW x0 \in Int, NEW y0 \in Int, NEW x1 \in Int, NEW y1 \in Int,
         NEW dx, dx = Abs(x1 - x0), NEW dy, dy = Abs(y1 - y0), 0 < dy, dy < dx,
         NEW sx, sx = Towards(x0, x1), NEW sy, sy = Towards(y0, y1)
  PROVE  IsShallow(x0, y0, x1, y1)
<1>1. PICK at : Traced(x0, y0, x1, y1, at)
  BY LineTraced
<1>2. /\ dx \in Nat /\ dy \in Nat /\ sx \in {-1, 1} /\ sy \in {-1, 1}
      /\ x1 = x0 + sx * dx /\ y1 = y0 + sy * dy
  BY DEF Abs, Towards
<1>3. /\ at \in [0 .. dx + dy -> States]
      /\ at[0] = [x |-> x0, y |-> y0, e |-> Quotient(dx, 2)]
      /\ \A i \in 1 .. dx + dy : at[i] = LineStep(dx, dy, sx, sy, at[i - 1])
  <2>1. (IF dx > dy THEN dx ELSE -dy) = dx
    BY <1>2
  <2> QED BY <1>1, <2>1 DEF Traced, Tracing
<1> DEFINE v(i) == sy * (at[i].y - y0)
           Ok(i) == at[i].x = x0 + sx * i /\ Along(dx, dy, i, at[i].e, v(i))
           S == {m \in Nat : m <= dx => Ok(m)}
<1>4. 0 \in S
  <2>1. at[0].x = x0 /\ at[0].y = y0 /\ at[0].e = Quotient(dx, 2)
    BY <1>3
  <2>2. v(0) = 0
    BY <1>2, <2>1
  <2>3. Quotient(dx, 2) = dx \div 2 /\ dx \div 2 \in 0 .. dx - 1
    BY <1>2 DEF Quotient
  <2>4. dx * 0 = 0 /\ dy * 0 = 0 /\ sx * 0 = 0
    BY <1>2
  <2>5. dx \div 2 = dx \div 2 + dx * 0 - dy * 0
    BY <1>2, <2>3, <2>4
  <2> HIDE DEF v
  <2>6. Along(dx, dy, 0, at[0].e, v(0))
    BY <2>1, <2>2, <2>3, <2>5 DEF Along
  <2> QED BY <2>1, <2>4, <2>6
<1>5. \A m \in Nat : m \in S => m + 1 \in S
  <2> SUFFICES ASSUME NEW m \in Nat, m \in S, m + 1 <= dx PROVE Ok(m + 1)
    OBVIOUS
  <2> DEFINE s == at[m]
             t == at[m + 1]
  <2>1. Ok(m)
    BY <1>2
  <2>2. s \in States /\ t = LineStep(dx, dy, sx, sy, s)
    <3>1. m \in 0 .. dx + dy /\ m + 1 \in 1 .. dx + dy /\ (m + 1) - 1 = m
      BY <1>2
    <3> QED BY <1>3, <3>1
  <2>3. s.x = x0 + sx * m /\ Along(dx, dy, m, s.e, v(m))
    BY <2>1
  <2> HIDE DEF S
  <2>4. s.e \in Int /\ s.x \in Int /\ s.y \in Int /\ 0 <= s.e /\ v(m) = sy * (s.y - y0)
    <3>1. v(m) = sy * (s.y - y0)
      OBVIOUS
    <3> HIDE DEF v, s
    <3>2. s.e \in Int /\ s.x \in Int /\ s.y \in Int
      BY <2>2 DEF States
    <3>3. 0 <= s.e
      BY <1>2, <2>3 DEF Along
    <3> QED BY <3>1, <3>2, <3>3
  <2>5. v(m + 1) = sy * (t.y - y0)
    OBVIOUS
  <2> DEFINE w == v(m)
             z == v(m + 1)
  <2> HIDE DEF s, t, v
  <2>6. s.e > -dx
    BY <1>2, <2>4
  <2>7. /\ t.x = s.x + sx
        /\ t.y = IF s.e < dy THEN s.y + sy ELSE s.y
        /\ t.e = (s.e - dy) + (IF s.e < dy THEN dx ELSE 0)
    BY <2>2, <2>6 DEF LineStep
  <2>8. t.x = x0 + sx * (m + 1)
    <3> DEFINE a == sx * m
    <3>1. sx * (m + 1) = a + sx /\ a \in Int
      BY <1>2, Signed
    <3>2. s.x = x0 + a /\ t.x = s.x + sx
      BY <2>3, <2>7
    <3> DEFINE b == sx * (m + 1)
    <3>3. b = a + sx /\ sx \in Int
      BY <1>2, <3>1
    <3> HIDE DEF a, b
    <3>4. t.x = x0 + b
      BY <3>1, <3>2, <3>3
    <3> QED BY <3>4 DEF b
  <2>9. t.e = IF s.e < dy THEN s.e - dy + dx ELSE s.e - dy
    <3>1. s.e \in Int /\ dx \in Int /\ dy \in Int
      BY <1>2, <2>4
    <3>2. CASE s.e < dy
      BY <2>7, <3>1, <3>2
    <3>3. CASE ~(s.e < dy)
      BY <2>7, <3>1, <3>3
    <3> QED BY <3>2, <3>3
  <2>10. z = IF s.e < dy THEN w + 1 ELSE w
    <3>1. CASE s.e < dy
      <4>1. z = sy * ((s.y + sy) - y0)
        BY <2>5, <2>7, <3>1
      <4>2. sy * ((s.y + sy) - y0) = sy * (s.y - y0) + 1
        BY <1>2, <2>4, Signed
      <4> QED BY <2>4, <3>1, <4>1, <4>2
    <3>2. CASE ~(s.e < dy)
      BY <2>4, <2>5, <2>7, <3>2
    <3> QED BY <3>1, <3>2
  <2>11. Along(dx, dy, m + 1, t.e, z)
    <3>1. dy <= dx /\ Along(dx, dy, m, s.e, w)
      BY <1>2, <2>3
    <3> HIDE DEF w, z
    <3> QED BY <1>2, <2>9, <2>10, <3>1, AlongStep
  <2> QED BY <2>8, <2>11 DEF t
<1>6. \A i \in 0 .. dx : Ok(i)
  <2>1. Nat \subseteq S
    <3> HIDE DEF S
    <3> QED BY <1>4, <1>5, Induction
  <2> HIDE DEF Ok
  <2> QED BY <1>2, <2>1
<1>7. ASSUME NEW i \in 0 .. dx
      PROVE  /\ v(i) \in 0 .. dy /\ 2 * Abs(dx * v(i) - dy * i) <= dx /\ (i = dx => v(i) = dy)
             /\ at[i].x = x0 + sx * i /\ at[i].y = y0 + sy * v(i)
  <2> DEFINE u == v(i)
  <2>1. Ok(i) /\ dy <= dx
    BY <1>2, <1>6
  <2>2. at[i].y \in Int
    <3>1. i \in 0 .. dx + dy
      BY <1>2
    <3> QED BY <1>3, <3>1 DEF States
  <2>3. at[i].y = y0 + sy * u
    BY <1>2, <2>2
  <2>4. Along(dx, dy, i, at[i].e, u)
    BY <2>1
  <2> HIDE DEF u
  <2>5. u \in 0 .. dy /\ 2 * Abs(dx * u - dy * i) <= dx /\ (i = dx => u = dy)
    BY <1>2, <2>1, <2>4, AlongEnd
  <2> QED BY <2>1, <2>3, <2>5 DEF u
<1> HIDE DEF v, S, Ok
<1> DEFINE V == [i \in 0 .. dx |-> v(i)]
<1>8. V \in [0 .. dx -> 0 .. dy]
  BY <1>7
<1>9. LinePixels(x0, y0, x1, y1) = {<<at[i].x, at[i].y>> : i \in 0 .. dx}
  <2>1. dx \in 0 .. dx + dy /\ dx \in 0 .. dx
    BY <1>2
  <2>2. EndsAt(at, x1, y1, dx)
    BY <1>2, <1>7, <2>1 DEF EndsAt
  <2>3. \A j \in 0 .. dx - 1 : ~EndsAt(at, x1, y1, j)
    <3> SUFFICES ASSUME NEW j \in 0 .. dx - 1, at[j].x = x1 PROVE FALSE
      BY DEF EndsAt
    <3>1. j \in 0 .. dx /\ j < dx
      BY <1>2
    <3>2. x0 + sx * j = x0 + sx * dx
      BY <1>2, <1>7, <3>1
    <3>3. sx * j = sx * dx
      BY <1>2, <3>2
    <3> QED BY <1>2, <3>1, <3>3
  <2> QED BY <1>1, <2>1, <2>2, <2>3 DEF Traced
<1>10. {<<at[i].x, at[i].y>> : i \in 0 .. dx} = {<<x0 + sx * i, y0 + sy * V[i]>> : i \in 0 .. dx}
  <2>1. \A i \in 0 .. dx : at[i].x = x0 + sx * i /\ at[i].y = y0 + sy * V[i]
    BY <1>7
  <2> QED BY <2>1
<1>11. \A i \in 0 .. dx : 2 * Abs(dx * V[i] - dy * i) <= dx
  BY <1>7
<1> HIDE DEF V
<1>12. Close(V, dx, dy) /\ LinePixels(x0, y0, x1, y1) = ShallowPath(x0, y0, sx, sy, V, dx)
  BY <1>8, <1>9, <1>10, <1>11 DEF Close, ShallowPath
<1> QED BY <1>12 DEF IsShallow
\* A steep line, or a diagonal one, takes a step of y in every round.
LEMMA SteepLine ==
  ASSUME NEW x0 \in Int, NEW y0 \in Int, NEW x1 \in Int, NEW y1 \in Int,
         NEW dx, dx = Abs(x1 - x0), NEW dy, dy = Abs(y1 - y0), 0 < dx, dx <= dy,
         NEW sx, sx = Towards(x0, x1), NEW sy, sy = Towards(y0, y1)
  PROVE  SteepIsh(x0, y0, x1, y1)
<1>1. PICK at : Traced(x0, y0, x1, y1, at)
  BY LineTraced
<1>2. /\ dx \in Nat /\ dy \in Nat /\ sx \in {-1, 1} /\ sy \in {-1, 1}
      /\ x1 = x0 + sx * dx /\ y1 = y0 + sy * dy
  BY DEF Abs, Towards
<1>3. /\ at \in [0 .. dx + dy -> States]
      /\ at[0] = [x |-> x0, y |-> y0, e |-> Quotient(-dy, 2)]
      /\ \A i \in 1 .. dx + dy : at[i] = LineStep(dx, dy, sx, sy, at[i - 1])
  <2>1. (IF dx > dy THEN dx ELSE -dy) = -dy
    BY <1>2
  <2> QED BY <1>1, <2>1 DEF Traced, Tracing
<1> DEFINE v(i) == sx * (at[i].x - x0)
           Ok(i) == at[i].y = y0 + sy * i /\ Along(dy, dx, i, -at[i].e, v(i))
           S == {m \in Nat : m <= dy => Ok(m)}
<1>4. 0 \in S
  <2>1. at[0].x = x0 /\ at[0].y = y0 /\ at[0].e = Quotient(-dy, 2)
    BY <1>3
  <2>2. v(0) = 0
    BY <1>2, <2>1
  <2>3. dy \div 2 \in 0 .. dy - 1 /\ -Quotient(-dy, 2) = dy \div 2
    <3>1. ~(-dy >= 0) /\ -(-dy) = dy
      BY <1>2
    <3>2. Quotient(-dy, 2) = -(dy \div 2)
      BY <3>1 DEF Quotient
    <3> QED BY <1>2, <3>2
  <2>4. dx * 0 = 0 /\ dy * 0 = 0 /\ sy * 0 = 0
    BY <1>2
  <2>5. dy \div 2 = dy \div 2 + dy * 0 - dx * 0
    BY <1>2, <2>3, <2>4
  <2> HIDE DEF v
  <2>6. Along(dy, dx, 0, -at[0].e, v(0))
    BY <2>1, <2>2, <2>3, <2>5 DEF Along
  <2> QED BY <2>1, <2>4, <2>6
<1>5. \A m \in Nat : m \in S => m + 1 \in S
  <2> SUFFICES ASSUME NEW m \in Nat, m \in S, m + 1 <= dy PROVE Ok(m + 1)
    OBVIOUS
  <2> DEFINE s == at[m]
             t == at[m + 1]
  <2>1. Ok(m)
    BY <1>2
  <2>2. s \in States /\ t = LineStep(dx, dy, sx, sy, s)
    <3>1. m \in 0 .. dx + dy /\ m + 1 \in 1 .. dx + dy /\ (m + 1) - 1 = m
      BY <1>2
    <3> QED BY <1>3, <3>1
  <2>3. s.y = y0 + sy * m /\ Along(dy, dx, m, -s.e, v(m))
    BY <2>1
  <2> HIDE DEF S
  <2>4. s.e \in Int /\ s.x \in Int /\ s.y \in Int /\ s.e <= 0 /\ v(m) = sx * (s.x - x0)
    <3>1. v(m) = sx * (s.x - x0)
      OBVIOUS
    <3> HIDE DEF v, s
    <3>2. s.e \in Int /\ s.x \in Int /\ s.y \in Int
      BY <2>2 DEF States
    <3>3. s.e <= 0
      <4>1. -s.e >= 0
        BY <1>2, <2>3 DEF Along
      <4> QED BY <3>2, <4>1
    <3> QED BY <3>1, <3>2, <3>3
  <2>5. v(m + 1) = sx * (t.x - x0)
    OBVIOUS
  <2> DEFINE w == v(m)
             z == v(m + 1)
  <2> HIDE DEF s, t, v
  <2>6. s.e < dy /\ (s.e > -dx <=> -s.e < dx)
    BY <1>2, <2>4
  <2>7. /\ t.y = s.y + sy
        /\ t.x = IF -s.e < dx THEN s.x + sx ELSE s.x
        /\ t.e = (s.e - (IF -s.e < dx THEN dy ELSE 0)) + dx
    BY <2>2, <2>6 DEF LineStep
  <2>8. t.y = y0 + sy * (m + 1)
    <3> DEFINE a == sy * m
    <3>1. sy * (m + 1) = a + sy /\ a \in Int
      BY <1>2, Signed
    <3>2. s.y = y0 + a /\ t.y = s.y + sy
      BY <2>3, <2>7
    <3> DEFINE b == sy * (m + 1)
    <3>3. b = a + sy /\ sy \in Int
      BY <1>2, <3>1
    <3> HIDE DEF a, b
    <3>4. t.y = y0 + b
      BY <3>1, <3>2, <3>3
    <3> QED BY <3>4 DEF b
  <2>9. -t.e = IF -s.e < dx THEN -s.e - dx + dy ELSE -s.e - dx
    <3>1. s.e \in Int /\ dx \in Int /\ dy \in Int
      BY <1>2, <2>4
    <3>2. CASE -s.e < dx
      BY <2>7, <3>1, <3>2
    <3>3. CASE ~(-s.e < dx)
      BY <2>7, <3>1, <3>3
    <3> QED BY <3>2, <3>3
  <2>10. z = IF -s.e < dx THEN w + 1 ELSE w
    <3>1. CASE -s.e < dx
      <4>1. z = sx * ((s.x + sx) - x0)
        BY <2>5, <2>7, <3>1
      <4>2. sx * ((s.x + sx) - x0) = sx * (s.x - x0) + 1
        BY <1>2, <2>4, Signed
      <4> QED BY <2>4, <3>1, <4>1, <4>2
    <3>2. CASE ~(-s.e < dx)
      BY <2>4, <2>5, <2>7, <3>2
    <3> QED BY <3>1, <3>2
  <2>11. Along(dy, dx, m + 1, -t.e, z)
    <3>1. dx <= dy /\ Along(dy, dx, m, -s.e, w)
      BY <1>2, <2>3
    <3> HIDE DEF w, z
    <3> QED BY <1>2, <2>9, <2>10, <3>1, AlongStep
  <2> QED BY <2>8, <2>11 DEF t
<1>6. \A i \in 0 .. dy : Ok(i)
  <2>1. Nat \subseteq S
    <3> HIDE DEF S
    <3> QED BY <1>4, <1>5, Induction
  <2> HIDE DEF Ok
  <2> QED BY <1>2, <2>1
<1>7. ASSUME NEW i \in 0 .. dy
      PROVE  /\ v(i) \in 0 .. dx /\ 2 * Abs(dy * v(i) - dx * i) <= dy /\ (i = dy => v(i) = dx)
             /\ at[i].y = y0 + sy * i /\ at[i].x = x0 + sx * v(i)
  <2> DEFINE u == v(i)
  <2>1. Ok(i) /\ dx <= dy
    BY <1>2, <1>6
  <2>2. at[i].x \in Int
    <3>1. i \in 0 .. dx + dy
      BY <1>2
    <3> QED BY <1>3, <3>1 DEF States
  <2>3. at[i].x = x0 + sx * u
    BY <1>2, <2>2
  <2>4. Along(dy, dx, i, -at[i].e, u)
    BY <2>1
  <2> HIDE DEF u
  <2>5. u \in 0 .. dx /\ 2 * Abs(dy * u - dx * i) <= dy /\ (i = dy => u = dx)
    BY <1>2, <2>1, <2>4, AlongEnd
  <2> QED BY <2>1, <2>3, <2>5 DEF u
<1> HIDE DEF v, S, Ok
<1> DEFINE V == [i \in 0 .. dy |-> v(i)]
<1>8. V \in [0 .. dy -> 0 .. dx]
  BY <1>7
<1>9. LinePixels(x0, y0, x1, y1) = {<<at[i].x, at[i].y>> : i \in 0 .. dy}
  <2>1. dy \in 0 .. dx + dy /\ dy \in 0 .. dy
    BY <1>2
  <2>2. EndsAt(at, x1, y1, dy)
    BY <1>2, <1>7, <2>1 DEF EndsAt
  <2>3. \A j \in 0 .. dy - 1 : ~EndsAt(at, x1, y1, j)
    <3> SUFFICES ASSUME NEW j \in 0 .. dy - 1, at[j].y = y1 PROVE FALSE
      BY DEF EndsAt
    <3>1. j \in 0 .. dy /\ j < dy
      BY <1>2
    <3>2. y0 + sy * j = y0 + sy * dy
      BY <1>2, <1>7, <3>1
    <3>3. sy * j = sy * dy
      BY <1>2, <3>2
    <3> QED BY <1>2, <3>1, <3>3
  <2> QED BY <1>1, <2>1, <2>2, <2>3 DEF Traced
<1>10. {<<at[i].x, at[i].y>> : i \in 0 .. dy} = {<<x0 + sx * V[i], y0 + sy * i>> : i \in 0 .. dy}
  <2>1. \A i \in 0 .. dy : at[i].y = y0 + sy * i /\ at[i].x = x0 + sx * V[i]
    BY <1>7
  <2> QED BY <2>1
<1>11. \A i \in 0 .. dy : 2 * Abs(dy * V[i] - dx * i) <= dy
  BY <1>7
<1> HIDE DEF V
<1>12. Close(V, dy, dx) /\ LinePixels(x0, y0, x1, y1) = SteepPath(x0, y0, sx, sy, V, dy)
  BY <1>8, <1>9, <1>10, <1>11 DEF Close, SteepPath
<1> QED BY <1>12 DEF SteepIsh

-----------------------------------------------------------------------------
(* What LineFits() asks of the pixels of a line *)

IsSteep(a) == Abs(a[4] - a[2]) > Abs(a[3] - a[1])
Spanned(a) == Greater(Abs(a[3] - a[1]), Abs(a[4] - a[2]))
AtOf(a, p) == IF IsSteep(a) THEN p[2] ELSE p[1]
Near(a) ==
  {p \in (Lesser(a[1], a[3]) .. Greater(a[1], a[3])) \X (Lesser(a[2], a[4]) .. Greater(a[2], a[4])) :
     2 * Abs((a[3] - a[1]) * (p[2] - a[2]) - (a[4] - a[2]) * (p[1] - a[1])) <= Spanned(a)}
LineIs(a, ps) ==
  /\ ps \subseteq Near(a)
  /\ \A p, q \in ps : AtOf(a, p) = AtOf(a, q) => p = q
  /\ \A p \in Near(a) : \E q \in ps : AtOf(a, q) = AtOf(a, p)

-----------------------------------------------------------------------------
(* Where the rounds of a line lead *)

\* From a to b in d steps of s.
Walks(a, b, s, d) ==
  /\ a \in Int /\ b \in Int /\ s \in {-1, 1} /\ d \in Nat /\ d = Abs(b - a) /\ b - a = s * d
  /\ \A i \in 0 .. d : a + s * i \in Lesser(a, b) .. Greater(a, b)
  /\ \A x \in Lesser(a, b) .. Greater(a, b) : \E i \in 0 .. d : a + s * i = x
  /\ \A i, j \in 0 .. d : a + s * i = a + s * j => i = j

\* A walk of steps of at most one.
LEMMA Walking ==
  ASSUME NEW a \in Int, NEW b \in Int
  PROVE  Walks(a, b, Towards(a, b), Abs(b - a))
<1> DEFINE s == Towards(a, b)
           d == Abs(b - a)
<1>1. CASE a < b
  <2>1. s = 1 /\ d = b - a /\ Lesser(a, b) = a /\ Greater(a, b) = b
    BY <1>1 DEF Towards, Abs, Lesser, Greater
  <2> HIDE DEF s, d
  <2>2. \A i \in Int : s * i = i
    BY <2>1
  <2>3. \A x \in a .. b : x - a \in 0 .. d /\ a + s * (x - a) = x
    BY <2>1, <2>2
  <2>4. Walks(a, b, s, d)
    <3>1. a \in Int /\ b \in Int /\ s \in {-1, 1} /\ d \in Nat /\ d = Abs(b - a) /\ b - a = s * d
      BY <1>1, <2>1, <2>2 DEF d
    <3>2. \A i \in 0 .. d : a + s * i \in a .. b
      BY <1>1, <2>1, <2>2
    <3>3. \A i, j \in 0 .. d : a + s * i = a + s * j => i = j
      BY <1>1, <2>1, <2>2
    <3> QED BY <2>1, <2>3, <3>1, <3>2, <3>3 DEF Walks
  <2> QED BY <2>4 DEF s, d
<1>2. CASE ~(a < b)
  <2>1. s = -1 /\ d = a - b /\ Lesser(a, b) = b /\ Greater(a, b) = a
    BY <1>2 DEF Towards, Abs, Lesser, Greater
  <2> HIDE DEF s, d
  <2>2. \A i \in Int : s * i = -i
    BY <2>1
  <2>3. \A x \in b .. a : a - x \in 0 .. d /\ a + s * (a - x) = x
    BY <2>1, <2>2
  <2>4. Walks(a, b, s, d)
    <3>1. a \in Int /\ b \in Int /\ s \in {-1, 1} /\ d \in Nat /\ d = Abs(b - a) /\ b - a = s * d
      BY <1>2, <2>1, <2>2 DEF d
    <3>2. \A i \in 0 .. d : a + s * i \in b .. a
      BY <1>2, <2>1, <2>2
    <3>3. \A i, j \in 0 .. d : a + s * i = a + s * j => i = j
      BY <1>2, <2>1, <2>2
    <3> QED BY <2>1, <2>3, <3>1, <3>2, <3>3 DEF Walks
  <2> QED BY <2>4 DEF s, d
<1> QED BY <1>1, <1>2

\* How far a pixel of a walk in both directions is from the line.
LEMMA WalkDistance ==
  ASSUME NEW x0, NEW x1, NEW s, NEW d, Walks(x0, x1, s, d),
         NEW y0, NEW y1, NEW t, NEW e, Walks(y0, y1, t, e),
         NEW i \in 0 .. d, NEW v \in 0 .. e
  PROVE  Abs((x1 - x0) * ((y0 + t * v) - y0) - (y1 - y0) * ((x0 + s * i) - x0)) = Abs(d * v - e * i)
<1>1. s \in {-1, 1} /\ d \in Int /\ x1 - x0 = s * d /\ x0 \in Int /\ i \in Int
  BY DEF Walks
<1>2. t \in {-1, 1} /\ e \in Int /\ y1 - y0 = t * e /\ y0 \in Int /\ v \in Int
  BY DEF Walks
<1>3. (y0 + t * v) - y0 = t * v
  <2> DEFINE a == t * v
  <2>1. a \in Int
    BY <1>2
  <2> HIDE DEF a
  <2> QED BY <1>2, <2>1 DEF a
<1>4. (x0 + s * i) - x0 = s * i
  <2> DEFINE a == s * i
  <2>1. a \in Int
    BY <1>1
  <2> HIDE DEF a
  <2> QED BY <1>1, <2>1 DEF a
<1>5. Abs((s * d) * (t * v) - (t * e) * (s * i)) = Abs(d * v - e * i)
  <2>1. s \in {-1, 1} /\ d \in Int /\ i \in Int /\ t \in {-1, 1} /\ e \in Int /\ v \in Int
    BY <1>1, <1>2
  <2> DEFINE a == d * v
             b == e * i
             u == s * t
  <2>2. a \in Int /\ b \in Int /\ u \in {-1, 1}
    BY <2>1
  <2>3. (s * d) * (t * v) - (t * e) * (s * i) = u * (a - b)
    BY <2>1
  <2>4. Abs(u * (a - b)) = Abs(a - b)
    <3> HIDE DEF u, a, b
    <3> QED BY <2>2 DEF Abs
  <2> QED BY <2>3, <2>4
<1> QED BY <1>1, <1>2, <1>3, <1>4, <1>5, Zenon

\* The diagonal is close to itself.
LEMMA DiagonalClose ==
  ASSUME NEW V, NEW d \in Nat \ {0}, Close(V, d, d)
  PROVE  \A i \in 0 .. d : V[i] = i
<1> SUFFICES ASSUME NEW i \in 0 .. d PROVE V[i] = i
  OBVIOUS
<1> DEFINE v == V[i]
           b == d * v
           e == d * i
<1>1. v \in Int /\ 2 * Abs(b - e) <= d
  <2>1. V \in [0 .. d -> 0 .. d] /\ \A k \in 0 .. d : 2 * Abs(d * V[k] - d * k) <= d
    BY DEF Close
  <2>2. v \in 0 .. d
    BY <2>1
  <2>3. v \in Int
    BY <2>2
  <2>4. 2 * Abs(b - e) <= d
    BY <2>1, Zenon
  <2> QED BY <2>3, <2>4
<1> HIDE DEF v
<1>2. b \in Int /\ e \in Int /\ (v > i => b >= e + d) /\ (v < i => e >= b + d)
  <2>1. v > i => d * v >= d * (i + 1)
    BY <1>1
  <2>2. v < i => d * i >= d * (v + 1)
    BY <1>1
  <2>3. d * (i + 1) = d * i + d /\ d * (v + 1) = d * v + d
    BY <1>1
  <2> QED BY <1>1, <2>1, <2>2, <2>3
<1> HIDE DEF b, e
<1>3. ~(v > i) /\ ~(v < i)
  BY <1>1, <1>2 DEF Abs
<1> QED BY <1>1, <1>3 DEF v

Ends4(a, x0, y0, x1, y1) == a[1] = x0 /\ a[2] = y0 /\ a[3] = x1 /\ a[4] = y1

\* A shallow path is a line.
LEMMA ShallowIs ==
  ASSUME NEW a, NEW x0, NEW y0, NEW x1, NEW y1, Ends4(a, x0, y0, x1, y1),
         NEW dx, NEW dy, NEW sx, NEW sy, Walks(x0, x1, sx, dx), Walks(y0, y1, sy, dy), dy < dx,
         NEW V, Close(V, dx, dy)
  PROVE  LineIs(a, ShallowPath(x0, y0, sx, sy, V, dx))
<1> DEFINE RX == Lesser(x0, x1) .. Greater(x0, x1)
           RY == Lesser(y0, y1) .. Greater(y0, y1)
           X(i) == x0 + sx * i
           Y(i) == y0 + sy * i
           P == {<<X(i), Y(V[i])>> : i \in 0 .. dx}
<1>0. ShallowPath(x0, y0, sx, sy, V, dx) = P
  BY DEF ShallowPath
<1>1. /\ dx \in Nat /\ dx = Abs(x1 - x0)
      /\ \A i \in 0 .. dx : X(i) \in RX
      /\ \A x \in RX : \E i \in 0 .. dx : X(i) = x
      /\ \A i, j \in 0 .. dx : X(i) = X(j) => i = j
  BY DEF Walks
<1>2. dy \in Nat /\ dy = Abs(y1 - y0) /\ \A i \in 0 .. dy : Y(i) \in RY
  BY DEF Walks
<1>3. ~IsSteep(a) /\ Spanned(a) = dx
  BY <1>1, <1>2 DEF IsSteep, Spanned, Greater, Ends4
<1>4. Near(a) = {p \in RX \X RY : 2 * Abs((x1 - x0) * (p[2] - y0) - (y1 - y0) * (p[1] - x0)) <= dx}
  BY <1>3 DEF Near, Ends4
<1>5. ASSUME NEW i \in 0 .. dx
      PROVE  V[i] \in 0 .. dy /\ 2 * Abs((x1 - x0) * (Y(V[i]) - y0) - (y1 - y0) * (X(i) - x0)) <= dx
  <2> DEFINE v == V[i]
  <2>1. v \in 0 .. dy /\ 2 * Abs(dx * v - dy * i) <= dx
    BY DEF Close
  <2> HIDE DEF v
  <2>2. Abs((x1 - x0) * ((y0 + sy * v) - y0) - (y1 - y0) * ((x0 + sx * i) - x0)) = Abs(dx * v - dy * i)
    BY <2>1, WalkDistance
  <2> QED BY <2>1, <2>2 DEF v
<1> HIDE DEF X, Y, RX, RY
<1>6. P \subseteq Near(a)
  BY <1>1, <1>2, <1>4, <1>5
<1>7. \A p, q \in P : p[1] = q[1] => p = q
  BY <1>1
<1>8. \A p \in Near(a) : \E q \in P : q[1] = p[1]
  <2> SUFFICES ASSUME NEW p \in Near(a) PROVE \E q \in P : q[1] = p[1]
    OBVIOUS
  <2>1. p[1] \in RX
    BY <1>4
  <2>2. PICK i \in 0 .. dx : X(i) = p[1]
    BY <1>1, <2>1
  <2>3. <<X(i), Y(V[i])>> \in P
    OBVIOUS
  <2> HIDE DEF P
  <2> QED BY <2>2, <2>3
<1> HIDE DEF P
<1>9. LineIs(a, P)
  BY <1>3, <1>6, <1>7, <1>8 DEF LineIs, AtOf
<1> QED BY <1>0, <1>9

\* A steep path is a line.
LEMMA SteepIs ==
  ASSUME NEW a, NEW x0, NEW y0, NEW x1, NEW y1, Ends4(a, x0, y0, x1, y1),
         NEW dx, NEW dy, NEW sx, NEW sy, Walks(x0, x1, sx, dx), Walks(y0, y1, sy, dy), dx <= dy, 0 < dy,
         NEW V, Close(V, dy, dx)
  PROVE  LineIs(a, SteepPath(x0, y0, sx, sy, V, dy))
<1> DEFINE RX == Lesser(x0, x1) .. Greater(x0, x1)
           RY == Lesser(y0, y1) .. Greater(y0, y1)
           X(i) == x0 + sx * i
           Y(i) == y0 + sy * i
           P == {<<X(V[i]), Y(i)>> : i \in 0 .. dy}
<1>0. SteepPath(x0, y0, sx, sy, V, dy) = P
  BY DEF SteepPath
<1>1. /\ dx \in Nat /\ dx = Abs(x1 - x0)
      /\ \A i \in 0 .. dx : X(i) \in RX
      /\ \A x \in RX : \E i \in 0 .. dx : X(i) = x
      /\ \A i, j \in 0 .. dx : X(i) = X(j) => i = j
  BY DEF Walks
<1>2. /\ dy \in Nat /\ dy = Abs(y1 - y0)
      /\ \A i \in 0 .. dy : Y(i) \in RY
      /\ \A y \in RY : \E i \in 0 .. dy : Y(i) = y
      /\ \A i, j \in 0 .. dy : Y(i) = Y(j) => i = j
  BY DEF Walks
<1>3. (IsSteep(a) <=> dx < dy) /\ Spanned(a) = dy
  BY <1>1, <1>2 DEF IsSteep, Spanned, Greater, Ends4
<1>4. Near(a) = {p \in RX \X RY : 2 * Abs((x1 - x0) * (p[2] - y0) - (y1 - y0) * (p[1] - x0)) <= dy}
  BY <1>3 DEF Near, Ends4
<1>5. ASSUME NEW i \in 0 .. dy
      PROVE  V[i] \in 0 .. dx /\ 2 * Abs((x1 - x0) * (Y(i) - y0) - (y1 - y0) * (X(V[i]) - x0)) <= dy
  <2> DEFINE v == V[i]
  <2>1. v \in 0 .. dx /\ 2 * Abs(dy * v - dx * i) <= dy
    BY DEF Close
  <2> HIDE DEF v
  <2>2. Abs((x1 - x0) * ((y0 + sy * i) - y0) - (y1 - y0) * ((x0 + sx * v) - x0)) = Abs(dx * i - dy * v)
    BY <2>1, WalkDistance
  <2>3. Abs(dx * i - dy * v) = Abs(dy * v - dx * i)
    <3> DEFINE b == dx * i
               e == dy * v
    <3>1. b \in Int /\ e \in Int
      BY <1>1, <1>2, <2>1
    <3> HIDE DEF b, e
    <3>2. Abs(b - e) = Abs(e - b)
      BY <3>1 DEF Abs
    <3> QED BY <3>2 DEF b, e
  <2> QED BY <2>1, <2>2, <2>3 DEF v
<1> HIDE DEF X, Y, RX, RY
<1>6. P \subseteq Near(a)
  BY <1>1, <1>2, <1>4, <1>5
<1>7. \A p, q \in P : p[2] = q[2] => p = q
  BY <1>2
<1>8. \A p \in Near(a) : \E q \in P : q[2] = p[2]
  <2> SUFFICES ASSUME NEW p \in Near(a) PROVE \E q \in P : q[2] = p[2]
    OBVIOUS
  <2>1. p[2] \in RY
    BY <1>4
  <2>2. PICK i \in 0 .. dy : Y(i) = p[2]
    BY <1>2, <2>1
  <2>3. <<X(V[i]), Y(i)>> \in P
    OBVIOUS
  <2> HIDE DEF P
  <2> QED BY <2>2, <2>3
<1>9. CASE dx < dy
  <2> HIDE DEF P
  <2>1. IsSteep(a)
    BY <1>3, <1>9
  <2>2. LineIs(a, P)
    BY <1>6, <1>7, <1>8, <2>1 DEF LineIs, AtOf
  <2> QED BY <1>0, <2>2
<1>10. CASE dx = dy
  <2>1. \A i \in 0 .. dy : V[i] = i
    BY <1>2, <1>10, DiagonalClose
  <2>2. \A p, q \in P : p[1] = q[1] => p = q
    BY <1>1, <1>10, <2>1
  <2>3. \A p \in Near(a) : \E q \in P : q[1] = p[1]
    <3> SUFFICES ASSUME NEW p \in Near(a) PROVE \E q \in P : q[1] = p[1]
      OBVIOUS
    <3>1. p[1] \in RX
      BY <1>4
    <3>2. PICK i \in 0 .. dx : X(i) = p[1]
      BY <1>1, <3>1
    <3>3. <<X(V[i]), Y(i)>> \in P /\ V[i] = i
      BY <1>10, <2>1
    <3> HIDE DEF P
    <3> QED BY <3>2, <3>3
  <2> HIDE DEF P
  <2>4. ~IsSteep(a)
    BY <1>2, <1>3, <1>10
  <2>5. LineIs(a, P)
    BY <1>6, <2>2, <2>3, <2>4 DEF LineIs, AtOf
  <2> QED BY <1>0, <2>5
<1> QED BY <1>1, <1>2, <1>9, <1>10

\* A path has finitely many pixels.
LEMMA PathFinite ==
  ASSUME NEW n \in Int, NEW f, DOMAIN f = 0 .. n
  PROVE  IsFiniteSet({f[i] : i \in 0 .. n})
<1>1. IsFiniteSet(0 .. n)
  BY FS_Interval
<1> QED BY <1>1, FiniteRange

\* A horizontal line is one.
LEMMA Level ==
  ASSUME NEW a, NEW x0 \in Int, NEW y0 \in Int, NEW x1 \in Int, NEW y1 \in Int, Ends4(a, x0, y0, x1, y1), y0 = y1
  PROVE  LineIs(a, Box(Lesser(x0, x1), y0, Abs(x1 - x0) + 1, 1))
<1> DEFINE RX == Lesser(x0, x1) .. Greater(x0, x1)
           RY == Lesser(y0, y1) .. Greater(y0, y1)
<1>1. Box(Lesser(x0, x1), y0, Abs(x1 - x0) + 1, 1) = RX \X {y0}
  <2>1. Lesser(x0, x1) + (Abs(x1 - x0) + 1) - 1 = Greater(x0, x1) /\ y0 + 1 - 1 = y0 /\ y0 .. y0 = {y0}
    BY DEF Lesser, Greater, Abs
  <2> QED BY <2>1 DEF Box
<1>2. RY = {y0}
  <2>1. Lesser(y0, y1) = y0 /\ Greater(y0, y1) = y0 /\ y0 .. y0 = {y0}
    BY DEF Lesser, Greater
  <2> QED BY <2>1
<1>3. ~IsSteep(a) /\ Spanned(a) \in Nat
  BY DEF IsSteep, Spanned, Greater, Ends4, Abs
<1>4. RX \subseteq Int
  BY DEF Lesser, Greater
<1>5. Near(a) = {p \in RX \X RY : 2 * Abs((x1 - x0) * (p[2] - y0) - (y1 - y0) * (p[1] - x0)) <= Spanned(a)}
  BY DEF Near, Ends4
<1> HIDE DEF RX, RY
<1>6. \A p \in RX \X RY : 2 * Abs((x1 - x0) * (p[2] - y0) - (y1 - y0) * (p[1] - x0)) = 0
  <2> SUFFICES ASSUME NEW x \in Int PROVE 2 * Abs((x1 - x0) * (y0 - y0) - (y1 - y0) * (x - x0)) = 0
    <3>1. \A p \in RX \X RY : p[1] \in Int /\ p[2] = y0
      BY <1>2, <1>4
    <3> QED BY <3>1
  <2>1. (x1 - x0) * (y0 - y0) = 0 /\ (y1 - y0) * (x - x0) = 0
    OBVIOUS
  <2> QED BY <2>1 DEF Abs
<1>7. Near(a) = RX \X {y0}
  <2>1. \A p \in RX \X RY : 2 * Abs((x1 - x0) * (p[2] - y0) - (y1 - y0) * (p[1] - x0)) <= Spanned(a)
    BY <1>3, <1>6
  <2> QED BY <1>2, <1>5, <2>1
<1>8. \A p, q \in RX \X {y0} : p[1] = q[1] => p = q
  OBVIOUS
<1> QED BY <1>1, <1>3, <1>7, <1>8 DEF LineIs, AtOf

\* A vertical line is one.
LEMMA Upright ==
  ASSUME NEW a, NEW x0 \in Int, NEW y0 \in Int, NEW x1 \in Int, NEW y1 \in Int, Ends4(a, x0, y0, x1, y1), x0 = x1, y0 # y1
  PROVE  LineIs(a, Box(x0, Lesser(y0, y1), 1, Abs(y1 - y0) + 1))
<1> DEFINE RX == Lesser(x0, x1) .. Greater(x0, x1)
           RY == Lesser(y0, y1) .. Greater(y0, y1)
<1>1. Box(x0, Lesser(y0, y1), 1, Abs(y1 - y0) + 1) = {x0} \X RY
  <2>1. Lesser(y0, y1) + (Abs(y1 - y0) + 1) - 1 = Greater(y0, y1) /\ x0 + 1 - 1 = x0 /\ x0 .. x0 = {x0}
    BY DEF Lesser, Greater, Abs
  <2> QED BY <2>1 DEF Box
<1>2. RX = {x0}
  <2>1. Lesser(x0, x1) = x0 /\ Greater(x0, x1) = x0 /\ x0 .. x0 = {x0}
    BY DEF Lesser, Greater
  <2> QED BY <2>1
<1>3. IsSteep(a) /\ Spanned(a) \in Nat
  BY DEF IsSteep, Spanned, Greater, Ends4, Abs
<1>4. RY \subseteq Int
  BY DEF Lesser, Greater
<1>5. Near(a) = {p \in RX \X RY : 2 * Abs((x1 - x0) * (p[2] - y0) - (y1 - y0) * (p[1] - x0)) <= Spanned(a)}
  BY DEF Near, Ends4
<1> HIDE DEF RX, RY
<1>6. \A p \in RX \X RY : 2 * Abs((x1 - x0) * (p[2] - y0) - (y1 - y0) * (p[1] - x0)) = 0
  <2> SUFFICES ASSUME NEW y \in Int PROVE 2 * Abs((x1 - x0) * (y - y0) - (y1 - y0) * (x0 - x0)) = 0
    <3>1. \A p \in RX \X RY : p[2] \in Int /\ p[1] = x0
      BY <1>2, <1>4
    <3> QED BY <3>1
  <2>1. (x1 - x0) * (y - y0) = 0 /\ (y1 - y0) * (x0 - x0) = 0
    OBVIOUS
  <2> QED BY <2>1 DEF Abs
<1>7. Near(a) = {x0} \X RY
  <2>1. \A p \in RX \X RY : 2 * Abs((x1 - x0) * (p[2] - y0) - (y1 - y0) * (p[1] - x0)) <= Spanned(a)
    BY <1>3, <1>6
  <2> QED BY <1>2, <1>5, <2>1
<1>8. \A p, q \in {x0} \X RY : p[2] = q[2] => p = q
  OBVIOUS
<1> QED BY <1>1, <1>3, <1>7, <1>8 DEF LineIs, AtOf

\* Every other line is one.
LEMMA SlantIs ==
  ASSUME NEW a, NEW x0 \in Int, NEW y0 \in Int, NEW x1 \in Int, NEW y1 \in Int, Ends4(a, x0, y0, x1, y1), x0 # x1, y0 # y1
  PROVE  /\ LineIs(a, LinePixels(x0, y0, x1, y1))
         /\ IsFiniteSet(LinePixels(x0, y0, x1, y1)) /\ LinePixels(x0, y0, x1, y1) \subseteq Int \X Int
<1> DEFINE dx == Abs(x1 - x0)
           dy == Abs(y1 - y0)
           sx == Towards(x0, x1)
           sy == Towards(y0, y1)
<1>1. Walks(x0, x1, sx, dx) /\ Walks(y0, y1, sy, dy)
  BY Walking
<1>2. 0 < dx /\ 0 < dy /\ dx \in Nat /\ dy \in Nat
  BY DEF Abs
<1>3. sx \in Int /\ sy \in Int
  BY DEF Towards
<1>4. CASE dy < dx
  <2>1. IsShallow(x0, y0, x1, y1)
    BY <1>2, <1>4, ShallowLine
  <2> HIDE DEF dx, dy, sx, sy
  <2>2. PICK V : Close(V, dx, dy) /\ LinePixels(x0, y0, x1, y1) = ShallowPath(x0, y0, sx, sy, V, dx)
    BY <2>1 DEF IsShallow, dx, dy, sx, sy
  <2>3. LineIs(a, ShallowPath(x0, y0, sx, sy, V, dx))
    BY <1>1, <1>2, <1>4, <2>2, ShallowIs
  <2> DEFINE f == [i \in 0 .. dx |-> <<x0 + sx * i, y0 + sy * V[i]>>]
  <2>4. ShallowPath(x0, y0, sx, sy, V, dx) = {f[i] : i \in 0 .. dx}
    BY DEF ShallowPath
  <2>5. IsFiniteSet({f[i] : i \in 0 .. dx})
    <3>1. DOMAIN f = 0 .. dx /\ dx \in Int
      BY <1>2
    <3> HIDE DEF f
    <3> QED BY <3>1, PathFinite
  <2>6. {f[i] : i \in 0 .. dx} \subseteq Int \X Int
    <3> SUFFICES ASSUME NEW i \in 0 .. dx PROVE <<x0 + sx * i, y0 + sy * V[i]>> \in Int \X Int
      OBVIOUS
    <3>1. V[i] \in 0 .. dy /\ i \in Int
      BY <2>2 DEF Close
    <3> DEFINE v == V[i]
    <3>2. v \in Int /\ i \in Int
      BY <1>2, <3>1
    <3> HIDE DEF v
    <3>3. sx * v \in Int /\ sy * i \in Int /\ sx * i \in Int /\ sy * v \in Int
      BY <1>3, <3>2
    <3> QED BY <3>3 DEF v
  <2> HIDE DEF f
  <2> QED BY <2>2, <2>3, <2>4, <2>5, <2>6
<1>5. CASE dx <= dy
  <2>1. SteepIsh(x0, y0, x1, y1)
    BY <1>2, <1>5, SteepLine
  <2> HIDE DEF dx, dy, sx, sy
  <2>2. PICK V : Close(V, dy, dx) /\ LinePixels(x0, y0, x1, y1) = SteepPath(x0, y0, sx, sy, V, dy)
    BY <2>1 DEF SteepIsh, dx, dy, sx, sy
  <2>3. LineIs(a, SteepPath(x0, y0, sx, sy, V, dy))
    BY <1>1, <1>2, <1>5, <2>2, SteepIs
  <2> DEFINE f == [i \in 0 .. dy |-> <<x0 + sx * V[i], y0 + sy * i>>]
  <2>4. SteepPath(x0, y0, sx, sy, V, dy) = {f[i] : i \in 0 .. dy}
    BY DEF SteepPath
  <2>5. IsFiniteSet({f[i] : i \in 0 .. dy})
    <3>1. DOMAIN f = 0 .. dy /\ dy \in Int
      BY <1>2
    <3> HIDE DEF f
    <3> QED BY <3>1, PathFinite
  <2>6. {f[i] : i \in 0 .. dy} \subseteq Int \X Int
    <3> SUFFICES ASSUME NEW i \in 0 .. dy PROVE <<x0 + sx * V[i], y0 + sy * i>> \in Int \X Int
      OBVIOUS
    <3>1. V[i] \in 0 .. dx /\ i \in Int
      BY <2>2 DEF Close
    <3> DEFINE v == V[i]
    <3>2. v \in Int /\ i \in Int
      BY <1>2, <3>1
    <3> HIDE DEF v
    <3>3. sx * v \in Int /\ sy * i \in Int /\ sx * i \in Int /\ sy * v \in Int
      BY <1>3, <3>2
    <3> QED BY <3>3 DEF v
  <2> HIDE DEF f
  <2> QED BY <2>2, <2>3, <2>4, <2>5, <2>6
<1> QED BY <1>2, <1>4, <1>5

\* HAL_GFX_DrawLine() draws a line from one end to the other.
LEMMA LineCovers ==
  ASSUME NEW c, Clip(c), NEW a, NEW x0, NEW y0, NEW x1, NEW y1, Ends4(a, x0, y0, x1, y1),
         Fits(x0), Fits(y0), Fits(x1), Fits(y1), Abs(x1 - x0) < Int16Max, Abs(y1 - y0) < Int16Max
  PROVE  \E ps : Draws(DrawLine(c, x0, y0, x1, y1), c, ps) /\ LineIs(a, ps)
<1>1. x0 \in Int /\ y0 \in Int /\ x1 \in Int /\ y1 \in Int
  BY Sizes DEF Fits
<1>2. CASE y0 = y1
  <2> DEFINE x == Lesser(x0, x1)
             w == Abs(x1 - x0) + 1
  <2>1. Sized(x, y0, w, 1)
    BY <1>1, Sizes DEF Sized, Fits, Lesser, Abs
  <2>2. DrawLine(c, x0, y0, x1, y1) = FillRect(c, x, y0, w, 1)
    BY <1>2 DEF DrawLine, DrawHLine
  <2>3. LineIs(a, Box(x, y0, w, 1))
    BY <1>1, <1>2, Level
  <2> HIDE DEF x, w
  <2>4. Draws(FillRect(c, x, y0, w, 1), c, Box(x, y0, w, 1))
    BY <2>1, Fill
  <2> QED BY <2>2, <2>3, <2>4
<1>3. CASE y0 # y1 /\ x0 = x1
  <2> DEFINE y == Lesser(y0, y1)
             h == Abs(y1 - y0) + 1
  <2>1. Sized(x0, y, 1, h)
    BY <1>1, Sizes DEF Sized, Fits, Lesser, Abs
  <2>2. DrawLine(c, x0, y0, x1, y1) = FillRect(c, x0, y, 1, h)
    BY <1>3 DEF DrawLine, DrawVLine
  <2>3. LineIs(a, Box(x0, y, 1, h))
    BY <1>1, <1>3, Upright
  <2> HIDE DEF y, h
  <2>4. Draws(FillRect(c, x0, y, 1, h), c, Box(x0, y, 1, h))
    BY <2>1, Fill
  <2> QED BY <2>2, <2>3, <2>4
<1>4. CASE y0 # y1 /\ x0 # x1
  <2> DEFINE ps == LinePixels(x0, y0, x1, y1)
  <2>1. LineIs(a, ps) /\ IsFiniteSet(ps) /\ ps \subseteq Int \X Int
    BY <1>1, <1>4, SlantIs
  <2>2. DrawLine(c, x0, y0, x1, y1) = DrawPixels(c, ps)
    BY <1>4 DEF DrawLine
  <2> HIDE DEF ps
  <2>3. Draws(DrawPixels(c, ps), c, ps)
    BY <2>1, PixelsCover
  <2> QED BY <2>1, <2>2, <2>3
<1> QED BY <1>2, <1>3, <1>4

-----------------------------------------------------------------------------
(* Frames: what is left of a command *)

\* What the jobs of a figure have written, all of them or with one cut off.
Left(jobs, out, gone) ==
  \/ \E win : out = Shown(jobs, NoCut, win)
  \/ \E cut \in Cuts(jobs) : \E win :
       out = Shown(jobs, cut, win) /\ gone = Area(jobs[cut.job])

\* The clip is what this frame has asked for, without negative sizes; commands come only while the
\* display is up and nothing is drawn yet, and what is drawn then is what the driver made of the jobs
\* of the command.
Framed ==
  /\ clip = Clamped(asked) /\ asked \in [x : Int, y : Int, w : Int, h : Int] /\ left \in Nat
  /\ left > 0 => hal = "up" /\ cmd = None
  /\ cmd # None => cmd \in Commands /\ Left(Executed(clip, cmd), drawn, lost)
PlainlyFramed == Framed /\ Plain(asked)

\* A plain clip is one of the primitives', and shows what was asked for.
LEMMA PlainClip ==
  ASSUME PlainlyFramed
  PROVE  Clip(clip) /\ \A p : InView(p) <=> p \in View(clip)
<1>1. asked.x \in Int /\ asked.y \in Int /\ asked.w \in Int /\ asked.h \in Int
  BY DEF PlainlyFramed, Framed
<1>2. /\ clip = [x |-> asked.x, y |-> asked.y, w |-> Greater(asked.w, 0), h |-> Greater(asked.h, 0)]
  BY DEF PlainlyFramed, Framed, Clamped, Rect
<1>3. /\ Greater(asked.w, 0) \in Nat /\ Greater(asked.h, 0) \in Nat
      /\ asked.w <= 0 => Greater(asked.w, 0) = 0
      /\ asked.w > 0 => Greater(asked.w, 0) = asked.w
      /\ asked.h <= 0 => Greater(asked.h, 0) = 0
      /\ asked.h > 0 => Greater(asked.h, 0) = asked.h
  BY <1>1 DEF Greater
<1>4. Clip(clip)
  BY <1>1, <1>2, <1>3 DEF PlainlyFramed, Plain, Clip
<1>5. ASSUME NEW p \in Panel PROVE Clipped(asked, p[1], p[2]) <=> Clipped(clip, p[1], p[2])
  <2>1. p[1] \in Int /\ p[2] \in Int
    BY Sizes DEF Panel
  <2> QED BY <1>1, <1>2, <1>3, <2>1 DEF Clipped
<1> QED BY <1>4, <1>5 DEF InView, View

\* The whole panel is a clip, and stays as it is.
LEMMA FullIsAsked ==
  FullClip = Clamped(FullClip) /\ FullClip \in [x : Int, y : Int, w : Int, h : Int]
BY Sizes DEF FullClip, Clamped, Rect, Greater

\* What a frame asks for is a rectangle.
LEMMA ClipsAre == \A c \in Clips : c \in [x : Int, y : Int, w : Int, h : Int]
BY ArgsOK

\* The invariant under both theorems: the history is what is left of the command executed.
LEMMA AlwaysFramed == Spec => []Framed
<1>1. Init => Framed
  BY FullIsAsked DEF Init, Framed
<1>2. Framed /\ [Next]_vars => Framed'
  <2> SUFFICES ASSUME Framed, [Next]_vars PROVE Framed'
    OBVIOUS
  <2>1. CASE BringUpStep
    <3>1. hal = "starting"
      BY <2>1
      DEF BringUpStep, HalInit, Doing, Board, I2cInit, SpiInit, RtcInit, CreateMutex, GpioInit,
          HardReset,
                  AddDevice, SendCommand, ReadId, LightsOn, SensorsInit, AudioInit
    <3>2. UNCHANGED <<clip, left, asked, cmd, drawn, lost>>
      BY <2>1 DEF BringUpStep
    <3> QED BY <3>1, <3>2 DEF Framed
  <2>2. CASE Restart
    BY <2>2, FullIsAsked DEF Restart, NewFrame, Framed
  <2>3. CASE ProcessFrame
    <3>1. MaxCmds \in Nat
      BY ArgsOK
    <3> QED BY <2>3, <3>1, FullIsAsked DEF ProcessFrame, panelVars, NewFrame, Framed
  <2>4. ASSUME NEW c \in Clips \cup {FullClip}, SetClip(c) PROVE Framed'
    <3>1. c \in [x : Int, y : Int, w : Int, h : Int]
      BY FullIsAsked, ClipsAre
    <3>2. /\ left > 1 /\ left' = left - 1 /\ clip' = Clamped(c) /\ asked' = c
          /\ hal' = hal /\ cmd' = cmd
      BY <2>4 DEF SetClip, panelVars
    <3> QED BY <3>1, <3>2 DEF Framed
  <2>5. ASSUME NEW k \in Commands, Draw(k) PROVE Framed'
    <3>1. /\ hal = "up" /\ left' = 0 /\ cmd' = k /\ asked' = asked /\ clip' = clip
      BY <2>5 DEF Draw, Framed
    <3> DEFINE jobs == Executed(clip, k)
    <3>2. Routed(jobs) = jobs
      BY <3>1 DEF Routed
    <3>3. Left(jobs, drawn', lost')
      <4>1. \/ drawn' = Shown(Routed(jobs), NoCut, FullWindow)
            \/ \E cut \in Cuts(Routed(jobs)), win \in Windows \cup {FullWindow} :
                 drawn' = Shown(Routed(jobs), cut, win) /\ lost' = Area(Routed(jobs)[cut.job])
        BY <2>5 DEF Draw
      <4> HIDE DEF jobs
      <4> QED BY <3>2, <4>1 DEF Left
    <3>4. jobs = Executed(clip', cmd')
      BY <3>1 DEF Framed
    <3> HIDE DEF jobs
    <3> QED BY <3>1, <3>3, <3>4 DEF Framed
  <2>6. CASE UNCHANGED vars
    BY <2>6 DEF vars, panelVars, Framed
  <2> QED BY <2>1, <2>2, <2>3, <2>4, <2>5, <2>6 DEF Next
<1> QED BY <1>1, <1>2, PTL DEF Spec

\* Nothing is written beyond the windows of the jobs, and what is missing of them is gone.
Outcome(jobs, out, gone) == DOMAIN out \subseteq Covers(jobs) /\ Covers(jobs) \ DOMAIN out \subseteq gone

\* What is left of a drawing lies in it, and misses only what was lost.
LEMMA Outcomes ==
  ASSUME NEW jobs \in Seq(Jobs), NEW out, NEW gone, Left(jobs, out, gone)
  PROVE  Outcome(jobs, out, gone) /\ (\A V : Shades(jobs, V) => \A p \in DOMAIN out : out[p] = V[p])
<1>1. /\ Len(jobs) \in Nat /\ DOMAIN jobs = 1 .. Len(jobs) /\ \A j \in DOMAIN jobs : Len(jobs[j].parts) \in Nat
  BY DEF Jobs
<1>2. \E cut, win : /\ cut.at \in Int /\ out = Shown(jobs, cut, win)
                    /\ cut.job \in DOMAIN jobs => Area(jobs[cut.job]) \subseteq gone
  <2>1. CASE \E win : out = Shown(jobs, NoCut, win)
    <3>1. NoCut.at \in Int /\ NoCut.job \notin DOMAIN jobs
      BY <1>1 DEF NoCut
    <3> QED BY <2>1, <3>1
  <2>2. ASSUME NEW cut \in Cuts(jobs), NEW win, out = Shown(jobs, cut, win), gone = Area(jobs[cut.job])
        PROVE  cut.at \in Int
    <3>1. PICK j \in DOMAIN jobs : cut \in {[job |-> j, at |-> i, reached |-> r] : i \in 0 .. Transfers(jobs[j]), r \in BOOLEAN}
      BY <2>2 DEF Cuts
    <3>2. PICK i \in 0 .. Transfers(jobs[j]), r \in BOOLEAN : cut = [job |-> j, at |-> i, reached |-> r]
      BY <3>1
    <3>3. Transfers(jobs[j]) \in Nat
      BY <1>1 DEF Transfers
    <3> QED BY <3>2, <3>3
  <2> QED BY <2>1, <2>2 DEF Left
<1>3. PICK cut, win : /\ cut.at \in Int /\ out = Shown(jobs, cut, win)
                      /\ cut.job \in DOMAIN jobs => Area(jobs[cut.job]) \subseteq gone
  BY <1>2
<1>4. /\ DOMAIN out \subseteq Covers(jobs)
      /\ \A j \in DOMAIN jobs : j # cut.job => Area(jobs[j]) \subseteq DOMAIN out
      /\ (\A job \in ToSet(jobs) : OneRow(job)) =>
           \A p \in DOMAIN out : \E job \in ToSet(jobs) :
              p \in Area(job) /\ out[p] = job.parts[1][p[1] - job.cols[1] + 1]
  BY <1>3, ShownJobs
<1>5. Outcome(jobs, out, gone)
  <2> SUFFICES ASSUME NEW p \in Covers(jobs), p \notin DOMAIN out PROVE p \in gone
    BY <1>4 DEF Outcome
  <2>1. PICK j \in DOMAIN jobs : p \in Area(jobs[j])
    BY DEF Covers, ToSet
  <2>2. j = cut.job
    BY <1>4, <2>1
  <2> QED BY <1>3, <2>1, <2>2
<1>6. ASSUME NEW V, Shades(jobs, V), NEW p \in DOMAIN out PROVE out[p] = V[p]
  BY <1>4, <1>6 DEF Shades
<1> QED BY <1>5, <1>6

\* What was drawn of a figure shows, whatever was lost of it.
LEMMA Showing ==
  ASSUME PlainlyFramed, NEW jobs, NEW ps, Draws(jobs, clip, ps), Left(jobs, drawn, lost)
  PROVE  Shows(ps)
<1>1. Outcome(jobs, drawn, lost) /\ Covers(jobs) = ps \cap View(clip)
  BY Outcomes DEF Draws
<1>2. Visible(ps) = ps \cap View(clip)
  BY PlainClip DEF Visible
<1> QED BY <1>1, <1>2 DEF Outcome, Shows, Written

\* What is left of a blit has the values of the blit.
LEMMA Exact ==
  ASSUME PlainlyFramed, NEW jobs, NEW ps, NEW V, Copying(jobs, clip, ps, V), Left(jobs, drawn, lost)
  PROVE  Shows(ps) /\ \A p \in Written : p \in ps /\ drawn[p] = V[p]
<1>1. Draws(jobs, clip, ps) /\ Shades(jobs, V) /\ jobs \in Seq(Jobs)
  BY DEF Copying, Draws
<1>2. Shows(ps)
  BY <1>1, Showing
<1>3. \A p \in Written : drawn[p] = V[p]
  BY <1>1, Outcomes DEF Written
<1> QED BY <1>2, <1>3 DEF Shows, Visible

\* A command that has been executed.
LEMMA Done ==
  ASSUME PlainlyFramed, cmd.op # "none"
  PROVE  Legal(cmd) /\ Clip(clip) /\ Left(Executed(clip, cmd), drawn, lost)
<1>1. cmd # None
  BY DEF None
<1> QED BY <1>1, PlainClip, ArgsOK DEF PlainlyFramed, Framed

\* A blit is as BlitExact says.
LEMMA BlitShows ==
  ASSUME PlainlyFramed, cmd.op = "blit", NEW a, a = cmd.a,
         NEW ps, ps = {p \in Box(a[3], a[4], a[7], a[8]) : p[1] - a[3] + a[5] \in 0 .. a[1] - 1 /\ p[2] - a[4] + a[6] \in 0 .. a[2] - 1}
  PROVE  Shows(ps) /\ \A p \in Written : drawn[p] = (p[2] - a[4] + a[6]) * a[1] + (p[1] - a[3] + a[5])
<1>1. Legal(cmd) /\ Clip(clip) /\ Left(Executed(clip, cmd), drawn, lost)
  BY Done
<1>2. /\ a[1] \in Nat \ {0} /\ a[2] \in Nat \ {0} /\ a[5] \in Int /\ a[6] \in Int /\ Boxed(a[3], a[4], a[7], a[8])
  BY <1>1 DEF Legal
<1> DEFINE jobs == Blit(clip, a[1], a[2], a[3], a[4], a[5], a[6], a[7], a[8])
           V == [p \in Int \X Int |-> (p[2] - a[4] + a[6]) * a[1] + (p[1] - a[3] + a[5])]
<1>3. Executed(clip, cmd) = jobs
  BY DEF Executed
<1>4. Copying(jobs, clip, ps, V)
  BY <1>1, <1>2, BlitCovers
<1>5. \A p \in ps : p \in Int \X Int
  <2>1. Boxed(a[3], a[4], a[7], a[8]) => a[3] \in Int /\ a[4] \in Int
    BY BoxedIsSized DEF Sized
  <2> QED BY <1>2, <2>1 DEF Box
<1>6. \A p \in ps : V[p] = (p[2] - a[4] + a[6]) * a[1] + (p[1] - a[3] + a[5])
  BY <1>5
<1> HIDE DEF jobs, V
<1>7. Shows(ps) /\ \A p \in Written : p \in ps /\ drawn[p] = V[p]
  BY <1>1, <1>3, <1>4, Exact
<1> QED BY <1>6, <1>7

\* A scaled blit is as BlitExact says.
LEMMA ScaledShows ==
  ASSUME PlainlyFramed, cmd.op = "blitScaled", NEW a, a = cmd.a
  PROVE  /\ Shows(Box(a[3], a[4], a[5], a[6]))
         /\ \A p \in Written : drawn[p] = (((p[2] - a[4]) * a[2]) \div a[6]) * a[1] + ((p[1] - a[3]) * a[1]) \div a[5]
<1>1. Legal(cmd) /\ Clip(clip) /\ Left(Executed(clip, cmd), drawn, lost)
  BY Done
<1>2. /\ a[1] \in Nat \ {0} /\ a[2] \in Nat \ {0} /\ Boxed(a[3], a[4], a[5], a[6])
  BY <1>1 DEF Legal
<1> DEFINE jobs == BlitScaled(clip, a[1], a[2], a[3], a[4], a[5], a[6])
           ps == Box(a[3], a[4], a[5], a[6])
           V == [p \in Int \X Int |-> (((p[2] - a[4]) * a[2]) \div a[6]) * a[1] + ((p[1] - a[3]) * a[1]) \div a[5]]
<1>3. Executed(clip, cmd) = jobs
  BY DEF Executed
<1>4. Copying(jobs, clip, ps, V)
  BY <1>1, <1>2, ScaledCovers
<1>5. \A p \in ps : p \in Int \X Int
  <2>1. Boxed(a[3], a[4], a[5], a[6]) => a[3] \in Int /\ a[4] \in Int
    BY BoxedIsSized DEF Sized
  <2> QED BY <1>2, <2>1 DEF Box
<1>6. \A p \in ps : V[p] = (((p[2] - a[4]) * a[2]) \div a[6]) * a[1] + ((p[1] - a[3]) * a[1]) \div a[5]
  BY <1>5
<1> HIDE DEF jobs, V, ps
<1>7. Shows(ps) /\ \A p \in Written : p \in ps /\ drawn[p] = V[p]
  BY <1>1, <1>3, <1>4, Exact
<1> QED BY <1>6, <1>7 DEF ps

\* Under a clip that begins on the panel and stays within int16_t, a blit copies the pixels that
\* belong there and no others (BlitExact; hal_gfx.c:339-439).
THEOREM BlitsAreExact == Spec => []BlitExact
<1>1. Framed => BlitExact
  <2> SUFFICES ASSUME PlainlyFramed PROVE BlitExact
    BY DEF PlainlyFramed, BlitExact
  <2> DEFINE a == cmd.a
             ps == {p \in Box(a[3], a[4], a[7], a[8]) : p[1] - a[3] + a[5] \in 0 .. a[1] - 1 /\ p[2] - a[4] + a[6] \in 0 .. a[2] - 1}
  <2>1. cmd.op = "blit" => Shows(ps) /\ \A p \in Written : drawn[p] = (p[2] - a[4] + a[6]) * a[1] + (p[1] - a[3] + a[5])
    BY BlitShows
  <2>2. cmd.op = "blitScaled" =>
          /\ Shows(Box(a[3], a[4], a[5], a[6]))
          /\ \A p \in Written : drawn[p] = (((p[2] - a[4]) * a[2]) \div a[6]) * a[1] + ((p[1] - a[3]) * a[1]) \div a[5]
    BY ScaledShows
  <2> QED BY <2>1, <2>2, Zenon DEF BlitExact
<1> QED BY <1>1, AlwaysFramed, PTL

-----------------------------------------------------------------------------
(* Straight figures and lines *)

\* What is left of a line is as LineFits says.
LEMMA LineShows ==
  ASSUME NEW a, NEW ps, LineIs(a, ps), Shows(ps)
  PROVE  LineFits(a)
<1> DEFINE dx == a[3] - a[1]
           dy == a[4] - a[2]
           steep == Abs(dy) > Abs(dx)
           span == Greater(Abs(dx), Abs(dy))
           At(p) == IF steep THEN p[2] ELSE p[1]
           near == {p \in (Lesser(a[1], a[3]) .. Greater(a[1], a[3])) \X (Lesser(a[2], a[4]) .. Greater(a[2], a[4])) :
                      2 * Abs(dx * (p[2] - a[2]) - dy * (p[1] - a[1])) <= span}
<1>1. near = Near(a)
  BY Zenon DEF Near, Spanned
<1>2. \A p : At(p) = AtOf(a, p)
  BY DEF AtOf, IsSteep
<1> HIDE DEF near, At
<1>3. /\ ps \subseteq near
      /\ \A p, q \in ps : At(p) = At(q) => p = q
      /\ \A p \in near : \E q \in ps : At(q) = At(p)
  BY <1>1, <1>2 DEF LineIs
<1>4. Written \subseteq Visible(near) /\ Written \subseteq ps
  BY <1>3 DEF Shows, Visible
<1>5. \A p, q \in Written : At(p) = At(q) => p = q
  BY <1>3, <1>4
<1>6. ASSUME NEW p \in near \ lost, \A q \in near : At(q) = At(p) => InView(q) /\ q \notin lost
      PROVE  \E q \in Written : At(q) = At(p)
  <2>1. PICK q \in ps : At(q) = At(p)
    BY <1>3
  <2>2. q \in Visible(ps) /\ q \notin lost
    BY <1>3, <1>6, <2>1 DEF Visible
  <2> QED BY <2>1, <2>2 DEF Shows
<1> HIDE DEF dx, dy, steep, span
<1>7. /\ Written \subseteq Visible(near)
      /\ \A p, q \in Written : At(p) = At(q) => p = q
      /\ \A p \in near \ lost : (\A q \in near : At(q) = At(p) => InView(q) /\ q \notin lost)
                                => \E q \in Written : At(q) = At(p)
  BY <1>4, <1>5, <1>6
<1> USE DEF dx, dy, steep, span, near, At
<1> QED BY <1>7, Zenon DEF LineFits

\* The panel is a box within int16_t.
LEMMA PanelIsBox == Panel = Box(0, 0, PanelW, PanelH) /\ Boxed(0, 0, PanelW, PanelH)
<1>1. Panel = Box(0, 0, PanelW, PanelH)
  BY Sizes DEF Panel, Box
<1>2. Boxed(0, 0, PanelW, PanelH)
  BY Sizes DEF Boxed, Spans, Fits
<1> QED BY <1>1, <1>2

\* Straight figures are as FiguresExact says.
LEMMA StraightShows ==
  ASSUME PlainlyFramed, cmd.op \in {"clear", "pixel", "fill", "rect"}
  PROVE  Shows(Straight(cmd))
<1> DEFINE a == cmd.a
<1>1. Legal(cmd) /\ Clip(clip) /\ Left(Executed(clip, cmd), drawn, lost)
  BY Done
<1>2. Draws(Executed(clip, cmd), clip, Straight(cmd))
  <2>1. CASE cmd.op = "clear"
    <3>1. Executed(clip, cmd) = FillRect(clip, 0, 0, PanelW, PanelH) /\ Straight(cmd) = Panel
      BY <2>1 DEF Executed, Straight
    <3>2. Draws(FillRect(clip, 0, 0, PanelW, PanelH), clip, Box(0, 0, PanelW, PanelH))
      BY <1>1, PanelIsBox, BoxedIsSized, Fill
    <3> QED BY <3>1, <3>2, PanelIsBox
  <2>2. CASE cmd.op = "pixel"
    <3>1. Executed(clip, cmd) = DrawPixel(clip, a[1], a[2]) /\ Straight(cmd) = {<<a[1], a[2]>>}
      BY <2>2 DEF Executed, Straight
    <3>2. a[1] \in Int /\ a[2] \in Int
      BY <1>1, <2>2 DEF Legal, Fits
    <3> QED BY <3>1, <3>2, PixelCovers DEF Draws
  <2>3. CASE cmd.op = "fill"
    <3>1. Executed(clip, cmd) = FillRect(clip, a[1], a[2], a[3], a[4]) /\ Straight(cmd) = Box(a[1], a[2], a[3], a[4])
      BY <2>3 DEF Executed, Straight
    <3>2. Boxed(a[1], a[2], a[3], a[4])
      BY <1>1, <2>3 DEF Legal
    <3> QED BY <1>1, <3>1, <3>2, BoxedIsSized, Fill
  <2>4. CASE cmd.op = "rect"
    <3>1. Executed(clip, cmd) = DrawRect(clip, a[1], a[2], a[3], a[4]) /\ Straight(cmd) = Rim(Box(a[1], a[2], a[3], a[4]))
      BY <2>4 DEF Executed, Straight
    <3>2. Boxed(a[1], a[2], a[3], a[4])
      BY <1>1, <2>4 DEF Legal
    <3> QED BY <1>1, <3>1, <3>2, RectCovers
  <2> QED BY <2>1, <2>2, <2>3, <2>4
<1> QED BY <1>1, <1>2, Showing

\* Lines are as FiguresExact says.
LEMMA LinesShow ==
  ASSUME PlainlyFramed, cmd.op = "line"
  PROVE  LineFits(cmd.a)
<1> DEFINE a == cmd.a
<1>1. Legal(cmd) /\ Clip(clip) /\ Left(Executed(clip, cmd), drawn, lost)
  BY Done
<1>2. Executed(clip, cmd) = DrawLine(clip, a[1], a[2], a[3], a[4])
  BY DEF Executed
<1>3. /\ Fits(a[1]) /\ Fits(a[2]) /\ Fits(a[3]) /\ Fits(a[4])
      /\ Abs(a[3] - a[1]) < Int16Max /\ Abs(a[4] - a[2]) < Int16Max
  BY <1>1 DEF Legal
<1>4. Ends4(a, a[1], a[2], a[3], a[4])
  BY DEF Ends4
<1>5. PICK ps : Draws(DrawLine(clip, a[1], a[2], a[3], a[4]), clip, ps) /\ LineIs(a, ps)
  BY <1>1, <1>3, <1>4, LineCovers
<1> QED BY <1>1, <1>2, <1>5, Showing, LineShows

-----------------------------------------------------------------------------
(* The rounds of an octant *)

-----------------------------------------------------------------------------
(* Circles *)

\* y falls with every column, by one at most.
Falls(Y, n) == Y \in [0 .. n -> Int] /\ \A i \in 0 .. n - 1 : Y[i + 1] <= Y[i] /\ Y[i] <= Y[i + 1] + 1

\* What falls by one at a time passes every value.
LEMMA Falling ==
  ASSUME NEW n \in Nat, NEW Y, Falls(Y, n)
  PROVE  \A i, j \in 0 .. n : i <= j => /\ Y[j] <= Y[i]
                                        /\ \A v \in Y[j] .. Y[i] : \E x \in i .. j : Y[x] = v
<1> SUFFICES ASSUME NEW i \in 0 .. n
             PROVE  \A j \in 0 .. n : i <= j => /\ Y[j] <= Y[i]
                                                /\ \A v \in Y[j] .. Y[i] : \E x \in i .. j : Y[x] = v
  OBVIOUS
<1> DEFINE Ok(j) == Y[j] <= Y[i] /\ \A v \in Y[j] .. Y[i] : \E x \in i .. j : Y[x] = v
           S == {k \in Nat : i + k <= n => Ok(i + k)}
<1>0. \A j \in 0 .. n : Y[j] \in Int
  BY DEF Falls
<1>1. 0 \in S
  <2>1. i + 0 = i /\ i \in i .. i
    OBVIOUS
  <2>2. Ok(i)
    <3> SUFFICES ASSUME NEW v \in Y[i] .. Y[i] PROVE v = Y[i] /\ Y[i] \in Int
      BY <1>0, <2>1
    <3> QED BY <1>0
  <2> HIDE DEF Ok
  <2> QED BY <2>1, <2>2
<1>2. \A k \in Nat : k \in S => k + 1 \in S
  <2> SUFFICES ASSUME NEW k \in Nat, k \in S, i + (k + 1) <= n PROVE Ok(i + (k + 1))
    OBVIOUS
  <2> DEFINE j == i + k
  <2>1. j \in 0 .. n /\ j \in 0 .. n - 1 /\ j + 1 \in 0 .. n /\ i + (k + 1) = j + 1 /\ i <= j
    OBVIOUS
  <2>2. Ok(j)
    <3> HIDE DEF Ok
    <3> QED OBVIOUS
  <2> HIDE DEF j
  <2>3. Y[j + 1] <= Y[j] /\ Y[j] <= Y[j + 1] + 1 /\ Y[j] \in Int /\ Y[j + 1] \in Int /\ Y[i] \in Int
    BY <1>0, <2>1 DEF Falls
  <2>4. ASSUME NEW v \in Y[j + 1] .. Y[i] PROVE \E x \in i .. j + 1 : Y[x] = v
    <3>1. CASE v = Y[j + 1]
      BY <2>1, <3>1
    <3>2. CASE v # Y[j + 1]
      <4>1. v \in Y[j] .. Y[i]
        BY <2>3, <3>2
      <4>2. PICK x \in i .. j : Y[x] = v
        BY <2>2, <4>1
      <4>3. x \in i .. j + 1
        BY <2>1
      <4> QED BY <4>2, <4>3
    <3> QED BY <3>1, <3>2
  <2>5. Y[j + 1] <= Y[i]
    BY <2>2, <2>3
  <2> QED BY <2>1, <2>4, <2>5
<1>3. Nat \subseteq S
  <2> HIDE DEF S
  <2> QED BY <1>1, <1>2, Induction
<1> SUFFICES ASSUME NEW j \in 0 .. n, i <= j PROVE Ok(j)
  OBVIOUS
<1>4. j - i \in Nat /\ i + (j - i) = j
  OBVIOUS
<1> HIDE DEF Ok
<1> QED BY <1>3, <1>4

\* The states of the loop.
Turns == [y : Int, d : Int]
Rounds(r, at) ==
  /\ at \in [0 .. r -> Turns] /\ at[0] = [y |-> r, d |-> 3 - 2 * r]
  /\ \A i \in 1 .. r : at[i] = OctantStep(i - 1, at[i - 1])
  /\ Octant(r) = {<<x, at[x].y>> : x \in {i \in 0 .. r : i <= at[i].y}}

\* The loop of the midpoint rule as the sequence of its rounds.
LEMMA OctantRounds ==
  ASSUME NEW r \in Nat
  PROVE  \E at : Rounds(r, at)
<1> DEFINE s0 == [y |-> r, d |-> 3 - 2 * r]
           e(h, x) == IF x = 0 THEN s0 ELSE OctantStep(x - 1, h[x - 1])
           F == [q \in (0 .. r) \X Turns |-> OctantStep(q[1] - 1, q[2])]
           Is(f) == f = [x \in 0 .. r |-> e(f, x)]
           at == CHOOSE f : Is(f)
<1>1. s0 \in Turns
  BY DEF Turns
<1>2. \A x \in Int : \A s \in Turns : OctantStep(x, s) \in Turns
  BY DEF OctantStep, Turns
<1>3. F \in [(0 .. r) \X Turns -> Turns]
  BY <1>2
<1>4. Octant(r) = {<<x, at[x].y>> : x \in {i \in 0 .. r : i <= at[i].y}}
  BY DEF Octant
<1>5. PICK f : Is(f) /\ f \in [0 .. r -> Turns]
  <2> HIDE DEF F, s0
  <2>1. PICK f : Recurs(r, Turns, s0, F, f)
    BY <1>1, <1>3, Recursion
  <2>2. /\ f \in [0 .. r -> Turns] /\ f[0] = s0 /\ \A i \in 1 .. r : f[i] = F[<<i, f[i - 1]>>]
    BY <2>1 DEF Recurs
  <2>3. ASSUME NEW i \in 0 .. r PROVE f[i] = e(f, i)
    <3>1. CASE i = 0
      BY <2>2, <3>1
    <3>2. CASE i # 0
      <4>1. i \in 1 .. r /\ i - 1 \in 0 .. r
        BY <3>2
      <4>2. F[<<i, f[i - 1]>>] = OctantStep(i - 1, f[i - 1])
        BY <2>2, <4>1 DEF F
      <4> QED BY <2>2, <3>2, <4>1, <4>2
    <3> QED BY <3>1, <3>2
  <2>4. Is(f)
    <3> HIDE DEF e
    <3> QED BY <2>2, <2>3
  <2> QED BY <2>2, <2>4
<1>6. Is(at)
  <2> HIDE DEF Is
  <2> QED BY <1>5
<1> HIDE DEF at
<1>7. \A x \in 0 .. r : at[x] = e(at, x)
  <2> HIDE DEF e
  <2> QED BY <1>6
<1>8. at[0] = s0 /\ \A i \in 1 .. r : at[i] = OctantStep(i - 1, at[i - 1])
  <2> HIDE DEF s0
  <2> QED BY <1>7
<1>9. at \in [0 .. r -> Turns]
  <2> DEFINE S == {k \in Nat : k <= r => at[k] \in Turns}
  <2> HIDE DEF s0, F
  <2>1. 0 \in S
    BY <1>1, <1>8
  <2>2. \A k \in Nat : k \in S => k + 1 \in S
    <3> SUFFICES ASSUME NEW k \in Nat, k \in S, k + 1 <= r PROVE at[k + 1] \in Turns
      OBVIOUS
    <3>1. at[k] \in Turns /\ k + 1 \in 1 .. r /\ (k + 1) - 1 = k
      OBVIOUS
    <3>2. at[k + 1] = OctantStep(k, at[k])
      BY <1>8, <3>1
    <3> QED BY <1>2, <3>1, <3>2
  <2>3. Nat \subseteq S
    <3> HIDE DEF S
    <3> QED BY <2>1, <2>2, Induction
  <2>4. \A x \in 0 .. r : at[x] \in Turns
    BY <2>3
  <2>5. at = [x \in 0 .. r |-> e(at, x)]
    BY <1>6
  <2> HIDE DEF e
  <2> QED BY <2>4, <2>5
<1> HIDE DEF s0
<1>10. Rounds(r, at)
  BY <1>4, <1>8, <1>9 DEF Rounds, s0
<1> QED BY <1>10

\* The closed form of d, and how near the circle a pixel of the octant is.
OnArc(r, x, y, d) == y \in Int /\ d \in Int /\ y <= r /\ d = 2 * (x * x) + 8 * x + 2 * (y * y) - 2 * y + 3 - 2 * (r * r)
Inside(r, x, y)   == x * x + y * y <= r * r + r
Outside(r, x, y)  == x * x + (y + 1) * (y + 1) > (r - 1) * (r - 1)

\* Squares of neighbours.
LEMMA Squares ==
  ASSUME NEW n \in Int
  PROVE  /\ n * n \in Int /\ (n + 1) * (n + 1) = n * n + 2 * n + 1
         /\ (n - 1) * (n - 1) = n * n - 2 * n + 1
OBVIOUS

\* A round keeps d in step with the pixel, and the pixel by the circle.
LEMMA ArcStep ==
  ASSUME NEW r \in Nat, NEW x \in Nat, x < r, NEW y, NEW d, OnArc(r, x, y, d),
         NEW v, v = (IF d < 0 THEN y ELSE y - 1),
         NEW e, e = (IF d < 0 THEN d + 4 * (x + 1) + 6 ELSE d + 4 * (x + 1 - y) + 10)
  PROVE  /\ OnArc(r, x + 1, v, e) /\ v <= y /\ y <= v + 1
         /\ x <= y /\ Inside(r, x, y) /\ x + 1 <= v => Inside(r, x + 1, v)
         /\ x <= y /\ Outside(r, x, y) => Outside(r, x + 1, v)
<1> DEFINE X == x * x
           Y == y * y
           R == r * r
<1>1. y \in Int /\ d \in Int /\ y <= r
  BY DEF OnArc
<1>2. X \in Int /\ Y \in Int /\ R \in Int
  BY <1>1
<1>3. /\ (x + 1) * (x + 1) = X + 2 * x + 1
      /\ (y + 1) * (y + 1) = Y + 2 * y + 1
      /\ (y - 1) * (y - 1) = Y - 2 * y + 1
      /\ (r - 1) * (r - 1) = R - 2 * r + 1
  BY <1>1, Squares
<1>4. d = 2 * X + 8 * x + 2 * Y - 2 * y + 3 - 2 * R
  BY DEF OnArc
<1>5. CASE d < 0
  <2>1. v = y /\ e = d + 4 * (x + 1) + 6
    BY <1>5
  <2> HIDE DEF X, Y, R
  <2>2. e = 2 * (X + 2 * x + 1) + 8 * (x + 1) + 2 * Y - 2 * y + 3 - 2 * R
    BY <1>1, <1>2, <1>4, <2>1
  <2>3. OnArc(r, x + 1, v, e)
    <3>1. e \in Int
      BY <1>1, <2>1
    <3> QED BY <1>1, <1>3, <2>1, <2>2, <3>1 DEF OnArc, Y, R
  <2>4. X + 2 * x + 1 + Y <= R + r
    BY <1>1, <1>2, <1>4, <1>5
  <2>5. X + Y + 2 * y + 1 > R - 2 * r + 1 => (X + 2 * x + 1) + (Y + 2 * y + 1) > R - 2 * r + 1
    BY <1>1, <1>2
  <2> QED BY <1>1, <1>2, <1>3, <2>1, <2>3, <2>4, <2>5 DEF Inside, Outside, X, Y, R
<1>6. CASE ~(d < 0)
  <2>1. v = y - 1 /\ e = d + 4 * (x + 1 - y) + 10 /\ v + 1 = y
    BY <1>1, <1>6
  <2> HIDE DEF X, Y, R
  <2>2. e = 2 * (X + 2 * x + 1) + 8 * (x + 1) + 2 * (Y - 2 * y + 1) - 2 * (y - 1) + 3 - 2 * R
    BY <1>1, <1>2, <1>4, <2>1
  <2>3. OnArc(r, x + 1, v, e)
    <3>1. e \in Int
      BY <1>1, <2>1
    <3> QED BY <1>1, <1>3, <2>1, <2>2, <3>1 DEF OnArc, Y, R
  <2>4. x + 1 <= v /\ X + Y <= R + r => (X + 2 * x + 1) + (Y - 2 * y + 1) <= R + r
    BY <1>1, <1>2, <2>1
  <2>5. x <= y => (X + 2 * x + 1) + Y > R - 2 * r + 1
    BY <1>1, <1>2, <1>4, <1>6
  <2> QED BY <1>1, <1>2, <1>3, <2>1, <2>3, <2>4, <2>5 DEF Inside, Outside, X, Y, R
<1> QED BY <1>5, <1>6

\* Y lists the rows of the octant, column by column, to the diagonal at m.
Arc(r, Y, m) ==
  /\ m \in Nat /\ m <= r /\ Falls(Y, m) /\ Y[0] = r /\ m <= Y[m] /\ Y[m] <= m + 1
  /\ Octant(r) = {<<x, Y[x]>> : x \in 0 .. m}

\* Its pixels are near the circle, and so is the one that would come next.
Rounded8(r, Y, m) ==
  /\ \A x \in 0 .. m : Inside(r, x, Y[x]) /\ Outside(r, x, Y[x])
  /\ Y[m] = m + 1 => Outside(r, m + 1, m)

\* The first step.
Starts(r, Y, m) == IF r = 1 THEN m = 0 ELSE m > 0 /\ Y[1] = r

\* The octant of every radius is such an arc.
LEMMA ArcOf ==
  ASSUME NEW r \in Nat \ {0}
  PROVE  \E Y, m : Arc(r, Y, m) /\ Rounded8(r, Y, m) /\ Starts(r, Y, m)
<1>1. PICK at : Rounds(r, at)
  BY OctantRounds
<1> DEFINE y(x) == at[x].y
           d(x) == at[x].d
<1>2. \A x \in 0 .. r : y(x) \in Int /\ d(x) \in Int
  BY <1>1 DEF Rounds, Turns
<1>3. y(0) = r /\ d(0) = 3 - 2 * r
  BY <1>1 DEF Rounds
<1>4. \A x \in 0 .. r - 1 :
        /\ y(x + 1) = IF d(x) < 0 THEN y(x) ELSE y(x) - 1
        /\ d(x + 1) = IF d(x) < 0 THEN d(x) + 4 * (x + 1) + 6 ELSE d(x) + 4 * (x + 1 - y(x)) + 10
  <2> SUFFICES ASSUME NEW x \in 0 .. r - 1
               PROVE  /\ y(x + 1) = IF d(x) < 0 THEN y(x) ELSE y(x) - 1
                      /\ d(x + 1) = IF d(x) < 0 THEN d(x) + 4 * (x + 1) + 6 ELSE d(x) + 4 * (x + 1 - y(x)) + 10
    OBVIOUS
  <2>1. x + 1 \in 1 .. r /\ (x + 1) - 1 = x
    OBVIOUS
  <2>2. at[x + 1] = OctantStep(x, at[x])
    BY <1>1, <2>1 DEF Rounds
  <2> QED BY <2>2 DEF OctantStep
<1>5. Octant(r) = {<<x, y(x)>> : x \in {i \in 0 .. r : i <= y(i)}}
  BY <1>1 DEF Rounds
<1> HIDE DEF y, d
<1> DEFINE Ok(x) == /\ OnArc(r, x, y(x), d(x))
                    /\ x <= y(x) => Inside(r, x, y(x)) /\ Outside(r, x, y(x))
           S == {x \in Nat : x <= r => Ok(x)}
<1>6. 0 \in S
  <2>1. Ok(0)
    <3>1. OnArc(r, 0, r, 3 - 2 * r)
      BY DEF OnArc
    <3>2. r * r \in Int /\ (r + 1) * (r + 1) = r * r + 2 * r + 1 /\ (r - 1) * (r - 1) = r * r - 2 * r + 1
      BY Squares
    <3>3. Inside(r, 0, r)
      BY DEF Inside
    <3>4. Outside(r, 0, r)
      BY <3>2 DEF Outside
    <3> QED BY <1>3, <3>1, <3>3, <3>4
  <2> HIDE DEF Ok
  <2> QED BY <2>1
<1>7. \A x \in Nat : x < r /\ Ok(x) =>
        /\ Ok(x + 1) /\ y(x + 1) <= y(x) /\ y(x) <= y(x + 1) + 1
        /\ x <= y(x) => Outside(r, x + 1, y(x + 1))
  <2> SUFFICES ASSUME NEW x \in Nat, x < r, Ok(x)
               PROVE  /\ Ok(x + 1) /\ y(x + 1) <= y(x) /\ y(x) <= y(x + 1) + 1
                      /\ x <= y(x) => Outside(r, x + 1, y(x + 1))
    OBVIOUS
  <2>1. x \in 0 .. r - 1 /\ x \in 0 .. r /\ x + 1 \in 0 .. r
    OBVIOUS
  <2> DEFINE u == y(x)
             v == y(x + 1)
             b == d(x)
             e == d(x + 1)
  <2>2. v = (IF b < 0 THEN u ELSE u - 1) /\ e = (IF b < 0 THEN b + 4 * (x + 1) + 6 ELSE b + 4 * (x + 1 - u) + 10)
    BY <1>4, <2>1
  <2>3. OnArc(r, x, u, b) /\ (x <= u => Inside(r, x, u) /\ Outside(r, x, u))
    OBVIOUS
  <2>4. u \in Int /\ v \in Int
    BY <1>2, <2>1
  <2>5. Ok(x + 1) <=> OnArc(r, x + 1, v, e) /\ (x + 1 <= v => Inside(r, x + 1, v) /\ Outside(r, x + 1, v))
    OBVIOUS
  <2> HIDE DEF u, v, b, e, Ok
  <2>6. /\ OnArc(r, x + 1, v, e) /\ v <= u /\ u <= v + 1
        /\ x <= u /\ Inside(r, x, u) /\ x + 1 <= v => Inside(r, x + 1, v)
        /\ x <= u /\ Outside(r, x, u) => Outside(r, x + 1, v)
    BY <2>2, <2>3, ArcStep
  <2>7. x + 1 <= v => x <= u
    BY <2>4, <2>6
  <2>8. Ok(x + 1) /\ v <= u /\ u <= v + 1 /\ (x <= u => Outside(r, x + 1, v))
    BY <2>3, <2>5, <2>6, <2>7
  <2> QED BY <2>8 DEF u, v
<1>8. Nat \subseteq S
  <2>1. \A x \in Nat : x \in S => x + 1 \in S
    <3> HIDE DEF Ok
    <3> QED BY <1>7
  <2> HIDE DEF S
  <2> QED BY <1>6, <2>1, Induction
<1>9. \A x \in 0 .. r : Ok(x)
  <2> HIDE DEF Ok
  <2> QED BY <1>8
<1>10. \A x \in 0 .. r - 1 : /\ y(x + 1) <= y(x) /\ y(x) <= y(x + 1) + 1
                             /\ x <= y(x) => Outside(r, x + 1, y(x + 1))
  <2> HIDE DEF Ok
  <2> QED BY <1>7, <1>9
<1>11. \A x \in 0 .. r : x <= y(x) => Inside(r, x, y(x)) /\ Outside(r, x, y(x))
  BY <1>9
<1>12. \A x \in 0 .. r : y(x) <= r
  BY <1>9 DEF OnArc
<1> HIDE DEF Ok, S
<1> DEFINE C == {i \in 0 .. r : i <= y(i)}
           m == Max(C)
           Y == [x \in 0 .. m |-> y(x)]
<1>13. m \in C /\ \A x \in C : x <= m
  <2>1. C # {} /\ C \subseteq 0 .. r /\ 0 \in Int /\ r \in Int
    <3>1. 0 \in C
      BY <1>3
    <3> QED BY <3>1
  <2> HIDE DEF C, Y
  <2> QED BY <2>1, Bounded
<1>14. m \in 0 .. r /\ m <= y(m)
  BY <1>13
<1> HIDE DEF m
<1>15. \A x \in 0 .. m : x \in 0 .. r
  BY <1>14
<1>16. Falls(Y, m)
  <2>1. \A x \in 0 .. m : Y[x] = y(x) /\ Y[x] \in Int
    BY <1>2, <1>15
  <2>2. \A x \in 0 .. m - 1 : x \in 0 .. m /\ x + 1 \in 0 .. m /\ x \in 0 .. r - 1
    BY <1>14
  <2> QED BY <1>10, <2>1, <2>2 DEF Falls
<1>17. \A x \in 0 .. m : Y[x] = y(x)
  OBVIOUS
<1>18. C = 0 .. m
  <2>1. \A i, j \in 0 .. m : i <= j => Y[j] <= Y[i]
    <3> HIDE DEF Y
    <3> QED BY <1>14, <1>16, Falling
  <2>2. ASSUME NEW x \in 0 .. m PROVE x \in C
    <3>1. m \in 0 .. m /\ x <= m /\ x \in 0 .. r
      BY <1>14
    <3>2. y(m) <= y(x)
      BY <2>1, <3>1
    <3>3. y(x) \in Int /\ y(m) \in Int
      BY <1>2, <1>14, <3>1
    <3> QED BY <1>14, <3>1, <3>2, <3>3
  <2> QED BY <1>13, <1>14, <2>2
<1>19. Octant(r) = {<<x, Y[x]>> : x \in 0 .. m}
  BY <1>5, <1>17, <1>18
<1>22. y(m) <= m + 1 /\ (y(m) = m + 1 => Outside(r, m + 1, m))
  <2>1. CASE m < r
    <3>1. m \in 0 .. r - 1 /\ m + 1 \in 0 .. r /\ m + 1 \notin C
      BY <1>14, <1>18, <2>1
    <3>2. y(m + 1) < m + 1 /\ y(m + 1) \in Int /\ y(m) \in Int
      BY <1>2, <1>14, <3>1
    <3>3. y(m) <= m + 1
      BY <1>10, <1>14, <3>1, <3>2
    <3>4. y(m) = m + 1 => y(m + 1) = m
      BY <1>10, <1>14, <3>1, <3>2
    <3>5. Outside(r, m + 1, y(m + 1))
      BY <1>10, <1>14, <3>1
    <3> QED BY <3>3, <3>4, <3>5
  <2>2. CASE m = r
    <3>1. y(m) <= r /\ y(m) \in Int
      BY <1>2, <1>12, <1>14
    <3> QED BY <2>2, <3>1
  <2> QED BY <1>14, <2>1, <2>2
<1>23. Starts(r, Y, m)
  <2>1. y(1) = IF d(0) < 0 THEN y(0) ELSE y(0) - 1
    <3>1. 0 \in 0 .. r - 1 /\ 0 + 1 = 1
      OBVIOUS
    <3> QED BY <1>4, <3>1
  <2>2. CASE r = 1
    <3>1. y(1) = 0
      BY <1>3, <2>1, <2>2
    <3>2. 1 \notin C
      BY <3>1
    <3> QED BY <1>14, <1>18, <2>2, <3>2 DEF Starts
  <2>3. CASE r # 1
    <3>1. y(1) = r
      BY <1>3, <2>1, <2>3
    <3>2. 1 \in C
      BY <2>3, <3>1
    <3> QED BY <1>14, <1>17, <1>18, <2>3, <3>1, <3>2 DEF Starts
  <2> QED BY <2>2, <2>3
<1>24. Arc(r, Y, m)
  <2>1. 0 \in 0 .. m /\ m \in 0 .. m
    BY <1>14
  <2> HIDE DEF Y
  <2> QED BY <1>3, <1>14, <1>16, <1>17, <1>19, <1>22, <2>1 DEF Arc
<1>25. Rounded8(r, Y, m)
  <2>1. m \in 0 .. m
    BY <1>14
  <2>2. \A x \in 0 .. m : x <= y(x) /\ x \in 0 .. r
    BY <1>15, <1>18
  <2> HIDE DEF Y
  <2> QED BY <1>11, <1>17, <1>22, <2>1, <2>2 DEF Rounded8
<1> QED BY <1>23, <1>24, <1>25

-----------------------------------------------------------------------------
(* The quarter of a disc *)

\* A quarter of the disc, and the part of its edge that the octant and its mirror image are.
Wedge(Y, m, u, v) == (u \in 0 .. m /\ v \in 0 .. Y[u]) \/ (v \in 0 .. m /\ u \in 0 .. Y[v])
Curve(Y, m, u, v) == (u \in 0 .. m /\ v = Y[u]) \/ (v \in 0 .. m /\ u = Y[v])

\* What is used of an octant below.
Sloped(r, Y, m) ==
  /\ r \in Nat \ {0} /\ m \in 0 .. r /\ Y[0] = r /\ m <= Y[m] /\ Y[m] <= m + 1
  /\ \A x \in 0 .. m : Y[x] \in Int /\ Y[m] <= Y[x] /\ Y[x] <= r
  /\ \A x, z \in 0 .. m : x <= z => Y[z] <= Y[x]
  /\ \A x \in 0 .. m - 1 : Y[x] <= Y[x + 1] + 1
  /\ \A x \in 0 .. m : \A v \in Y[m] .. Y[x] : \E z \in x .. m : Y[z] = v

\* What of an arc the figures need.
LEMMA ArcSlopes ==
  ASSUME NEW r \in Nat \ {0}, NEW Y, NEW m, Arc(r, Y, m)
  PROVE  Sloped(r, Y, m)
<1>1. /\ m \in Nat /\ m <= r /\ Falls(Y, m) /\ Y[0] = r /\ m <= Y[m] /\ Y[m] <= m + 1
  BY DEF Arc
<1>2. 0 \in 0 .. m /\ m \in 0 .. m /\ m \in 0 .. r
  BY <1>1
<1>3. \A i, j \in 0 .. m : i <= j => Y[j] <= Y[i] /\ \A v \in Y[j] .. Y[i] : \E x \in i .. j : Y[x] = v
  BY <1>1, Falling
<1>4. \A x \in 0 .. m : 0 <= x /\ x <= m
  OBVIOUS
<1>5. \A x \in 0 .. m : Y[m] <= Y[x] /\ Y[x] <= r
  BY <1>1, <1>2, <1>3, <1>4
<1>6. \A x \in 0 .. m : \A v \in Y[m] .. Y[x] : \E z \in x .. m : Y[z] = v
  BY <1>2, <1>3, <1>4
<1>7. /\ \A x \in 0 .. m : Y[x] \in Int
      /\ \A x \in 0 .. m - 1 : Y[x] <= Y[x + 1] + 1
  BY <1>1 DEF Falls
<1>8. \A x, z \in 0 .. m : x <= z => Y[z] <= Y[x]
  BY <1>3
<1> QED BY <1>1, <1>2, <1>5, <1>6, <1>7, <1>8 DEF Sloped

\* A wedge is the rows under an octant and its mirror image.
LEMMA WedgeRows ==
  ASSUME NEW r, NEW Y, NEW m, Sloped(r, Y, m), NEW u \in Nat, NEW v \in Nat
  PROVE  Wedge(Y, m, u, v) <=> \E x \in 0 .. m : (v = Y[x] /\ u <= x) \/ (v = x /\ u <= Y[x])
<1>1. /\ r \in Nat /\ m \in Nat /\ m <= Y[m] /\ Y[m] <= m + 1 /\ m \in 0 .. m
      /\ \A x \in 0 .. m : Y[x] \in Int /\ Y[m] <= Y[x] /\ Y[x] <= r
      /\ \A x, z \in 0 .. m : x <= z => Y[z] <= Y[x]
      /\ \A x \in 0 .. m : \A w \in Y[m] .. Y[x] : \E z \in x .. m : Y[z] = w
  BY DEF Sloped
<1>2. ASSUME NEW x \in 0 .. m, v = Y[x], u <= x PROVE Wedge(Y, m, u, v)
  <2>1. u \in 0 .. m
    BY <1>1, <1>2
  <2>2. v \in 0 .. Y[u]
    BY <1>1, <1>2, <2>1
  <2> QED BY <2>1, <2>2 DEF Wedge
<1>3. ASSUME NEW x \in 0 .. m, v = x, u <= Y[x] PROVE Wedge(Y, m, u, v)
  BY <1>1, <1>3 DEF Wedge
<1>4. ASSUME u \in 0 .. m, v \in 0 .. Y[u]
      PROVE  \E x \in 0 .. m : (v = Y[x] /\ u <= x) \/ (v = x /\ u <= Y[x])
  <2>1. CASE v <= m
    <3>1. v \in 0 .. m /\ u <= m /\ m <= Y[m] /\ Y[m] <= Y[v] /\ Y[v] \in Int /\ Y[m] \in Int
      BY <1>1, <1>4, <2>1
    <3>2. u <= Y[v]
      BY <1>1, <3>1
    <3> QED BY <3>1, <3>2
  <2>2. CASE ~(v <= m)
    <3>1. v \in Y[m] .. Y[u]
      BY <1>1, <1>4, <2>2
    <3>2. PICK z \in u .. m : Y[z] = v
      BY <1>1, <1>4, <3>1
    <3>3. z \in 0 .. m /\ u <= z
      BY <1>1, <3>2
    <3> QED BY <3>2, <3>3
  <2> QED BY <2>1, <2>2
<1>5. ASSUME v \in 0 .. m, u \in 0 .. Y[v]
      PROVE  \E x \in 0 .. m : (v = Y[x] /\ u <= x) \/ (v = x /\ u <= Y[x])
  BY <1>1, <1>5
<1> QED BY <1>2, <1>3, <1>4, <1>5 DEF Wedge

\* A wedge is symmetric, of its radius, and closed downwards.
LEMMA WedgeShape ==
  ASSUME NEW r, NEW Y, NEW m, Sloped(r, Y, m), NEW u \in Nat, NEW v \in Nat
  PROVE  /\ Wedge(Y, m, u, v) <=> Wedge(Y, m, v, u)
         /\ Wedge(Y, m, u, v) => u <= r /\ v <= r
         /\ \A w \in 0 .. u : Wedge(Y, m, u, v) => Wedge(Y, m, w, v)
         /\ u = 0 => (Wedge(Y, m, u, v) <=> v <= r)
         /\ u = 0 => (Curve(Y, m, u, v) <=> v = r)
         /\ Curve(Y, m, u, v) <=> Curve(Y, m, v, u)
<1>1. /\ r \in Nat \ {0} /\ m \in Nat /\ m <= Y[m] /\ Y[m] <= m + 1 /\ m \in 0 .. m /\ 0 \in 0 .. m /\ Y[0] = r
      /\ \A x \in 0 .. m : Y[x] \in Int /\ Y[m] <= Y[x] /\ Y[x] <= r
      /\ \A x, z \in 0 .. m : x <= z => Y[z] <= Y[x]
      /\ m <= r
  BY DEF Sloped
<1>2. Wedge(Y, m, u, v) <=> Wedge(Y, m, v, u)
  BY DEF Wedge
<1>3. Wedge(Y, m, u, v) => u <= r /\ v <= r
  BY <1>1 DEF Wedge
<1>4. ASSUME NEW w \in 0 .. u, Wedge(Y, m, u, v) PROVE Wedge(Y, m, w, v)
  <2>1. CASE u \in 0 .. m /\ v \in 0 .. Y[u]
    <3>1. w \in 0 .. m /\ Y[u] <= Y[w] /\ Y[u] \in Int /\ Y[w] \in Int
      BY <1>1, <1>4, <2>1
    <3>2. v \in 0 .. Y[w]
      BY <2>1, <3>1
    <3> QED BY <3>1, <3>2 DEF Wedge
  <2>2. CASE v \in 0 .. m /\ u \in 0 .. Y[v]
    <3>1. w \in 0 .. Y[v]
      BY <1>1, <1>4, <2>2
    <3> QED BY <2>2, <3>1 DEF Wedge
  <2> QED BY <1>4, <2>1, <2>2 DEF Wedge
<1>5. ASSUME u = 0 PROVE Wedge(Y, m, u, v) <=> v <= r
  BY <1>1, <1>3, <1>5 DEF Wedge
<1>6. ASSUME u = 0 PROVE Curve(Y, m, u, v) <=> v = r
  <2>1. ASSUME v \in 0 .. m, u = Y[v] PROVE v = r
    <3>1. Y[v] = 0 /\ m <= Y[v]
      BY <1>1, <1>6, <2>1
    <3>2. m = 0 /\ v = 0
      BY <1>1, <2>1, <3>1
    <3> QED BY <1>1, <3>1, <3>2
  <2> QED BY <1>1, <1>6, <2>1 DEF Curve
<1>7. Curve(Y, m, u, v) <=> Curve(Y, m, v, u)
  BY DEF Curve
<1> QED BY <1>2, <1>3, <1>4, <1>5, <1>6, <1>7

\* The curve is the edge of the wedge.
LEMMA WedgeEdge ==
  ASSUME NEW r, NEW Y, NEW m, Sloped(r, Y, m), NEW u \in Nat, NEW v \in Nat
  PROVE  Curve(Y, m, u, v) <=> Wedge(Y, m, u, v) /\ (~Wedge(Y, m, u + 1, v) \/ ~Wedge(Y, m, u, v + 1))
<1>1. /\ r \in Nat \ {0} /\ m \in Nat /\ m <= Y[m] /\ Y[m] <= m + 1 /\ m \in 0 .. m /\ 0 \in 0 .. m /\ Y[0] = r
      /\ \A x \in 0 .. m : Y[x] \in Int /\ Y[m] <= Y[x] /\ Y[x] <= r
      /\ m <= r
  BY DEF Sloped
<1>2. \A x \in 0 .. m - 1 : Y[x] <= Y[x + 1] + 1
  BY DEF Sloped
<1>3. ASSUME NEW a \in 0 .. m, NEW b \in Nat, b = Y[a] PROVE Wedge(Y, m, a, b) /\ ~Wedge(Y, m, a, b + 1)
  <2>1. b + 1 \notin 0 .. m
    BY <1>1, <1>3
  <2>2. b + 1 \notin 0 .. Y[a] /\ b \in 0 .. Y[a]
    BY <1>1, <1>3
  <2> QED BY <2>1, <2>2 DEF Wedge
<1>4. ASSUME NEW a \in Nat, NEW b \in Nat, Wedge(Y, m, a, b), ~Wedge(Y, m, a, b + 1) PROVE Curve(Y, m, a, b)
  <2>1. CASE a <= m
    <3>1. a \in 0 .. m /\ b <= Y[a]
      <4>1. a \in 0 .. m
        BY <1>1, <2>1
      <4>2. b \in 0 .. m => b <= Y[a]
        BY <1>1, <4>1
      <4> QED BY <1>1, <1>4, <4>1, <4>2 DEF Wedge
    <3>2. ~(b + 1 <= Y[a])
      <4>1. b + 1 <= Y[a] => b + 1 \in 0 .. Y[a]
        BY <1>1, <3>1
      <4> QED BY <1>4, <3>1, <4>1 DEF Wedge
    <3>3. b = Y[a]
      BY <1>1, <3>1, <3>2
    <3> QED BY <3>1, <3>3 DEF Curve
  <2>2. CASE ~(a <= m)
    <3>1. b \in 0 .. m /\ a \in 0 .. Y[b]
      BY <1>1, <1>4, <2>2 DEF Wedge
    <3>2. CASE b = m
      <4>1. a = Y[b]
        BY <1>1, <2>2, <3>1, <3>2
      <4> QED BY <3>1, <4>1 DEF Curve
    <3>3. CASE b # m
      <4>1. b \in 0 .. m - 1 /\ b + 1 \in 0 .. m
        BY <1>1, <3>1, <3>3
      <4>2. ~(a <= Y[b + 1])
        <5>1. a <= Y[b + 1] => a \in 0 .. Y[b + 1]
          BY <1>1, <4>1
        <5> QED BY <1>4, <4>1, <5>1 DEF Wedge
      <4>3. Y[b] <= Y[b + 1] + 1 /\ Y[b] \in Int /\ Y[b + 1] \in Int
        BY <1>1, <1>2, <3>1, <4>1
      <4>4. a = Y[b]
        BY <3>1, <4>2, <4>3
      <4> QED BY <3>1, <4>4 DEF Curve
    <3> QED BY <3>2, <3>3
  <2> QED BY <2>1, <2>2
<1>5. \A a, b : Wedge(Y, m, a, b) <=> Wedge(Y, m, b, a)
  BY DEF Wedge
<1>6. \A a, b : Curve(Y, m, a, b) <=> Curve(Y, m, b, a)
  BY DEF Curve
<1>7. Curve(Y, m, u, v) => (Wedge(Y, m, u, v) /\ ~Wedge(Y, m, u, v + 1)) \/ (Wedge(Y, m, v, u) /\ ~Wedge(Y, m, v, u + 1))
  BY <1>3 DEF Curve
<1> QED BY <1>4, <1>5, <1>6, <1>7

\* Squares keep the order.
LEMMA SquareLess ==
  ASSUME NEW a \in Nat, NEW b \in Nat, a <= b
  PROVE  a * a <= b * b /\ a * a \in Nat /\ b * b \in Nat
OBVIOUS

\* A wedge holds all of a circle one smaller, and is within a circle one larger.
LEMMA WedgeFits ==
  ASSUME NEW r, NEW Y, NEW m, Sloped(r, Y, m), Rounded8(r, Y, m), NEW u \in Nat, NEW v \in Nat
  PROVE  /\ Wedge(Y, m, u, v) => u * u + v * v < (r + 1) * (r + 1)
         /\ u * u + v * v <= (r - 1) * (r - 1) => Wedge(Y, m, u, v)
<1>1. /\ r \in Nat \ {0} /\ m \in Nat /\ m <= Y[m] /\ Y[m] <= m + 1 /\ m \in 0 .. m
      /\ \A x \in 0 .. m : Y[x] \in Int /\ Y[m] <= Y[x] /\ Y[x] <= r
  BY DEF Sloped
<1>2. /\ \A x \in 0 .. m : Inside(r, x, Y[x]) /\ Outside(r, x, Y[x])
      /\ Y[m] = m + 1 => Outside(r, m + 1, m)
  BY DEF Rounded8
<1> DEFINE R == r * r
           P == (r - 1) * (r - 1)
<1>3. R \in Int /\ P \in Int /\ (r + 1) * (r + 1) = R + 2 * r + 1
  BY <1>1, Squares
<1>4. ASSUME NEW a \in 0 .. m, NEW b \in 0 .. Y[a]
      PROVE  a * a + b * b < R + 2 * r + 1
  <2> DEFINE y == Y[a]
  <2>1. y \in Nat /\ b \in Nat /\ b <= y /\ a \in Nat
    BY <1>1
  <2>2. a * a + y * y <= r * r + r
    BY <1>2 DEF Inside
  <2> HIDE DEF y
  <2>3. b * b <= y * y /\ b * b \in Nat /\ y * y \in Nat /\ a * a \in Nat
    BY <2>1, SquareLess
  <2> DEFINE A == a * a
             B == b * b
             C == y * y
  <2>4. A + C <= R + r /\ B <= C /\ A \in Nat /\ B \in Nat /\ C \in Nat
    BY <2>2, <2>3
  <2> HIDE DEF A, B, C, R, P
  <2>5. A + B < R + 2 * r + 1
    BY <1>1, <1>3, <2>4
  <2> QED BY <2>5 DEF A, B
<1>5. ASSUME NEW a \in 0 .. m, NEW b \in Nat, ~(b \in 0 .. Y[a])
      PROVE  a * a + b * b > P
  <2> DEFINE y == Y[a] + 1
  <2>1. y \in Nat /\ y <= b /\ a \in Nat
    BY <1>1, <1>5
  <2>2. a * a + y * y > (r - 1) * (r - 1)
    BY <1>2 DEF Outside
  <2> HIDE DEF y
  <2>3. y * y <= b * b /\ b * b \in Nat /\ y * y \in Nat /\ a * a \in Nat
    BY <2>1, SquareLess
  <2> DEFINE A == a * a
             B == b * b
             C == y * y
  <2>4. A + C > P /\ C <= B /\ A \in Nat /\ B \in Nat /\ C \in Nat
    BY <2>2, <2>3
  <2> HIDE DEF A, B, C, R, P
  <2>5. A + B > P
    BY <1>3, <2>4
  <2> QED BY <2>5 DEF A, B
<1>6. ASSUME ~(u \in 0 .. m), ~(v \in 0 .. m)
      PROVE  u * u + v * v > P
  <2> DEFINE n == m + 1
             A == u * u
             B == v * v
             M == m * m
             N == n * n
  <2>1. n \in Nat /\ n <= u /\ n <= v /\ m <= n
    BY <1>1, <1>6
  <2>2. (Y[m] = m /\ M + N > P) \/ (Y[m] = n /\ N + N > P)
    <3>1. Y[m] = m => M + N > P
      BY <1>1, <1>2 DEF Outside
    <3>2. Y[m] = m + 1 => N + N > P
      BY <1>1, <1>2 DEF Outside
    <3> QED BY <1>1, <3>1, <3>2
  <2> HIDE DEF n
  <2>3. N <= A /\ N <= B /\ M <= N /\ N \in Nat /\ A \in Nat /\ B \in Nat /\ M \in Nat
    BY <1>1, <2>1, SquareLess
  <2> HIDE DEF A, B, M, N, P, R
  <2>4. A + B > P
    BY <1>3, <2>2, <2>3
  <2> QED BY <2>4 DEF A, B
<1> HIDE DEF P, R
<1>7. Wedge(Y, m, u, v) => u * u + v * v < R + 2 * r + 1
  <2> DEFINE A == u * u
             B == v * v
  <2>1. A \in Int /\ B \in Int
    OBVIOUS
  <2>2. (u \in 0 .. m /\ v \in 0 .. Y[u] => A + B < R + 2 * r + 1) /\ (v \in 0 .. m /\ u \in 0 .. Y[v] => B + A < R + 2 * r + 1)
    BY <1>4
  <2> HIDE DEF A, B
  <2>3. A + B = B + A
    BY <2>1
  <2>4. Wedge(Y, m, u, v) => A + B < R + 2 * r + 1
    BY <2>2, <2>3 DEF Wedge
  <2> QED BY <2>4 DEF A, B
<1>8. u * u + v * v <= P => Wedge(Y, m, u, v)
  <2> DEFINE A == u * u
             B == v * v
  <2>1. A \in Int /\ B \in Int
    OBVIOUS
  <2>2. /\ u \in 0 .. m /\ ~(v \in 0 .. Y[u]) => A + B > P
        /\ v \in 0 .. m /\ ~(u \in 0 .. Y[v]) => B + A > P
        /\ ~(u \in 0 .. m) /\ ~(v \in 0 .. m) => A + B > P
    BY <1>5, <1>6
  <2> HIDE DEF A, B
  <2>3. A + B = B + A /\ (A + B <= P => ~(A + B > P))
    BY <1>3, <2>1
  <2>4. A + B <= P => Wedge(Y, m, u, v)
    BY <2>2, <2>3 DEF Wedge
  <2> QED BY <2>4 DEF A, B
<1> QED BY <1>3, <1>7, <1>8 DEF P

\* An absolute value.
LEMMA AbsIs ==
  ASSUME NEW n \in Int
  PROVE  Abs(n) \in Nat /\ (Abs(n) = n \/ Abs(n) = -n) /\ Abs(n) * Abs(n) = n * n /\ \A k \in Nat : Abs(n) <= k <=> n \in -k .. k
<1>1. Abs(n) \in Nat /\ (Abs(n) = n \/ Abs(n) = -n)
  BY DEF Abs
<1>2. Abs(n) * Abs(n) = n * n
  <2>1. (-n) * (-n) = n * n
    OBVIOUS
  <2> QED BY <1>1, <2>1
<1>3. \A k \in Nat : Abs(n) <= k <=> n \in -k .. k
  BY DEF Abs
<1> QED BY <1>1, <1>2, <1>3

\* A disc and its edge, about (cx, cy).
DiscAt(Y, m, cx, cy) == {p \in Int \X Int : Wedge(Y, m, Abs(p[1] - cx), Abs(p[2] - cy))}
RingAt(Y, m, cx, cy) == {p \in Int \X Int : Curve(Y, m, Abs(p[1] - cx), Abs(p[2] - cy))}

\* A disc is a wedge on every side.
LEMMA DiscIs ==
  ASSUME NEW r \in Nat \ {0}, NEW Y, NEW m, Arc(r, Y, m)
  PROVE  Disc(r) = {p \in Int \X Int : Wedge(Y, m, Abs(p[1]), Abs(p[2]))}
<1> DEFINE Line(p, q) == <<Abs(p[1]), Abs(p[2])>> \in {<<x, q[2]>> : x \in 0 .. q[1]} \cup {<<x, q[1]>> : x \in 0 .. q[2]}
<1>1. Sloped(r, Y, m)
  BY ArcSlopes
<1>2. Octant(r) = {<<x, Y[x]>> : x \in 0 .. m} /\ m \in Nat
  BY DEF Arc
<1>3. \A x \in 0 .. m : Y[x] \in Int
  BY <1>1 DEF Sloped
<1>4. ASSUME NEW p \in Int \X Int
      PROVE  (\E q \in Octant(r) \cup {<<0, 0>>} : Line(p, q)) <=> Wedge(Y, m, Abs(p[1]), Abs(p[2]))
  <2> DEFINE u == Abs(p[1])
             v == Abs(p[2])
  <2>1. u \in Nat /\ v \in Nat
    BY AbsIs
  <2>2. Wedge(Y, m, u, v) <=> \E x \in 0 .. m : (v = Y[x] /\ u <= x) \/ (v = x /\ u <= Y[x])
    BY <1>1, <2>1, WedgeRows
  <2>3. \A a, b : a \in Int /\ b \in Int => (Line(p, <<a, b>>) <=> (v = b /\ u <= a) \/ (v = a /\ u <= b))
    <3> SUFFICES ASSUME NEW a \in Int, NEW b \in Int
                 PROVE  Line(p, <<a, b>>) <=> (v = b /\ u <= a) \/ (v = a /\ u <= b)
      OBVIOUS
    <3>1. Line(p, <<a, b>>) <=> <<u, v>> \in {<<x, b>> : x \in 0 .. a} \cup {<<x, a>> : x \in 0 .. b}
      OBVIOUS
    <3> HIDE DEF u, v, Line
    <3> QED BY <2>1, <3>1
  <2>4. Line(p, <<0, 0>>) => Wedge(Y, m, u, v)
    <3>1. Line(p, <<0, 0>>) <=> (v = 0 /\ u <= 0) \/ (v = 0 /\ u <= 0)
      BY <2>3
    <3> HIDE DEF u, v, Line
    <3>2. Line(p, <<0, 0>>) => u = 0 /\ v = 0 /\ v <= r
      BY <2>1, <3>1
    <3> QED BY <1>1, <2>1, <3>2, WedgeShape
  <2> HIDE DEF Line, u, v
  <2>5. ASSUME NEW q \in Octant(r), Line(p, q) PROVE Wedge(Y, m, u, v)
    <3>1. PICK x \in 0 .. m : q = <<x, Y[x]>>
      BY <1>2
    <3>2. x \in Int /\ Y[x] \in Int
      BY <1>3
    <3> QED BY <2>2, <2>3, <2>5, <3>1, <3>2
  <2>6. ASSUME Wedge(Y, m, u, v) PROVE \E q \in Octant(r) : Line(p, q)
    <3>1. PICK x \in 0 .. m : (v = Y[x] /\ u <= x) \/ (v = x /\ u <= Y[x])
      BY <2>2, <2>6
    <3>2. x \in Int /\ Y[x] \in Int /\ <<x, Y[x]>> \in Octant(r)
      BY <1>2, <1>3
    <3> QED BY <2>3, <3>1, <3>2
  <2>7. (\E q \in Octant(r) \cup {<<0, 0>>} : Line(p, q)) <=> Wedge(Y, m, u, v)
    BY <2>4, <2>5, <2>6
  <2> QED BY <2>7 DEF u, v
<1>5. Disc(r) = {p \in Box(-r, -r, 2 * r + 1, 2 * r + 1) : \E q \in Octant(r) \cup {<<0, 0>>} : Line(p, q)}
  BY DEF Disc
<1> HIDE DEF Line
<1>6. Box(-r, -r, 2 * r + 1, 2 * r + 1) = (-r .. r) \X (-r .. r)
  <2>1. -r + (2 * r + 1) - 1 = r
    OBVIOUS
  <2> QED BY <2>1 DEF Box
<1>7. ASSUME NEW p \in Int \X Int, Wedge(Y, m, Abs(p[1]), Abs(p[2])) PROVE p \in (-r .. r) \X (-r .. r)
  <2>1. Abs(p[1]) \in Nat /\ Abs(p[2]) \in Nat /\ p[1] \in Int /\ p[2] \in Int
    BY AbsIs
  <2>2. Abs(p[1]) <= r /\ Abs(p[2]) <= r
    BY <1>1, <1>7, <2>1, WedgeShape
  <2>3. p[1] \in -r .. r /\ p[2] \in -r .. r
    BY <2>1, <2>2, AbsIs
  <2> QED BY <2>3
<1> QED BY <1>4, <1>5, <1>6, <1>7

\* A disc drawn by its octant is round (DiscFits).
LEMMA DiscIsRound ==
  ASSUME NEW r \in Nat \ {0}
  PROVE  DiscFits(Disc(r), r)
<1>1. PICK Y, m : Arc(r, Y, m) /\ Rounded8(r, Y, m)
  BY ArcOf
<1>2. Sloped(r, Y, m) /\ Disc(r) = {p \in Int \X Int : Wedge(Y, m, Abs(p[1]), Abs(p[2]))}
  BY <1>1, ArcSlopes, DiscIs
<1>3. ASSUME NEW p \in Int \X Int
      PROVE  /\ Wedge(Y, m, Abs(p[1]), Abs(p[2])) => p[1] * p[1] + p[2] * p[2] < (r + 1) * (r + 1)
             /\ p[1] * p[1] + p[2] * p[2] <= (r - 1) * (r - 1) => Wedge(Y, m, Abs(p[1]), Abs(p[2]))
  <2> DEFINE u == Abs(p[1])
             v == Abs(p[2])
  <2>1. u \in Nat /\ v \in Nat /\ u * u = p[1] * p[1] /\ v * v = p[2] * p[2]
    BY AbsIs
  <2> HIDE DEF u, v
  <2>2. /\ Wedge(Y, m, u, v) => u * u + v * v < (r + 1) * (r + 1)
        /\ u * u + v * v <= (r - 1) * (r - 1) => Wedge(Y, m, u, v)
    BY <1>1, <1>2, <2>1, WedgeFits
  <2>3. /\ Wedge(Y, m, u, v) => p[1] * p[1] + p[2] * p[2] < (r + 1) * (r + 1)
        /\ p[1] * p[1] + p[2] * p[2] <= (r - 1) * (r - 1) => Wedge(Y, m, u, v)
    BY <2>1, <2>2, Zenon
  <2> QED BY <2>3 DEF u, v
<1>4. Box(-r, -r, 2 * r + 1, 2 * r + 1) \subseteq Int \X Int
  BY DEF Box
<1> QED BY <1>2, <1>3, <1>4, Zenon DEF DiscFits

-----------------------------------------------------------------------------
(* Discs and circles *)

\* Drawings in any order, given as a set.
LEMMA DrawsSet ==
  ASSUME NEW c, NEW T, IsFiniteSet(T), NEW f, DOMAIN f = T, NEW g, \A t \in T : Draws(f[t], c, g[t]),
         NEW D, D = {f[t] : t \in T}
  PROVE  Draws(All(SetToSeq(D)), c, UNION {g[t] : t \in T})
<1>1. \A t \in T : f[t] \in Seq(Jobs) /\ Covers(f[t]) = g[t] \cap View(c)
  BY DEF Draws
<1>2. IsFiniteSet(D) /\ D \subseteq Seq(Jobs)
  BY <1>1, FiniteRange
<1>3. All(SetToSeq(D)) \in Seq(Jobs) /\ Covers(All(SetToSeq(D))) = UNION {Covers(d) : d \in D}
  BY <1>2, AllOfSet
<1>4. UNION {Covers(d) : d \in D} = (UNION {g[t] : t \in T}) \cap View(c)
  BY <1>1
<1> QED BY <1>3, <1>4 DEF Draws

\* Both spans of the columns 0 .. m of an octant, for each of the sides in S.
Turned(m, S) == (0 .. m) \X (S \X {1, 2})

\* Two things are finitely many.
LEMMA PairFinite ==
  ASSUME NEW a, NEW b
  PROVE  IsFiniteSet({a, b})
<1>1. IsFiniteSet({a}) /\ IsFiniteSet({b})
  BY FS_Singleton
<1>2. IsFiniteSet({a} \cup {b})
  BY <1>1, FS_Union
<1>3. {a, b} = {a} \cup {b}
  OBVIOUS
<1> QED BY <1>2, <1>3

\* The spans of a disc are finitely many.
LEMMA TurnedFinite ==
  ASSUME NEW m \in Nat, NEW S, IsFiniteSet(S)
  PROVE  IsFiniteSet(Turned(m, S))
<1>1. IsFiniteSet(0 .. m)
  BY FS_Interval
<1>2. IsFiniteSet({1, 2})
  BY PairFinite
<1>3. IsFiniteSet(S \X {1, 2})
  BY <1>2, FS_Product
<1> QED BY <1>1, <1>3, FS_Product DEF Turned

\* A row of pixels of a disc lies where a row of its full width does.
LEMMA SpanSized ==
  ASSUME NEW cx \in Int, NEW cy \in Int, NEW r \in Nat, Fits(cx - r), Fits(cx + r), Fits(cy - r), Fits(cy + r),
         NEW a \in 0 .. r, NEW b \in 0 .. r, NEW v \in -r .. r
  PROVE  Sized(cx - a, cy + v, a + b + 1, 1)
<1>1. Int16Max \in Nat
  BY Sizes
<1> QED BY <1>1 DEF Sized, Fits

\* The pixels of a box.
LEMMA BoxIs ==
  ASSUME NEW x \in Int, NEW y \in Int, NEW w \in Int, NEW h \in Int, NEW p
  PROVE  p \in Box(x, y, w, h) <=> p \in Int \X Int /\ x <= p[1] /\ p[1] <= x + w - 1 /\ y <= p[2] /\ p[2] <= y + h - 1
BY DEF Box

\* HAL_GFX_FillCircle() draws the disc.
LEMMA FillCircleCovers ==
  ASSUME NEW c, Clip(c), NEW cx \in Int, NEW cy \in Int, NEW r \in Nat \ {0},
         Fits(cx - r), Fits(cx + r), Fits(cy - r), Fits(cy + r), NEW Y, NEW m, Arc(r, Y, m)
  PROVE  Draws(FillCircle(c, cx, cy, r), c, DiscAt(Y, m, cx, cy))
<1> DEFINE H(a, b, s) == DrawHLine(c, cx - a, cy + s * b, 2 * a + 1)
           T == Turned(m, {-1, 1})
           f == [t \in T |-> IF t[2][2] = 1 THEN H(t[1], Y[t[1]], t[2][1]) ELSE H(Y[t[1]], t[1], t[2][1])]
           g == [t \in T |-> IF t[2][2] = 1 THEN Box(cx - t[1], cy + t[2][1] * Y[t[1]], 2 * t[1] + 1, 1)
                             ELSE Box(cx - Y[t[1]], cy + t[2][1] * t[1], 2 * Y[t[1]] + 1, 1)]
           E == {{H(p[1], p[2], s), H(p[2], p[1], s)} : p \in Octant(r), s \in {-1, 1}}
           D == UNION E
           Hit(d) == \E t \in T : d = f[t]
<1>1. Sloped(r, Y, m)
  BY ArcSlopes
<1>2. Octant(r) = {<<x, Y[x]>> : x \in 0 .. m} /\ m \in Nat /\ m <= r
  BY DEF Arc
<1>3. \A x \in 0 .. m : Y[x] \in 0 .. r /\ x \in 0 .. r
  BY <1>1 DEF Sloped
<1>4. FillCircle(c, cx, cy, r) = All(SetToSeq(D))
  BY DEF FillCircle
<1>5. D = {f[t] : t \in T}
  <2> HIDE DEF H
  <2>1. \A x \in 0 .. m, s \in {-1, 1} : /\ f[<<x, <<s, 1>>>>] = H(x, Y[x], s) /\ <<x, <<s, 1>>>> \in T
                                         /\ f[<<x, <<s, 2>>>>] = H(Y[x], x, s) /\ <<x, <<s, 2>>>> \in T
    BY DEF Turned
  <2>2. ASSUME NEW t \in T PROVE \E x \in 0 .. m, s \in {-1, 1} : f[t] \in {H(x, Y[x], s), H(Y[x], x, s)}
    <3>1. PICK x \in 0 .. m, s \in {-1, 1}, k \in {1, 2} : t = <<x, <<s, k>>>>
      BY DEF Turned
    <3> HIDE DEF f
    <3> QED BY <2>1, <3>1
  <2> HIDE DEF f, T
  <2>3. ASSUME NEW x \in 0 .. m, NEW s \in {-1, 1} PROVE Hit(H(x, Y[x], s)) /\ Hit(H(Y[x], x, s))
    <3> DEFINE t1 == <<x, <<s, 1>>>>
               t2 == <<x, <<s, 2>>>>
    <3>1. t1 \in T /\ t2 \in T /\ f[t1] = H(x, Y[x], s) /\ f[t2] = H(Y[x], x, s)
      BY <2>1
    <3> HIDE DEF t1, t2
    <3> QED BY <3>1
  <2>4. ASSUME NEW p \in Octant(r) PROVE \E x \in 0 .. m : p[1] = x /\ p[2] = Y[x]
    BY <1>2
  <2>5. ASSUME NEW x \in 0 .. m PROVE \E p \in Octant(r) : p[1] = x /\ p[2] = Y[x]
    <3>1. <<x, Y[x]>> \in Octant(r)
      BY <1>2
    <3> QED BY <3>1
  <2> HIDE DEF Hit
  <2>6. ASSUME NEW d \in D PROVE Hit(d)
    <3>1. PICK p \in Octant(r), s \in {-1, 1} : d = H(p[1], p[2], s) \/ d = H(p[2], p[1], s)
      BY <2>6
    <3>2. PICK x \in 0 .. m : p[1] = x /\ p[2] = Y[x]
      BY <2>4
    <3>3. H(p[1], p[2], s) = H(x, Y[x], s) /\ H(p[2], p[1], s) = H(Y[x], x, s)
      BY <3>2
    <3>4. d = H(x, Y[x], s) \/ d = H(Y[x], x, s)
      BY <3>1, <3>3
    <3> QED BY <2>3, <3>4
  <2>7. ASSUME NEW x \in 0 .. m, NEW s \in {-1, 1} PROVE {H(x, Y[x], s), H(Y[x], x, s)} \subseteq D
    <3>1. PICK p \in Octant(r) : p[1] = x /\ p[2] = Y[x]
      BY <2>5
    <3>2. {H(p[1], p[2], s), H(p[2], p[1], s)} \in E
      OBVIOUS
    <3> HIDE DEF E
    <3>3. {H(p[1], p[2], s), H(p[2], p[1], s)} \subseteq D
      BY <3>2
    <3> QED BY <3>1, <3>3, Zenon
  <2> HIDE DEF D
  <2> QED BY <2>2, <2>6, <2>7 DEF Hit
<1>6. ASSUME NEW t \in T PROVE Draws(f[t], c, g[t])
  <2>1. PICK x \in 0 .. m, s \in {-1, 1}, k \in {1, 2} : t = <<x, <<s, k>>>>
    BY DEF Turned
  <2> DEFINE y == Y[x]
  <2>2. y \in 0 .. r /\ x \in 0 .. r /\ s * x \in -r .. r /\ s * y \in -r .. r
    BY <1>3, <2>1
  <2>3. CASE k = 1
    <3>1. f[t] = FillRect(c, cx - x, cy + s * y, 2 * x + 1, 1) /\ g[t] = Box(cx - x, cy + s * y, 2 * x + 1, 1)
      BY <2>1, <2>3 DEF DrawHLine, H
    <3> DEFINE v == s * y
    <3> HIDE DEF f, g, y, v
    <3>2. Sized(cx - x, cy + v, x + x + 1, 1)
      BY <2>2, SpanSized DEF v
    <3>3. x + x + 1 = 2 * x + 1
      OBVIOUS
    <3>4. Draws(FillRect(c, cx - x, cy + v, 2 * x + 1, 1), c, Box(cx - x, cy + v, 2 * x + 1, 1))
      BY <3>2, <3>3, Fill
    <3> QED BY <3>1, <3>4 DEF v
  <2>4. CASE k = 2
    <3>1. f[t] = FillRect(c, cx - y, cy + s * x, 2 * y + 1, 1) /\ g[t] = Box(cx - y, cy + s * x, 2 * y + 1, 1)
      BY <2>1, <2>4 DEF DrawHLine, H
    <3> DEFINE v == s * x
    <3> HIDE DEF f, g, y, v
    <3>2. Sized(cx - y, cy + v, y + y + 1, 1)
      BY <2>2, SpanSized DEF v
    <3>3. y + y + 1 = 2 * y + 1
      BY <2>2
    <3>4. Draws(FillRect(c, cx - y, cy + v, 2 * y + 1, 1), c, Box(cx - y, cy + v, 2 * y + 1, 1))
      BY <3>2, <3>3, Fill
    <3> QED BY <3>1, <3>4 DEF v
  <2> QED BY <2>3, <2>4
<1>7. UNION {g[t] : t \in T} = DiscAt(Y, m, cx, cy)
  <2>1. ASSUME NEW t \in T, NEW p \in g[t] PROVE p \in DiscAt(Y, m, cx, cy)
    <3>1. PICK x \in 0 .. m, s \in {-1, 1}, k \in {1, 2} : t = <<x, <<s, k>>>>
      BY DEF Turned
    <3> DEFINE y == Y[x]
    <3>2. y \in Nat /\ x \in Nat
      BY <1>3
    <3>3. g[t] = IF k = 1 THEN Box(cx - x, cy + s * y, 2 * x + 1, 1) ELSE Box(cx - y, cy + s * x, 2 * y + 1, 1)
      BY <3>1
    <3> HIDE DEF g, y
    <3>4. /\ p \in Int \X Int
          /\ k = 1 => Abs(p[1] - cx) <= x /\ Abs(p[2] - cy) = y
          /\ k # 1 => Abs(p[1] - cx) <= y /\ Abs(p[2] - cy) = x
      <4>1. CASE k = 1
        <5>1. p \in Box(cx - x, cy + s * y, 2 * x + 1, 1) /\ s * y \in Int
          BY <2>1, <3>2, <3>3, <4>1
        <5>2. p \in Int \X Int /\ cx - x <= p[1] /\ p[1] <= cx + x /\ p[2] = cy + s * y
          BY <3>2, <5>1, BoxIs
        <5> QED BY <3>2, <4>1, <5>2 DEF Abs
      <4>2. CASE k # 1
        <5>1. p \in Box(cx - y, cy + s * x, 2 * y + 1, 1) /\ s * x \in Int
          BY <2>1, <3>2, <3>3, <4>2
        <5>2. p \in Int \X Int /\ cx - y <= p[1] /\ p[1] <= cx + y /\ p[2] = cy + s * x
          BY <3>2, <5>1, BoxIs
        <5> QED BY <3>2, <4>2, <5>2 DEF Abs
      <4> QED BY <4>1, <4>2
    <3>5. Abs(p[1] - cx) \in Nat /\ Abs(p[2] - cy) \in Nat
      BY <3>4 DEF Abs
    <3>6. Wedge(Y, m, Abs(p[1] - cx), Abs(p[2] - cy))
      BY <1>1, <3>4, <3>5, WedgeRows DEF y
    <3> QED BY <3>4, <3>6 DEF DiscAt
  <2>2. ASSUME NEW p \in DiscAt(Y, m, cx, cy) PROVE \E t \in T : p \in g[t]
    <3> DEFINE u == Abs(p[1] - cx)
               v == Abs(p[2] - cy)
    <3>1. p \in Int \X Int /\ Wedge(Y, m, u, v)
      BY DEF DiscAt
    <3>2. u \in Nat /\ v \in Nat
      BY <3>1 DEF Abs
    <3>3. PICK x \in 0 .. m : (v = Y[x] /\ u <= x) \/ (v = x /\ u <= Y[x])
      <4> HIDE DEF u, v
      <4> QED BY <1>1, <3>1, <3>2, WedgeRows
    <3> DEFINE y == Y[x]
    <3>4. y \in Nat /\ x \in Nat
      BY <1>3
    <3>5. PICK s \in {-1, 1} : p[2] - cy = s * v
      BY <3>1 DEF Abs
    <3>6. CASE v = y /\ u <= x
      <4>1. g[<<x, <<s, 1>>>>] = Box(cx - x, cy + s * y, 2 * x + 1, 1) /\ <<x, <<s, 1>>>> \in T
        BY DEF Turned
      <4> HIDE DEF g, T, y, v
      <4>2. s * y \in Int /\ p[2] = cy + s * y /\ cx - x <= p[1] /\ p[1] <= cx + x
        BY <3>1, <3>4, <3>5, <3>6 DEF Abs
      <4>3. p \in Box(cx - x, cy + s * y, 2 * x + 1, 1)
        BY <3>1, <3>4, <4>2, BoxIs
      <4> QED BY <4>1, <4>3
    <3>7. CASE v = x /\ u <= y
      <4>1. g[<<x, <<s, 2>>>>] = Box(cx - y, cy + s * x, 2 * y + 1, 1) /\ <<x, <<s, 2>>>> \in T
        BY DEF Turned
      <4> HIDE DEF g, T, y, v
      <4>2. s * x \in Int /\ p[2] = cy + s * x /\ cx - y <= p[1] /\ p[1] <= cx + y
        BY <3>1, <3>4, <3>5, <3>7 DEF Abs
      <4>3. p \in Box(cx - y, cy + s * x, 2 * y + 1, 1)
        BY <3>1, <3>4, <4>2, BoxIs
      <4> QED BY <4>1, <4>3
    <3> QED BY <3>3, <3>6, <3>7
  <2> HIDE DEF g, T
  <2>3. DiscAt(Y, m, cx, cy) \subseteq UNION {g[t] : t \in T}
    BY <2>2
  <2>4. UNION {g[t] : t \in T} \subseteq DiscAt(Y, m, cx, cy)
    BY <2>1
  <2> QED BY <2>3, <2>4
<1>8. IsFiniteSet(T)
  <2>1. IsFiniteSet({-1, 1})
    BY PairFinite
  <2> QED BY <1>2, <2>1, TurnedFinite
<1>9. DOMAIN f = T
  OBVIOUS
<1> HIDE DEF f, g, T, D, E, H, Hit
<1> QED BY <1>4, <1>5, <1>6, <1>7, <1>8, <1>9, DrawsSet

\* A quarter of a disc and of its edge, on the side (qx, qy) of (cx, cy).
QuarterAt(Y, m, cx, cy, qx, qy) ==
  {p \in Int \X Int : /\ qx * (p[1] - cx) \in Nat /\ qy * (p[2] - cy) \in Nat
                      /\ Wedge(Y, m, qx * (p[1] - cx), qy * (p[2] - cy))}
BowAt(Y, m, cx, cy, qx, qy) ==
  {p \in Int \X Int : /\ qx * (p[1] - cx) \in Nat /\ qy * (p[2] - cy) \in Nat
                      /\ Curve(Y, m, qx * (p[1] - cx), qy * (p[2] - cy))}

\* A distance on a side, and back.
LEMMA Sided ==
  ASSUME NEW q \in {-1, 1}, NEW c \in Int, NEW n \in Int
  PROVE  /\ c + q * n \in Int /\ q * ((c + q * n) - c) = n
         /\ q * (n - c) \in Int /\ c + q * (q * (n - c)) = n
OBVIOUS

\* A number and its image in a mirror at c.
LEMMA Mirrored ==
  ASSUME NEW q \in {-1, 1}, NEW x \in Int, NEW c \in Int, NEW a \in Int
  PROVE  x = c + q * a <=> q * (x - c) = a
<1>1. CASE q = 1
  BY <1>1
<1>2. CASE q = -1
  BY <1>2
<1> QED BY <1>1, <1>2

\* gfx_draw_circle_quarter() draws the edge of its quarter.
LEMMA QuarterPixelsAre ==
  ASSUME NEW cx \in Int, NEW cy \in Int, NEW r \in Nat \ {0}, NEW qx \in {-1, 1}, NEW qy \in {-1, 1},
         NEW Y, NEW m, Arc(r, Y, m)
  PROVE  QuarterPixels(cx, cy, r, qx, qy) = BowAt(Y, m, cx, cy, qx, qy)
<1> DEFINE K(a, b) == <<cx + qx * a, cy + qy * b>>
           P == UNION {{K(p[1], p[2]), K(p[2], p[1])} : p \in Octant(r)}
<1>1. Sloped(r, Y, m)
  BY ArcSlopes
<1>2. Octant(r) = {<<x, Y[x]>> : x \in 0 .. m} /\ m \in Nat /\ m <= r
  BY DEF Arc
<1>3. \A x \in 0 .. m : Y[x] \in Nat /\ x \in Nat
  BY <1>1 DEF Sloped
<1>4. QuarterPixels(cx, cy, r, qx, qy) = P
  BY DEF QuarterPixels
<1> DEFINE In(p) == \E x \in 0 .. m : p = K(x, Y[x]) \/ p = K(Y[x], x)
<1>5. \A p : p \in P <=> In(p)
  <2> HIDE DEF K
  <2>1. ASSUME NEW p \in Octant(r) PROVE \E x \in 0 .. m : p[1] = x /\ p[2] = Y[x]
    BY <1>2
  <2>2. ASSUME NEW x \in 0 .. m PROVE \E p \in Octant(r) : p[1] = x /\ p[2] = Y[x]
    <3>1. <<x, Y[x]>> \in Octant(r)
      BY <1>2
    <3> QED BY <3>1
  <2>3. ASSUME NEW d \in P PROVE In(d)
    <3>1. PICK p \in Octant(r) : d = K(p[1], p[2]) \/ d = K(p[2], p[1])
      BY <2>3
    <3>2. PICK x \in 0 .. m : p[1] = x /\ p[2] = Y[x]
      BY <2>1
    <3>3. K(p[1], p[2]) = K(x, Y[x]) /\ K(p[2], p[1]) = K(Y[x], x)
      BY <3>2
    <3> QED BY <3>1, <3>3
  <2>4. ASSUME NEW d, In(d) PROVE d \in P
    <3>1. PICK x \in 0 .. m : d = K(x, Y[x]) \/ d = K(Y[x], x)
      BY <2>4
    <3>2. PICK p \in Octant(r) : p[1] = x /\ p[2] = Y[x]
      BY <2>2
    <3>3. K(p[1], p[2]) = K(x, Y[x]) /\ K(p[2], p[1]) = K(Y[x], x)
      BY <3>2
    <3>4. K(p[1], p[2]) \in P /\ K(p[2], p[1]) \in P
      OBVIOUS
    <3> QED BY <3>1, <3>3, <3>4
  <2> HIDE DEF P, In
  <2> QED BY <2>3, <2>4
<1> HIDE DEF P
<1>6. \A p \in Int \X Int : \A a, b \in Int : p = K(a, b) <=> qx * (p[1] - cx) = a /\ qy * (p[2] - cy) = b
  <2> SUFFICES ASSUME NEW p \in Int \X Int, NEW a \in Int, NEW b \in Int
               PROVE  p = K(a, b) <=> qx * (p[1] - cx) = a /\ qy * (p[2] - cy) = b
    OBVIOUS
  <2>1. p = <<p[1], p[2]>> /\ p[1] \in Int /\ p[2] \in Int
    OBVIOUS
  <2>5. p[1] \in Int /\ p[2] \in Int
    OBVIOUS
  <2> DEFINE u == p[1]
             v == p[2]
  <2>6. u \in Int /\ v \in Int
    BY <2>5
  <2>7. (u = cx + qx * a <=> qx * (u - cx) = a) /\ (v = cy + qy * b <=> qy * (v - cy) = b)
    <3> HIDE DEF u, v, K, In
    <3> QED BY <2>6, Mirrored
  <2>2. p[1] = cx + qx * a <=> qx * (p[1] - cx) = a
    BY <2>7, Zenon
  <2>3. p[2] = cy + qy * b <=> qy * (p[2] - cy) = b
    BY <2>7, Zenon
  <2> HIDE DEF u, v
  <2>4. p = K(a, b) <=> p[1] = cx + qx * a /\ p[2] = cy + qy * b
    BY <2>1
  <2> QED BY <2>2, <2>3, <2>4
<1>7. \A a, b \in Int : K(a, b) \in Int \X Int
  OBVIOUS
<1> HIDE DEF K
<1>8. ASSUME NEW p, In(p) PROVE p \in BowAt(Y, m, cx, cy, qx, qy)
  <2>1. PICK x \in 0 .. m : p = K(x, Y[x]) \/ p = K(Y[x], x)
    BY <1>8
  <2> DEFINE y == Y[x]
             a == qx * (p[1] - cx)
             b == qy * (p[2] - cy)
  <2>2. x \in Nat /\ y \in Nat /\ x \in Int /\ y \in Int
    BY <1>3
  <2>3. p \in Int \X Int
    <3>1. p = K(x, y) \/ p = K(y, x)
      BY <2>1
    <3> HIDE DEF a, b, y, In
    <3>2. K(x, y) \in Int \X Int /\ K(y, x) \in Int \X Int
      BY <1>7, <2>2, Zenon
    <3> QED BY <3>1, <3>2, Zenon
  <2>4. (a = x /\ b = y) \/ (a = y /\ b = x)
    <3>1. \A i, j \in Int : p = K(i, j) => a = i /\ b = j
      BY <1>6, <2>3
    <3> HIDE DEF a, b
    <3> QED BY <2>1, <2>2, <3>1
  <2> HIDE DEF a, b
  <2>5. Curve(Y, m, a, b) /\ a \in Nat /\ b \in Nat
    BY <2>2, <2>4 DEF Curve
  <2> QED BY <2>3, <2>5 DEF BowAt, a, b
<1>9. ASSUME NEW p \in BowAt(Y, m, cx, cy, qx, qy) PROVE In(p)
  <2> DEFINE a == qx * (p[1] - cx)
             b == qy * (p[2] - cy)
  <2>1. p \in Int \X Int /\ a \in Nat /\ b \in Nat /\ Curve(Y, m, a, b)
    BY DEF BowAt
  <2>2. p = K(a, b)
    BY <1>6, <2>1
  <2> HIDE DEF a, b
  <2> QED BY <2>1, <2>2 DEF Curve
<1> HIDE DEF In
<1> QED BY <1>4, <1>5, <1>8, <1>9

\* An absolute value is the distance on some side.
LEMMA AbsSides ==
  ASSUME NEW n \in Int
  PROVE  /\ \E q \in {-1, 1} : Abs(n) = q * n
         /\ \A q \in {-1, 1} : q * n \in Nat => Abs(n) = q * n
BY DEF Abs

\* Four quarters of an edge make the ring.
LEMMA RingOfBows ==
  ASSUME NEW cx \in Int, NEW cy \in Int, NEW Y, NEW m
  PROVE  UNION {BowAt(Y, m, cx, cy, qx, qy) : qx \in {-1, 1}, qy \in {-1, 1}} = RingAt(Y, m, cx, cy)
<1>1. ASSUME NEW p \in RingAt(Y, m, cx, cy) PROVE \E qx \in {-1, 1}, qy \in {-1, 1} : p \in BowAt(Y, m, cx, cy, qx, qy)
  <2>1. p \in Int \X Int /\ p[1] - cx \in Int /\ p[2] - cy \in Int /\ Curve(Y, m, Abs(p[1] - cx), Abs(p[2] - cy))
    BY DEF RingAt
  <2>2. PICK qx \in {-1, 1} : Abs(p[1] - cx) = qx * (p[1] - cx)
    BY <2>1, AbsSides
  <2>3. PICK qy \in {-1, 1} : Abs(p[2] - cy) = qy * (p[2] - cy)
    BY <2>1, AbsSides
  <2>4. Abs(p[1] - cx) \in Nat /\ Abs(p[2] - cy) \in Nat
    BY <2>1, AbsIs
  <2>5. p \in BowAt(Y, m, cx, cy, qx, qy)
    BY <2>1, <2>2, <2>3, <2>4, Zenon DEF BowAt
  <2> QED BY <2>5
<1>2. ASSUME NEW qx \in {-1, 1}, NEW qy \in {-1, 1}, NEW p \in BowAt(Y, m, cx, cy, qx, qy) PROVE p \in RingAt(Y, m, cx, cy)
  <2>1. /\ p \in Int \X Int /\ p[1] - cx \in Int /\ p[2] - cy \in Int
        /\ qx * (p[1] - cx) \in Nat /\ qy * (p[2] - cy) \in Nat
        /\ Curve(Y, m, qx * (p[1] - cx), qy * (p[2] - cy))
    BY DEF BowAt
  <2>2. Abs(p[1] - cx) = qx * (p[1] - cx) /\ Abs(p[2] - cy) = qy * (p[2] - cy)
    BY <2>1, AbsSides
  <2> QED BY <2>1, <2>2, Zenon DEF RingAt
<1> QED BY <1>1, <1>2

\* Where a ring and a disc lie.
LEMMA DiscBounds ==
  ASSUME NEW cx \in Int, NEW cy \in Int, NEW r \in Nat \ {0}, NEW Y, NEW m, Sloped(r, Y, m)
  PROVE  /\ DiscAt(Y, m, cx, cy) \subseteq (cx - r .. cx + r) \X (cy - r .. cy + r)
         /\ RingAt(Y, m, cx, cy) \subseteq DiscAt(Y, m, cx, cy)
<1>1. ASSUME NEW p \in DiscAt(Y, m, cx, cy) PROVE p \in (cx - r .. cx + r) \X (cy - r .. cy + r)
  <2> DEFINE u == Abs(p[1] - cx)
             v == Abs(p[2] - cy)
  <2>1. p \in Int \X Int /\ p[1] - cx \in Int /\ p[2] - cy \in Int /\ Wedge(Y, m, u, v)
    BY DEF DiscAt
  <2>2. u \in Nat /\ v \in Nat
    BY <2>1, AbsIs
  <2>3. u <= r /\ v <= r
    <3> HIDE DEF u, v
    <3> QED BY <2>1, <2>2, WedgeShape
  <2>4. p[1] - cx \in -r .. r /\ p[2] - cy \in -r .. r
    BY <2>1, <2>3, AbsIs
  <2> QED BY <2>1, <2>4
<1>2. ASSUME NEW p \in RingAt(Y, m, cx, cy) PROVE p \in DiscAt(Y, m, cx, cy)
  <2> DEFINE u == Abs(p[1] - cx)
             v == Abs(p[2] - cy)
  <2>1. p \in Int \X Int /\ p[1] - cx \in Int /\ p[2] - cy \in Int /\ Curve(Y, m, u, v)
    BY DEF RingAt
  <2>2. u \in Nat /\ v \in Nat
    BY <2>1, AbsIs
  <2> HIDE DEF u, v
  <2>3. Wedge(Y, m, u, v)
    BY <2>1, <2>2, WedgeEdge
  <2> QED BY <2>1, <2>3 DEF DiscAt, u, v
<1> QED BY <1>1, <1>2

\* Pixels within a square are finitely many.
LEMMA SquareFinite ==
  ASSUME NEW a \in Int, NEW b \in Int, NEW c \in Int, NEW d \in Int, NEW ps, ps \subseteq (a .. b) \X (c .. d)
  PROVE  IsFiniteSet(ps) /\ ps \subseteq Int \X Int
<1>1. IsFiniteSet(a .. b) /\ IsFiniteSet(c .. d)
  BY FS_Interval
<1>2. IsFiniteSet((a .. b) \X (c .. d))
  BY <1>1, FS_Product
<1> QED BY <1>2, FS_Subset

\* HAL_GFX_DrawCircle() draws the ring.
LEMMA DrawCircleCovers ==
  ASSUME NEW c, NEW cx \in Int, NEW cy \in Int, NEW r \in Nat \ {0}, NEW Y, NEW m, Arc(r, Y, m)
  PROVE  Draws(DrawCircle(c, cx, cy, r), c, RingAt(Y, m, cx, cy))
<1> DEFINE P == UNION {QuarterPixels(cx, cy, r, qx, qy) : qx \in {-1, 1}, qy \in {-1, 1}}
<1>1. DrawCircle(c, cx, cy, r) = DrawPixels(c, P)
  BY DEF DrawCircle
<1>2. P = RingAt(Y, m, cx, cy)
  <2>1. \A qx \in {-1, 1}, qy \in {-1, 1} : QuarterPixels(cx, cy, r, qx, qy) = BowAt(Y, m, cx, cy, qx, qy)
    BY QuarterPixelsAre
  <2>2. P = UNION {BowAt(Y, m, cx, cy, qx, qy) : qx \in {-1, 1}, qy \in {-1, 1}}
    BY <2>1
  <2> HIDE DEF P
  <2> QED BY <2>2, RingOfBows
<1> HIDE DEF P
<1>3. Sloped(r, Y, m)
  BY ArcSlopes
<1>4. P \subseteq (cx - r .. cx + r) \X (cy - r .. cy + r)
  BY <1>2, <1>3, DiscBounds
<1>5. IsFiniteSet(P) /\ P \subseteq Int \X Int
  <2>1. cx - r \in Int /\ cx + r \in Int /\ cy - r \in Int /\ cy + r \in Int
    OBVIOUS
  <2> QED BY <1>4, <2>1, SquareFinite
<1> QED BY <1>1, <1>2, <1>5, PixelsCover

-----------------------------------------------------------------------------
(* Rims of what is round *)

\* How far n lies outside of a .. b.
Far(a, b, n) == Greater(Greater(a - n, n - b), 0)

\* The distance from a range.
LEMMA FarIs ==
  ASSUME NEW a \in Int, NEW b \in Int, NEW n \in Int
  PROVE  /\ Far(a, b, n) \in Nat /\ a - n <= Far(a, b, n) /\ n - b <= Far(a, b, n)
         /\ Far(a, b, n) = 0 \/ Far(a, b, n) = a - n \/ Far(a, b, n) = n - b
BY DEF Far, Greater

\* A row of a figure ends where the row of its wedge does.
LEMMA Extent ==
  ASSUME NEW a \in Int, NEW b \in Int, a <= b + 1, NEW T, \A t \in T : t \in Nat /\ \A w \in 0 .. t : w \in T,
         1 \in T, NEW n \in Int, Far(a, b, n) \in T
  PROVE  Far(a, b, n) + 1 \notin T <=> \/ \A q \in Int : Far(a, b, q) \in T => q >= n
                                       \/ \A q \in Int : Far(a, b, q) \in T => q <= n
<1> DEFINE f == Far(a, b, n)
<1>1. f \in Nat /\ a - n <= f /\ n - b <= f /\ (f = 0 \/ f = a - n \/ f = n - b)
  BY FarIs
<1> HIDE DEF f
<1>2. ASSUME f + 1 \in T
      PROVE  /\ \E q \in Int : Far(a, b, q) \in T /\ ~(q >= n)
             /\ \E q \in Int : Far(a, b, q) \in T /\ ~(q <= n)
  <2> DEFINE low == a - f - 1
             high == b + f + 1
  <2>1. low \in Int /\ high \in Int /\ ~(low >= n) /\ ~(high <= n)
    BY <1>1
  <2>2. Far(a, b, low) = f + 1 /\ Far(a, b, high) = f + 1
    BY <1>1 DEF Far, Greater
  <2> HIDE DEF low, high
  <2> QED BY <1>2, <2>1, <2>2
<1>3. ASSUME f + 1 \notin T
      PROVE  \/ \A q \in Int : Far(a, b, q) \in T => q >= n
             \/ \A q \in Int : Far(a, b, q) \in T => q <= n
  <2>1. ASSUME NEW q \in Int, Far(a, b, q) \in T PROVE a - q <= f /\ q - b <= f
    <3> DEFINE g == Far(a, b, q)
    <3>1. g \in Nat /\ a - q <= g /\ q - b <= g
      BY FarIs
    <3> HIDE DEF g
    <3>2. ~(f + 1 <= g)
      <4> SUFFICES ASSUME f + 1 <= g PROVE FALSE
        OBVIOUS
      <4>1. f + 1 \in 0 .. g /\ g \in T
        BY <1>1, <2>1, <3>1 DEF g
      <4> QED BY <1>3, <4>1
    <3> QED BY <1>1, <3>1, <3>2
  <2>2. CASE f = a - n
    BY <2>1, <2>2
  <2>3. CASE f = n - b
    BY <2>1, <2>3
  <2>4. CASE f = 0
    <3>1. ~(a < b)
      BY <1>3, <2>4
    <3>2. \A q \in Int : Far(a, b, q) \in T => q >= n
      BY <1>1, <2>1, <2>4, <3>1
    <3> QED BY <3>2
  <2> QED BY <1>1, <2>2, <2>3, <2>4
<1> QED BY <1>2, <1>3 DEF f

\* A figure with round corners: its points are as far out of the box x1 .. x2, y1 .. y2 as a wedge
\* has its points from its corner.
Bulge(Y, m, x1, x2, y1, y2) == {p \in Int \X Int : Wedge(Y, m, Far(x1, x2, p[1]), Far(y1, y2, p[2]))}
Bow(Y, m, x1, x2, y1, y2)   == {p \in Int \X Int : Curve(Y, m, Far(x1, x2, p[1]), Far(y1, y2, p[2]))}

\* A bulge reaches r beyond its core.
LEMMA BulgeIn ==
  ASSUME NEW r, NEW Y, NEW m, Sloped(r, Y, m), NEW x1 \in Int, NEW x2 \in Int, NEW y1 \in Int, NEW y2 \in Int
  PROVE  Bulge(Y, m, x1, x2, y1, y2) \subseteq (x1 - r .. x2 + r) \X (y1 - r .. y2 + r)
<1>1. r \in Nat
  BY DEF Sloped
<1> SUFFICES ASSUME NEW p \in Bulge(Y, m, x1, x2, y1, y2) PROVE p \in (x1 - r .. x2 + r) \X (y1 - r .. y2 + r)
  OBVIOUS
<1> DEFINE u == Far(x1, x2, p[1])
           v == Far(y1, y2, p[2])
<1>2. p \in Int \X Int /\ Wedge(Y, m, u, v)
  BY DEF Bulge
<1>3. p[1] \in Int /\ p[2] \in Int
  BY <1>2
<1>4. u \in Nat /\ x1 - p[1] <= u /\ p[1] - x2 <= u
  BY <1>3, FarIs
<1>5. v \in Nat /\ y1 - p[2] <= v /\ p[2] - y2 <= v
  BY <1>3, FarIs
<1> HIDE DEF u, v
<1>6. u <= r /\ v <= r
  BY <1>2, <1>4, <1>5, WedgeShape
<1> QED BY <1>1, <1>2, <1>3, <1>4, <1>5, <1>6

\* Under its top row, a wedge is at least two columns wide.
LEMMA WedgeWide ==
  ASSUME NEW r, NEW Y, NEW m, Sloped(r, Y, m), NEW v \in 0 .. r - 1
  PROVE  Wedge(Y, m, 1, v)
<1>1. /\ r \in Nat \ {0} /\ m \in 0 .. r /\ Y[0] = r /\ m <= Y[m] /\ Y[m] <= m + 1
      /\ \A x \in 0 .. m : Y[x] \in Int
      /\ \A x \in 0 .. m - 1 : Y[x] <= Y[x + 1] + 1
  BY DEF Sloped
<1>2. CASE m = 0
  BY <1>1, <1>2 DEF Wedge
<1>3. CASE m # 0
  <2>1. 0 \in 0 .. m - 1 /\ 1 \in 0 .. m /\ 0 + 1 = 1
    BY <1>1, <1>3
  <2>2. Y[1] \in Int /\ r <= Y[1] + 1
    BY <1>1, <2>1
  <2> QED BY <1>1, <2>1, <2>2 DEF Wedge
<1> QED BY <1>2, <1>3

\* Both ways a row or column may end.
LEMMA RimOfBulge ==
  ASSUME NEW r, NEW Y, NEW m, Sloped(r, Y, m), NEW x1 \in Int, NEW x2 \in Int, NEW y1 \in Int, NEW y2 \in Int,
         x1 <= x2 + 1, y1 <= y2 + 1
  PROVE  Rim(Bulge(Y, m, x1, x2, y1, y2)) = Bow(Y, m, x1, x2, y1, y2)
<1> DEFINE ps == Bulge(Y, m, x1, x2, y1, y2)
<1>1. r \in Nat
  BY DEF Sloped
<1>2. Rim(ps) = {p \in ps : AtEdge(ps, p)}
  <2>1. x1 - r \in Int /\ x2 + r \in Int /\ y1 - r \in Int /\ y2 + r \in Int
    BY <1>1
  <2>2. ps \subseteq (x1 - r .. x2 + r) \X (y1 - r .. y2 + r)
    BY BulgeIn
  <2> HIDE DEF ps
  <2> QED BY <2>1, <2>2, RimIs
<1>3. ASSUME NEW p \in Int \X Int
      PROVE  p \in ps /\ AtEdge(ps, p) <=> Curve(Y, m, Far(x1, x2, p[1]), Far(y1, y2, p[2]))
  <2> DEFINE u == Far(x1, x2, p[1])
             v == Far(y1, y2, p[2])
             A == {t \in Nat : Wedge(Y, m, t, v)}
             B == {t \in Nat : Wedge(Y, m, u, t)}
  <2>1. p[1] \in Int /\ p[2] \in Int /\ p = <<p[1], p[2]>>
    OBVIOUS
  <2>2. u \in Nat /\ v \in Nat
    BY <2>1, FarIs
  <2>3. p \in ps <=> Wedge(Y, m, u, v)
    BY DEF Bulge
  <2>4. Curve(Y, m, u, v) <=> Wedge(Y, m, u, v) /\ (~Wedge(Y, m, u + 1, v) \/ ~Wedge(Y, m, u, v + 1))
    <3> HIDE DEF u, v
    <3> QED BY <2>2, WedgeEdge
  <2>5. ASSUME Wedge(Y, m, u, v)
        PROVE  AtEdge(ps, p) <=> ~Wedge(Y, m, u + 1, v) \/ ~Wedge(Y, m, u, v + 1)
    <3>1. \A t \in A : t \in Nat /\ \A w \in 0 .. t : w \in A
      <4> HIDE DEF v
      <4>1. ASSUME NEW t \in A, NEW w \in 0 .. t PROVE w \in Nat /\ Wedge(Y, m, w, v)
        BY <2>2, WedgeShape
      <4> QED BY <4>1
    <3>2. \A t \in B : t \in Nat /\ \A w \in 0 .. t : w \in B
      <4> HIDE DEF u
      <4>1. ASSUME NEW t \in B, NEW w \in 0 .. t PROVE w \in Nat /\ Wedge(Y, m, u, w)
        <5>1. Wedge(Y, m, t, u)
          BY <2>2, WedgeShape
        <5>2. Wedge(Y, m, w, u) /\ w \in Nat
          BY <2>2, <5>1, WedgeShape
        <5> QED BY <2>2, <5>2, WedgeShape
      <4> QED BY <4>1
    <3>3. 1 \in A \/ (u = 0 /\ v = r)
      <4> HIDE DEF u, v
      <4>1. v <= r /\ (v # r => v \in 0 .. r - 1)
        BY <1>1, <2>2, <2>5, WedgeShape
      <4>2. v # r => Wedge(Y, m, 1, v)
        BY <4>1, WedgeWide
      <4>3. u # 0 => 1 \in 0 .. u
        BY <2>2
      <4>4. u # 0 => Wedge(Y, m, 1, v)
        BY <2>2, <2>5, <4>3, WedgeShape
      <4> QED BY <4>2, <4>4
    <3>4. 1 \in B \/ (v = 0 /\ u = r)
      <4> HIDE DEF u, v
      <4>0. Wedge(Y, m, v, u)
        BY <2>2, <2>5, WedgeShape
      <4>1. u <= r /\ (u # r => u \in 0 .. r - 1)
        BY <1>1, <2>2, <2>5, WedgeShape
      <4>2. u # r => Wedge(Y, m, 1, u)
        BY <4>1, WedgeWide
      <4>3. v # 0 => 1 \in 0 .. v
        BY <2>2
      <4>4. v # 0 => Wedge(Y, m, 1, u)
        BY <2>2, <4>0, <4>3, WedgeShape
      <4>5. Wedge(Y, m, 1, u) => Wedge(Y, m, u, 1)
        BY <2>2, WedgeShape
      <4> QED BY <4>2, <4>4, <4>5
    <3>5. u \in A /\ v \in B
      BY <2>2, <2>5
    <3> HIDE DEF A, B
    <3>6. 1 \in A => (u + 1 \notin A <=> \/ \A q \in Int : Far(x1, x2, q) \in A => q >= p[1]
                                        \/ \A q \in Int : Far(x1, x2, q) \in A => q <= p[1])
      BY <2>1, <3>1, <3>5, Extent
    <3>7. 1 \in B => (v + 1 \notin B <=> \/ \A q \in Int : Far(y1, y2, q) \in B => q >= p[2]
                                        \/ \A q \in Int : Far(y1, y2, q) \in B => q <= p[2])
      BY <2>1, <3>2, <3>5, Extent
    <3>8. \A q \in Int : Far(x1, x2, q) \in A <=> <<q, p[2]>> \in ps
      <4> SUFFICES ASSUME NEW q \in Int PROVE Far(x1, x2, q) \in A <=> <<q, p[2]>> \in ps
        OBVIOUS
      <4>1. Far(x1, x2, q) \in Nat
        BY FarIs
      <4> QED BY <2>1, <4>1 DEF A, Bulge
    <3>9. \A q \in Int : Far(y1, y2, q) \in B <=> <<p[1], q>> \in ps
      <4> SUFFICES ASSUME NEW q \in Int PROVE Far(y1, y2, q) \in B <=> <<p[1], q>> \in ps
        OBVIOUS
      <4>1. Far(y1, y2, q) \in Nat
        BY FarIs
      <4> QED BY <2>1, <4>1 DEF B, Bulge
    <3>10. \A q \in ps : q \in Int \X Int
      BY DEF Bulge
    <3> DEFINE a == p[1]
               b == p[2]
    <3> HIDE DEF ps, a, b
    <3>11. \A q \in ps : q[1] \in Int /\ q[2] \in Int /\ (q[2] = b => q = <<q[1], b>>) /\ (q[1] = a => q = <<a, q[2]>>)
      BY <3>10
    <3>12. /\ (\A q \in Int : <<q, b>> \in ps => q >= a) <=> (\A q \in ps : q[2] = b => q[1] >= a)
           /\ (\A q \in Int : <<q, b>> \in ps => q <= a) <=> (\A q \in ps : q[2] = b => q[1] <= a)
           /\ (\A q \in Int : <<a, q>> \in ps => q >= b) <=> (\A q \in ps : q[1] = a => q[2] >= b)
           /\ (\A q \in Int : <<a, q>> \in ps => q <= b) <=> (\A q \in ps : q[1] = a => q[2] <= b)
      BY <3>11
    <3>13. /\ 1 \in A => (u + 1 \notin A <=> \/ \A q \in ps : q[2] = b => q[1] >= a
                                            \/ \A q \in ps : q[2] = b => q[1] <= a)
           /\ 1 \in B => (v + 1 \notin B <=> \/ \A q \in ps : q[1] = a => q[2] >= b
                                            \/ \A q \in ps : q[1] = a => q[2] <= b)
      BY <3>6, <3>7, <3>8, <3>9, <3>12 DEF a, b
    <3>14. (u + 1 \in A <=> Wedge(Y, m, u + 1, v)) /\ (v + 1 \in B <=> Wedge(Y, m, u, v + 1))
      BY <2>2 DEF A, B
    <3>15. (u = 0 /\ v = r => 1 \in B /\ v + 1 \notin B) /\ (v = 0 /\ u = r => 1 \in A /\ u + 1 \notin A)
      <4> HIDE DEF u, v
      <4>1. ~(u + 1 <= r) => ~Wedge(Y, m, u + 1, v)
        BY <2>2, WedgeShape
      <4>2. ~(v + 1 <= r) => ~Wedge(Y, m, u, v + 1)
        BY <2>2, WedgeShape
      <4>3. r # 0
        BY DEF Sloped
      <4> QED BY <1>1, <3>3, <3>4, <3>14, <4>1, <4>2, <4>3
    <3> HIDE DEF u, v
    <3> QED BY <3>3, <3>4, <3>13, <3>14, <3>15 DEF AtEdge, a, b
  <2> HIDE DEF ps
  <2>6. p \in ps /\ AtEdge(ps, p) <=> Curve(Y, m, u, v)
    BY <2>3, <2>4, <2>5
  <2> QED BY <2>6
<1>4. ps \subseteq Int \X Int
  BY DEF Bulge
<1> HIDE DEF ps
<1>5. Rim(ps) = {p \in Int \X Int : Curve(Y, m, Far(x1, x2, p[1]), Far(y1, y2, p[2]))}
  BY <1>2, <1>3, <1>4
<1> QED BY <1>5 DEF Bow, ps

\* The ring is the rim of the disc.
LEMMA RimOfDisc ==
  ASSUME NEW r, NEW Y, NEW m, Sloped(r, Y, m), NEW cx \in Int, NEW cy \in Int
  PROVE  Rim(DiscAt(Y, m, cx, cy)) = RingAt(Y, m, cx, cy)
<1>1. \A c, n \in Int : Far(c, c, n) = Abs(n - c)
  BY DEF Far, Greater, Abs
<1>2. \A p \in Int \X Int : Far(cx, cx, p[1]) = Abs(p[1] - cx) /\ Far(cy, cy, p[2]) = Abs(p[2] - cy)
  BY <1>1
<1>3. Bulge(Y, m, cx, cx, cy, cy) = DiscAt(Y, m, cx, cy)
  BY <1>2 DEF Bulge, DiscAt
<1>4. Bow(Y, m, cx, cx, cy, cy) = RingAt(Y, m, cx, cy)
  BY <1>2 DEF Bow, RingAt
<1>5. Rim(Bulge(Y, m, cx, cx, cy, cy)) = Bow(Y, m, cx, cx, cy, cy)
  <2>1. cx <= cx + 1 /\ cy <= cy + 1
    OBVIOUS
  <2> QED BY <2>1, RimOfBulge
<1> QED BY <1>3, <1>4, <1>5

-----------------------------------------------------------------------------
(* Circles, shown *)

\* The disc of radius 0 is its centre.
LEMMA DiscOfNone == Disc(0) = {<<0, 0>>}
<1>1. Octant(0) = {<<0, 0>>}
  <2>1. PICK at : Rounds(0, at)
    BY OctantRounds
  <2>2. at[0].y = 0 /\ Octant(0) = {<<x, at[x].y>> : x \in {i \in 0 .. 0 : i <= at[i].y}}
    BY <2>1 DEF Rounds
  <2>3. {i \in 0 .. 0 : i <= at[i].y} = {0}
    BY <2>2
  <2> QED BY <2>2, <2>3
<1>2. Box(-0, -0, 2 * 0 + 1, 2 * 0 + 1) = {<<0, 0>>}
  BY DEF Box
<1>3. Disc(0) \subseteq {<<0, 0>>}
  BY <1>2 DEF Disc
<1>4. <<0, 0>> \in Disc(0)
  <2>1. <<Abs(0), Abs(0)>> \in {<<x, 0>> : x \in 0 .. 0}
    BY DEF Abs
  <2> DEFINE p == <<0, 0>>
             q == <<0, 0>>
  <2>2. p[1] = 0 /\ p[2] = 0 /\ q[1] = 0 /\ q[2] = 0 /\ p \in Box(-0, -0, 2 * 0 + 1, 2 * 0 + 1) /\ q \in Octant(0) \cup {<<0, 0>>}
    BY <1>2
  <2> HIDE DEF p, q
  <2>3. p \in Disc(0)
    BY <2>1, <2>2 DEF Disc
  <2> QED BY <2>3 DEF p
<1> QED BY <1>3, <1>4

\* A disc about a centre.
LEMMA DiscMoved ==
  ASSUME NEW r \in Nat \ {0}, NEW Y, NEW m, Arc(r, Y, m), NEW cx \in Int, NEW cy \in Int
  PROVE  {<<cx + p[1], cy + p[2]>> : p \in Disc(r)} = DiscAt(Y, m, cx, cy)
<1>1. Disc(r) = {p \in Int \X Int : Wedge(Y, m, Abs(p[1]), Abs(p[2]))}
  BY DiscIs
<1>2. ASSUME NEW p \in Disc(r) PROVE <<cx + p[1], cy + p[2]>> \in DiscAt(Y, m, cx, cy)
  <2>1. p[1] \in Int /\ p[2] \in Int /\ Wedge(Y, m, Abs(p[1]), Abs(p[2]))
    BY <1>1
  <2>2. (cx + p[1]) - cx = p[1] /\ (cy + p[2]) - cy = p[2]
    BY <2>1
  <2> QED BY <2>1, <2>2 DEF DiscAt
<1>3. ASSUME NEW q \in DiscAt(Y, m, cx, cy) PROVE \E p \in Disc(r) : q = <<cx + p[1], cy + p[2]>>
  <2> DEFINE p == <<q[1] - cx, q[2] - cy>>
  <2>1. q \in Int \X Int /\ Wedge(Y, m, Abs(p[1]), Abs(p[2])) /\ p \in Int \X Int
    BY DEF DiscAt
  <2>2. q = <<cx + p[1], cy + p[2]>>
    BY <2>1
  <2> HIDE DEF p
  <2>3. p \in Disc(r)
    BY <1>1, <2>1
  <2> QED BY <2>2, <2>3
<1> QED BY <1>2, <1>3

\* A point is its own rim.
LEMMA RimOfPoint ==
  ASSUME NEW x \in Int, NEW y \in Int
  PROVE  Rim({<<x, y>>}) = {<<x, y>>}
<1> DEFINE ps == {<<x, y>>}
<1>1. ps \subseteq (x .. x) \X (y .. y)
  OBVIOUS
<1> HIDE DEF ps
<1>2. Rim(ps) = {p \in ps : AtEdge(ps, p)}
  BY <1>1, RimIs
<1>3. \A p \in ps : AtEdge(ps, p)
  BY DEF AtEdge, ps
<1> QED BY <1>2, <1>3 DEF ps

\* Where a circle is drawn.
Placed(cx, cy, r) ==
  /\ cx \in Int /\ cy \in Int /\ r \in Int
  /\ r >= 0 => Fits(cx - r) /\ Fits(cx + r) /\ Fits(cy - r) /\ Fits(cy + r)

Spot(cx, cy, r) == {<<cx + p[1], cy + p[2]>> : p \in IF r < 0 THEN {} ELSE Disc(r)}

\* Circles and discs of every radius, as they are drawn.
LEMMA SpotDrawn ==
  ASSUME NEW c, Clip(c), NEW cx, NEW cy, NEW r, Placed(cx, cy, r)
  PROVE  /\ Draws(FillCircle(c, cx, cy, r), c, Spot(cx, cy, r))
         /\ Draws(DrawCircle(c, cx, cy, r), c, Rim(Spot(cx, cy, r)))
<1>1. cx \in Int /\ cy \in Int /\ r \in Int
  BY DEF Placed
<1>2. CASE r < 0
  <2>1. Spot(cx, cy, r) = {}
    BY <1>2 DEF Spot
  <2>2. FillCircle(c, cx, cy, r) = << >> /\ DrawCircle(c, cx, cy, r) = << >>
    BY <1>2 DEF FillCircle, DrawCircle, Nothing
  <2> QED BY <2>1, <2>2, NoJob, RimOfNothing DEF Draws
<1>3. CASE r = 0
  <2>1. Spot(cx, cy, r) = {<<cx, cy>>}
    <3>1. {<<cx + p[1], cy + p[2]>> : p \in {<<0, 0>>}} = {<<cx, cy>>}
      BY <1>1
    <3> QED BY <1>3, <3>1, DiscOfNone DEF Spot
  <2>2. FillCircle(c, cx, cy, r) = DrawPixel(c, cx, cy) /\ DrawCircle(c, cx, cy, r) = DrawPixel(c, cx, cy)
    BY <1>3 DEF FillCircle, DrawCircle
  <2>3. Rim(Spot(cx, cy, r)) = {<<cx, cy>>}
    BY <1>1, <2>1, RimOfPoint
  <2>4. Draws(DrawPixel(c, cx, cy), c, {<<cx, cy>>})
    BY <1>1, PixelCovers DEF Draws
  <2> QED BY <2>1, <2>2, <2>3, <2>4
<1>4. CASE r > 0
  <2>1. r \in Nat \ {0}
    BY <1>1, <1>4
  <2>2. PICK Y, m : Arc(r, Y, m)
    BY <2>1, ArcOf
  <2>3. Sloped(r, Y, m)
    BY <2>1, <2>2, ArcSlopes
  <2>4. Spot(cx, cy, r) = DiscAt(Y, m, cx, cy)
    <3>1. {<<cx + p[1], cy + p[2]>> : p \in Disc(r)} = DiscAt(Y, m, cx, cy)
      BY <1>1, <2>1, <2>2, DiscMoved
    <3> QED BY <1>1, <1>4, <3>1 DEF Spot
  <2>5. Rim(DiscAt(Y, m, cx, cy)) = RingAt(Y, m, cx, cy)
    BY <1>1, <2>3, RimOfDisc
  <2>6. Fits(cx - r) /\ Fits(cx + r) /\ Fits(cy - r) /\ Fits(cy + r)
    BY <1>1, <1>4 DEF Placed
  <2>7. Draws(FillCircle(c, cx, cy, r), c, DiscAt(Y, m, cx, cy))
    BY <1>1, <2>1, <2>2, <2>6, FillCircleCovers
  <2>8. Draws(DrawCircle(c, cx, cy, r), c, RingAt(Y, m, cx, cy))
    BY <1>1, <2>1, <2>2, DrawCircleCovers
  <2> QED BY <2>4, <2>5, <2>7, <2>8
<1> QED BY <1>1, <1>2, <1>3, <1>4

\* A circle whose square is within int16_t is placed.
LEMMA BoxedIsPlaced ==
  ASSUME NEW cx \in Int, NEW cy \in Int, NEW r, Round(r), Boxed(cx - r, cy - r, 2 * r + 1, 2 * r + 1)
  PROVE  Placed(cx, cy, r)
<1>1. r \in Int
  BY DEF Round
<1>2. r >= 0 => 2 * r + 1 > 0 /\ (cx - r) + (2 * r + 1) - 1 = cx + r /\ (cy - r) + (2 * r + 1) - 1 = cy + r
  BY <1>1
<1>3. /\ Fits(cx - r) /\ (2 * r + 1 > 0 => Fits((cx - r) + (2 * r + 1) - 1))
      /\ Fits(cy - r) /\ (2 * r + 1 > 0 => Fits((cy - r) + (2 * r + 1) - 1))
  BY DEF Boxed, Spans
<1> QED BY <1>1, <1>2, <1>3 DEF Placed

\* Circles and discs are as FiguresExact says.
LEMMA CirclesShow ==
  ASSUME PlainlyFramed
  PROVE  /\ cmd.op = "disc" => Shows(Figure(cmd))
         /\ cmd.op = "circle" => Shows(Rim(Figure(cmd)))
         /\ cmd.op = "disc" /\ cmd.a[3] > 0 => DiscFits(Disc(cmd.a[3]), cmd.a[3])
<1> SUFFICES ASSUME cmd.op \in {"disc", "circle"}
             PROVE  /\ cmd.op = "disc" => Shows(Figure(cmd))
                    /\ cmd.op = "circle" => Shows(Rim(Figure(cmd)))
                    /\ cmd.op = "disc" /\ cmd.a[3] > 0 => DiscFits(Disc(cmd.a[3]), cmd.a[3])
  OBVIOUS
<1> DEFINE a == cmd.a
<1>1. Legal(cmd) /\ Clip(clip) /\ Left(Executed(clip, cmd), drawn, lost)
  BY Done
<1>2. a[1] \in Int /\ a[2] \in Int /\ Round(a[3]) /\ Boxed(a[1] - a[3], a[2] - a[3], 2 * a[3] + 1, 2 * a[3] + 1)
  BY <1>1 DEF Legal
<1>3. Placed(a[1], a[2], a[3])
  BY <1>2, BoxedIsPlaced
<1>4. Figure(cmd) = Spot(a[1], a[2], a[3])
  BY DEF Figure, Spot
<1>5. /\ Draws(FillCircle(clip, a[1], a[2], a[3]), clip, Spot(a[1], a[2], a[3]))
      /\ Draws(DrawCircle(clip, a[1], a[2], a[3]), clip, Rim(Spot(a[1], a[2], a[3])))
  BY <1>1, <1>3, SpotDrawn
<1>6. CASE cmd.op = "disc"
  <2>1. Executed(clip, cmd) = FillCircle(clip, a[1], a[2], a[3])
    BY <1>6 DEF Executed
  <2>2. Shows(Figure(cmd))
    BY <1>1, <1>4, <1>5, <2>1, Showing
  <2>3. a[3] > 0 => DiscFits(Disc(a[3]), a[3])
    <3>1. a[3] \in Int
      BY <1>2 DEF Round
    <3>2. a[3] > 0 => a[3] \in Nat \ {0}
      BY <3>1
    <3> QED BY <3>2, DiscIsRound
  <2> QED BY <1>6, <2>2, <2>3
<1>7. CASE cmd.op = "circle"
  <2>1. Executed(clip, cmd) = DrawCircle(clip, a[1], a[2], a[3])
    BY <1>7 DEF Executed
  <2>2. Shows(Rim(Figure(cmd)))
    BY <1>1, <1>4, <1>5, <2>1, Showing
  <2> QED BY <1>7, <2>2
<1> QED BY <1>6, <1>7

-----------------------------------------------------------------------------
(* Rounded boxes *)

\* A row of a quarter lies where the quarter does.
LEMMA QuarterSpanSized ==
  ASSUME NEW cx \in Int, NEW cy \in Int, NEW r \in Nat,
         NEW q \in {-1, 1}, NEW s \in {-1, 1}, Fits(cx), Fits(cx + q * r), Fits(cy), Fits(cy + s * r),
         NEW a \in 0 .. r, NEW b \in 0 .. r
  PROVE  Sized(IF q > 0 THEN cx ELSE cx - a, cy + s * b, a + 1, 1)
<1>1. Int16Max \in Nat
  BY Sizes
<1>2. CASE q = 1
  <2>1. CASE s = 1
    BY <1>1, <1>2, <2>1 DEF Sized, Fits
  <2>2. CASE s = -1
    BY <1>1, <1>2, <2>2 DEF Sized, Fits
  <2> QED BY <2>1, <2>2
<1>3. CASE q = -1
  <2>1. CASE s = 1
    BY <1>1, <1>3, <2>1 DEF Sized, Fits
  <2>2. CASE s = -1
    BY <1>1, <1>3, <2>2 DEF Sized, Fits
  <2> QED BY <2>1, <2>2
<1> QED BY <1>2, <1>3

\* A row of a quarter of a disc: n is in it.
LEMMA QuarterRow ==
  ASSUME NEW cx \in Int, NEW q \in {-1, 1}, NEW a \in Nat, NEW n \in Int, NEW x, x = (IF q > 0 THEN cx ELSE cx - a)
  PROVE  x <= n /\ n <= x + (a + 1) - 1 <=> q * (n - cx) \in 0 .. a
OBVIOUS

\* Drawings f[t], each of the pixels g[t].
Family(c, T, f, g) == IsFiniteSet(T) /\ DOMAIN f = T /\ \A t \in T : Draws(f[t], c, g[t])

\* Such drawings in any order.
LEMMA DrawsFamily ==
  ASSUME NEW c, NEW T, NEW f, NEW g, Family(c, T, f, g)
  PROVE  Draws(All(SetToSeq({f[t] : t \in T})), c, UNION {g[t] : t \in T})
<1> DEFINE D == {f[t] : t \in T}
<1>1. IsFiniteSet(T) /\ DOMAIN f = T /\ (\A t \in T : Draws(f[t], c, g[t])) /\ D = {f[t] : t \in T}
  BY DEF Family
<1> HIDE DEF D
<1>2. Draws(All(SetToSeq(D)), c, UNION {g[t] : t \in T})
  BY <1>1, DrawsSet
<1> QED BY <1>1, <1>2

\* gfx_fill_circle_quarter() draws its quarter of the disc.
LEMMA FillQuarterCovers ==
  ASSUME NEW c, Clip(c), NEW cx \in Int, NEW cy \in Int, NEW r \in Nat \ {0}, NEW qx \in {-1, 1}, NEW qy \in {-1, 1},
         Fits(cx), Fits(cx + qx * r), Fits(cy), Fits(cy + qy * r), NEW Y, NEW m, Arc(r, Y, m)
  PROVE  Draws(FillQuarter(c, cx, cy, r, qx, qy), c, QuarterAt(Y, m, cx, cy, qx, qy))
<1> DEFINE H(a, b) == DrawHLine(c, IF qx > 0 THEN cx ELSE cx - a, cy + qy * b, a + 1)
           G(a, b) == Box(IF qx > 0 THEN cx ELSE cx - a, cy + qy * b, a + 1, 1)
           T == (0 .. m) \X {1, 2}
           f == [t \in T |-> IF t[2] = 1 THEN H(t[1], Y[t[1]]) ELSE H(Y[t[1]], t[1])]
           g == [t \in T |-> IF t[2] = 1 THEN G(t[1], Y[t[1]]) ELSE G(Y[t[1]], t[1])]
           E == {{H(p[1], p[2]), H(p[2], p[1])} : p \in Octant(r)}
           D == UNION E
           Hit(d) == \E t \in T : d = f[t]
<1>1. Sloped(r, Y, m)
  BY ArcSlopes
<1>2. Octant(r) = {<<x, Y[x]>> : x \in 0 .. m} /\ m \in Nat /\ m <= r
  BY DEF Arc
<1>3. \A x \in 0 .. m : Y[x] \in 0 .. r /\ x \in 0 .. r
  BY <1>1 DEF Sloped
<1>4. FillQuarter(c, cx, cy, r, qx, qy) = All(SetToSeq(D))
  BY DEF FillQuarter
<1> HIDE DEF H, G
<1>5. \A x \in 0 .. m : /\ f[<<x, 1>>] = H(x, Y[x]) /\ <<x, 1>> \in T /\ g[<<x, 1>>] = G(x, Y[x])
                        /\ f[<<x, 2>>] = H(Y[x], x) /\ <<x, 2>> \in T /\ g[<<x, 2>>] = G(Y[x], x)
  OBVIOUS
<1>6. \A t \in T : \E x \in 0 .. m : t = <<x, 1>> \/ t = <<x, 2>>
  OBVIOUS
<1>7. DOMAIN f = T
  OBVIOUS
<1> HIDE DEF f, g, T
<1>8. D = {f[t] : t \in T}
  <2>1. \A x \in 0 .. m : Hit(H(x, Y[x])) /\ Hit(H(Y[x], x))
    BY <1>5
  <2>2. ASSUME NEW p \in Octant(r) PROVE \E x \in 0 .. m : p[1] = x /\ p[2] = Y[x]
    BY <1>2
  <2>3. ASSUME NEW x \in 0 .. m PROVE \E p \in Octant(r) : p[1] = x /\ p[2] = Y[x]
    <3>1. <<x, Y[x]>> \in Octant(r)
      BY <1>2
    <3> QED BY <3>1
  <2> HIDE DEF Hit
  <2>4. ASSUME NEW d \in D PROVE Hit(d)
    <3>1. PICK p \in Octant(r) : d = H(p[1], p[2]) \/ d = H(p[2], p[1])
      BY <2>4
    <3>2. PICK x \in 0 .. m : p[1] = x /\ p[2] = Y[x]
      BY <2>2
    <3>3. H(p[1], p[2]) = H(x, Y[x]) /\ H(p[2], p[1]) = H(Y[x], x)
      BY <3>2
    <3> QED BY <2>1, <3>1, <3>3
  <2>5. ASSUME NEW x \in 0 .. m PROVE {H(x, Y[x]), H(Y[x], x)} \subseteq D
    <3>1. PICK p \in Octant(r) : p[1] = x /\ p[2] = Y[x]
      BY <2>3
    <3>2. {H(p[1], p[2]), H(p[2], p[1])} \in E
      OBVIOUS
    <3> HIDE DEF E
    <3>3. {H(p[1], p[2]), H(p[2], p[1])} \subseteq D
      BY <3>2
    <3> QED BY <3>1, <3>3, Zenon
  <2>6. ASSUME NEW t \in T PROVE \E x \in 0 .. m : f[t] \in {H(x, Y[x]), H(Y[x], x)}
    <3>1. PICK x \in 0 .. m : t = <<x, 1>> \/ t = <<x, 2>>
      BY <1>6
    <3>2. f[<<x, 1>>] = H(x, Y[x]) /\ f[<<x, 2>>] = H(Y[x], x)
      BY <1>5
    <3>3. f[t] = H(x, Y[x]) \/ f[t] = H(Y[x], x)
      BY <3>1, <3>2
    <3> QED BY <3>3
  <2> HIDE DEF D
  <2> QED BY <2>4, <2>5, <2>6 DEF Hit
<1>9. ASSUME NEW a \in 0 .. r, NEW b \in 0 .. r PROVE Draws(H(a, b), c, G(a, b))
  <2>1. Sized(IF qx > 0 THEN cx ELSE cx - a, cy + qy * b, a + 1, 1)
    BY QuarterSpanSized
  <2> QED BY <2>1, Fill DEF H, G, DrawHLine
<1>10. ASSUME NEW t \in T PROVE Draws(f[t], c, g[t])
  <2>1. PICK x \in 0 .. m : t = <<x, 1>> \/ t = <<x, 2>>
    BY <1>6
  <2>2. Draws(H(x, Y[x]), c, G(x, Y[x])) /\ Draws(H(Y[x], x), c, G(Y[x], x))
    BY <1>3, <1>9
  <2>3. /\ f[<<x, 1>>] = H(x, Y[x]) /\ g[<<x, 1>>] = G(x, Y[x])
        /\ f[<<x, 2>>] = H(Y[x], x) /\ g[<<x, 2>>] = G(Y[x], x)
    BY <1>5
  <2>4. CASE t = <<x, 1>>
    BY <2>2, <2>3, <2>4
  <2>5. CASE t = <<x, 2>>
    BY <2>2, <2>3, <2>5
  <2> QED BY <2>1, <2>4, <2>5
<1>11. ASSUME NEW a \in Nat, NEW b \in Nat, NEW p
       PROVE  p \in G(a, b) <=> p \in Int \X Int /\ qx * (p[1] - cx) \in 0 .. a /\ qy * (p[2] - cy) = b
  <2> DEFINE x == IF qx > 0 THEN cx ELSE cx - a
             y == cy + qy * b
  <2>1. x \in Int /\ y \in Int
    OBVIOUS
  <2>2. G(a, b) = Box(x, y, a + 1, 1)
    BY DEF G
  <2>3. p \in G(a, b) <=> p \in Int \X Int /\ x <= p[1] /\ p[1] <= x + (a + 1) - 1 /\ y <= p[2] /\ p[2] <= y + 1 - 1
    <3> HIDE DEF x, y
    <3> QED BY <2>1, <2>2, BoxIs
  <2>4. ASSUME p \in Int \X Int
        PROVE  /\ x <= p[1] /\ p[1] <= x + (a + 1) - 1 <=> qx * (p[1] - cx) \in 0 .. a
               /\ y <= p[2] /\ p[2] <= y + 1 - 1 <=> qy * (p[2] - cy) = b
    <3>1. p[1] \in Int /\ p[2] \in Int
      BY <2>4
    <3>2. x <= p[1] /\ p[1] <= x + (a + 1) - 1 <=> qx * (p[1] - cx) \in 0 .. a
      <4> DEFINE u == p[1]
      <4>1. x = (IF qx > 0 THEN cx ELSE cx - a) /\ u \in Int
        BY <3>1
      <4> HIDE DEF x, y, u
      <4>2. x <= u /\ u <= x + (a + 1) - 1 <=> qx * (u - cx) \in 0 .. a
        BY <4>1, QuarterRow
      <4> QED BY <4>2 DEF u
    <3>3. y <= p[2] /\ p[2] <= y + 1 - 1 <=> qy * (p[2] - cy) = b
      BY <3>1
    <3> QED BY <3>2, <3>3
  <2> HIDE DEF x, y
  <2> QED BY <2>3, <2>4
<1>12. UNION {g[t] : t \in T} = QuarterAt(Y, m, cx, cy, qx, qy)
  <2>1. ASSUME NEW t \in T, NEW p \in g[t] PROVE p \in QuarterAt(Y, m, cx, cy, qx, qy)
    <3>1. PICK x \in 0 .. m : t = <<x, 1>> \/ t = <<x, 2>>
      BY <1>6
    <3> DEFINE y == Y[x]
               i == qx * (p[1] - cx)
               j == qy * (p[2] - cy)
    <3>2. x \in Nat /\ y \in Nat
      BY <1>3
    <3>3. p \in G(x, y) \/ p \in G(y, x)
      <4>1. g[<<x, 1>>] = G(x, y) /\ g[<<x, 2>>] = G(y, x)
        BY <1>5
      <4>2. p \in g[<<x, 1>>] \/ p \in g[<<x, 2>>]
        BY <2>1, <3>1, Zenon
      <4> QED BY <4>1, <4>2, Zenon
    <3>4. p \in Int \X Int /\ ((i \in 0 .. x /\ j = y) \/ (i \in 0 .. y /\ j = x))
      <4> HIDE DEF y
      <4> QED BY <1>11, <3>2, <3>3
    <3>5. i \in Nat /\ j \in Nat /\ ((j = Y[x] /\ i <= x) \/ (j = x /\ i <= Y[x]))
      <4> HIDE DEF i, j
      <4> QED BY <3>2, <3>4
    <3> HIDE DEF i, j, y
    <3>6. Wedge(Y, m, i, j)
      BY <1>1, <3>5, WedgeRows
    <3> QED BY <3>4, <3>5, <3>6 DEF QuarterAt, i, j
  <2>2. ASSUME NEW p \in QuarterAt(Y, m, cx, cy, qx, qy) PROVE \E t \in T : p \in g[t]
    <3> DEFINE i == qx * (p[1] - cx)
               j == qy * (p[2] - cy)
    <3>1. p \in Int \X Int /\ i \in Nat /\ j \in Nat /\ Wedge(Y, m, i, j)
      BY DEF QuarterAt
    <3>2. PICK x \in 0 .. m : (j = Y[x] /\ i <= x) \/ (j = x /\ i <= Y[x])
      <4> HIDE DEF i, j
      <4> QED BY <1>1, <3>1, WedgeRows
    <3> DEFINE y == Y[x]
    <3>3. x \in Nat /\ y \in Nat
      BY <1>3
    <3>4. (i \in 0 .. x /\ j = y) \/ (i \in 0 .. y /\ j = x)
      <4> HIDE DEF i, j
      <4> QED BY <3>1, <3>2, <3>3
    <3>5. p \in G(x, y) \/ p \in G(y, x)
      <4> HIDE DEF y
      <4> QED BY <1>11, <3>1, <3>3, <3>4
    <3> QED BY <1>5, <3>5
  <2> QED BY <2>1, <2>2
<1>13. IsFiniteSet(T)
  <2>1. IsFiniteSet(0 .. m)
    BY <1>2, FS_Interval
  <2>2. IsFiniteSet({1, 2})
    BY PairFinite
  <2> QED BY <2>1, <2>2, FS_Product DEF T
<1> HIDE DEF D, E, Hit, G, H
<1>14. Family(c, T, f, g)
  BY <1>7, <1>10, <1>13 DEF Family
<1>15. Draws(All(SetToSeq({f[t] : t \in T})), c, UNION {g[t] : t \in T})
  BY <1>14, DrawsFamily
<1> QED BY <1>4, <1>8, <1>12, <1>15

\* A list of drawings, the i-th of the pixels g[i].
Listed(c, n, ds, g) == DOMAIN ds = 1 .. n /\ ds = [i \in 1 .. n |-> ds[i]] /\ \A i \in 1 .. n : Draws(ds[i], c, g[i])

\* Such drawings one after another.
LEMMA DrawsList ==
  ASSUME NEW c, NEW n \in Nat, NEW ds, NEW g, Listed(c, n, ds, g)
  PROVE  Draws(All(ds), c, UNION {g[i] : i \in 1 .. n})
<1>1. \A i \in 1 .. n : ds[i] \in Seq(Jobs) /\ Covers(ds[i]) = g[i] \cap View(c)
  BY DEF Draws, Listed
<1>2. ds \in [1 .. n -> Seq(Jobs)]
  BY <1>1 DEF Listed
<1>3. All(ds) \in Seq(Jobs) /\ Covers(All(ds)) = UNION {Covers(ds[i]) : i \in 1 .. n}
  BY <1>2, AllCovers
<1>4. UNION {Covers(ds[i]) : i \in 1 .. n} = (UNION {g[i] : i \in 1 .. n}) \cap View(c)
  BY <1>1
<1> QED BY <1>3, <1>4 DEF Draws

\* Seven drawings.
LEMMA DrawsAll7 ==
  ASSUME NEW c, NEW d1, NEW d2, NEW d3, NEW d4, NEW d5, NEW d6, NEW d7,
         NEW g1, NEW g2, NEW g3, NEW g4, NEW g5, NEW g6, NEW g7,
         Draws(d1, c, g1), Draws(d2, c, g2), Draws(d3, c, g3), Draws(d4, c, g4), Draws(d5, c, g5),
         Draws(d6, c, g6), Draws(d7, c, g7)
  PROVE  Draws(All(<<d1, d2, d3, d4, d5, d6, d7>>), c, UNION {g1, g2, g3, g4, g5, g6, g7})
<1> DEFINE ds == <<d1, d2, d3, d4, d5, d6, d7>>
           g == <<g1, g2, g3, g4, g5, g6, g7>>
<1>1. DOMAIN ds = 1 .. 7 /\ ds = [i \in 1 .. 7 |-> ds[i]] /\ 7 \in Nat
  OBVIOUS
<1>2. 1 .. 7 = {1, 2, 3, 4, 5, 6, 7}
  OBVIOUS
<1>3. /\ ds[1] = d1 /\ ds[2] = d2 /\ ds[3] = d3 /\ ds[4] = d4 /\ ds[5] = d5 /\ ds[6] = d6 /\ ds[7] = d7
      /\ g[1] = g1 /\ g[2] = g2 /\ g[3] = g3 /\ g[4] = g4 /\ g[5] = g5 /\ g[6] = g6 /\ g[7] = g7
  OBVIOUS
<1> HIDE DEF ds, g
<1>4. \A i \in 1 .. 7 : Draws(ds[i], c, g[i])
  BY <1>2, <1>3
<1>5. Draws(All(ds), c, UNION {g[i] : i \in 1 .. 7})
  <2> DEFINE n == 7
  <2>1. n \in Nat /\ Listed(c, n, ds, g)
    BY <1>1, <1>4 DEF Listed
  <2> HIDE DEF n
  <2>2. Draws(All(ds), c, UNION {g[i] : i \in 1 .. n})
    BY <2>1, DrawsList
  <2> QED BY <2>2 DEF n
<1>6. {g[i] : i \in 1 .. 7} = {g1, g2, g3, g4, g5, g6, g7}
  BY <1>2, <1>3
<1> QED BY <1>5, <1>6 DEF ds

\* Eight drawings.
LEMMA DrawsAll8 ==
  ASSUME NEW c, NEW d1, NEW d2, NEW d3, NEW d4, NEW d5, NEW d6, NEW d7, NEW d8,
         NEW g1, NEW g2, NEW g3, NEW g4, NEW g5, NEW g6, NEW g7, NEW g8,
         Draws(d1, c, g1), Draws(d2, c, g2), Draws(d3, c, g3), Draws(d4, c, g4), Draws(d5, c, g5),
         Draws(d6, c, g6), Draws(d7, c, g7), Draws(d8, c, g8)
  PROVE  Draws(All(<<d1, d2, d3, d4, d5, d6, d7, d8>>), c, UNION {g1, g2, g3, g4, g5, g6, g7, g8})
<1> DEFINE ds == <<d1, d2, d3, d4, d5, d6, d7, d8>>
           g == <<g1, g2, g3, g4, g5, g6, g7, g8>>
<1>1. DOMAIN ds = 1 .. 8 /\ ds = [i \in 1 .. 8 |-> ds[i]] /\ 8 \in Nat
  OBVIOUS
<1>2. 1 .. 8 = {1, 2, 3, 4, 5, 6, 7, 8}
  OBVIOUS
<1>3. /\ ds[1] = d1 /\ ds[2] = d2 /\ ds[3] = d3 /\ ds[4] = d4 /\ ds[5] = d5 /\ ds[6] = d6 /\ ds[7] = d7 /\ ds[8] = d8
      /\ g[1] = g1 /\ g[2] = g2 /\ g[3] = g3 /\ g[4] = g4 /\ g[5] = g5 /\ g[6] = g6 /\ g[7] = g7 /\ g[8] = g8
  OBVIOUS
<1> HIDE DEF ds, g
<1>4. \A i \in 1 .. 8 : Draws(ds[i], c, g[i])
  BY <1>2, <1>3
<1>5. Draws(All(ds), c, UNION {g[i] : i \in 1 .. 8})
  <2> DEFINE n == 8
  <2>1. n \in Nat /\ Listed(c, n, ds, g)
    BY <1>1, <1>4 DEF Listed
  <2> HIDE DEF n
  <2>2. Draws(All(ds), c, UNION {g[i] : i \in 1 .. n})
    BY <2>1, DrawsList
  <2> QED BY <2>2 DEF n
<1>6. {g[i] : i \in 1 .. 8} = {g1, g2, g3, g4, g5, g6, g7, g8}
  BY <1>2, <1>3
<1> QED BY <1>5, <1>6 DEF ds

\* How far n lies beyond one end or the other of a .. b, the ends in the wrong order included.
Off(a, b, n) == {a - n, n - b} \cap Nat

\* The distances beyond the ends, and the distance from the range.
LEMMA OffIs ==
  ASSUME NEW a \in Int, NEW b \in Int, a <= b + 1, NEW n \in Int
  PROVE  /\ Off(a, b, n) \subseteq Nat
         /\ Far(a, b, n) = 0 <=> a <= n /\ n <= b
         /\ Far(a, b, n) # 0 => Far(a, b, n) \in Off(a, b, n)
         /\ \A t \in Off(a, b, n) : t = Far(a, b, n) \/ (t = 0 /\ Far(a, b, n) = 1 /\ a = b + 1)
         /\ \A t \in Nat : Far(a, b, n) <= t <=> a - t <= n /\ n <= b + t
BY DEF Off, Far, Greater

FarOff(a, b, n, r, f, S) ==
  /\ f \in Nat /\ S \subseteq Nat /\ (f = 0 <=> a <= n /\ n <= b) /\ (f # 0 => f \in S)
  /\ \A t \in S : t = f \/ (t = 0 /\ f = 1 /\ a = b + 1)
  /\ f <= r <=> a - r <= n /\ n <= b + r

\* The same, as one fact.
LEMMA FarOffIs ==
  ASSUME NEW a \in Int, NEW b \in Int, a <= b + 1, NEW n \in Int, NEW r \in Nat
  PROVE  FarOff(a, b, n, r, Far(a, b, n), Off(a, b, n))
BY OffIs, FarIs DEF FarOff

\* A point of the wedge of some corner, and of its edge.
InCorner(Y, m, x1, x2, y1, y2, p) ==
  \E a \in Off(x1, x2, p[1]), b \in Off(y1, y2, p[2]) : Wedge(Y, m, a, b)
OnCorner(Y, m, x1, x2, y1, y2, p) ==
  \E a \in Off(x1, x2, p[1]), b \in Off(y1, y2, p[2]) : Curve(Y, m, a, b)

\* The distances, as the sides of the corners have them.
LEMMA EndOff ==
  ASSUME NEW a \in Int, NEW b \in Int, NEW n \in Int
  PROVE  /\ -1 * (n - a) \in Nat => -1 * (n - a) \in Off(a, b, n)
         /\ 1 * (n - b) \in Nat => 1 * (n - b) \in Off(a, b, n)
         /\ \A t \in Off(a, b, n) : t \in Nat /\ (t = -1 * (n - a) \/ t = 1 * (n - b))
BY DEF Off

\* Four quarters about the ends, and the four edges of them.
LEMMA CornersAre ==
  ASSUME NEW Y, NEW m, NEW x1 \in Int, NEW x2 \in Int, NEW y1 \in Int, NEW y2 \in Int, NEW p \in Int \X Int
  PROVE  /\ InCorner(Y, m, x1, x2, y1, y2, p) <=>
              \/ p \in QuarterAt(Y, m, x1, y1, -1, -1)
              \/ p \in QuarterAt(Y, m, x2, y1, 1, -1)
              \/ p \in QuarterAt(Y, m, x1, y2, -1, 1)
              \/ p \in QuarterAt(Y, m, x2, y2, 1, 1)
         /\ OnCorner(Y, m, x1, x2, y1, y2, p) <=>
              \/ p \in BowAt(Y, m, x1, y1, -1, -1)
              \/ p \in BowAt(Y, m, x2, y1, 1, -1)
              \/ p \in BowAt(Y, m, x1, y2, -1, 1)
              \/ p \in BowAt(Y, m, x2, y2, 1, 1)
<1> DEFINE A == Off(x1, x2, p[1])
           B == Off(y1, y2, p[2])
           a1 == -1 * (p[1] - x1)
           a2 == 1 * (p[1] - x2)
           b1 == -1 * (p[2] - y1)
           b2 == 1 * (p[2] - y2)
<1>1. p[1] \in Int /\ p[2] \in Int
  OBVIOUS
<1>2. (a1 \in Nat => a1 \in A) /\ (a2 \in Nat => a2 \in A) /\ \A t \in A : t \in Nat /\ (t = a1 \/ t = a2)
  BY <1>1, EndOff
<1>3. (b1 \in Nat => b1 \in B) /\ (b2 \in Nat => b2 \in B) /\ \A t \in B : t \in Nat /\ (t = b1 \/ t = b2)
  BY <1>1, EndOff
<1>4. /\ p \in QuarterAt(Y, m, x1, y1, -1, -1) <=> a1 \in Nat /\ b1 \in Nat /\ Wedge(Y, m, a1, b1)
      /\ p \in QuarterAt(Y, m, x2, y1, 1, -1) <=> a2 \in Nat /\ b1 \in Nat /\ Wedge(Y, m, a2, b1)
      /\ p \in QuarterAt(Y, m, x1, y2, -1, 1) <=> a1 \in Nat /\ b2 \in Nat /\ Wedge(Y, m, a1, b2)
      /\ p \in QuarterAt(Y, m, x2, y2, 1, 1) <=> a2 \in Nat /\ b2 \in Nat /\ Wedge(Y, m, a2, b2)
  BY DEF QuarterAt
<1>5. /\ p \in BowAt(Y, m, x1, y1, -1, -1) <=> a1 \in Nat /\ b1 \in Nat /\ Curve(Y, m, a1, b1)
      /\ p \in BowAt(Y, m, x2, y1, 1, -1) <=> a2 \in Nat /\ b1 \in Nat /\ Curve(Y, m, a2, b1)
      /\ p \in BowAt(Y, m, x1, y2, -1, 1) <=> a1 \in Nat /\ b2 \in Nat /\ Curve(Y, m, a1, b2)
      /\ p \in BowAt(Y, m, x2, y2, 1, 1) <=> a2 \in Nat /\ b2 \in Nat /\ Curve(Y, m, a2, b2)
  BY DEF BowAt
<1>6. InCorner(Y, m, x1, x2, y1, y2, p) <=> \E a \in A, b \in B : Wedge(Y, m, a, b)
  BY DEF InCorner
<1>7. OnCorner(Y, m, x1, x2, y1, y2, p) <=> \E a \in A, b \in B : Curve(Y, m, a, b)
  BY DEF OnCorner
<1> HIDE DEF A, B, a1, a2, b1, b2
<1>8. (\E a \in A, b \in B : Wedge(Y, m, a, b)) <=>
        \/ a1 \in Nat /\ b1 \in Nat /\ Wedge(Y, m, a1, b1)
        \/ a2 \in Nat /\ b1 \in Nat /\ Wedge(Y, m, a2, b1)
        \/ a1 \in Nat /\ b2 \in Nat /\ Wedge(Y, m, a1, b2)
        \/ a2 \in Nat /\ b2 \in Nat /\ Wedge(Y, m, a2, b2)
  BY <1>2, <1>3
<1>9. (\E a \in A, b \in B : Curve(Y, m, a, b)) <=>
        \/ a1 \in Nat /\ b1 \in Nat /\ Curve(Y, m, a1, b1)
        \/ a2 \in Nat /\ b1 \in Nat /\ Curve(Y, m, a2, b1)
        \/ a1 \in Nat /\ b2 \in Nat /\ Curve(Y, m, a1, b2)
        \/ a2 \in Nat /\ b2 \in Nat /\ Curve(Y, m, a2, b2)
  BY <1>2, <1>3
<1> QED BY <1>4, <1>5, <1>6, <1>7, <1>8, <1>9

\* A rounded box with r > 0, and the lines its corners turn about.
RoundBox(x, y, w, h, r, x1, x2, y1, y2) ==
  /\ x \in Int /\ y \in Int /\ w \in Int /\ h \in Int /\ r \in Nat \ {0} /\ 2 * r <= w /\ 2 * r <= h
  /\ x1 = x + r /\ x2 = x + w - r - 1 /\ y1 = y + r /\ y2 = y + h - r - 1

\* The box of a rounded box, from the lines of its corners.
LEMMA RoundBoxIs ==
  ASSUME NEW x, NEW y, NEW w, NEW h, NEW r, NEW x1, NEW x2, NEW y1, NEW y2, RoundBox(x, y, w, h, r, x1, x2, y1, y2)
  PROVE  /\ x1 \in Int /\ x2 \in Int /\ y1 \in Int /\ y2 \in Int /\ x1 <= x2 + 1 /\ y1 <= y2 + 1
         /\ x = x1 - r /\ x + w - 1 = x2 + r /\ y = y1 - r /\ y + h - 1 = y2 + r
         /\ r \in Nat \ {0} /\ x \in Int /\ y \in Int /\ w \in Int /\ h \in Int
         /\ \A p \in Int \X Int : p \in Box(x, y, w, h) <=> x1 - r <= p[1] /\ p[1] <= x2 + r /\ y1 - r <= p[2] /\ p[2] <= y2 + r
<1>1. /\ x1 \in Int /\ x2 \in Int /\ y1 \in Int /\ y2 \in Int /\ x1 <= x2 + 1 /\ y1 <= y2 + 1
      /\ x = x1 - r /\ x + w - 1 = x2 + r /\ y = y1 - r /\ y + h - 1 = y2 + r
      /\ r \in Nat \ {0} /\ x \in Int /\ y \in Int /\ w \in Int /\ h \in Int
  BY DEF RoundBox
<1>2. \A p \in Int \X Int : p \in Box(x, y, w, h) <=> x <= p[1] /\ p[1] <= x + w - 1 /\ y <= p[2] /\ p[2] <= y + h - 1
  BY <1>1, BoxIs
<1> QED BY <1>1, <1>2

Across(x1, x2, y1, y2, p) == (x1 <= p[1] /\ p[1] <= x2) \/ (y1 <= p[2] /\ p[2] <= y2)

\* The distances, by the ends and sides of Rounded.
LEMMA OffEnds ==
  ASSUME NEW a \in Int, NEW b \in Int, NEW n \in Int, NEW t
  PROVE  t \in Off(a, b, n) <=> t \in Nat /\ \E e \in {<<a, -1>>, <<b, 1>>} : t = e[2] * (n - e[1])
<1> DEFINE A(e) == e[2] * (n - e[1])
           low == <<a, -1>>
           high == <<b, 1>>
<1>1. A(low) = a - n /\ A(high) = n - b
  OBVIOUS
<1> HIDE DEF A, low, high
<1>2. (\E e \in {low, high} : t = A(e)) <=> t = a - n \/ t = n - b
  BY <1>1
<1>3. t \in Off(a, b, n) <=> t \in Nat /\ \E e \in {low, high} : t = A(e)
  BY <1>2 DEF Off
<1> QED BY <1>3, Zenon DEF A, low, high

\* A rounded box by its quarters.
LEMMA RoundedIs ==
  ASSUME NEW x, NEW y, NEW w, NEW h, NEW r, NEW x1, NEW x2, NEW y1, NEW y2, RoundBox(x, y, w, h, r, x1, x2, y1, y2),
         NEW Y, NEW m, Arc(r, Y, m)
  PROVE  Rounded(x, y, w, h, r) = {p \in Box(x, y, w, h) : Across(x1, x2, y1, y2, p) \/ InCorner(Y, m, x1, x2, y1, y2, p)}
<1>1. x1 \in Int /\ x2 \in Int /\ y1 \in Int /\ y2 \in Int /\ r \in Nat \ {0} /\ x \in Int /\ y \in Int /\ w \in Int /\ h \in Int
  BY RoundBoxIs
<1> DEFINE In(p, k) == LET d == <<k[1][2] * (p[1] - k[1][1]), k[2][2] * (p[2] - k[2][1])>>
                       IN  d[1] >= 0 /\ d[2] >= 0 /\ d \in Disc(r)
           E == {<<x1, -1>>, <<x2, 1>>}
           F == {<<y1, -1>>, <<y2, 1>>}
           At(p) == \E k \in E \X F : In(p, k)
<1>2. Rounded(x, y, w, h, r) = {p \in Box(x, y, w, h) : p[1] \in x1 .. x2 \/ p[2] \in y1 .. y2 \/ At(p)}
  BY Zenon DEF Rounded, RoundBox
<1>3. \A p \in Box(x, y, w, h) : p \in Int \X Int
  BY <1>1, BoxIs
<1>4. ASSUME NEW p \in Int \X Int PROVE At(p) <=> InCorner(Y, m, x1, x2, y1, y2, p)
  <2>1. p[1] \in Int /\ p[2] \in Int
    OBVIOUS
  <2> DEFINE A(e) == e[2] * (p[1] - e[1])
             B(f) == f[2] * (p[2] - f[1])
  <2>2. ASSUME NEW e \in E, NEW f \in F
        PROVE  In(p, <<e, f>>) <=> A(e) \in Nat /\ B(f) \in Nat /\ Wedge(Y, m, A(e), B(f))
    <3> DEFINE a == A(e)
               b == B(f)
    <3>1. a \in Int /\ b \in Int
      BY <1>1, <2>1
    <3>2. In(p, <<e, f>>) <=> a >= 0 /\ b >= 0 /\ <<a, b>> \in Disc(r)
      <4>1. <<e, f>>[1] = e /\ <<e, f>>[2] = f /\ <<a, b>>[1] = a /\ <<a, b>>[2] = b
        OBVIOUS
      <4> QED BY <4>1, Zenon
    <3> HIDE DEF a, b
    <3>3. <<a, b>> \in Disc(r) <=> Wedge(Y, m, Abs(a), Abs(b))
      <4>1. Disc(r) = {q \in Int \X Int : Wedge(Y, m, Abs(q[1]), Abs(q[2]))}
        BY <1>1, DiscIs
      <4> QED BY <3>1, <4>1
    <3>4. a >= 0 => Abs(a) = a
      BY <3>1 DEF Abs
    <3>5. b >= 0 => Abs(b) = b
      BY <3>1 DEF Abs
    <3>6. (a >= 0 <=> a \in Nat) /\ (b >= 0 <=> b \in Nat)
      BY <3>1
    <3> HIDE DEF In
    <3>7. In(p, <<e, f>>) <=> a \in Nat /\ b \in Nat /\ Wedge(Y, m, a, b)
      BY <3>2, <3>3, <3>4, <3>5, <3>6
    <3> QED BY <3>7 DEF a, b
  <2>3. At(p) <=> \E e \in E, f \in F : In(p, <<e, f>>)
    <3> HIDE DEF In, E, F
    <3>1. \A k \in E \X F : k = <<k[1], k[2]>> /\ k[1] \in E /\ k[2] \in F
      OBVIOUS
    <3>2. \A e \in E, f \in F : <<e, f>> \in E \X F
      OBVIOUS
    <3> QED BY <3>1, <3>2
  <2>4. \A t : t \in Off(x1, x2, p[1]) <=> t \in Nat /\ \E e \in E : t = A(e)
    BY <1>1, <2>1, OffEnds
  <2>5. \A t : t \in Off(y1, y2, p[2]) <=> t \in Nat /\ \E f \in F : t = B(f)
    BY <1>1, <2>1, OffEnds
  <2> HIDE DEF In, E, F, A, B, At
  <2>6. ASSUME At(p) PROVE InCorner(Y, m, x1, x2, y1, y2, p)
    <3>1. PICK e \in E, f \in F : In(p, <<e, f>>)
      BY <2>3, <2>6
    <3>2. A(e) \in Nat /\ B(f) \in Nat /\ Wedge(Y, m, A(e), B(f))
      BY <2>2, <3>1
    <3>3. A(e) \in Off(x1, x2, p[1]) /\ B(f) \in Off(y1, y2, p[2])
      BY <2>4, <2>5, <3>2
    <3> QED BY <3>2, <3>3 DEF InCorner
  <2>7. ASSUME InCorner(Y, m, x1, x2, y1, y2, p) PROVE At(p)
    <3>1. PICK a \in Off(x1, x2, p[1]), b \in Off(y1, y2, p[2]) : Wedge(Y, m, a, b)
      BY <2>7 DEF InCorner
    <3>2. PICK e \in E : a = A(e)
      BY <2>4
    <3>3. PICK f \in F : b = B(f)
      BY <2>5
    <3>4. a \in Nat /\ b \in Nat
      BY <2>4, <2>5
    <3> QED BY <2>2, <2>3, <3>1, <3>2, <3>3, <3>4
  <2> QED BY <2>6, <2>7
<1>5. \A p \in Int \X Int : p[1] \in x1 .. x2 \/ p[2] \in y1 .. y2 <=> Across(x1, x2, y1, y2, p)
  BY <1>1 DEF Across
<1> HIDE DEF At
<1> QED BY <1>2, <1>3, <1>4, <1>5

\* The pieces of a rounded box lie within int16_t.
LEMMA RoundBoxFits ==
  ASSUME NEW x, NEW y, NEW w, NEW h, NEW r, NEW x1, NEW x2, NEW y1, NEW y2, RoundBox(x, y, w, h, r, x1, x2, y1, y2),
         Boxed(x, y, w, h)
  PROVE  /\ Fits(x1) /\ Fits(x2) /\ Fits(y1) /\ Fits(y2)
         /\ Fits(x1 + -1 * r) /\ Fits(x2 + 1 * r) /\ Fits(y1 + -1 * r) /\ Fits(y2 + 1 * r)
         /\ Sized(x1, y, w - 2 * r, h) /\ Sized(x, y1, r, h - 2 * r) /\ Sized(x + w - r, y1, r, h - 2 * r)
         /\ Sized(x1, y, w - 2 * r, 1) /\ Sized(x1, y + h - 1, w - 2 * r, 1)
         /\ Sized(x, y1, 1, h - 2 * r) /\ Sized(x + w - 1, y1, 1, h - 2 * r)
<1>1. Int16Max \in Nat
  BY Sizes
<1>2. /\ x \in Int /\ y \in Int /\ w \in Int /\ h \in Int /\ r \in Nat \ {0} /\ 2 * r <= w /\ 2 * r <= h
      /\ x1 = x + r /\ x2 = x + w - r - 1 /\ y1 = y + r /\ y2 = y + h - r - 1
  BY DEF RoundBox
<1>3. /\ -(Int16Max + 1) <= x /\ x <= Int16Max /\ x + w - 1 <= Int16Max
      /\ -(Int16Max + 1) <= y /\ y <= Int16Max /\ y + h - 1 <= Int16Max
  BY <1>1, <1>2 DEF Boxed, Spans, Fits
<1>4. /\ Fits(x1) /\ Fits(x2) /\ Fits(y1) /\ Fits(y2)
      /\ Fits(x1 + -1 * r) /\ Fits(x2 + 1 * r) /\ Fits(y1 + -1 * r) /\ Fits(y2 + 1 * r)
  BY <1>1, <1>2, <1>3 DEF Fits
<1>5. /\ Sized(x1, y, w - 2 * r, h) /\ Sized(x, y1, r, h - 2 * r) /\ Sized(x + w - r, y1, r, h - 2 * r)
      /\ Sized(x1, y, w - 2 * r, 1) /\ Sized(x1, y + h - 1, w - 2 * r, 1)
      /\ Sized(x, y1, 1, h - 2 * r) /\ Sized(x + w - 1, y1, 1, h - 2 * r)
  BY <1>1, <1>2, <1>3 DEF Sized, Fits
<1> QED BY <1>4, <1>5

\* A corner lies in the box.
LEMMA CornerInBox ==
  ASSUME NEW x, NEW y, NEW w, NEW h, NEW r, NEW x1, NEW x2, NEW y1, NEW y2, RoundBox(x, y, w, h, r, x1, x2, y1, y2),
         NEW Y, NEW m, Sloped(r, Y, m), NEW p \in Int \X Int, InCorner(Y, m, x1, x2, y1, y2, p)
  PROVE  p \in Box(x, y, w, h)
<1>1. /\ x1 \in Int /\ x2 \in Int /\ y1 \in Int /\ y2 \in Int /\ x1 <= x2 + 1 /\ y1 <= y2 + 1 /\ r \in Nat \ {0}
      /\ p \in Box(x, y, w, h) <=> x1 - r <= p[1] /\ p[1] <= x2 + r /\ y1 - r <= p[2] /\ p[2] <= y2 + r
  BY RoundBoxIs
<1>2. PICK a \in Off(x1, x2, p[1]), b \in Off(y1, y2, p[2]) : Wedge(Y, m, a, b)
  BY DEF InCorner
<1>3. p[1] \in Int /\ p[2] \in Int
  OBVIOUS
<1>4. a \in Nat /\ (a = x1 - p[1] \/ a = p[1] - x2) /\ b \in Nat /\ (b = y1 - p[2] \/ b = p[2] - y2)
  BY <1>2 DEF Off
<1>5. a <= r /\ b <= r
  BY <1>2, <1>4, WedgeShape
<1> QED BY <1>1, <1>3, <1>4, <1>5

\* HAL_GFX_FillRoundRect() draws the rounded box.
LEMMA RoundFillCovers ==
  ASSUME NEW c, Clip(c), NEW x, NEW y, NEW w, NEW h, NEW r, NEW x1, NEW x2, NEW y1, NEW y2,
         RoundBox(x, y, w, h, r, x1, x2, y1, y2), Boxed(x, y, w, h), NEW r0, r = CornerRadius(w, h, r0)
  PROVE  Draws(FillRoundRect(c, x, y, w, h, r0), c, Rounded(x, y, w, h, r))
<1>1. /\ x1 \in Int /\ x2 \in Int /\ y1 \in Int /\ y2 \in Int /\ x1 <= x2 + 1 /\ y1 <= y2 + 1
      /\ x = x1 - r /\ x + w - 1 = x2 + r /\ y = y1 - r /\ y + h - 1 = y2 + r
      /\ r \in Nat \ {0} /\ x \in Int /\ y \in Int /\ w \in Int /\ h \in Int
  BY RoundBoxIs
<1>2. PICK Y, m : Arc(r, Y, m)
  BY <1>1, ArcOf
<1>3. Sloped(r, Y, m)
  BY <1>1, <1>2, ArcSlopes
<1> DEFINE d1 == FillRect(c, x1, y, w - 2 * r, h)
           d2 == FillRect(c, x, y1, r, h - 2 * r)
           d3 == FillRect(c, x + w - r, y1, r, h - 2 * r)
           d4 == FillQuarter(c, x1, y1, r, -1, -1)
           d5 == FillQuarter(c, x2, y1, r, 1, -1)
           d6 == FillQuarter(c, x1, y2, r, -1, 1)
           d7 == FillQuarter(c, x2, y2, r, 1, 1)
           g1 == Box(x1, y, w - 2 * r, h)
           g2 == Box(x, y1, r, h - 2 * r)
           g3 == Box(x + w - r, y1, r, h - 2 * r)
           g4 == QuarterAt(Y, m, x1, y1, -1, -1)
           g5 == QuarterAt(Y, m, x2, y1, 1, -1)
           g6 == QuarterAt(Y, m, x1, y2, -1, 1)
           g7 == QuarterAt(Y, m, x2, y2, 1, 1)
<1>4. FillRoundRect(c, x, y, w, h, r0) = All(<<d1, d2, d3, d4, d5, d6, d7>>)
  <2>1. w > 0 /\ h > 0 /\ r # 0 /\ x1 = x + r /\ x2 = x + w - r - 1 /\ y1 = y + r /\ y2 = y + h - r - 1
    BY DEF RoundBox
  <2>2. ~(w <= 0 \/ h <= 0)
    BY <1>1, <2>1
  <2> QED BY <2>1, <2>2, Zenon DEF FillRoundRect
<1>5. Draws(d1, c, g1) /\ Draws(d2, c, g2) /\ Draws(d3, c, g3)
  BY RoundBoxFits, Fill
<1>6. Draws(d4, c, g4) /\ Draws(d5, c, g5) /\ Draws(d6, c, g6) /\ Draws(d7, c, g7)
  <2>1. /\ Fits(x1) /\ Fits(x2) /\ Fits(y1) /\ Fits(y2)
        /\ Fits(x1 + -1 * r) /\ Fits(x2 + 1 * r) /\ Fits(y1 + -1 * r) /\ Fits(y2 + 1 * r)
    BY RoundBoxFits
  <2>2. -1 \in {-1, 1} /\ 1 \in {-1, 1}
    OBVIOUS
  <2>3. Draws(d4, c, g4)
    BY <1>1, <1>2, <2>1, <2>2, FillQuarterCovers
  <2>4. Draws(d5, c, g5)
    BY <1>1, <1>2, <2>1, <2>2, FillQuarterCovers
  <2>5. Draws(d6, c, g6)
    BY <1>1, <1>2, <2>1, <2>2, FillQuarterCovers
  <2>6. Draws(d7, c, g7)
    BY <1>1, <1>2, <2>1, <2>2, FillQuarterCovers
  <2> QED BY <2>3, <2>4, <2>5, <2>6
<1>7. UNION {g1, g2, g3, g4, g5, g6, g7} = Rounded(x, y, w, h, r)
  <2> DEFINE B == Box(x, y, w, h)
  <2>1. Rounded(x, y, w, h, r) = {p \in B : Across(x1, x2, y1, y2, p) \/ InCorner(Y, m, x1, x2, y1, y2, p)}
    BY <1>2, RoundedIs
  <2>2. ASSUME NEW p PROVE /\ p \in B \/ p \in g1 \/ p \in g2 \/ p \in g3 \/ p \in g4 \/ p \in g5 \/ p \in g6 \/ p \in g7 => p \in Int \X Int
    <3>1. p \in B \/ p \in g1 \/ p \in g2 \/ p \in g3 => p \in Int \X Int
      BY <1>1, BoxIs
    <3>2. p \in g4 \/ p \in g5 \/ p \in g6 \/ p \in g7 => p \in Int \X Int
      BY DEF QuarterAt
    <3> QED BY <3>1, <3>2
  <2>3. ASSUME NEW p \in Int \X Int
        PROVE  /\ InCorner(Y, m, x1, x2, y1, y2, p) => p \in B
               /\ InCorner(Y, m, x1, x2, y1, y2, p) <=> p \in g4 \/ p \in g5 \/ p \in g6 \/ p \in g7
               /\ p \in B /\ Across(x1, x2, y1, y2, p) <=> p \in g1 \/ p \in g2 \/ p \in g3
    <3>1. p[1] \in Int /\ p[2] \in Int
      OBVIOUS
    <3>2. InCorner(Y, m, x1, x2, y1, y2, p) => p \in B
      BY <1>3, CornerInBox
    <3>3. InCorner(Y, m, x1, x2, y1, y2, p) <=> p \in g4 \/ p \in g5 \/ p \in g6 \/ p \in g7
      BY <1>1, CornersAre
    <3>4. /\ p \in B <=> x <= p[1] /\ p[1] <= x + w - 1 /\ y <= p[2] /\ p[2] <= y + h - 1
          /\ p \in g1 <=> x1 <= p[1] /\ p[1] <= x1 + (w - 2 * r) - 1 /\ y <= p[2] /\ p[2] <= y + h - 1
          /\ p \in g2 <=> x <= p[1] /\ p[1] <= x + r - 1 /\ y1 <= p[2] /\ p[2] <= y1 + (h - 2 * r) - 1
          /\ p \in g3 <=> x + w - r <= p[1] /\ p[1] <= (x + w - r) + r - 1 /\ y1 <= p[2] /\ p[2] <= y1 + (h - 2 * r) - 1
      BY <1>1, BoxIs
    <3> HIDE DEF g1, g2, g3, B
    <3>5. /\ p \in B <=> x1 - r <= p[1] /\ p[1] <= x2 + r /\ y1 - r <= p[2] /\ p[2] <= y2 + r
          /\ p \in g1 <=> x1 <= p[1] /\ p[1] <= x2 /\ y1 - r <= p[2] /\ p[2] <= y2 + r
          /\ p \in g2 <=> x1 - r <= p[1] /\ p[1] < x1 /\ y1 <= p[2] /\ p[2] <= y2
          /\ p \in g3 <=> x2 < p[1] /\ p[1] <= x2 + r /\ y1 <= p[2] /\ p[2] <= y2
      BY <1>1, <3>1, <3>4
    <3>6. p \in B /\ Across(x1, x2, y1, y2, p) <=> p \in g1 \/ p \in g2 \/ p \in g3
      BY <1>1, <3>1, <3>5 DEF Across
    <3> QED BY <3>2, <3>3, <3>6
  <2> HIDE DEF g1, g2, g3, g4, g5, g6, g7, B
  <2>4. ASSUME NEW p PROVE p \in UNION {g1, g2, g3, g4, g5, g6, g7} <=>
                             p \in g1 \/ p \in g2 \/ p \in g3 \/ p \in g4 \/ p \in g5 \/ p \in g6 \/ p \in g7
    OBVIOUS
  <2>5. ASSUME NEW p PROVE p \in UNION {g1, g2, g3, g4, g5, g6, g7} <=> p \in Rounded(x, y, w, h, r)
    BY <2>1, <2>2, <2>3, <2>4
  <2> QED BY <2>5
<1> HIDE DEF d1, d2, d3, d4, d5, d6, d7, g1, g2, g3, g4, g5, g6, g7
<1>8. Draws(All(<<d1, d2, d3, d4, d5, d6, d7>>), c, UNION {g1, g2, g3, g4, g5, g6, g7})
  BY <1>5, <1>6, DrawsAll7
<1> QED BY <1>4, <1>7, <1>8

\* The pixels of a quarter as a drawing.
LEMMA QuarterDrawn ==
  ASSUME NEW c, NEW cx \in Int, NEW cy \in Int, NEW r \in Nat \ {0}, NEW qx \in {-1, 1}, NEW qy \in {-1, 1},
         NEW Y, NEW m, Arc(r, Y, m)
  PROVE  Draws(DrawPixels(c, QuarterPixels(cx, cy, r, qx, qy)), c, BowAt(Y, m, cx, cy, qx, qy))
<1> DEFINE ps == BowAt(Y, m, cx, cy, qx, qy)
<1>1. Sloped(r, Y, m)
  BY ArcSlopes
<1>2. ASSUME NEW p \in ps PROVE p \in (cx - r .. cx + r) \X (cy - r .. cy + r)
  <2> DEFINE a == qx * (p[1] - cx)
             b == qy * (p[2] - cy)
  <2>1. p \in Int \X Int /\ a \in Nat /\ b \in Nat /\ Curve(Y, m, a, b)
    BY DEF BowAt
  <2>2. a <= r /\ b <= r
    <3> HIDE DEF a, b
    <3> QED BY <1>1, <2>1, WedgeEdge, WedgeShape
  <2>3. p[1] \in Int /\ p[2] \in Int
    BY <2>1
  <2>4. cx - r <= p[1] /\ p[1] <= cx + r
    BY <2>1, <2>2, <2>3
  <2>5. cy - r <= p[2] /\ p[2] <= cy + r
    BY <2>1, <2>2, <2>3
  <2> QED BY <2>1, <2>3, <2>4, <2>5
<1>3. ps = QuarterPixels(cx, cy, r, qx, qy)
  BY QuarterPixelsAre
<1> HIDE DEF ps
<1>4. IsFiniteSet(ps) /\ ps \subseteq Int \X Int
  <2>1. cx - r \in Int /\ cx + r \in Int /\ cy - r \in Int /\ cy + r \in Int
    OBVIOUS
  <2> QED BY <1>2, <2>1, SquareFinite
<1>5. Draws(DrawPixels(c, ps), c, ps)
  BY <1>4, PixelsCover
<1> QED BY <1>3, <1>5 DEF ps

\* The outline, as it is drawn: four sides and four corners.
Sides(x1, x2, y1, y2, r, p) ==
  \/ x1 <= p[1] /\ p[1] <= x2 /\ (p[2] = y1 - r \/ p[2] = y2 + r)
  \/ y1 <= p[2] /\ p[2] <= y2 /\ (p[1] = x1 - r \/ p[1] = x2 + r)

Outline(Y, m, x1, x2, y1, y2, r) ==
  {p \in Int \X Int : Sides(x1, x2, y1, y2, r, p) \/ OnCorner(Y, m, x1, x2, y1, y2, p)}

\* HAL_GFX_DrawRoundRect() draws the outline.
LEMMA RoundRectCovers ==
  ASSUME NEW c, Clip(c), NEW x, NEW y, NEW w, NEW h, NEW r, NEW x1, NEW x2, NEW y1, NEW y2,
         RoundBox(x, y, w, h, r, x1, x2, y1, y2), Boxed(x, y, w, h), NEW r0, r = CornerRadius(w, h, r0),
         NEW Y, NEW m, Arc(r, Y, m)
  PROVE  Draws(DrawRoundRect(c, x, y, w, h, r0), c, Outline(Y, m, x1, x2, y1, y2, r))
<1>1. /\ x1 \in Int /\ x2 \in Int /\ y1 \in Int /\ y2 \in Int /\ x1 <= x2 + 1 /\ y1 <= y2 + 1
      /\ x = x1 - r /\ x + w - 1 = x2 + r /\ y = y1 - r /\ y + h - 1 = y2 + r
      /\ r \in Nat \ {0} /\ x \in Int /\ y \in Int /\ w \in Int /\ h \in Int
  BY RoundBoxIs
<1> DEFINE d1 == DrawHLine(c, x1, y, w - 2 * r)
           d2 == DrawHLine(c, x1, y + h - 1, w - 2 * r)
           d3 == DrawVLine(c, x, y1, h - 2 * r)
           d4 == DrawVLine(c, x + w - 1, y1, h - 2 * r)
           d5 == DrawPixels(c, QuarterPixels(x1, y1, r, -1, -1))
           d6 == DrawPixels(c, QuarterPixels(x2, y1, r, 1, -1))
           d7 == DrawPixels(c, QuarterPixels(x1, y2, r, -1, 1))
           d8 == DrawPixels(c, QuarterPixels(x2, y2, r, 1, 1))
           g1 == Box(x1, y, w - 2 * r, 1)
           g2 == Box(x1, y + h - 1, w - 2 * r, 1)
           g3 == Box(x, y1, 1, h - 2 * r)
           g4 == Box(x + w - 1, y1, 1, h - 2 * r)
           g5 == BowAt(Y, m, x1, y1, -1, -1)
           g6 == BowAt(Y, m, x2, y1, 1, -1)
           g7 == BowAt(Y, m, x1, y2, -1, 1)
           g8 == BowAt(Y, m, x2, y2, 1, 1)
<1>2. DrawRoundRect(c, x, y, w, h, r0) = All(<<d1, d2, d3, d4, d5, d6, d7, d8>>)
  <2>1. w > 0 /\ h > 0 /\ r # 0 /\ x1 = x + r /\ x2 = x + w - r - 1 /\ y1 = y + r /\ y2 = y + h - r - 1
    BY DEF RoundBox
  <2>2. ~(w <= 0 \/ h <= 0)
    BY <1>1, <2>1
  <2> QED BY <2>1, <2>2, Zenon DEF DrawRoundRect
<1>3. Draws(d1, c, g1) /\ Draws(d2, c, g2) /\ Draws(d3, c, g3) /\ Draws(d4, c, g4)
  BY RoundBoxFits, Fill DEF DrawHLine, DrawVLine
<1>4. Draws(d5, c, g5) /\ Draws(d6, c, g6) /\ Draws(d7, c, g7) /\ Draws(d8, c, g8)
  <2>1. -1 \in {-1, 1} /\ 1 \in {-1, 1}
    OBVIOUS
  <2>2. Draws(d5, c, g5)
    BY <1>1, <2>1, QuarterDrawn
  <2>3. Draws(d6, c, g6)
    BY <1>1, <2>1, QuarterDrawn
  <2>4. Draws(d7, c, g7)
    BY <1>1, <2>1, QuarterDrawn
  <2>5. Draws(d8, c, g8)
    BY <1>1, <2>1, QuarterDrawn
  <2> QED BY <2>2, <2>3, <2>4, <2>5
<1>5. UNION {g1, g2, g3, g4, g5, g6, g7, g8} = Outline(Y, m, x1, x2, y1, y2, r)
  <2>1. ASSUME NEW p PROVE p \in g1 \/ p \in g2 \/ p \in g3 \/ p \in g4 \/ p \in g5 \/ p \in g6 \/ p \in g7 \/ p \in g8 => p \in Int \X Int
    <3>1. p \in g1 \/ p \in g2 \/ p \in g3 \/ p \in g4 => p \in Int \X Int
      BY <1>1, BoxIs
    <3>2. p \in g5 \/ p \in g6 \/ p \in g7 \/ p \in g8 => p \in Int \X Int
      BY DEF BowAt
    <3> QED BY <3>1, <3>2
  <2>2. ASSUME NEW p \in Int \X Int
        PROVE  /\ OnCorner(Y, m, x1, x2, y1, y2, p) <=> p \in g5 \/ p \in g6 \/ p \in g7 \/ p \in g8
               /\ Sides(x1, x2, y1, y2, r, p) <=> p \in g1 \/ p \in g2 \/ p \in g3 \/ p \in g4
    <3>1. p[1] \in Int /\ p[2] \in Int
      OBVIOUS
    <3>2. OnCorner(Y, m, x1, x2, y1, y2, p) <=> p \in g5 \/ p \in g6 \/ p \in g7 \/ p \in g8
      BY <1>1, CornersAre
    <3>3. /\ p \in g1 <=> x1 <= p[1] /\ p[1] <= x1 + (w - 2 * r) - 1 /\ y <= p[2] /\ p[2] <= y + 1 - 1
          /\ p \in g2 <=> x1 <= p[1] /\ p[1] <= x1 + (w - 2 * r) - 1 /\ y + h - 1 <= p[2] /\ p[2] <= (y + h - 1) + 1 - 1
          /\ p \in g3 <=> x <= p[1] /\ p[1] <= x + 1 - 1 /\ y1 <= p[2] /\ p[2] <= y1 + (h - 2 * r) - 1
          /\ p \in g4 <=> x + w - 1 <= p[1] /\ p[1] <= (x + w - 1) + 1 - 1 /\ y1 <= p[2] /\ p[2] <= y1 + (h - 2 * r) - 1
      BY <1>1, BoxIs
    <3> HIDE DEF g1, g2, g3, g4
    <3>4. /\ p \in g1 <=> x1 <= p[1] /\ p[1] <= x2 /\ p[2] = y1 - r
          /\ p \in g2 <=> x1 <= p[1] /\ p[1] <= x2 /\ p[2] = y2 + r
          /\ p \in g3 <=> y1 <= p[2] /\ p[2] <= y2 /\ p[1] = x1 - r
          /\ p \in g4 <=> y1 <= p[2] /\ p[2] <= y2 /\ p[1] = x2 + r
      BY <1>1, <3>1, <3>3
    <3>5. Sides(x1, x2, y1, y2, r, p) <=> p \in g1 \/ p \in g2 \/ p \in g3 \/ p \in g4
      BY <3>4 DEF Sides
    <3> QED BY <3>2, <3>5
  <2> HIDE DEF g1, g2, g3, g4, g5, g6, g7, g8
  <2>3. ASSUME NEW p PROVE p \in UNION {g1, g2, g3, g4, g5, g6, g7, g8} <=>
                             p \in g1 \/ p \in g2 \/ p \in g3 \/ p \in g4 \/ p \in g5 \/ p \in g6 \/ p \in g7 \/ p \in g8
    OBVIOUS
  <2>4. ASSUME NEW p PROVE p \in UNION {g1, g2, g3, g4, g5, g6, g7, g8} <=> p \in Outline(Y, m, x1, x2, y1, y2, r)
    BY <2>1, <2>2, <2>3 DEF Outline
  <2> QED BY <2>4
<1> HIDE DEF d1, d2, d3, d4, d5, d6, d7, d8, g1, g2, g3, g4, g5, g6, g7, g8
<1>6. Draws(All(<<d1, d2, d3, d4, d5, d6, d7, d8>>), c, UNION {g1, g2, g3, g4, g5, g6, g7, g8})
  BY <1>3, <1>4, DrawsAll8
<1> QED BY <1>2, <1>5, <1>6

\* A corner of radius 2 or more is the same one step on.
LEMMA Widen ==
  ASSUME NEW r \in Nat \ {0}, r > 1, NEW Y, NEW m, Sloped(r, Y, m), Starts(r, Y, m),
         NEW a \in Nat, NEW b \in Nat, NEW u \in Nat, NEW v \in Nat,
         u = a \/ (a = 0 /\ u = 1), v = b \/ (b = 0 /\ v = 1)
  PROVE  /\ Wedge(Y, m, a, b) => Wedge(Y, m, u, v)
         /\ Curve(Y, m, a, b) => Curve(Y, m, u, v)
<1>1. m > 0 /\ m \in Nat /\ Y[1] = r
  BY DEF Starts, Sloped
<1>2. 1 \in 0 .. m /\ 1 \in Nat /\ r \in Nat
  BY <1>1
<1>3. \A t \in Nat : t <= r => Wedge(Y, m, 1, t) /\ Wedge(Y, m, t, 1)
  BY <1>1, <1>2 DEF Wedge
<1>4. Curve(Y, m, 1, r) /\ Curve(Y, m, r, 1)
  BY <1>1, <1>2 DEF Curve
<1>5. Wedge(Y, m, a, b) => a <= r /\ b <= r
  BY WedgeShape
<1>6. (a = 0 => (Curve(Y, m, a, b) <=> b = r)) /\ (b = 0 => (Curve(Y, m, a, b) <=> a = r))
  <2>1. a = 0 => (Curve(Y, m, a, b) <=> b = r)
    BY WedgeShape
  <2>2. b = 0 => (Curve(Y, m, b, a) <=> a = r)
    BY WedgeShape
  <2>3. Curve(Y, m, a, b) <=> Curve(Y, m, b, a)
    BY WedgeShape
  <2> QED BY <2>1, <2>2, <2>3
<1>7. ASSUME Wedge(Y, m, a, b) PROVE Wedge(Y, m, u, v)
  <2>1. u <= r /\ v <= r
    BY <1>5, <1>7
  <2>2. CASE u # a
    BY <1>3, <2>1, <2>2
  <2>3. CASE v # b
    BY <1>3, <2>1, <2>3
  <2>4. CASE u = a /\ v = b
    BY <1>7, <2>4
  <2> QED BY <2>2, <2>3, <2>4
<1>8. ASSUME Curve(Y, m, a, b) PROVE Curve(Y, m, u, v)
  <2>1. CASE u # a
    <3>1. a = 0 /\ u = 1 /\ b = r /\ v = r
      BY <1>6, <1>8, <2>1
    <3> QED BY <1>4, <3>1
  <2>2. CASE v # b
    <3>1. b = 0 /\ v = 1 /\ a = r /\ u = r
      BY <1>6, <1>8, <2>2
    <3> QED BY <1>4, <3>1
  <2>3. CASE u = a /\ v = b
    BY <1>8, <2>3
  <2> QED BY <2>1, <2>2, <2>3
<1> QED BY <1>7, <1>8

Matches(Y, m, x1, x2, y1, y2, p, u, v) ==
  /\ InCorner(Y, m, x1, x2, y1, y2, p) => Wedge(Y, m, u, v)
  /\ OnCorner(Y, m, x1, x2, y1, y2, p) => Curve(Y, m, u, v)
  /\ u # 0 /\ v # 0 /\ Wedge(Y, m, u, v) => InCorner(Y, m, x1, x2, y1, y2, p)
  /\ u # 0 /\ v # 0 /\ Curve(Y, m, u, v) => OnCorner(Y, m, x1, x2, y1, y2, p)

\* Where the corners do not overlap, or are more than one pixel, a point is in the rounded box as
\* far as it is outside of its core.
LEMMA FarCorner ==
  ASSUME NEW r \in Nat \ {0}, NEW Y, NEW m, Sloped(r, Y, m), Starts(r, Y, m),
         NEW x1 \in Int, NEW x2 \in Int, NEW y1 \in Int, NEW y2 \in Int, x1 <= x2 + 1, y1 <= y2 + 1,
         r > 1 \/ (x1 <= x2 /\ y1 <= y2), NEW p \in Int \X Int
  PROVE  Matches(Y, m, x1, x2, y1, y2, p, Far(x1, x2, p[1]), Far(y1, y2, p[2]))
<1> DEFINE u == Far(x1, x2, p[1])
           v == Far(y1, y2, p[2])
<1>1. p[1] \in Int /\ p[2] \in Int
  OBVIOUS
<1> DEFINE A == Off(x1, x2, p[1])
           B == Off(y1, y2, p[2])
<1>2. u \in Nat /\ v \in Nat
  BY <1>1, FarIs
<1>3. /\ A \subseteq Nat /\ (u # 0 => u \in A)
      /\ \A t \in A : t = u \/ (t = 0 /\ u = 1 /\ x1 = x2 + 1)
  <2>1. FarOff(x1, x2, p[1], r, u, A)
    BY <1>1, FarOffIs
  <2> QED BY <2>1 DEF FarOff
<1>4. /\ B \subseteq Nat /\ (v # 0 => v \in B)
      /\ \A t \in B : t = v \/ (t = 0 /\ v = 1 /\ y1 = y2 + 1)
  <2>1. FarOff(y1, y2, p[2], r, v, B)
    BY <1>1, FarOffIs
  <2> QED BY <2>1 DEF FarOff
<1>5. /\ InCorner(Y, m, x1, x2, y1, y2, p) <=> \E a \in A, b \in B : Wedge(Y, m, a, b)
      /\ OnCorner(Y, m, x1, x2, y1, y2, p) <=> \E a \in A, b \in B : Curve(Y, m, a, b)
  BY DEF InCorner, OnCorner
<1> HIDE DEF A, B, u, v
<1>6. ASSUME NEW a \in A, NEW b \in B
      PROVE  (Wedge(Y, m, a, b) => Wedge(Y, m, u, v)) /\ (Curve(Y, m, a, b) => Curve(Y, m, u, v))
  <2>1. a \in Nat /\ b \in Nat /\ (u = a \/ (a = 0 /\ u = 1)) /\ (v = b \/ (b = 0 /\ v = 1))
    BY <1>3, <1>4
  <2>2. CASE r > 1
    BY <1>2, <2>1, <2>2, Widen
  <2>3. CASE x1 <= x2 /\ y1 <= y2
    <3>1. u = a /\ v = b
      BY <1>3, <1>4, <2>3
    <3> QED BY <3>1
  <2> QED BY <2>2, <2>3
<1>7. Matches(Y, m, x1, x2, y1, y2, p, u, v)
  BY <1>3, <1>4, <1>5, <1>6 DEF Matches
<1> QED BY <1>7 DEF u, v

\* Such a rounded box is a bulge about its core, its outline the edge of it.
LEMMA RoundIsBulge ==
  ASSUME NEW x, NEW y, NEW w, NEW h, NEW r, NEW x1, NEW x2, NEW y1, NEW y2,
         RoundBox(x, y, w, h, r, x1, x2, y1, y2), NEW Y, NEW m, Arc(r, Y, m), Starts(r, Y, m),
         r > 1 \/ (x1 <= x2 /\ y1 <= y2)
  PROVE  /\ Rounded(x, y, w, h, r) = Bulge(Y, m, x1, x2, y1, y2)
         /\ Outline(Y, m, x1, x2, y1, y2, r) = Bow(Y, m, x1, x2, y1, y2)
<1>1. /\ x1 \in Int /\ x2 \in Int /\ y1 \in Int /\ y2 \in Int /\ x1 <= x2 + 1 /\ y1 <= y2 + 1
      /\ r \in Nat \ {0} /\ x \in Int /\ y \in Int /\ w \in Int /\ h \in Int
  BY RoundBoxIs
<1>2. \A p \in Int \X Int : p \in Box(x, y, w, h) <=> x1 - r <= p[1] /\ p[1] <= x2 + r /\ y1 - r <= p[2] /\ p[2] <= y2 + r
  BY RoundBoxIs
<1>3. Sloped(r, Y, m)
  BY <1>1, ArcSlopes
<1>4. ASSUME NEW p \in Int \X Int
      PROVE  /\ p \in Box(x, y, w, h) /\ (Across(x1, x2, y1, y2, p) \/ InCorner(Y, m, x1, x2, y1, y2, p)) <=>
                Wedge(Y, m, Far(x1, x2, p[1]), Far(y1, y2, p[2]))
             /\ Sides(x1, x2, y1, y2, r, p) \/ OnCorner(Y, m, x1, x2, y1, y2, p) <=>
                Curve(Y, m, Far(x1, x2, p[1]), Far(y1, y2, p[2]))
  <2> DEFINE u == Far(x1, x2, p[1])
             v == Far(y1, y2, p[2])
             B == Box(x, y, w, h)
             C == InCorner(Y, m, x1, x2, y1, y2, p)
             O == OnCorner(Y, m, x1, x2, y1, y2, p)
             i == p[1]
             j == p[2]
  <2>1. i \in Int /\ j \in Int
    OBVIOUS
  <2>2. u \in Nat /\ v \in Nat
    BY <1>1, <2>1, FarIs
  <2>3. /\ u = 0 <=> x1 <= i /\ i <= x2
        /\ u <= r <=> x1 - r <= i /\ i <= x2 + r
    <3>1. FarOff(x1, x2, i, r, u, Off(x1, x2, i))
      BY <1>1, <2>1, FarOffIs
    <3> QED BY <3>1 DEF FarOff
  <2>4. /\ v = 0 <=> y1 <= j /\ j <= y2
        /\ v <= r <=> y1 - r <= j /\ j <= y2 + r
    <3>1. FarOff(y1, y2, j, r, v, Off(y1, y2, j))
      BY <1>1, <2>1, FarOffIs
    <3> QED BY <3>1 DEF FarOff
  <2>5. p \in B <=> u <= r /\ v <= r
    BY <1>2, <2>3, <2>4
  <2>6. Across(x1, x2, y1, y2, p) <=> u = 0 \/ v = 0
    BY <2>3, <2>4 DEF Across
  <2>7. /\ C => Wedge(Y, m, u, v)
        /\ O => Curve(Y, m, u, v)
        /\ u # 0 /\ v # 0 /\ Wedge(Y, m, u, v) => C
        /\ u # 0 /\ v # 0 /\ Curve(Y, m, u, v) => O
    <3>1. Matches(Y, m, x1, x2, y1, y2, p, u, v)
      BY <1>1, <1>3, FarCorner
    <3> QED BY <3>1 DEF Matches
  <2>8. /\ u = 0 => (v = r <=> j = y1 - r \/ j = y2 + r)
        /\ v = 0 => (i = x1 - r \/ i = x2 + r <=> u = r)
    BY <1>1, <2>1 DEF Far, Greater
  <2>9. Sides(x1, x2, y1, y2, r, p) <=> (u = 0 /\ v = r) \/ (v = 0 /\ u = r)
    <3> HIDE DEF u, v, i, j
    <3>1. Sides(x1, x2, y1, y2, r, p) <=> \/ x1 <= i /\ i <= x2 /\ (j = y1 - r \/ j = y2 + r)
                                          \/ y1 <= j /\ j <= y2 /\ (i = x1 - r \/ i = x2 + r)
      BY DEF Sides, i, j
    <3> QED BY <2>3, <2>4, <2>8, <3>1
  <2> HIDE DEF u, v, C, O, B
  <2>10. /\ Wedge(Y, m, u, v) => u <= r /\ v <= r
         /\ u = 0 => (Wedge(Y, m, u, v) <=> v <= r)
         /\ u = 0 => (Curve(Y, m, u, v) <=> v = r)
    BY <1>3, <2>2, WedgeShape
  <2>11. /\ v = 0 => (Wedge(Y, m, v, u) <=> u <= r)
         /\ v = 0 => (Curve(Y, m, v, u) <=> u = r)
         /\ Wedge(Y, m, u, v) <=> Wedge(Y, m, v, u)
         /\ Curve(Y, m, u, v) <=> Curve(Y, m, v, u)
    BY <1>3, <2>2, WedgeShape
  <2>12. p \in B /\ (Across(x1, x2, y1, y2, p) \/ C) <=> Wedge(Y, m, u, v)
    BY <2>5, <2>6, <2>7, <2>10, <2>11
  <2>13. Sides(x1, x2, y1, y2, r, p) \/ O <=> Curve(Y, m, u, v)
    BY <2>7, <2>9, <2>10, <2>11
  <2> QED BY <2>12, <2>13 DEF u, v, B, C, O
<1>5. Rounded(x, y, w, h, r) = {p \in Box(x, y, w, h) : Across(x1, x2, y1, y2, p) \/ InCorner(Y, m, x1, x2, y1, y2, p)}
  BY RoundedIs
<1>6. \A p \in Box(x, y, w, h) : p \in Int \X Int
  BY <1>1, BoxIs
<1>7. Rounded(x, y, w, h, r) = Bulge(Y, m, x1, x2, y1, y2)
  BY <1>4, <1>5, <1>6 DEF Bulge
<1>8. Outline(Y, m, x1, x2, y1, y2, r) = Bow(Y, m, x1, x2, y1, y2)
  BY <1>4 DEF Outline, Bow
<1> QED BY <1>7, <1>8

\* A box two pixels wide or high, with corners of one pixel, is all edge, and its corners are square.
LEMMA ThinIsBox ==
  ASSUME NEW x, NEW y, NEW w, NEW h, NEW r, NEW x1, NEW x2, NEW y1, NEW y2,
         RoundBox(x, y, w, h, r, x1, x2, y1, y2), NEW Y, NEW m, Arc(r, Y, m), Starts(r, Y, m),
         r = 1, x1 = x2 + 1 \/ y1 = y2 + 1
  PROVE  Rim(Rounded(x, y, w, h, r)) = Outline(Y, m, x1, x2, y1, y2, r)
<1> DEFINE B == Box(x, y, w, h)
           In(p) == InCorner(Y, m, x1, x2, y1, y2, p)
           On(p) == OnCorner(Y, m, x1, x2, y1, y2, p)
           Out == Outline(Y, m, x1, x2, y1, y2, r)
<1>1. /\ x1 \in Int /\ x2 \in Int /\ y1 \in Int /\ y2 \in Int /\ x1 <= x2 + 1 /\ y1 <= y2 + 1
      /\ r \in Nat \ {0} /\ x \in Int /\ y \in Int /\ w \in Int /\ h \in Int
  BY RoundBoxIs
<1>2. \A p \in Int \X Int : p \in B <=> x1 - 1 <= p[1] /\ p[1] <= x2 + 1 /\ y1 - 1 <= p[2] /\ p[2] <= y2 + 1
  BY RoundBoxIs
<1>3. Sloped(r, Y, m)
  BY <1>1, ArcSlopes
<1>4. \A p \in B : p \in Int \X Int
  BY <1>1, BoxIs
<1>5. Wedge(Y, m, 0, 1) /\ Wedge(Y, m, 1, 0) /\ Curve(Y, m, 0, 1) /\ Curve(Y, m, 1, 0)
  <2>1. m = 0 /\ Y[0] = 1
    BY <1>3 DEF Starts, Sloped
  <2> QED BY <2>1 DEF Wedge, Curve
<1>6. ASSUME NEW p \in Int \X Int, On(p) PROVE In(p)
  <2>1. PICK a \in Off(x1, x2, p[1]), b \in Off(y1, y2, p[2]) : Curve(Y, m, a, b)
    BY <1>6 DEF OnCorner
  <2>2. a \in Nat /\ b \in Nat
    BY <2>1 DEF Off
  <2>3. Wedge(Y, m, a, b)
    BY <1>3, <2>1, <2>2, WedgeEdge
  <2> QED BY <2>3 DEF InCorner
<1>7. ASSUME NEW p \in Out PROVE p \in B
  <2>1. p \in Int \X Int /\ (Sides(x1, x2, y1, y2, r, p) \/ On(p))
    BY DEF Outline
  <2>2. In(p) => p \in B
    BY <1>3, <2>1, CornerInBox
  <2>3. p[1] \in Int /\ p[2] \in Int
    BY <2>1
  <2>4. Sides(x1, x2, y1, y2, r, p) => p \in B
    <3>1. Sides(x1, x2, y1, y2, r, p) => x1 - 1 <= p[1] /\ p[1] <= x2 + 1 /\ y1 - 1 <= p[2] /\ p[2] <= y2 + 1
      BY <1>1, <2>3 DEF Sides
    <3> HIDE DEF B
    <3> QED BY <1>2, <2>1, <3>1
  <2> QED BY <1>6, <2>1, <2>2, <2>4
<1>8. ASSUME NEW p \in B
      PROVE  /\ Across(x1, x2, y1, y2, p) \/ In(p)
             /\ Sides(x1, x2, y1, y2, r, p) \/ On(p)
             /\ AtEdge(B, p)
  <2> DEFINE i == p[1]
             j == p[2]
  <2>1. p \in Int \X Int /\ i \in Int /\ j \in Int /\ x1 - 1 <= i /\ i <= x2 + 1 /\ y1 - 1 <= j /\ j <= y2 + 1
    BY <1>2, <1>4
  <2>2. \A q \in B : x1 - 1 <= q[1] /\ q[1] <= x2 + 1 /\ y1 - 1 <= q[2] /\ q[2] <= y2 + 1
    BY <1>2, <1>4
  <2>3. /\ Across(x1, x2, y1, y2, p) <=> (x1 <= i /\ i <= x2) \/ (y1 <= j /\ j <= y2)
        /\ Sides(x1, x2, y1, y2, r, p) <=> \/ x1 <= i /\ i <= x2 /\ (j = y1 - 1 \/ j = y2 + 1)
                                           \/ y1 <= j /\ j <= y2 /\ (i = x1 - 1 \/ i = x2 + 1)
    BY DEF Across, Sides
  <2>4. /\ \A a \in Off(x1, x2, i), b \in Off(y1, y2, j) : Wedge(Y, m, a, b) => In(p)
        /\ \A a \in Off(x1, x2, i), b \in Off(y1, y2, j) : Curve(Y, m, a, b) => On(p)
    BY DEF InCorner, OnCorner
  <2>5. /\ \A q \in B : q[1] \in Int /\ q[2] \in Int
        /\ i = x1 - 1 \/ i = x2 + 1 \/ j = y1 - 1 \/ j = y2 + 1 => AtEdge(B, p)
    BY <1>4, <2>2 DEF AtEdge
  <2> HIDE DEF B, In, On, i, j
  <2>6. CASE x1 = x2 + 1
    <3>1. (i = x1 \/ i = x2) /\ (i = x1 - 1 \/ i = x2 + 1) /\ 0 \in Off(x1, x2, i)
      BY <1>1, <2>1, <2>6 DEF Off
    <3>2. CASE y1 <= j /\ j <= y2
      BY <2>3, <2>5, <3>1, <3>2
    <3>3. CASE ~(y1 <= j /\ j <= y2)
      <4>1. 1 \in Off(y1, y2, j)
        BY <1>1, <2>1, <3>3 DEF Off
      <4> QED BY <1>5, <2>4, <2>5, <3>1, <4>1
    <3> QED BY <3>2, <3>3
  <2>7. CASE y1 = y2 + 1
    <3>1. (j = y1 \/ j = y2) /\ (j = y1 - 1 \/ j = y2 + 1) /\ 0 \in Off(y1, y2, j)
      BY <1>1, <2>1, <2>7 DEF Off
    <3>2. CASE x1 <= i /\ i <= x2
      BY <2>3, <2>5, <3>1, <3>2
    <3>3. CASE ~(x1 <= i /\ i <= x2)
      <4>1. 1 \in Off(x1, x2, i)
        BY <1>1, <2>1, <3>3 DEF Off
      <4> QED BY <1>5, <2>4, <2>5, <3>1, <4>1
    <3> QED BY <3>2, <3>3
  <2> QED BY <2>6, <2>7
<1>9. Rounded(x, y, w, h, r) = {p \in B : Across(x1, x2, y1, y2, p) \/ In(p)}
  BY RoundedIs
<1>10. Rounded(x, y, w, h, r) = B
  BY <1>8, <1>9
<1>11. Out = B
  <2>1. \A p \in B : p \in Out
    BY <1>4, <1>8 DEF Outline
  <2> HIDE DEF B, Out
  <2> QED BY <1>7, <2>1
<1>12. Rim(B) = B
  <2>1. B \subseteq (x1 - 1 .. x2 + 1) \X (y1 - 1 .. y2 + 1) /\ x1 - 1 \in Int /\ x2 + 1 \in Int /\ y1 - 1 \in Int /\ y2 + 1 \in Int
    <3>1. \A p \in B : p \in Int \X Int /\ x1 - 1 <= p[1] /\ p[1] <= x2 + 1 /\ y1 - 1 <= p[2] /\ p[2] <= y2 + 1
      BY <1>2, <1>4
    <3> HIDE DEF B
    <3> QED BY <1>1, <3>1
  <2> HIDE DEF B
  <2>2. Rim(B) = {p \in B : AtEdge(B, p)}
    BY <2>1, RimIs
  <2> QED BY <1>8, <2>2
<1> QED BY <1>10, <1>11, <1>12

\* The outline is the rim of the rounded box.
LEMMA RimOfRounded ==
  ASSUME NEW x, NEW y, NEW w, NEW h, NEW r, NEW x1, NEW x2, NEW y1, NEW y2,
         RoundBox(x, y, w, h, r, x1, x2, y1, y2), NEW Y, NEW m, Arc(r, Y, m), Starts(r, Y, m)
  PROVE  Rim(Rounded(x, y, w, h, r)) = Outline(Y, m, x1, x2, y1, y2, r)
<1>1. /\ x1 \in Int /\ x2 \in Int /\ y1 \in Int /\ y2 \in Int /\ x1 <= x2 + 1 /\ y1 <= y2 + 1 /\ r \in Nat \ {0}
  BY RoundBoxIs
<1>2. CASE r > 1 \/ (x1 <= x2 /\ y1 <= y2)
  <2>1. /\ Rounded(x, y, w, h, r) = Bulge(Y, m, x1, x2, y1, y2)
        /\ Outline(Y, m, x1, x2, y1, y2, r) = Bow(Y, m, x1, x2, y1, y2)
    BY <1>2, RoundIsBulge
  <2>2. Sloped(r, Y, m)
    BY <1>1, ArcSlopes
  <2>3. Rim(Bulge(Y, m, x1, x2, y1, y2)) = Bow(Y, m, x1, x2, y1, y2)
    BY <1>1, <2>2, RimOfBulge
  <2> QED BY <2>1, <2>3
<1>3. CASE ~(r > 1 \/ (x1 <= x2 /\ y1 <= y2))
  <2>1. r = 1 /\ (x1 = x2 + 1 \/ y1 = y2 + 1)
    BY <1>1, <1>3
  <2> QED BY <2>1, ThinIsBox
<1> QED BY <1>2, <1>3

\* A corner takes at most half of either side.
LEMMA RadiusIs ==
  ASSUME NEW w \in Int, NEW h \in Int, w > 0, h > 0, NEW r0 \in Int
  PROVE  CornerRadius(w, h, r0) \in Nat /\ 2 * CornerRadius(w, h, r0) <= w /\ 2 * CornerRadius(w, h, r0) <= h
<1> DEFINE n == Lesser(w, h)
           k == n \div 2
<1>1. n \in Nat /\ n <= w /\ n <= h
  BY DEF Lesser
<1> HIDE DEF n
<1>2. k \in Nat /\ 2 * k <= n
  BY <1>1
<1>3. CornerRadius(w, h, r0) = Lesser(Greater(r0, 0), k)
  BY DEF CornerRadius, n
<1> HIDE DEF k
<1>4. Lesser(Greater(r0, 0), k) \in Nat /\ Lesser(Greater(r0, 0), k) <= k
  BY <1>2 DEF Lesser, Greater
<1> QED BY <1>1, <1>2, <1>3, <1>4

\* Rounded boxes of every size and radius, as they are drawn.
LEMMA RoundDrawn ==
  ASSUME NEW c, Clip(c), NEW x, NEW y, NEW w, NEW h, Boxed(x, y, w, h), NEW r0 \in Int
  PROVE  /\ Draws(FillRoundRect(c, x, y, w, h, r0), c, Rounded(x, y, w, h, CornerRadius(w, h, r0)))
         /\ Draws(DrawRoundRect(c, x, y, w, h, r0), c, Rim(Rounded(x, y, w, h, CornerRadius(w, h, r0))))
<1> DEFINE r == CornerRadius(w, h, r0)
<1>1. x \in Int /\ y \in Int /\ w \in Int /\ h \in Int
  BY BoxedIsSized DEF Sized
<1>2. CASE w <= 0 \/ h <= 0
  <2>1. Box(x, y, w, h) = {}
    BY <1>1, <1>2 DEF Box
  <2>2. Rounded(x, y, w, h, r) = {}
    BY <2>1 DEF Rounded
  <2>3. FillRoundRect(c, x, y, w, h, r0) = << >> /\ DrawRoundRect(c, x, y, w, h, r0) = << >>
    BY <1>2 DEF FillRoundRect, DrawRoundRect, Nothing
  <2> QED BY <2>2, <2>3, NoJob, RimOfNothing DEF Draws
<1>3. CASE w > 0 /\ h > 0 /\ r = 0
  <2>1. Rounded(x, y, w, h, 0) = Box(x, y, w, h)
    <3>1. \A p \in Box(x, y, w, h) : p[1] \in x + 0 .. x + w - 0 - 1
      BY <1>1 DEF Box
    <3>2. Rounded(x, y, w, h, 0) \subseteq Box(x, y, w, h)
      BY DEF Rounded
    <3> QED BY <3>1, <3>2 DEF Rounded
  <2>2. ~(w <= 0 \/ h <= 0)
    BY <1>1, <1>3
  <2>3. FillRoundRect(c, x, y, w, h, r0) = FillRect(c, x, y, w, h)
    BY <1>3, <2>2, Zenon DEF FillRoundRect
  <2>4. DrawRoundRect(c, x, y, w, h, r0) = DrawRect(c, x, y, w, h)
    BY <1>3, <2>2, Zenon DEF DrawRoundRect
  <2>5. Draws(FillRect(c, x, y, w, h), c, Box(x, y, w, h))
    BY BoxedIsSized, Fill
  <2>6. Draws(DrawRect(c, x, y, w, h), c, Rim(Box(x, y, w, h)))
    BY RectCovers
  <2> QED BY <1>3, <2>1, <2>3, <2>4, <2>5, <2>6
<1>4. CASE w > 0 /\ h > 0 /\ r # 0
  <2> DEFINE x1 == x + r
             x2 == x + w - r - 1
             y1 == y + r
             y2 == y + h - r - 1
  <2>1. r \in Nat \ {0} /\ 2 * r <= w /\ 2 * r <= h
    BY <1>1, <1>4, RadiusIs
  <2> HIDE DEF r
  <2>2. RoundBox(x, y, w, h, r, x1, x2, y1, y2)
    BY <1>1, <2>1 DEF RoundBox
  <2>3. PICK Y, m : Arc(r, Y, m) /\ Starts(r, Y, m)
    BY <2>1, ArcOf
  <2> HIDE DEF x1, x2, y1, y2
  <2>4. r = CornerRadius(w, h, r0)
    BY DEF r
  <2>5. Draws(FillRoundRect(c, x, y, w, h, r0), c, Rounded(x, y, w, h, r))
    BY <2>2, <2>4, RoundFillCovers
  <2>6. Draws(DrawRoundRect(c, x, y, w, h, r0), c, Outline(Y, m, x1, x2, y1, y2, r))
    BY <2>2, <2>3, <2>4, RoundRectCovers
  <2>7. Rim(Rounded(x, y, w, h, r)) = Outline(Y, m, x1, x2, y1, y2, r)
    BY <2>2, <2>3, RimOfRounded
  <2> QED BY <2>4, <2>5, <2>6, <2>7
<1> QED BY <1>1, <1>2, <1>3, <1>4

\* Rounded boxes are as FiguresExact says.
LEMMA RoundsShow ==
  ASSUME PlainlyFramed
  PROVE  /\ cmd.op = "roundFill" => Shows(Figure(cmd))
         /\ cmd.op = "roundRect" => Shows(Rim(Figure(cmd)))
<1> SUFFICES ASSUME cmd.op \in {"roundFill", "roundRect"}
             PROVE  /\ cmd.op = "roundFill" => Shows(Figure(cmd))
                    /\ cmd.op = "roundRect" => Shows(Rim(Figure(cmd)))
  OBVIOUS
<1> DEFINE a == cmd.a
<1>1. Legal(cmd) /\ Clip(clip) /\ Left(Executed(clip, cmd), drawn, lost)
  BY Done
<1>2. Boxed(a[1], a[2], a[3], a[4]) /\ a[5] \in Int
  BY <1>1 DEF Legal
<1>3. Figure(cmd) = Rounded(a[1], a[2], a[3], a[4], CornerRadius(a[3], a[4], a[5]))
  BY DEF Figure
<1>4. /\ Draws(FillRoundRect(clip, a[1], a[2], a[3], a[4], a[5]), clip, Figure(cmd))
      /\ Draws(DrawRoundRect(clip, a[1], a[2], a[3], a[4], a[5]), clip, Rim(Figure(cmd)))
  BY <1>1, <1>2, <1>3, RoundDrawn
<1>5. CASE cmd.op = "roundFill"
  <2>1. Executed(clip, cmd) = FillRoundRect(clip, a[1], a[2], a[3], a[4], a[5])
    BY <1>5 DEF Executed
  <2> QED BY <1>1, <1>4, <1>5, <2>1, Showing
<1>6. CASE cmd.op = "roundRect"
  <2>1. Executed(clip, cmd) = DrawRoundRect(clip, a[1], a[2], a[3], a[4], a[5])
    BY <1>6 DEF Executed
  <2> QED BY <1>1, <1>4, <1>6, <2>1, Showing
<1> QED BY <1>5, <1>6

\* Under a clip that begins on the panel and stays within int16_t, every figure is drawn exactly where
\* the caller and the clip of its own frame let it, whatever transfer of it fails (FiguresExact;
\* hal_gfx.c:26-336, hal_display_st7796s.c:182-379, 579-776).
THEOREM FiguresAreExact == Spec => []FiguresExact
<1>1. ASSUME Framed, Plain(asked)
      PROVE  /\ cmd.op \in {"clear", "pixel", "fill", "rect"} => Shows(Straight(cmd))
             /\ cmd.op = "line" => LineFits(cmd.a)
             /\ cmd.op \in {"disc", "roundFill"}   => Shows(Figure(cmd))
             /\ cmd.op \in {"circle", "roundRect"} => Shows(Rim(Figure(cmd)))
             /\ cmd.op = "disc" /\ cmd.a[3] > 0 => DiscFits(Disc(cmd.a[3]), cmd.a[3])
  <2>0. PlainlyFramed
    BY <1>1 DEF PlainlyFramed
  <2>1. cmd.op \in {"clear", "pixel", "fill", "rect"} => Shows(Straight(cmd))
    BY <2>0, StraightShows
  <2>2. cmd.op = "line" => LineFits(cmd.a)
    BY <2>0, LinesShow
  <2>3. /\ cmd.op = "disc" => Shows(Figure(cmd))
        /\ cmd.op = "circle" => Shows(Rim(Figure(cmd)))
        /\ cmd.op = "disc" /\ cmd.a[3] > 0 => DiscFits(Disc(cmd.a[3]), cmd.a[3])
    BY <2>0, CirclesShow
  <2>4. /\ cmd.op = "roundFill" => Shows(Figure(cmd))
        /\ cmd.op = "roundRect" => Shows(Rim(Figure(cmd)))
    BY <2>0, RoundsShow
  <2> QED BY <2>1, <2>2, <2>3, <2>4
<1>2. Framed => FiguresExact
  BY <1>1 DEF FiguresExact
<1> QED BY <1>2, AlwaysFramed, PTL
==============================================================================
