--------------------------- MODULE DisplayManager ---------------------------
(***************************************************************************)
(* display_manager_process_frame(): the commands of a frame, drawn one by  *)
(* one through the primitives of Graphics on a panel that HAL_Init() has   *)
(* brought up. The clip is a static of hal_gfx.c that every command of     *)
(* every frame shares.                                                     *)
(*                                                                         *)
(* Each primitive is compared with what it is meant to draw, defined       *)
(* without its loops, over every command of a bounded set, and for some of *)
(* them with each transfer failing in turn.                                *)
(***************************************************************************)
EXTENDS Graphics

CONSTANTS
  Clips,       \* what a frame may ask for as its clip, as rectangles
  Commands,    \* what a frame may draw, as [op, a]
  Disturbed,   \* commands among them of which a transfer may fail
  Windows,     \* what earlier drawing may have left as the address window of the controller
  MaxCmds      \* bound: commands of a frame

\* What the primitives are made for: no coordinate of a figure, its far edges included, and no term
\* of its loop leaves int16_t, and a bitmap has pixels. Beyond that the code wraps around.
Fits(n)     == n \in -(Int16Max + 1) .. Int16Max
Spans(x, w) == w \in Int /\ Fits(x) /\ (w > 0 => Fits(x + w - 1))
Boxed(x, y, w, h) == Spans(x, w) /\ Spans(y, h)
Round(r)    == r \in Int /\ 4 * r + 14 <= Int16Max
Legal(k) ==
  LET a == k.a IN
    \/ k.op = "clear"
    \/ k.op = "pixel" /\ Fits(a[1]) /\ Fits(a[2])
    \/ k.op \in {"fill", "rect"} /\ Boxed(a[1], a[2], a[3], a[4])
    \/ k.op = "line" /\ (\A i \in 1 .. 4 : Fits(a[i]))
         /\ Abs(a[3] - a[1]) < Int16Max /\ Abs(a[4] - a[2]) < Int16Max
    \/ k.op \in {"circle", "disc"} /\ {a[1], a[2]} \subseteq Int /\ Round(a[3])
         /\ Boxed(a[1] - a[3], a[2] - a[3], 2 * a[3] + 1, 2 * a[3] + 1)
    \/ k.op \in {"roundRect", "roundFill"} /\ Boxed(a[1], a[2], a[3], a[4]) /\ a[5] \in Int
         /\ Round(CornerRadius(a[3], a[4], a[5]))
    \/ k.op = "blit" /\ {a[1], a[2]} \subseteq Nat \ {0} /\ {a[5], a[6]} \subseteq Int /\ Boxed(a[3], a[4], a[7], a[8])
    \/ k.op = "blitScaled" /\ {a[1], a[2]} \subseteq Nat \ {0} /\ Boxed(a[3], a[4], a[5], a[6])

ASSUME ArgsOK ==
  /\ \A c \in Clips : /\ c \in [x : Int, y : Int, w : Int, h : Int]
                      /\ \A n \in {c.x, c.y, c.w, c.h} : Fits(n)
  /\ \A k \in Commands : Legal(k)
  /\ Disturbed \subseteq Commands /\ MaxCmds \in Nat

VARIABLES
  clip,    \* s_clip
  left,    \* commands of the frame that are still to come
  asked,   \* history: the clip this frame has asked for, or the whole panel
  cmd,     \* history: the drawing command just executed
  drawn,   \* history: what it wrote
  lost     \* history: the pixels of the job of it that failed

vars == <<panelVars, clip, left, asked, cmd, drawn, lost>>

None == [op |-> "none", a |-> << >>]

NewFrame == cmd' = None /\ drawn' = Blank /\ lost' = {} /\ asked' = FullClip

Init ==
  /\ PanelInit /\ clip = FullClip /\ left = 0
  /\ asked = FullClip /\ cmd = None /\ drawn = Blank /\ lost = {}

BringUpStep == HalInit /\ UNCHANGED <<clip, left, asked, cmd, drawn, lost>>

Restart == hal # "starting" /\ Restarted /\ clip' = FullClip /\ left' = 0 /\ NewFrame

\* Mutant of ProcessFrame: a frame keeps the clip of the one before it.
ProcessFrameKeepsClip ==
  /\ hal = "up" /\ left = 0 /\ left' = MaxCmds /\ NewFrame
  /\ clip' = clip /\ UNCHANGED panelVars

\* The next frame of the queue: frames are self-contained. HAL_Display_SetScrollStart(0), sent before
\* its commands, is what the panel has since its reset, as nothing sends another start.
ProcessFrame ==
  /\ hal = "up" /\ left = 0 /\ left' = MaxCmds /\ NewFrame
  /\ clip' = FullClip /\ UNCHANGED panelVars

\* DM_CMD_SET_CLIP and DM_CMD_RESET_CLIP
SetClip(c) ==
  /\ left > 1 /\ left' = left - 1
  /\ clip' = Clamped(c) /\ asked' = c
  /\ UNCHANGED <<panelVars, cmd, drawn, lost>>

\* dm_execute_cmd() for a command that draws; a is its arguments in the order of the call. Only
\* the clip links one command to the next, so a frame ends with its first drawing.
Executed(c, k) ==
  LET a == k.a IN
    CASE k.op = "clear"      -> FillRect(c, 0, 0, PanelW, PanelH)
      [] k.op = "pixel"      -> DrawPixel(c, a[1], a[2])
      [] k.op = "fill"       -> FillRect(c, a[1], a[2], a[3], a[4])
      [] k.op = "rect"       -> DrawRect(c, a[1], a[2], a[3], a[4])
      [] k.op = "line"       -> DrawLine(c, a[1], a[2], a[3], a[4])
      [] k.op = "circle"     -> DrawCircle(c, a[1], a[2], a[3])
      [] k.op = "disc"       -> FillCircle(c, a[1], a[2], a[3])
      [] k.op = "roundRect"  -> DrawRoundRect(c, a[1], a[2], a[3], a[4], a[5])
      [] k.op = "roundFill"  -> FillRoundRect(c, a[1], a[2], a[3], a[4], a[5])
      [] k.op = "blit"       -> Blit(c, a[1], a[2], a[3], a[4], a[5], a[6], a[7], a[8])
      [] k.op = "blitScaled" -> BlitScaled(c, a[1], a[2], a[3], a[4], a[5], a[6])

Draw(k) ==
  /\ left > 0 /\ left' = 0 /\ cmd' = k
  /\ LET jobs == Routed(Executed(clip, k)) IN
       \/ drawn' = Shown(jobs, NoCut, FullWindow) /\ lost' = {} /\ UNCHANGED faults
       \/ /\ k \in Disturbed /\ faults < MaxFaults /\ faults' = faults + 1
          /\ \E cut \in Cuts(jobs), win \in Windows \cup {FullWindow} :
               drawn' = Shown(jobs, cut, win) /\ lost' = Area(jobs[cut.job])
  /\ UNCHANGED <<hal, step, heeded, light, clip, asked>>

Next == BringUpStep \/ Restart \/ ProcessFrame \/ (\E c \in Clips \cup {FullClip} : SetClip(c))
        \/ (\E k \in Commands : Draw(k))
Spec == Init /\ [][Next]_vars

-----------------------------------------------------------------------------
(* What the commands are meant to draw *)

Box(x, y, w, h) == (x .. x + w - 1) \X (y .. y + h - 1)
InView(p)   == p \in Panel /\ Clipped(asked, p[1], p[2])
Visible(ps) == {p \in ps : InView(p)}
Written     == DOMAIN drawn
\* A clip whose corner is on the panel, right of it or below, and whose far edges stay in int16_t. A
\* clip that begins left of the panel or above it is taken at its word: whatever rectangle, line or
\* row of a bitmap begins with it has a negative corner, and is not drawn at all.
Plain(c) ==
  /\ c.x >= 0 /\ Fits(c.x + Greater(c.w, 0) - 1)
  /\ c.y >= 0 /\ Fits(c.y + Greater(c.h, 0) - 1)
\* Exactly ps, but for what was lost with a transfer.
Shows(ps)   == Written \subseteq Visible(ps) /\ Visible(ps) \ Written \subseteq lost

\* The pixels of a figure with nothing of it beyond them in their row, or in their column.
Rim(ps) ==
  {p \in ps : LET row == {q[1] : q \in {r \in ps : r[2] = p[2]}}
                  col == {q[2] : q \in {r \in ps : r[1] = p[1]}}
              IN  p[1] \in {Min(row), Max(row)} \/ p[2] \in {Min(col), Max(col)}}

Straight(k) ==
  LET a == k.a IN
    CASE k.op = "clear" -> Panel
      [] k.op = "pixel" -> {<<a[1], a[2]>>}
      [] k.op = "fill"  -> Box(a[1], a[2], a[3], a[4])
      [] k.op = "rect"  -> Rim(Box(a[1], a[2], a[3], a[4]))

\* A line has one pixel in every column, or row if it is steep, half a pixel from it at most.
LineFits(a) ==
  LET dx == a[3] - a[1]  dy == a[4] - a[2]
      steep == Abs(dy) > Abs(dx)
      span == Greater(Abs(dx), Abs(dy))
      At(p) == IF steep THEN p[2] ELSE p[1]
      near == {p \in (Lesser(a[1], a[3]) .. Greater(a[1], a[3])) \X (Lesser(a[2], a[4]) .. Greater(a[2], a[4])) :
                 2 * Abs(dx * (p[2] - a[2]) - dy * (p[1] - a[1])) <= span}
  IN  /\ Written \subseteq Visible(near)
      /\ \A p, q \in Written : At(p) = At(q) => p = q
      /\ \A p \in near \ lost : (\A q \in near : At(q) = At(p) => InView(q) /\ q \notin lost)
                                => \E q \in Written : At(q) = At(p)

\* A disc of radius r about the origin: all pixels well inside the circle, and none that is a
\* pixel or more outside.
DiscFits(ps, r) ==
  /\ \A p \in ps : p[1] * p[1] + p[2] * p[2] < (r + 1) * (r + 1)
  /\ \A p \in Box(-r, -r, 2 * r + 1, 2 * r + 1) :
       p[1] * p[1] + p[2] * p[2] <= (r - 1) * (r - 1) => p \in ps

\* The rows of a circle, filled from side to side.
Disc(r) ==
  {p \in Box(-r, -r, 2 * r + 1, 2 * r + 1) :
     \E q \in Octant(r) \cup {<<0, 0>>} : <<Abs(p[1]), Abs(p[2])>> \in {<<x, q[2]>> : x \in 0 .. q[1]} \cup {<<x, q[1]>> : x \in 0 .. q[2]}}

\* A box without its corners, and in every corner the quarter of a disc. A box of twice the radius
\* has the centres of opposite corners in the wrong order, so that its quarters overlap.
Rounded(x, y, w, h, r) ==
  LET x1 == x + r  x2 == x + w - r - 1  y1 == y + r  y2 == y + h - r - 1
      corners == {<<x1, -1>>, <<x2, 1>>} \X {<<y1, -1>>, <<y2, 1>>}
      InQuarter(p, k) ==
        LET d == <<k[1][2] * (p[1] - k[1][1]), k[2][2] * (p[2] - k[2][1])>>
        IN  d[1] >= 0 /\ d[2] >= 0 /\ d \in Disc(r)
  IN  {p \in Box(x, y, w, h) : \/ p[1] \in x1 .. x2 \/ p[2] \in y1 .. y2
                               \/ \E k \in corners : InQuarter(p, k)}

Figure(k) ==
  LET a == k.a IN
    IF k.op \in {"circle", "disc"}
    THEN {<<a[1] + p[1], a[2] + p[2]>> : p \in IF a[3] < 0 THEN {} ELSE Disc(a[3])}
    ELSE Rounded(a[1], a[2], a[3], a[4], CornerRadius(a[3], a[4], a[5]))

-----------------------------------------------------------------------------
(* Properties *)

\* Under a plain clip a figure is drawn exactly where the caller and the clip of its own frame let
\* it, however it lies across the edges of either: what is straight without gaps, the outline of a
\* circle or of a rounded rectangle as the rim of the filled one, a circle within a pixel of its
\* radius. A transfer that fails costs at most the pixels of its own job, and puts none elsewhere
\* (hal_gfx.c:26-336, hal_display_st7796s.c:182-379, 579-776).
FiguresExact == Plain(asked) =>
  /\ cmd.op \in {"clear", "pixel", "fill", "rect"} => Shows(Straight(cmd))
  /\ cmd.op = "line" => LineFits(cmd.a)
  /\ cmd.op \in {"disc", "roundFill"}   => Shows(Figure(cmd))
  /\ cmd.op \in {"circle", "roundRect"} => Shows(Rim(Figure(cmd)))
  /\ cmd.op = "disc" /\ cmd.a[3] > 0 => DiscFits(Disc(cmd.a[3]), cmd.a[3])

\* Under a plain clip a blit shows at every pixel of the destination the source that belongs there,
\* reads nothing outside the source, and draws nothing else, whatever the clip, the edges of the
\* source and the row buffer cut off, and whatever transfer fails (hal_gfx.c:339-439,
\* hal_display_st7796s.c:778-811).
BlitExact == Plain(asked) =>
  LET a == cmd.a
      Copies(ps, src(_)) == Shows(ps) /\ \A p \in Written : drawn[p] = src(p)
      FromX(p) == p[1] - a[3] + a[5]
      FromY(p) == p[2] - a[4] + a[6]
  IN  /\ cmd.op = "blit" =>
           Copies({p \in Box(a[3], a[4], a[7], a[8]) : FromX(p) \in 0 .. a[1] - 1 /\ FromY(p) \in 0 .. a[2] - 1},
                  LAMBDA p : FromY(p) * a[1] + FromX(p))
      /\ cmd.op = "blitScaled" =>
           Copies(Box(a[3], a[4], a[5], a[6]),
                  LAMBDA p : (((p[2] - a[4]) * a[2]) \div a[6]) * a[1] + ((p[1] - a[3]) * a[1]) \div a[5])

\* From when the driver takes over the backlight, only a panel that is awake, has its orientation and
\* pixel format and is switched on is lit, whatever transfer failed and whatever a restart left in
\* the controller; a panel that cannot be set up stays dark (hal_display_st7796s.c:254-577).
LitIsReady ==
  LET taken == \E i \in 1 .. step - 1 : BringUp[i] = "gpio" IN
    light = "on" /\ (taken \/ hal = "up") => {"SLPOUT", "MADCTL", "COLMOD", "DISPON"} \subseteq heeded
=============================================================================
