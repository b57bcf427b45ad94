------------------------------ MODULE Graphics ------------------------------
(***************************************************************************)
(* The drawing primitives, hal_gfx.c: what each asks of the display, as    *)
(* the jobs of the panel driver in their order. A blit sends indices into  *)
(* its source.                                                             *)
(*                                                                         *)
(* A coordinate handed to the display router is unsigned, so one below     *)
(* zero lies off the panel.                                                *)
(***************************************************************************)
EXTENDS PanelDriver

CONSTANTS
  Int16Max,         \* INT16_MAX
  RowBuf            \* HAL_GFX_MAX_ROW_BUF

ASSUME GraphicsOK ==
  /\ Int16Max \in Nat /\ RowBuf \in Nat \ {0}
  /\ PanelW <= Int16Max /\ PanelH <= Int16Max

Abs(a)        == IF a < 0 THEN -a ELSE a
Int16(n)      == ((n + Int16Max + 1) % (2 * (Int16Max + 1))) - (Int16Max + 1)
\* Division as C does it.
Quotient(a, b) == IF a >= 0 THEN a \div b ELSE -((-a) \div b)

Nothing == << >>
All(drawings) == FlattenSeq(drawings)

-----------------------------------------------------------------------------
(* Clipping *)

Rect(x, y, w, h) == [x |-> x, y |-> y, w |-> w, h |-> h]
FullClip == Rect(0, 0, PanelW, PanelH)
Clipped(c, x, y) == x >= c.x /\ y >= c.y /\ x < c.x + c.w /\ y < c.y + c.h

\* HAL_GFX_SetClip() takes any corner, and no negative size.
Clamped(c) == Rect(c.x, c.y, Greater(c.w, 0), Greater(c.h, 0))

\* A rectangle cut to a clip that reaches to (cx2, cy2); an empty one if nothing is left of it.
CutTo(c, cx2, cy2, x, y, w, h) ==
  LET x1 == Greater(x, c.x)  x2 == Lesser(Int16(x + w - 1), cx2)
      y1 == Greater(y, c.y)  y2 == Lesser(Int16(y + h - 1), cy2)
  IN  IF w <= 0 \/ h <= 0 \/ x1 > x2 \/ y1 > y2 THEN Rect(0, 0, 0, 0)
      ELSE Rect(x1, y1, x2 - x1 + 1, y2 - y1 + 1)

\* rect_intersect(), which keeps the far edges of the clip in int16_t.
RectIntersect(c, x, y, w, h) ==
  CutTo(c, Int16(c.x + c.w - 1), Int16(c.y + c.h - 1), x, y, w, h)

-----------------------------------------------------------------------------
(* Pixels, rectangles and lines *)

DrawPixel(c, x, y) == IF Clipped(c, x, y) THEN PanelPixel(x, y) ELSE Nothing
DrawPixels(c, ps)  == All(SetToSeq({DrawPixel(c, p[1], p[2]) : p \in ps}))

FillRect(c, x, y, w, h) ==
  LET r == RectIntersect(c, x, y, w, h) IN PanelFillRect(r.x, r.y, r.w, r.h)

DrawHLine(c, x, y, w) == FillRect(c, x, y, w, 1)
DrawVLine(c, x, y, h) == FillRect(c, x, y, 1, h)

DrawRect(c, x, y, w, h) ==
  IF w <= 0 \/ h <= 0 THEN Nothing
  ELSE All(<<DrawHLine(c, x, y, w), DrawHLine(c, x, y + h - 1, w),
             DrawVLine(c, x, y + 1, h - 2), DrawVLine(c, x + w - 1, y + 1, h - 2)>>)

\* Bresenham's line; e is err, which both updates of a round compare as it was before.
LineStep(dx, dy, sx, sy, s) ==
  LET goX == s.e > -dx  goY == s.e < dy IN
    [x |-> IF goX THEN s.x + sx ELSE s.x, y |-> IF goY THEN s.y + sy ELSE s.y,
     e |-> s.e - (IF goX THEN dy ELSE 0) + (IF goY THEN dx ELSE 0)]

LinePixels(x0, y0, x1, y1) ==
  LET dx == Abs(x1 - x0)  dy == Abs(y1 - y0)
      sx == IF x0 < x1 THEN 1 ELSE -1  sy == IF y0 < y1 THEN 1 ELSE -1
      at[i \in 0 .. dx + dy] ==
        IF i = 0 THEN [x |-> x0, y |-> y0, e |-> Quotient(IF dx > dy THEN dx ELSE -dy, 2)]
        ELSE LineStep(dx, dy, sx, sy, at[i - 1])
      Ends(i) == at[i].x = x1 /\ at[i].y = y1
      last    == CHOOSE i \in 0 .. dx + dy : Ends(i) /\ \A j \in 0 .. i - 1 : ~Ends(j)
  IN  {<<at[i].x, at[i].y>> : i \in 0 .. last}

DrawLine(c, x0, y0, x1, y1) ==
  IF y0 = y1 THEN DrawHLine(c, Lesser(x0, x1), y0, Abs(x1 - x0) + 1)
  ELSE IF x0 = x1 THEN DrawVLine(c, x0, Lesser(y0, y1), Abs(y1 - y0) + 1)
  ELSE DrawPixels(c, LinePixels(x0, y0, x1, y1))

-----------------------------------------------------------------------------
(* Circles *)

\* The midpoint rule: row y and d of the loop's round for column x + 1, from those for column x.
OctantStep(x, s) ==
  IF s.d < 0 THEN [y |-> s.y, d |-> s.d + 4 * (x + 1) + 6]
  ELSE [y |-> s.y - 1, d |-> s.d + 4 * (x + 1 - s.y) + 10]

\* Mutant of Octant: the loop ends before the diagonal.
OctantShort(r) ==
  LET at[x \in 0 .. r] == IF x = 0 THEN [y |-> r, d |-> 3 - 2 * r] ELSE OctantStep(x - 1, at[x - 1])
  IN  {<<x, at[x].y>> : x \in {i \in 0 .. r : i < at[i].y}}

\* The eighth of a circle from the top to the diagonal; no round after the diagonal returns to it.
Octant(r) ==
  LET at[x \in 0 .. r] == IF x = 0 THEN [y |-> r, d |-> 3 - 2 * r] ELSE OctantStep(x - 1, at[x - 1])
  IN  {<<x, at[x].y>> : x \in {i \in 0 .. r : i <= at[i].y}}

\* gfx_draw_circle_quarter()
QuarterPixels(cx, cy, r, qx, qy) ==
  IF r <= 0 THEN {}
  ELSE UNION {{<<cx + qx * p[1], cy + qy * p[2]>>, <<cx + qx * p[2], cy + qy * p[1]>>} : p \in Octant(r)}

DrawCircle(c, cx, cy, r) ==
  IF r < 0 THEN Nothing ELSE IF r = 0 THEN DrawPixel(c, cx, cy)
  ELSE DrawPixels(c, UNION {QuarterPixels(cx, cy, r, qx, qy) : qx \in {-1, 1}, qy \in {-1, 1}})

FillCircle(c, cx, cy, r) ==
  IF r < 0 THEN Nothing ELSE IF r = 0 THEN DrawPixel(c, cx, cy)
  ELSE All(SetToSeq(UNION {{DrawHLine(c, cx - p[1], cy + s * p[2], 2 * p[1] + 1),
                            DrawHLine(c, cx - p[2], cy + s * p[1], 2 * p[2] + 1)} :
                             p \in Octant(r), s \in {-1, 1}}))

\* gfx_fill_circle_quarter()
FillQuarter(c, cx, cy, r, qx, qy) ==
  LET Span(dx, dy) == DrawHLine(c, IF qx > 0 THEN cx ELSE cx - dx, cy + qy * dy, dx + 1)
  IN  IF r <= 0 THEN Nothing
      ELSE All(SetToSeq(UNION {{Span(p[1], p[2]), Span(p[2], p[1])} : p \in Octant(r)}))

CornerRadius(w, h, r) == Lesser(Greater(r, 0), Lesser(w, h) \div 2)

DrawRoundRect(c, x, y, w, h, r0) ==
  LET r == CornerRadius(w, h, r0)
      left == x + r  right == x + w - r - 1  top == y + r  bottom == y + h - r - 1
  IN  IF w <= 0 \/ h <= 0 THEN Nothing ELSE IF r = 0 THEN DrawRect(c, x, y, w, h)
      ELSE All(<<DrawHLine(c, left, y, w - 2 * r), DrawHLine(c, left, y + h - 1, w - 2 * r),
                 DrawVLine(c, x, top, h - 2 * r), DrawVLine(c, x + w - 1, top, h - 2 * r),
                 DrawPixels(c, QuarterPixels(left, top, r, -1, -1)),
                 DrawPixels(c, QuarterPixels(right, top, r, 1, -1)),
                 DrawPixels(c, QuarterPixels(left, bottom, r, -1, 1)),
                 DrawPixels(c, QuarterPixels(right, bottom, r, 1, 1))>>)

FillRoundRect(c, x, y, w, h, r0) ==
  LET r == CornerRadius(w, h, r0)
      left == x + r  right == x + w - r - 1  top == y + r  bottom == y + h - r - 1
  IN  IF w <= 0 \/ h <= 0 THEN Nothing ELSE IF r = 0 THEN FillRect(c, x, y, w, h)
      ELSE All(<<FillRect(c, left, y, w - 2 * r, h), FillRect(c, x, top, r, h - 2 * r),
                 FillRect(c, x + w - r, top, r, h - 2 * r),
                 FillQuarter(c, left, top, r, -1, -1), FillQuarter(c, right, top, r, 1, -1),
                 FillQuarter(c, left, bottom, r, -1, 1), FillQuarter(c, right, bottom, r, 1, 1)>>)

-----------------------------------------------------------------------------
(* Bitmaps, row-major *)

\* One row of a blit through s_row_buf, src[x] the source of column x.
Row(x1, y, w, src) ==
  LET starts == {x1 + RowBuf * k : k \in 0 .. (w - 1) \div RowBuf}
      Part(x) == PanelBlitRow(x, y, [i \in 1 .. Lesser(RowBuf, x1 + w - x) |-> src[x + i - 1]])
  IN  All(SetToSeq({Part(x) : x \in starts}))

\* Mutant of Blit: a destination cut off at its top or left keeps the start of the source.
BlitUnshifted(c, sw, sh, dx, dy, sx, sy, cw, ch) ==
  LET ax == Lesser(sx, 0)  ay == Lesser(sy, 0)
      w == Lesser(cw + ax, sw - Greater(sx, 0))  h == Lesser(ch + ay, sh - Greater(sy, 0))
      r == RectIntersect(c, dx - ax, dy - ay, w, h)
      from(y) == [x \in r.x .. r.x + r.w - 1 |-> (Greater(sy, 0) + y - r.y) * sw + Greater(sx, 0) + x - r.x]
  IN  All([k \in 1 .. r.h |-> Row(r.x, r.y + k - 1, r.w, from(r.y + k - 1))])

\* HAL_GFX_Blit(): first cut to the bitmap, then to the clip; what is cut off moves the source.
Blit(c, sw, sh, dx, dy, sx, sy, cw, ch) ==
  LET ax == Lesser(sx, 0)  ay == Lesser(sy, 0)
      w == Lesser(cw + ax, sw - Greater(sx, 0))  h == Lesser(ch + ay, sh - Greater(sy, 0))
      r == RectIntersect(c, dx - ax, dy - ay, w, h)
      fromX == Greater(sx, 0) + r.x - (dx - ax)  fromY == Greater(sy, 0) + r.y - (dy - ay)
      from(y) == [x \in r.x .. r.x + r.w - 1 |-> (fromY + y - r.y) * sw + fromX + x - r.x]
  IN  All([k \in 1 .. r.h |-> Row(r.x, r.y + k - 1, r.w, from(r.y + k - 1))])

\* HAL_GFX_BlitScaled(): nearest neighbour; the far edges of the clip are compared as int.
BlitScaled(c, sw, sh, dx, dy, dw, dh) ==
  LET r == CutTo(c, c.x + c.w - 1, c.y + c.h - 1, dx, dy, dw, dh)
      From(d, size, to) == Lesser((d * size) \div to, size - 1)
      from(y) == [x \in r.x .. r.x + r.w - 1 |-> From(y - dy, sh, dh) * sw + From(x - dx, sw, dw)]
  IN  All([k \in 1 .. r.h |-> Row(r.x, r.y + k - 1, r.w, from(r.y + k - 1))])
=============================================================================
