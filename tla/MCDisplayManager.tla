-------------------------- MODULE MCDisplayManager --------------------------
(* DisplayManager on a panel of five by four pixels: figures that lie inside, across an edge,      *)
(* beyond one, or that reach as far as int16_t does.                                               *)
EXTENDS DisplayManager

\* The last is not plain: it begins left of the panel and above it.
MCClips == {Rect(1, 1, 3, 2), Rect(2, 0, 62, 63), Rect(0, 2, 2, -3), Rect(-2, -1, 5, 4)}

Ats   == {-2, 0, 1, 3}
Sizes == {-1, 0, 1, 2, 3, 7}
Op(name, args) == {[op |-> name, a |-> a] : a \in args}

MCCommands ==
  Op("clear", {<< >>}) \cup Op("pixel", Ats \X Ats)
    \cup Op("fill", Ats \X Ats \X Sizes \X Sizes) \cup Op("fill", {<<1, 1, 63, 63>>})
    \cup Op("rect", Ats \X Ats \X Sizes \X Sizes)
    \cup Op("line", (-2 .. 5) \X (-1 .. 4) \X {-2, 0, 2, 5} \X {-1, 1, 4})
    \cup Op("circle", Ats \X Ats \X (-1 .. 6)) \cup Op("disc", Ats \X Ats \X (-1 .. 6))
    \cup Op("roundRect", {-2, 0, 3} \X {-1, 1} \X {0, 1, 2, 5, 7} \X {0, 1, 3, 5, 7} \X (-1 .. 3))
    \cup Op("roundFill", {-2, 0, 3} \X {-1, 1} \X {0, 1, 2, 5, 7} \X {0, 1, 3, 5, 7} \X (-1 .. 3))
    \cup Op("blit", {3} \X {2} \X Ats \X {-1, 1, 3} \X {-1, 0, 1} \X {-1, 0} \X {0, 2, 3, 9} \X {1, 2})
    \cup Op("blitScaled", {3} \X {2} \X Ats \X {-1, 1, 3} \X (0 .. 8) \X {1, 2, 5})

\* One or more of every operation, some across an edge of the panel.
MCDisturbed ==
  Op("clear", {<< >>}) \cup Op("pixel", {<<1, 1>>}) \cup Op("fill", {<<-2, 1, 7, 2>>, <<1, 0, 3, 7>>})
    \cup Op("rect", {<<0, 1, 3, 3>>, <<1, 0, 7, 2>>}) \cup Op("line", {<<-1, 0, 5, 4>>, <<0, 3, 2, 1>>})
    \cup Op("circle", {<<1, 1, 2>>}) \cup Op("disc", {<<3, 1, 2>>})
    \cup Op("roundRect", {<<0, 1, 5, 3, 1>>}) \cup Op("roundFill", {<<0, -1, 5, 5, 2>>})
    \cup Op("blit", {<<3, 2, 1, 1, 0, 0, 3, 2>>, <<3, 2, 3, 1, -1, 0, 9, 2>>})
    \cup Op("blitScaled", {<<3, 2, 0, 1, 4, 2>>})

MCWindows == {[cols |-> <<1, 3>>, rows |-> <<0, 0>>], [cols |-> <<4, 4>>, rows |-> <<2, 3>>]}
=============================================================================
