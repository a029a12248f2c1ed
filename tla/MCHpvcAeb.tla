----------------------------- MODULE MCHpvcAeb -----------------------------
(***************************************************************************)
(* A small instance of HpvcAeb.  Distances 1 to 5 fall into every band of  *)
(* the limits, with and without a person; 0 is an invalid reading.         *)
(***************************************************************************)
EXTENDS HpvcAeb

Lim(a, b, c) == [full |-> a, partial |-> b, fcw |-> c]
MCFrontLimits  == Lim(1, 2, 3)
MCPersonLimits == Lim(2, 3, 4)
MCSideLimits   == Lim(1, 2, 3)

Range(d, l) == [tof |-> d, left |-> l, right |-> 0]
MCFrontFrames == {Range(d, 0) : d \in {0, 2, 3, 5}} \union {Range(5, 1), Range(0, 2)}

InPath  == [valid |-> TRUE, confident |-> TRUE, centered |-> TRUE]
Aside   == [InPath EXCEPT !.centered = FALSE]
Seen(ps) == [detectionValid |-> TRUE, persons |-> ps]
MCMiddlePackets == {Seen({InPath, Aside}), Seen({Aside})}
=============================================================================
