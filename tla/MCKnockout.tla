----------------------------- MODULE MCKnockout -----------------------------
EXTENDS Knockout

R(a, b, c, d) == [x0 |-> a, y0 |-> b, x1 |-> c, y1 |-> d]

(* All of the target, its middle, a row, a column (of which one of the clips *)
(* leaves nothing), a corner and a pixel aside.                              *)
MCFills == {R(0,0,3,3), R(1,1,2,2), R(0,1,3,2), R(0,0,1,3), R(0,0,2,2), R(2,1,3,3)}
MCBitmaps == {R(0,0,3,3), R(1,1,3,2)}
MCOverlays == {R(1,0,3,2)}
(* The last one is bad. *)
MCClips == {Whole, R(1,0,3,3), R(2,0,1,3)}
=============================================================================
