---- MODULE MCUpdate ----
(* A cursor with two places and a mouse that moves by one or not at all,  *)
(* for as many frames as it takes to leave camera 2 and come back to it;  *)
(* the virtual cursor is followed to MaxVirtual either way.               *)
EXTENDS Update

MousePlaces  == {0, 1}
MouseMotions == {-1, 0, 1}

MaxMoves   == 6
MaxVirtual == 2

Bound == moves < MaxMoves /\ position[0] <= 1 /\ virtual \in (- MaxVirtual) .. MaxVirtual
====
