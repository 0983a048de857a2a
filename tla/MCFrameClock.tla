---- MODULE MCFrameClock ----
(* A clock of three ticks to the millisecond that is set back, is still, or *)
(* goes on, watched for MaxFrames frames and within MaxNow of its start.    *)
EXTENDS FrameClock

SetBack == {-4, -1, 0, 1, 2, 5}

MaxFrames == 4
MaxNow    == 12

Bound == forward + backward <= MaxFrames /\ now \in (- MaxNow) .. MaxNow
====
