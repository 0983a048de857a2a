----------------------------- MODULE FrameClock -----------------------------
(***************************************************************************)
(* The time that app::run hands to update, and that update adds up for the *)
(* film grain.  app::run reads std::chrono::system_clock at the top of     *)
(* every pass of its loop, truncates the difference to the previous pass   *)
(* to whole milliseconds, and keeps the reading, not the time the frame    *)
(* ended, as the start of the next interval.  The clock is the system's:   *)
(* beside running, it can be set, backwards as well as forwards.           *)
(*                                                                         *)
(* Time is in ticks of the clock, TicksPerMs of them to a millisecond.     *)
(* The sum's float rounding is left out: it is a sum of integers here.     *)
(***************************************************************************)
EXTENDS Integers

CONSTANTS
  TicksPerMs,  \* system_clock's resolution
  Advances     \* how far the clock can go between two steps of the program, in ticks

ASSUME TicksAssumption == TicksPerMs \in Nat \ {0} /\ Advances \subseteq Int

VARIABLES
  pc,         \* "read": at the top of the loop, "update", or "frame": rendering
  now,        \* the system's clock
  current,    \* current_time_stamp
  prev,       \* prev_time_stamp
  frameTime,  \* the milliseconds update has added up
  start,      \* history: prev_time_stamp before the loop
  forward,    \* history: how many intervals were handed to update
  backward    \* history: how many more, over which the clock had gone back

history == <<start, forward, backward>>
vars    == <<pc, now, current, prev, frameTime, history>>

\* A mutant: the remainder is rounded away from zero.
MillisecondsRounded(d) ==
  IF d >= 0 THEN (d + TicksPerMs) \div TicksPerMs ELSE - ((- d) \div TicksPerMs)

\* duration_cast truncates towards zero.
Milliseconds(d) == IF d >= 0 THEN d \div TicksPerMs ELSE - ((- d) \div TicksPerMs)

\* The loop is entered; current_time_stamp is overwritten before it is used.
Init ==
  /\ pc = "read"
  /\ now = 0 /\ current = 0 /\ prev = 0 /\ start = 0
  /\ frameTime = 0
  /\ forward = 0 /\ backward = 0

Advance == \E d \in Advances :
  /\ now' = now + d
  /\ UNCHANGED <<pc, current, prev, frameTime, history>>

ReadClock ==
  /\ pc = "read"
  /\ pc' = "update"
  /\ current' = now
  /\ UNCHANGED <<now, prev, frameTime, history>>

Update ==
  /\ pc = "update"
  /\ pc' = "frame"
  /\ frameTime' = frameTime + Milliseconds(current - prev)
  /\ IF current >= prev
     THEN forward' = forward + 1 /\ UNCHANGED backward
     ELSE backward' = backward + 1 /\ UNCHANGED forward
  /\ UNCHANGED <<now, current, prev, start>>

\* A mutant: the interval starts where the frame ended, the time it took is lost.
EndFrameAtNow ==
  /\ pc = "frame"
  /\ pc' = "read"
  /\ prev' = now
  /\ UNCHANGED <<now, current, frameTime, history>>

EndFrame ==
  /\ pc = "frame"
  /\ pc' = "read"
  /\ prev' = current
  /\ UNCHANGED <<now, current, frameTime, history>>

Next == Advance \/ ReadClock \/ Update \/ EndFrame

Spec == Init /\ [][Next]_vars

-----------------------------------------------------------------------------

\* Types of the stamps, the sum and the counts; and at the top of the loop the next
\* interval starts at the last reading of the clock.
TypeOK ==
  /\ pc \in {"read", "update", "frame"}
  /\ now \in Int /\ current \in Int /\ prev \in Int /\ start \in Int
  /\ frameTime \in Int
  /\ forward \in Nat /\ backward \in Nat
  /\ pc = "read" => prev = current

\* The reading up to which the intervals handed to update reach.
Reached == IF pc = "frame" THEN current ELSE prev

\* How far update's sum is behind the clock, in ticks.
Behind == (Reached - start) - TicksPerMs * frameTime

\* The intervals handed to update follow one another without gap or overlap,
\* whatever the clock does and however long a frame takes: the sum falls behind the
\* clock by less than a millisecond for every interval, and gets ahead of it by less
\* than one for every interval over which the clock was set back, and never else.
TimeAccounted ==
  /\ Behind <= forward * (TicksPerMs - 1)
  /\ - Behind <= backward * (TicksPerMs - 1)

=============================================================================
