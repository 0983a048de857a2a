-------------------------- MODULE FrameClockProofs --------------------------
(***************************************************************************)
(* The clock's account holds for every resolution of the clock and however *)
(* it is set: TimeAccounted is inductive with the types.  The one fact     *)
(* about numbers it rests on is what truncation loses.                     *)
(***************************************************************************)
EXTENDS FrameClock, TLAPS

\* A quotient of naturals is at most a remainder away.
LEMMA Division ==
  ASSUME NEW d \in Nat
  PROVE  /\ d \div TicksPerMs \in Nat
         /\ TicksPerMs * (d \div TicksPerMs) <= d
         /\ d - TicksPerMs * (d \div TicksPerMs) <= TicksPerMs - 1
  BY TicksAssumption, SMT

\* What duration_cast loses of an interval, forward or backward.
LEMMA Truncation ==
  ASSUME NEW d \in Int
  PROVE  /\ Milliseconds(d) \in Int
         /\ TicksPerMs * Milliseconds(d) \in Int
         /\ d >= 0 => /\ TicksPerMs * Milliseconds(d) <= d
                      /\ d - TicksPerMs * Milliseconds(d) <= TicksPerMs - 1
         /\ d < 0  => /\ d <= TicksPerMs * Milliseconds(d)
                      /\ TicksPerMs * Milliseconds(d) - d <= TicksPerMs - 1
<1>1. CASE d >= 0
  <2>1. d \in Nat
    BY <1>1
  <2>. QED
    BY <1>1, <2>1, Division, TicksAssumption DEF Milliseconds
<1>2. CASE d < 0
  <2>1. - d \in Nat
    BY <1>2
  <2>. DEFINE q == (- d) \div TicksPerMs
  <2>2. q \in Nat /\ TicksPerMs * q <= - d /\ (- d) - TicksPerMs * q <= TicksPerMs - 1
    BY <2>1, Division
  <2>3. Milliseconds(d) = - q
    BY <1>2 DEF Milliseconds
  <2>4. TicksPerMs * (- q) = - (TicksPerMs * q) /\ TicksPerMs * q \in Int
    BY <2>2, TicksAssumption
  <2>. QED
    BY <1>2, <2>2, <2>3, <2>4, TicksAssumption
<1>. QED
  BY <1>1, <1>2

Inv == TypeOK /\ TimeAccounted

LEMMA InvInit == Init => Inv
  BY TicksAssumption DEF Init, Inv, TypeOK, TimeAccounted, Behind, Reached

\* Only update's addition moves the account; reading the clock, setting it and
\* ending a frame leave the intervals where they are.
LEMMA InvStep == Inv /\ [Next]_vars => Inv'
<1>. SUFFICES ASSUME Inv, [Next]_vars
              PROVE  Inv'
  OBVIOUS
<1>. USE TicksAssumption DEF Inv, TypeOK
<1>1. CASE Advance
  BY <1>1 DEF Advance, history, TimeAccounted, Behind, Reached
<1>2. CASE ReadClock
  BY <1>2 DEF ReadClock, history, TimeAccounted, Behind, Reached
<1>3. CASE Update
  <2>. DEFINE d == current - prev
              m == TicksPerMs * Milliseconds(d)
  <2>1. d \in Int
    OBVIOUS
  <2>2. /\ Milliseconds(d) \in Int
        /\ m \in Int
        /\ d >= 0 => m <= d /\ d - m <= TicksPerMs - 1
        /\ d < 0 => d <= m /\ m - d <= TicksPerMs - 1
    BY <2>1, Truncation
  <2>3. TypeOK'
    BY <1>3, <2>2 DEF Update, history
  <2>4. TicksPerMs * frameTime' = TicksPerMs * frameTime + m
    BY <1>3, <2>2 DEF Update
  <2>5. Behind' = Behind + (d - m) /\ Behind \in Int
    BY <1>3, <2>1, <2>2, <2>4 DEF Update, Behind, Reached
  <2>6. forward * (TicksPerMs - 1) \in Int /\ backward * (TicksPerMs - 1) \in Int
    OBVIOUS
  <2>7. CASE current >= prev
    <3>1. forward' = forward + 1 /\ backward' = backward
      BY <1>3, <2>7 DEF Update
    <3>2. (forward + 1) * (TicksPerMs - 1) = forward * (TicksPerMs - 1) + (TicksPerMs - 1)
      OBVIOUS
    <3>3. TimeAccounted'
      BY <2>1, <2>2, <2>5, <2>6, <2>7, <3>1, <3>2 DEF TimeAccounted
    <3>. QED
      BY <2>3, <3>3
  <2>8. CASE current < prev
    <3>1. backward' = backward + 1 /\ forward' = forward
      BY <1>3, <2>8 DEF Update
    <3>2. (backward + 1) * (TicksPerMs - 1) = backward * (TicksPerMs - 1) + (TicksPerMs - 1)
      OBVIOUS
    <3>3. TimeAccounted'
      BY <2>1, <2>2, <2>5, <2>6, <2>8, <3>1, <3>2 DEF TimeAccounted
    <3>. QED
      BY <2>3, <3>3
  <2>. QED
    BY <2>7, <2>8
<1>4. CASE EndFrame
  BY <1>4 DEF EndFrame, history, TimeAccounted, Behind, Reached
<1>5. CASE UNCHANGED vars
  BY <1>5 DEF vars, history, TimeAccounted, Behind, Reached
<1>. QED
  BY <1>1, <1>2, <1>3, <1>4, <1>5 DEF Next

LEMMA Invariance == Spec => []Inv
  BY InvInit, InvStep, PTL DEF Spec

\* The stamps, the sum and the history of the clock keep their types.
THEOREM TypeCorrect == Spec => []TypeOK
<1>1. Inv => TypeOK
  BY DEF Inv
<1>. QED
  BY Invariance, <1>1, PTL

\* Whatever the clock's resolution and however it is set, the time handed to
\* update, frame after frame, is the time that passed, short of what truncation
\* to milliseconds loses.
THEOREM ClockCorrect == Spec => []TimeAccounted
<1>1. Inv => TimeAccounted
  BY DEF Inv
<1>. QED
  BY Invariance, <1>1, PTL

=============================================================================
