--------------------------- MODULE SshCall_proofs ---------------------------
(***************************************************************************)
(* Proofs about SshCall, for any number of cancellations.                  *)
(***************************************************************************)
EXTENDS SshCall, TLAPS

\* What is known of the launch and the child at each await.
Gone == child \in {"none", "reaped"}

Tracked ==
  /\ launch = "made" <=> child # "none"
  /\ pc = "launch" => cancels = 0 /\ ~Overflowed
  /\ pc = "own" => cancels >= 1 /\ ~Overflowed
  /\ pc = "talk" => launch = "made" /\ cancels = 0 /\ ~Overflowed
  /\ pc \in {"term", "kill"} => launch = "made" /\ (Overflowed \/ cancels >= 1)
  /\ pc = "returned" => launch = "made" /\ child = "reaped" /\ cancels = 0
  /\ pc = "raised" => launch # "pending" /\ Gone /\ (Overflowed \/ cancels = 0)
  /\ pc = "cancelled" => launch # "pending" /\ cancels >= 1 /\ (StoppedOnce => Gone)

IInv == TypeOK /\ Tracked

LEMMA InitIInv == Init => IInv
  BY CallAssumption DEF Init, IInv, TypeOK, Tracked, Gone, Overflowed, StoppedOnce,
     Awaits, Endings, Final

\* Every step keeps the invariant; by the actor that takes it.
LEMMA StepIInv == IInv /\ [Next]_vars => IInv'
  <1> SUFFICES ASSUME IInv, [Next]_vars PROVE IInv'
    OBVIOUS
  <1> USE CallAssumption DEF IInv, TypeOK, Tracked, Gone, Overflowed, StoppedOnce,
      Awaits, Endings, Final
  <1>1. CASE LaunchEnds
    BY <1>1 DEF LaunchEnds, LaunchMakes, LaunchFails
  <1>2. CASE ChildFinishes \/ ChildDies \/ Reap
    BY <1>2 DEF ChildFinishes, ChildDies, Reap
  <1>3. CASE Launched
    BY <1>3 DEF Launched
  <1>4. CASE Owned
    BY <1>4 DEF Owned, Stop, Signal
  <1>5. CASE TalkEnds \/ Stopped
    BY <1>5 DEF TalkEnds, Stopped
  <1>6. CASE Overflow
    BY <1>6 DEF Overflow, Stop, Signal
  <1>7. CASE StopTimeout
    BY <1>7 DEF StopTimeout, Signal
  <1>8. CASE Cancel
    <2>1. cancels' = cancels + 1 /\ cancels' \in 1..MaxCancels
      BY <1>8 DEF Cancel
    <2>2. UNCHANGED <<child, bounded, stubborn>>
      BY <1>8 DEF Cancel
    <2>3. CASE pc = "launch" /\ launch = "pending" /\ pc' = "own"
               /\ UNCHANGED <<ending, launch, signals>>
      BY <2>1, <2>2, <2>3
    <2>4. CASE (pc = "launch" \/ pc = "talk") /\ launch = "made" /\ Stop("cancelled")
               /\ UNCHANGED launch
      BY <2>1, <2>2, <2>4 DEF Stop, Signal
    <2>5. CASE pc = "own" /\ launch = "pending" /\ launch' = "aborted"
               /\ pc' = "cancelled" /\ UNCHANGED <<ending, signals>>
      BY <2>1, <2>2, <2>5
    <2>6. CASE /\ \/ pc \in {"launch", "own"} /\ launch = "failed"
                  \/ pc = "own" /\ launch = "made"
                  \/ pc \in {"term", "kill"}
               /\ pc' = "cancelled"
               /\ UNCHANGED <<ending, launch, signals>>
      BY <2>1, <2>2, <2>6
    <2>7. CASE pc = "term" /\ UNCHANGED <<pc, ending, launch, signals>>
      BY <2>1, <2>2, <2>7
    <2> QED
      BY <1>8, <2>3, <2>4, <2>5, <2>6, <2>7 DEF Cancel
  <1>9. CASE UNCHANGED vars
    BY <1>9 DEF vars
  <1> QED
    BY <1>1, <1>2, <1>3, <1>4, <1>5, <1>6, <1>7, <1>8, <1>9 DEF Next, Caller

\* Every state of a call is one the invariant describes.
THEOREM Invariance == Spec => []IInv
  BY InitIInv, StepIInv, PTL DEF Spec

\* Every reachable state has the modelled shape.
THEOREM TypeCorrect == Spec => []TypeOK
  <1>1. IInv => TypeOK
    BY DEF IInv
  <1> QED
    BY <1>1, Invariance, PTL

\* However many cancellations come, a call stopped for one reason leaves no
\* child (ssh.run's ownership of the launch, and _stop).
THEOREM OneStop == Spec => []OneStopReaps
  <1>1. IInv => OneStopReaps
    BY CallAssumption DEF IInv, TypeOK, Tracked, Gone, Overflowed, StoppedOnce,
       OneStopReaps, NoChildLeft, Awaits, Endings, Final
  <1> QED
    BY <1>1, Invariance, PTL

\* What ssh.run returns or raises by itself is about a child that is gone.
THEOREM Reaped == Spec => []ReportedMeansReaped
  <1>1. IInv => ReportedMeansReaped
    BY DEF IInv, Tracked, Gone, ReportedMeansReaped
  <1> QED
    BY <1>1, Invariance, PTL

\* A cancellation comes out of ssh.run as one, unless the limit was exceeded.
THEOREM NotSwallowed == Spec => []CancelNotSwallowed
  <1>1. IInv => CancelNotSwallowed
    BY CallAssumption DEF IInv, TypeOK, Tracked, CancelNotSwallowed, Overflowed,
       Awaits, Endings, Final
  <1> QED
    BY <1>1, Invariance, PTL

-----------------------------------------------------------------------------
(* The promise.                                                            *)

\* Each step of the call is a step of the promise, or concerns it not.
LEMMA PromiseStep == IInv /\ [Next]_vars => [Promise!PromiseNext]_Promise!promise
  <1> SUFFICES ASSUME IInv, [Next]_vars
               PROVE  \/ UNCHANGED Promise!promise
                      \/ \E c \in This :
                           \/ Promise!ChildGone(c) \/ Promise!Answers(c) \/ Promise!Stops(c)
                           \/ Promise!Stopped(c) \/ Promise!StopsAgain(c)
    BY DEF Promise!PromiseNext
  <1> USE CallAssumption DEF IInv, TypeOK, Tracked, Gone, Overflowed, Awaits, Endings,
      Final, This, Promise!promise, Promise!Moves, Promise!Pays, Promise!Counts
  <1>1. CASE LaunchMakes \/ ChildFinishes \/ ChildDies \/ StopTimeout \/ UNCHANGED vars
    BY <1>1 DEF LaunchMakes, ChildFinishes, ChildDies, StopTimeout, vars
  <1>2. CASE LaunchFails \/ Reap
    BY <1>2 DEF LaunchFails, Reap, Promise!ChildGone
  <1>3. CASE Launched
    BY <1>3 DEF Launched, Promise!Answers
  <1>4. CASE Owned
    BY <1>4 DEF Owned, Stop, Promise!Stopped
  <1>5. CASE TalkEnds
    BY <1>5 DEF TalkEnds, Promise!Answers
  <1>6. CASE Stopped
    BY <1>6 DEF Stopped, Promise!Stopped
  <1>7. CASE Overflow
    BY <1>7 DEF Overflow, Stop, Promise!Stops
  <1>8. CASE Cancel /\ pc \in {"launch", "talk"}
    BY <1>8 DEF Cancel, Stop, Promise!Stops
  <1>9. CASE Cancel /\ pc \in {"own", "term", "kill"}
    BY <1>9 DEF Cancel, Promise!StopsAgain
  <1> QED
    BY <1>1, <1>2, <1>3, <1>4, <1>5, <1>6, <1>7, <1>8, <1>9
    DEF Next, Caller, LaunchEnds, Cancel

\* ssh.run keeps the promise that the pane calls build on, for any number of
\* cancellations and wherever they find it.
THEOREM Refinement == Spec => KeepsPromise
  <1>1. Init => Promise!PromiseInit
    BY DEF Init, This, Final, Promise!PromiseInit
  <1>2. IInv /\ [Next]_vars => [Promise!PromiseNext]_Promise!promise
    BY PromiseStep
  <1> QED
    BY <1>1, <1>2, Invariance, PTL DEF Spec, KeepsPromise, Promise!PromiseSpec
=============================================================================
