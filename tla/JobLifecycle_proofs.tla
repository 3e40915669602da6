----------------------- MODULE JobLifecycle_proofs -----------------------
(***************************************************************************)
(* Proofs about JobLifecycle for every set of jobs, number of slots, limit *)
(* of recovered records, number of starts and set of faults.               *)
(***************************************************************************)
EXTENDS JobLifecycle, TLAPS, FiniteSetTheorems

-----------------------------------------------------------------------------
(* Type correctness.                                                       *)

LEMMA TypeSubmit ==
  ASSUME TypeOK, NEW j \in Jobs, Submit(j) \/ SubmitUntracked(j) \/ Acquire(j)
  PROVE  TypeOK'
<1> USE DEF TypeOK, host, task, service, Unfinished, Holding, NoTask, Calls,
            Effects, Replies
<1>1. CASE Submit(j)
  <2>1. Records \subseteq Jobs
    BY DEF Records
  <2>2. Cardinality(Records) \in Nat
    BY <2>1, LifecycleAssumption, FS_Subset, FS_CardinalityType
  <2>3. Append(queue, j) \in Seq(Jobs)
    BY DEF TypeOK
  <2> QED
    BY <1>1, <2>2, <2>3 DEF Submit, CreateRecord
<1>2. CASE SubmitUntracked(j)
  <2>1. Cardinality(Records) \in Nat
    BY LifecycleAssumption, FS_Subset, FS_CardinalityType DEF Records
  <2> QED
    BY <1>2, <2>1 DEF SubmitUntracked, CreateRecord
<1>3. CASE Acquire(j)
  <2>1. Tail(queue) \in Seq(Jobs)
    BY <1>3 DEF Acquire
  <2> QED
    BY <1>3, <2>1 DEF Acquire, Send, disk
<1> QED
  BY <1>1, <1>2, <1>3

\* A task that is forgotten has no place, and its slot is free.
LEMMA EndEffect ==
  ASSUME TypeOK, NEW j \in Jobs, NEW place, End(j, place)
  PROVE  /\ pc' = [pc EXCEPT ![j] = place]
         /\ mode' = [mode EXCEPT ![j] = "execute"]
         /\ reply' = [reply EXCEPT ![j] = "wait"]
         /\ free' = free + 1
         /\ UNCHANGED <<broker, queue, starts>>
  BY DEF TypeOK, End, Forget

LEMMA TypeProgress ==
  ASSUME TypeOK, NEW j \in Jobs, Progress(j) \/ TaskFails(j) \/ TaskCrashes(j)
  PROVE  TypeOK'
<1>0. ASSUME NEW place \in NoTask, End(j, place)
      PROVE  /\ pc' \in [Jobs -> NoTask \cup {"queued"} \cup Holding]
             /\ mode' \in [Jobs -> {"execute", "recover", "astray"}]
             /\ reply' \in [Jobs -> Replies]
             /\ free' \in Int
             /\ broker' = broker /\ queue' = queue /\ starts' = starts
  <2>1. /\ pc' = [pc EXCEPT ![j] = place]
        /\ mode' = [mode EXCEPT ![j] = "execute"]
        /\ reply' = [reply EXCEPT ![j] = "wait"]
        /\ free' = free + 1
        /\ UNCHANGED <<broker, queue, starts>>
    BY <1>0, EndEffect
  <2>2. /\ pc' \in [Jobs -> NoTask \cup {"queued"} \cup Holding]
        /\ mode' \in [Jobs -> {"execute", "recover", "astray"}]
    BY <2>1 DEF TypeOK
  <2>3. reply' \in [Jobs -> Replies]
    BY <2>1 DEF TypeOK, Replies
  <2> QED
    BY <2>1, <2>2, <2>3 DEF TypeOK
<1> USE DEF TypeOK, disk, host, task, service, Answered, Send, Goto,
            Record, RecordError, Unfinished, Settled, Codes, Calls, Effects,
            Saving, Holding, NoTask, Replies
<1>1. CASE Acquire(j)
  BY <1>1, TypeSubmit
<1>2. CASE Staged(j)            BY <1>2 DEF Staged
<1>3. CASE AccessGranted(j)     BY <1>3 DEF AccessGranted
<1>4. CASE Started(j)           BY <1>4 DEF Started
<1>5. CASE NotDone(j)           BY <1>5 DEF NotDone
<1>6. CASE Wake(j)              BY <1>6 DEF Wake
<1>7. CASE CompletionSeen(j)    BY <1>7 DEF CompletionSeen
<1>8. CASE CompletionMissing(j) BY <1>8 DEF CompletionMissing
<1>9. CASE SessionSeen(j)       BY <1>9 DEF SessionSeen
<1>10. CASE SessionMissing(j)
  <2>1. state' \in [Jobs -> {"none"} \cup Unfinished \cup Settled] /\ code' \in [Jobs -> Codes]
    BY <1>10 DEF SessionMissing
  <2> QED
    BY <1>10, <1>0, <2>1 DEF SessionMissing, Leave
<1>11. CASE Collected(j)        BY <1>11 DEF Collected
<1>12. CASE SaveStdout(j)       BY <1>12 DEF SaveStdout, SaveOutput
<1>13. CASE SaveStderr(j)       BY <1>13 DEF SaveStderr, SaveOutput
<1>14. CASE SaveComplete(j)     BY <1>14 DEF SaveComplete
<1>15. CASE CleanedUp(j)        BY <1>15, <1>0 DEF CleanedUp, Leave
<1>16. CASE TaskFails(j)
  <2>1. state' \in [Jobs -> {"none"} \cup Unfinished \cup Settled] /\ code' \in [Jobs -> Codes]
    BY <1>16 DEF TaskFails, ErrorState, ErrorCode
  <2> QED
    BY <1>16, <1>0, <2>1 DEF TaskFails, Leave
<1>17. CASE TaskCrashes(j)
  <2>1. state' \in [Jobs -> {"none"} \cup Unfinished \cup Settled] /\ code' \in [Jobs -> Codes]
    <3>1. ASSUME NEW s \in {"running"} \cup Settled, NEW c \in Codes, RecordError(j, s, c)
          PROVE  state' \in [Jobs -> {"none"} \cup Unfinished \cup Settled]
                   /\ code' \in [Jobs -> Codes]
      BY <3>1
    <3>2. CASE UNCHANGED disk
      BY <3>2
    <3> HIDE DEF RecordError, Codes, Settled, Unfinished, disk, TypeOK
    <3> QED
      BY <1>17, <3>1, <3>2 DEF TaskCrashes
  <2>2. created' \in [Jobs -> Nat] /\ saved' \in [Jobs -> SUBSET {"stdout", "stderr"}]
    BY <1>17 DEF TaskCrashes
  <2>3. End(j, "broken") /\ UNCHANGED host
    BY <1>17 DEF TaskCrashes, Break
  <2> QED
    <3>1. /\ pc' \in [Jobs -> NoTask \cup {"queued"} \cup Holding]
          /\ mode' \in [Jobs -> {"execute", "recover", "astray"}]
          /\ reply' \in [Jobs -> Replies]
          /\ free' \in Int
          /\ broker' = broker /\ queue' = queue /\ starts' = starts
      BY <2>3, <1>0
    <3> QED
      BY <2>1, <2>2, <2>3, <3>1
<1> QED
  BY <1>1, <1>2, <1>3, <1>4, <1>5, <1>6, <1>7, <1>8, <1>9, <1>10, <1>11,
     <1>12, <1>13, <1>14, <1>15, <1>16, <1>17 DEF Progress

LEMMA EffectType ==
  ASSUME TypeOK, NEW j \in Jobs, NEW command, Effect(j, command)
  PROVE  /\ files' \in [Jobs -> Files]
         /\ session' \in [Jobs -> {"none", "live", "ended"}]
         /\ runs' \in [Jobs -> Nat]
<1> USE DEF TypeOK, Files, Effect
<1>1. CASE command = "stage"    BY <1>1
<1>2. CASE command = "start"
  <2>1. runs' = [runs EXCEPT ![j] = runs[j] + 1] /\ runs[j] + 1 \in Nat
    BY <1>2
  <2>2. runs' \in [Jobs -> Nat]
    BY <2>1
  <2> QED
    BY <1>2, <2>2
<1>3. CASE command = "cleanup"  BY <1>3
<1> QED
  BY <1>1, <1>2, <1>3

LEMMA TypeMachine ==
  ASSUME TypeOK, NEW j \in Jobs,
         Remote(j) \/ Wrapper(j) \/ RunStray(j) \/ Refuse(j)
           \/ Disconnect(j) \/ KillClient(j) \/ SessionDies(j)
  PROVE  TypeOK'
<1> USE DEF TypeOK, disk, host, task, service, Answer, Files, Effects, Replies
<1>1. CASE RunEffect(j)
  <2>1. /\ files' \in [Jobs -> Files]
        /\ session' \in [Jobs -> {"none", "live", "ended"}]
        /\ runs' \in [Jobs -> Nat]
    BY <1>1, EffectType DEF RunEffect
  <2> QED
    BY <1>1, <2>1 DEF RunEffect
<1>2. CASE RunQuery(j)      BY <1>2 DEF RunQuery, QueryAnswer
<1>3. CASE RunStray(j)
  <2> PICK command \in stray[j] :
        /\ Effect(j, command)
        /\ stray' = [stray EXCEPT ![j] = @ \ {command}]
        /\ UNCHANGED <<disk, task, service>>
    BY <1>3 DEF RunStray
  <2>1. UNCHANGED <<disk, task, service>> /\ stray' \in [Jobs -> SUBSET Effects]
    OBVIOUS
  <2>2. /\ files' \in [Jobs -> Files]
        /\ session' \in [Jobs -> {"none", "live", "ended"}]
        /\ runs' \in [Jobs -> Nat]
    BY EffectType
  <2> QED
    BY <2>1, <2>2
<1>4. CASE Refuse(j)        BY <1>4 DEF Refuse
<1>5. CASE Disconnect(j)    BY <1>5 DEF Disconnect, ClientEnds, InFlight
<1>6. CASE KillClient(j)    BY <1>6 DEF KillClient, ClientEnds, InFlight
<1>7. CASE CommandExits(j)  BY <1>7 DEF CommandExits
<1>8. CASE PublishDone(j)   BY <1>8 DEF PublishDone
<1>9. CASE SessionEnds(j)   BY <1>9 DEF SessionEnds
<1>10. CASE SessionDies(j)  BY <1>10 DEF SessionDies
<1> QED
  BY <1>1, <1>2, <1>3, <1>4, <1>5, <1>6, <1>7, <1>8, <1>9, <1>10
  DEF Remote, Wrapper

LEMMA TypeBroker ==
  ASSUME TypeOK, BrokerStart \/ Close \/ Exit \/ Crash
  PROVE  TypeOK'
<1> USE DEF TypeOK, NoTask, disk, host, task, service
<1>1. CASE BrokerStart
  <2> PICK missing \in SUBSET Recoverable, moved \in SUBSET Recoverable :
        LET tracked == Recoverable \ missing
        IN  /\ state' = [j \in Jobs |-> IF j \in missing THEN "unknown"
                                                         ELSE state[j]]
            /\ code' = [j \in Jobs |-> IF j \in missing THEN "unknown_machine"
                                                        ELSE code[j]]
            /\ pc' = [j \in Jobs |-> IF j \in tracked THEN "queued" ELSE "none"]
            /\ mode' = [j \in Jobs |->
                 IF j \notin tracked THEN mode[j]
                 ELSE IF j \in moved THEN "astray" ELSE "recover"]
            /\ queue' \in NewestFirst(tracked)
    BY <1>1 DEF BrokerStart
  <2> DEFINE tracked == Recoverable \ missing
  <2>1. tracked \in SUBSET Jobs
    BY DEF Recoverable, Records
  <2>2. Cardinality(tracked) \in Nat
    BY <2>1, LifecycleAssumption, FS_Subset, FS_CardinalityType
  <2>3. queue' \in [1..Cardinality(tracked) -> tracked]
    BY DEF NewestFirst
  <2>4. queue' \in Seq(Jobs)
    <3> DEFINE n == Cardinality(tracked)
    <3>1. n \in Nat /\ queue' \in [1..n -> Jobs]
      <4> HIDE DEF tracked
      <4> QED BY <2>1, <2>2, <2>3
    <3> HIDE DEF n
    <3> QED
      BY <3>1
  <2> QED
    BY <1>1, <2>4 DEF BrokerStart, Settled, Codes
<1>2. CASE Close  BY <1>2, LifecycleAssumption
                  DEF Close, Abandon, Forget, InFlight, Replies
<1>3. CASE Exit   BY <1>3 DEF Exit
<1>4. CASE Crash  BY <1>4, LifecycleAssumption
                  DEF Crash, Abandon, Forget, InFlight, Replies
<1> QED
  BY <1>1, <1>2, <1>3, <1>4

LEMMA TypeInit == Init => TypeOK
  BY LifecycleAssumption DEF Init, TypeOK, NoTask, Replies, Codes, Files

LEMMA TypeStep == TypeOK /\ [Next]_vars => TypeOK'
<1> SUFFICES ASSUME TypeOK, [Next]_vars
             PROVE  TypeOK'
  OBVIOUS
<1>1. CASE UNCHANGED vars
  BY <1>1 DEF TypeOK, vars, disk, host, task, service
<1>2. CASE BrokerStart \/ Close \/ Exit \/ Crash
  BY <1>2, TypeBroker
<1>3. ASSUME NEW j \in Jobs,
             Submit(j) \/ BrokerStep(j) \/ Remote(j) \/ Wrapper(j) \/ Fault(j)
      PROVE  TypeOK'
  BY <1>3, TypeSubmit, TypeProgress, TypeMachine DEF BrokerStep, Fault
<1> QED
  BY <1>1, <1>2, <1>3 DEF Next

\* Every reachable state is one the modelled code can write or hold: records
\* in JOB_STATES, task positions among the await points.
THEOREM TypeCorrect == Spec => []TypeOK
<1> QED
  BY TypeInit, TypeStep, PTL DEF Spec
-----------------------------------------------------------------------------
(* The inductive invariant, one conjunct per concern.  Each is inductive   *)
(* together with the ones before it.                                       *)

\* Where a task may be, given its record, its mode and the broker.
Control(j) ==
  /\ state[j] = "none" => pc[j] = "none"
  /\ broker # "up" => pc[j] \in NoTask
  /\ pc[j] \in {"stage", "start"} => mode[j] = "execute"
  /\ pc[j] \in {"check", "session"} => mode[j] # "execute"
  /\ pc[j] = "cleanup" => state[j] = "complete"
  /\ pc[j] \notin NoTask \cup {"cleanup"} => state[j] \in Unfinished
  /\ mode[j] = "execute" /\ pc[j] \in {"queued", "stage", "access", "start"}
       => state[j] = "starting"
  /\ mode[j] = "execute" /\ pc[j] \in {"poll", "sleep", "collect"} \cup Saving
       => state[j] = "running"

\* Nothing has started the command, and nothing under way will.
Fresh(j) == runs[j] = 0 /\ "start" \notin stray[j]

\* The start command has not been answered by the machine.
BeforeStart(j) ==
  \/ state[j] = "none"
  \/ mode[j] = "execute" /\ pc[j] \in {"queued", "stage", "access"}
  \/ pc[j] = "start" /\ reply[j] = "wait"

\* Something that only a started command leaves behind.
Evidence(j) ==
  \/ files[j] \in {"final", "done"} \/ session[j] = "live"
  \/ state[j] \in {"running", "complete"}
  \/ pc[j] \in {"poll", "sleep", "collect"} \cup Saving
  \/ pc[j] \in {"start", "check", "session"} /\ reply[j] = "ok"

AtMostOnce(j) ==
  /\ runs[j] <= 1
  /\ BeforeStart(j) => Fresh(j)
  /\ "start" \in stray[j] => runs[j] = 0
  /\ Evidence(j) => runs[j] > 0

\* The outputs are saved before the record and the cleanup that follows it.
Kept(j) ==
  /\ state[j] = "complete" => saved[j] = {"stdout", "stderr"}
  /\ files[j] = "gone" \/ "cleanup" \in stray[j] => state[j] = "complete"
  /\ pc[j] = "stderr" => "stdout" \in saved[j]
  /\ pc[j] = "record" => saved[j] = {"stdout", "stderr"}

\* Without killed clients an answer other than 255 is the machine's own.
Honest(j) ==
  /\ reply[j] # "killed"
  /\ pc[j] = "start" /\ reply[j] = "fail" => Fresh(j)
  /\ state[j] = "failed" /\ code[j] # "result_collection_failed" => Fresh(j)
  /\ "start" \in stray[j] => state[j] \in {"starting", "unknown"}

JobInv(j) == /\ Control(j)
             /\ AtMostOnce(j)
             /\ Kept(j)
             /\ "signal" \notin Faults => Honest(j)

IInv == \A j \in Jobs : JobInv(j)

\* What a restart makes of the records, the tasks and the machines asked.
LEMMA StartEffect ==
  ASSUME BrokerStart
  PROVE  \E missing \in SUBSET Recoverable, moved \in SUBSET Recoverable :
          LET tracked == Recoverable \ missing
          IN  /\ state' = [j \in Jobs |-> IF j \in missing THEN "unknown"
                                                           ELSE state[j]]
              /\ code' = [j \in Jobs |-> IF j \in missing THEN "unknown_machine"
                                                          ELSE code[j]]
              /\ pc' = [j \in Jobs |-> IF j \in tracked THEN "queued" ELSE "none"]
              /\ mode' = [j \in Jobs |->
                   IF j \notin tracked THEN mode[j]
                   ELSE IF j \in moved THEN "astray" ELSE "recover"]
  BY DEF BrokerStart

LEMMA InvStep ==
  TypeOK /\ IInv /\ [Next]_vars => IInv'
<1> SUFFICES ASSUME TypeOK /\ IInv, [Next]_vars,
                    NEW k \in Jobs
             PROVE  JobInv(k)'
  BY DEF IInv
<1>0. ASSUME NEW j \in Jobs, NEW place, End(j, place)
      PROVE  /\ pc' = [pc EXCEPT ![j] = place]
             /\ mode' = [mode EXCEPT ![j] = "execute"]
             /\ reply' = [reply EXCEPT ![j] = "wait"]
             /\ UNCHANGED broker
  BY <1>0, EndEffect
<1> USE DEF TypeOK, IInv, JobInv, Control, AtMostOnce, Kept, Honest, Fresh,
            BeforeStart, Evidence, disk, host, task, service, Answered, Send, Goto,
            Record, RecordError, Answer, Unfinished, Calls, Effects, Saving,
            NoTask
<1>1. CASE UNCHANGED vars
  BY <1>1 DEF vars
<1>2. ASSUME NEW j \in Jobs,
             Submit(j) \/ BrokerStep(j) \/ Remote(j) \/ Wrapper(j) \/ Fault(j)
      PROVE  JobInv(k)'
  <2>1. CASE Submit(j)
    BY <2>1 DEF Submit, CreateRecord
  <2>2. CASE SubmitUntracked(j)
    BY <2>2 DEF SubmitUntracked, CreateRecord
  <2>3. CASE Acquire(j)
    BY <2>3 DEF Acquire
  <2>4. CASE Staged(j)
    BY <2>4 DEF Staged
  <2>5. CASE AccessGranted(j)
    BY <2>5 DEF AccessGranted
  <2>6. CASE Started(j)
    BY <2>6 DEF Started
  <2>7. CASE NotDone(j)
    BY <2>7 DEF NotDone
  <2>8. CASE Wake(j)
    BY <2>8 DEF Wake
  <2>9. CASE CompletionSeen(j)
    BY <2>9 DEF CompletionSeen
  <2>10. CASE CompletionMissing(j)
    BY <2>10 DEF CompletionMissing
  <2>11. CASE SessionSeen(j)
    BY <2>11 DEF SessionSeen
  <2>12. CASE SessionMissing(j)
    BY <2>12, <1>0 DEF SessionMissing, Leave
  <2>13. CASE Collected(j)
    BY <2>13 DEF Collected
  <2>14. CASE SaveStdout(j)
    BY <2>14 DEF SaveStdout, SaveOutput
  <2>15. CASE SaveStderr(j)
    BY <2>15 DEF SaveStderr, SaveOutput
  <2>16. CASE SaveComplete(j)
    BY <2>16 DEF SaveComplete
  <2>17. CASE CleanedUp(j)
    BY <2>17, <1>0 DEF CleanedUp, Leave
  <2>18. CASE TaskFails(j)
    BY <2>18, <1>0 DEF TaskFails, Leave, ErrorRaised, ErrorState, ErrorCode
  <2>19. CASE TaskCrashes(j)
    <3>1. End(j, "broken") /\ UNCHANGED host
      BY <2>19 DEF TaskCrashes, Break
    <3>2. CASE UNCHANGED disk
      <4>1. pc[j] \in Holding
        BY <2>19 DEF TaskCrashes, Due, ErrorRaised, Holding
      <4>2. state[j] # "none" /\ broker = "up"
        BY <4>1 DEF Holding
      <4>3. /\ pc' = [pc EXCEPT ![j] = "broken"]
            /\ mode' = [mode EXCEPT ![j] = "execute"]
            /\ reply' = [reply EXCEPT ![j] = "wait"]
            /\ UNCHANGED broker
        BY <3>1, <1>0
      <4>4. CASE k = j
        BY <3>1, <3>2, <4>2, <4>3, <4>4
      <4>5. CASE k # j
        <5>1. pc'[k] = pc[k] /\ mode'[k] = mode[k] /\ reply'[k] = reply[k]
          BY <4>3, <4>5
        <5> QED
          BY <3>1, <3>2, <4>3, <5>1
      <4> QED
        BY <4>4, <4>5
    <3>3. ASSUME NEW s, NEW c, Due(j, s, c), RecordError(j, s, c)
          PROVE  JobInv(k)'
      BY <3>1, <3>3, <1>0 DEF Due, ErrorRaised, ErrorState, ErrorCode
    <3> QED
      BY <2>19, <3>2, <3>3 DEF TaskCrashes
  <2>20. CASE RunEffect(j)
    BY <2>20 DEF RunEffect, Effect
  <2>21. CASE RunQuery(j)
    BY <2>21 DEF RunQuery, QueryAnswer
  <2>22. CASE RunStray(j)
    BY <2>22 DEF RunStray, Effect
  <2>23. CASE Refuse(j)
    BY <2>23 DEF Refuse
  <2>24. CASE Disconnect(j)
    BY <2>24 DEF Disconnect, ClientEnds, InFlight
  <2>25. CASE KillClient(j)
    BY <2>25 DEF KillClient, ClientEnds, InFlight
  <2>26. CASE CommandExits(j)
    BY <2>26 DEF CommandExits
  <2>27. CASE PublishDone(j)
    BY <2>27 DEF PublishDone
  <2>28. CASE SessionEnds(j)
    BY <2>28 DEF SessionEnds
  <2>29. CASE SessionDies(j)
    BY <2>29 DEF SessionDies
  <2> QED
    BY <1>2, <2>1, <2>2, <2>3, <2>4, <2>5, <2>6, <2>7, <2>8, <2>9,
       <2>10, <2>11, <2>12, <2>13, <2>14, <2>15, <2>16, <2>17, <2>18,
       <2>19, <2>20, <2>21, <2>22, <2>23, <2>24, <2>25, <2>26, <2>27,
       <2>28, <2>29 DEF BrokerStep, Progress, Remote, Wrapper, Fault
<1>3. CASE BrokerStart
  <2>1. PICK missing \in SUBSET Recoverable, moved \in SUBSET Recoverable :
          LET tracked == Recoverable \ missing
          IN  /\ state' = [j \in Jobs |-> IF j \in missing THEN "unknown"
                                                           ELSE state[j]]
              /\ code' = [j \in Jobs |-> IF j \in missing THEN "unknown_machine"
                                                          ELSE code[j]]
              /\ pc' = [j \in Jobs |-> IF j \in tracked THEN "queued" ELSE "none"]
              /\ mode' = [j \in Jobs |->
                   IF j \notin tracked THEN mode[j]
                   ELSE IF j \in moved THEN "astray" ELSE "recover"]
    BY <1>3, StartEffect
  <2> DEFINE tracked == Recoverable \ missing
  <2>4. /\ state'[k] = IF k \in missing THEN "unknown" ELSE state[k]
        /\ code'[k] = IF k \in missing THEN "unknown_machine" ELSE code[k]
        /\ pc'[k] = IF k \in tracked THEN "queued" ELSE "none"
        /\ mode'[k] = "execute" => mode[k] = "execute" /\ k \notin tracked
    BY <2>1
  <2>2. \A j \in Recoverable : j \in Jobs /\ state[j] \in Unfinished
    BY DEF Recoverable, Records
  <2>3. /\ UNCHANGED <<saved, files, session, runs, stray, reply>>
        /\ broker' = "up"
    BY <1>3 DEF BrokerStart
  <2> QED
    BY <2>2, <2>3, <2>4
<1>4. CASE Close
  BY <1>4 DEF Close, Abandon, Forget, InFlight
<1>5. CASE Exit
  BY <1>5 DEF Exit
<1>6. CASE Crash
  BY <1>6 DEF Crash, Abandon, Forget, InFlight
<1> QED
  BY <1>1, <1>2, <1>3, <1>4, <1>5, <1>6 DEF Next

LEMMA InvInit == Init => IInv
  BY LifecycleAssumption
  DEF Init, IInv, JobInv, Control, AtMostOnce, Kept, Honest, Fresh, BeforeStart,
      Evidence, Unfinished, Saving, NoTask

LEMMA Invariance == Spec => [](TypeOK /\ IInv)
<1>1. Init => TypeOK /\ IInv
  BY TypeInit, InvInit
<1>2. TypeOK /\ IInv /\ [Next]_vars => (TypeOK /\ IInv)'
  BY TypeStep, InvStep
<1> QED
  BY <1>1, <1>2, PTL DEF Spec

-----------------------------------------------------------------------------
(* The invariants of the runs.                                             *)

\* The no-rerun invariant of ARCHITECTURE.md, under every fault: a command is
\* started at most once in the life of its record.
THEOREM OneRun == Spec => []AtMostOneRun
<1>1. IInv => AtMostOneRun
  BY DEF IInv, JobInv, AtMostOnce, AtMostOneRun
<1> QED
  BY <1>1, Invariance, PTL

\* collect() writes outputs, then the record, then removes the directory, and
\* no crash, abandoned cleanup or restart can show another order.
THEOREM ResultKept == Spec => []ResultNeverLost
<1>1. IInv => ResultNeverLost
  BY DEF IInv, JobInv, Kept, ResultNeverLost
<1> QED
  BY <1>1, Invariance, PTL

\* Where no signal kills an ssh client, "failed" with a code of staging, sudo
\* or start is final truth: the command did not run and never will.
THEOREM FailedIsFinal ==
  ASSUME "signal" \notin Faults
  PROVE  Spec => []FailedNeverRan
<1>1. IInv => FailedNeverRan
  BY DEF IInv, JobInv, Honest, Fresh, FailedNeverRan
<1> QED
  BY <1>1, Invariance, PTL

-----------------------------------------------------------------------------
(* Slots.                                                                  *)

SlotInv == SlotsConserved /\ (broker # "up" => free = Slots)

LEMMA HoldersFinite == IsFiniteSet(Holders) /\ Cardinality(Holders) \in Nat
  BY LifecycleAssumption, FS_Subset, FS_CardinalityType DEF Holders

\* A task that is admitted, that stays where it is, and that leaves.
LEMMA HoldersGrow ==
  ASSUME TypeOK, NEW j \in Jobs, NEW p \in Holding, pc[j] \notin Holding,
         pc' = [pc EXCEPT ![j] = p]
  PROVE  Cardinality(Holders)' = Cardinality(Holders) + 1
<1>1. Holders' = Holders \cup {j} /\ j \notin Holders
  BY DEF Holders, TypeOK
<1> QED
  BY <1>1, HoldersFinite, FS_AddElement

LEMMA HoldersStay ==
  ASSUME TypeOK, \A j \in Jobs : pc'[j] \in Holding <=> pc[j] \in Holding
  PROVE  Cardinality(Holders)' = Cardinality(Holders)
<1>1. Holders' = Holders
  BY DEF Holders
<1> QED
  BY <1>1

LEMMA HoldersShrink ==
  ASSUME TypeOK, NEW j \in Jobs, pc[j] \in Holding, NEW place \in NoTask, End(j, place)
  PROVE  /\ Cardinality(Holders)' = Cardinality(Holders) - 1
         /\ free' = free + 1
         /\ broker' = broker
<1>1. Holders' = Holders \ {j} /\ j \in Holders
  BY DEF Holders, TypeOK, End, Forget, NoTask, Holding, Calls, Effects, Saving
<1> QED
  BY <1>1, HoldersFinite, FS_RemoveElement DEF End, Forget

\* No task, no holder.
LEMMA HoldersNone ==
  ASSUME \A j \in Jobs : pc[j] \in {"none", "queued"}
  PROVE  Cardinality(Holders) = 0
<1>1. Holders = {}
  BY DEF Holders, Holding, Calls, Effects, Saving
<1> QED
  BY <1>1, FS_EmptySet

LEMMA SlotLeave ==
  ASSUME TypeOK, SlotInv, IInv, NEW j \in Jobs, pc[j] \in Holding,
         NEW place \in NoTask, End(j, place)
  PROVE  SlotInv'
<1>1. broker = "up"
  BY DEF IInv, JobInv, Control, NoTask, Holding, Calls, Effects, Saving
<1>2. SlotsConserved'
  BY HoldersShrink, HoldersFinite DEF SlotInv, SlotsConserved, TypeOK
<1> QED
  BY <1>1, <1>2, HoldersShrink DEF SlotInv

LEMMA SlotStay ==
  ASSUME TypeOK, SlotInv, UNCHANGED <<free, broker>>,
         \A j \in Jobs : pc'[j] \in Holding <=> pc[j] \in Holding
  PROVE  SlotInv'
  BY HoldersStay DEF SlotInv, SlotsConserved

LEMMA SlotStep == TypeOK /\ IInv /\ SlotInv /\ [Next]_vars => SlotInv'
<1> SUFFICES ASSUME TypeOK, IInv, SlotInv, [Next]_vars
             PROVE  SlotInv'
  OBVIOUS
<1>1. CASE UNCHANGED vars
  BY <1>1, SlotStay DEF vars, task, service
<1>2. ASSUME NEW j \in Jobs, Acquire(j)
      PROVE  SlotInv'
  <2> DEFINE p == IF mode[j] = "execute" THEN "stage" ELSE "check"
  <2>1. p \in Holding /\ pc[j] \notin Holding
    BY <1>2 DEF Acquire, Holding, Calls, Effects, Saving
  <2>2. Cardinality(Holders)' = Cardinality(Holders) + 1
    BY <1>2, <2>1, HoldersGrow DEF Acquire, Send
  <2>3. broker = "up"
    BY <1>2 DEF Acquire, IInv, JobInv, Control, NoTask
  <2> QED
    BY <1>2, <2>2, <2>3, HoldersFinite
    DEF Acquire, SlotInv, SlotsConserved, TypeOK
<1>3. ASSUME NEW j \in Jobs,
             SessionMissing(j) \/ CleanedUp(j) \/ TaskFails(j) \/ TaskCrashes(j)
      PROVE  SlotInv'
  <2>1. \E place \in NoTask : End(j, place)
    BY <1>3 DEF SessionMissing, CleanedUp, TaskFails, TaskCrashes, Leave, Break, NoTask
  <2>2. pc[j] \in Holding
    BY <1>3 DEF SessionMissing, CleanedUp, TaskFails, TaskCrashes, Due, ErrorRaised,
                Answered, Holding, Calls, Effects, Saving
  <2> QED
    BY <2>1, <2>2, SlotLeave
<1>4. ASSUME NEW j \in Jobs,
             \/ Staged(j) \/ AccessGranted(j) \/ Started(j) \/ NotDone(j)
             \/ Wake(j) \/ CompletionSeen(j) \/ CompletionMissing(j)
             \/ SessionSeen(j) \/ Collected(j) \/ SaveStdout(j)
             \/ SaveStderr(j) \/ SaveComplete(j)
      PROVE  SlotInv'
  <2>1. UNCHANGED <<free, broker>>
    BY <1>4
    DEF Staged, AccessGranted, Started, NotDone, Wake, CompletionSeen, Collected,
        CompletionMissing, SessionSeen, SaveStdout, SaveStderr, SaveOutput,
        SaveComplete, service
  <2>2. \E p \in Holding : pc' = [pc EXCEPT ![j] = p]
    BY <1>4
    DEF Staged, AccessGranted, Started, NotDone, Wake, CompletionSeen, Collected,
        CompletionMissing, SessionSeen, SaveStdout, SaveStderr, SaveOutput,
        SaveComplete, Send, Goto, Holding, Calls, Effects, Saving
  <2>3. pc[j] \in Holding
    BY <1>4
    DEF Staged, AccessGranted, Started, NotDone, Wake, CompletionSeen, Collected,
        CompletionMissing, SessionSeen, SaveStdout, SaveStderr, SaveOutput,
        SaveComplete, Answered, Holding, Calls, Effects, Saving
  <2> QED
    BY <2>1, <2>2, <2>3, SlotStay DEF TypeOK
<1>5. ASSUME NEW j \in Jobs,
             Remote(j) \/ Wrapper(j) \/ RunStray(j) \/ Refuse(j)
               \/ Disconnect(j) \/ KillClient(j) \/ SessionDies(j)
      PROVE  SlotInv'
  <2>1. UNCHANGED <<pc, free, broker>>
    BY <1>5
    DEF Remote, RunEffect, RunQuery, Wrapper, CommandExits, PublishDone,
        SessionEnds, RunStray, Refuse, Disconnect, KillClient, ClientEnds,
        SessionDies, Answer, task, service
  <2> QED
    BY <2>1, SlotStay
<1>6. ASSUME NEW j \in Jobs, Submit(j) \/ SubmitUntracked(j)
      PROVE  SlotInv'
  <2>1. pc[j] = "none"
    BY <1>6 DEF Submit, SubmitUntracked, CreateRecord, IInv, JobInv, Control
  <2>2. \A k \in Jobs : pc'[k] \in Holding <=> pc[k] \in Holding
    BY <1>6, <2>1
    DEF Submit, SubmitUntracked, TypeOK, Holding, Calls, Effects, Saving
  <2> QED
    BY <1>6, <2>2, SlotStay DEF Submit, SubmitUntracked, service
<1>7. CASE BrokerStart
  <2>1. Cardinality(Holders)' = 0
    <3>1. \A j \in Jobs : pc'[j] \in {"none", "queued"}
      BY <1>7 DEF BrokerStart
    <3>2. Holders' = {}
      BY <3>1 DEF Holders, Holding, Calls, Effects, Saving
    <3> QED
      BY <3>2, FS_EmptySet
  <2>2. free' = Slots /\ broker' = "up"
    BY <1>7 DEF BrokerStart, SlotInv
  <2> QED
    BY <2>1, <2>2, LifecycleAssumption DEF SlotInv, SlotsConserved
<1>8. CASE Close \/ Crash
  <2>1. Holders' = {}
    BY <1>8 DEF Close, Crash, Abandon, Forget, Holders, Holding, Calls, Effects, Saving
  <2>2. Cardinality(Holders)' = 0
    BY <2>1, FS_EmptySet
  <2>3. free' = Slots
    BY <1>8 DEF Close, Crash, Abandon, Forget
  <2> QED
    BY <2>2, <2>3, LifecycleAssumption DEF SlotInv, SlotsConserved
<1>9. CASE Exit
  <2>1. UNCHANGED <<pc, free>> /\ broker # "up" /\ broker' # "up"
    BY <1>9 DEF Exit, task
  <2>2. Cardinality(Holders)' = Cardinality(Holders)
    BY <2>1, HoldersStay
  <2> QED
    BY <2>1, <2>2 DEF SlotInv, SlotsConserved
<1> QED
  BY <1>1, <1>2, <1>3, <1>4, <1>5, <1>6, <1>7, <1>8, <1>9
  DEF Next, BrokerStep, Progress, Fault

\* However tasks end - an answer, an error, an exception, a cancellation - the
\* broker has exactly CONCURRENCY slots and none is taken twice.
THEOREM SlotsKept == Spec => []SlotsConserved
<1>1. Init => SlotInv
  <2>1. Init => Cardinality(Holders) = 0
    BY HoldersNone DEF Init
  <2> QED
    BY <2>1, LifecycleAssumption DEF Init, SlotInv, SlotsConserved
<1>2. TypeOK /\ IInv /\ SlotInv /\ [Next]_vars => SlotInv'
  BY SlotStep
<1>3. SlotInv => SlotsConserved
  BY DEF SlotInv
<1> QED
  BY <1>1, <1>2, <1>3, Invariance, PTL DEF Spec

-----------------------------------------------------------------------------
(* The contract.                                                           *)

ran  == [j \in Jobs |-> runs[j] > 0]
kept == [j \in Jobs |-> saved[j] = {"stdout", "stderr"}]

\* A step that changes neither records, runs nor outputs is a stutter.
LEMMA ContractStutter ==
  ASSUME UNCHANGED <<state, runs, saved>>
  PROVE  UNCHANGED Contract!contractVars
  BY DEF Contract!contractVars

\* The start command, on time or late, is the contract's Run.
LEMMA ContractEffect ==
  ASSUME "signal" \notin Faults, TypeOK, IInv, NEW j \in Jobs, NEW command,
         Effect(j, command), UNCHANGED <<state, saved>>,
         command = "start" => \/ pc[j] = "start" /\ reply[j] = "wait"
                              \/ "start" \in stray[j]
  PROVE  Contract!Run(j) \/ UNCHANGED Contract!contractVars
<1>1. CASE command = "start"
  <2>1. runs[j] = 0 /\ state[j] \in {"starting", "unknown"}
    BY <1>1 DEF IInv, JobInv, Control, NoTask, AtMostOnce, Honest, BeforeStart, Fresh
  <2>2. runs' = [runs EXCEPT ![j] = 1]
    BY <1>1, <2>1 DEF Effect
  <2>3. runs'[j] > 0 /\ ~(runs[j] > 0)
    BY <2>1, <2>2 DEF TypeOK
  <2>4. \A k \in Jobs : k # j => runs'[k] = runs[k]
    BY <2>2 DEF TypeOK
  <2>5. ran' = [ran EXCEPT ![j] = TRUE] /\ ~ran[j]
    BY <2>3, <2>4, Zenon DEF ran
  <2> QED
    BY <2>1, <2>5 DEF Contract!Run, ran
<1>2. CASE command # "start"
  <2>1. UNCHANGED runs
    BY <1>2 DEF Effect
  <2> QED
    BY <2>1, ContractStutter
<1> QED
  BY <1>1, <1>2

\* The second output to be saved keeps the result of a job that ran.
LEMMA ContractSave ==
  ASSUME TypeOK, IInv, NEW j \in Jobs, SaveStdout(j) \/ SaveStderr(j)
  PROVE  Contract!Keep(j) \/ UNCHANGED Contract!contractVars
<1>1. state[j] \in Unfinished /\ runs[j] > 0
  BY DEF SaveStdout, SaveStderr, SaveOutput, IInv, JobInv, Control, NoTask, AtMostOnce,
         Evidence, Saving
<1>2. PICK output \in {"stdout", "stderr"} :
        saved' = [saved EXCEPT ![j] = @ \cup {output}]
  BY DEF SaveStdout, SaveStderr, SaveOutput
<1>3. UNCHANGED <<state, runs>>
  BY DEF SaveStdout, SaveStderr, SaveOutput, host
<1>4. CASE saved'[j] = {"stdout", "stderr"}
  <2>1. kept' = [kept EXCEPT ![j] = TRUE]
    BY <1>2, <1>4 DEF TypeOK, kept
  <2> QED
    BY <1>1, <1>3, <2>1
    DEF Contract!Keep, Contract!Pending, Unfinished, kept
<1>5. CASE saved'[j] # {"stdout", "stderr"}
  <2>1. kept' = kept
    BY <1>2, <1>5 DEF TypeOK, kept
  <2> QED
    BY <1>3, <2>1 DEF Contract!contractVars, kept
<1> QED
  BY <1>4, <1>5

\* An execution fails a record only before the start command took effect or
\* after the job was recorded as running; everything else gives it up.
LEMMA ContractFails ==
  ASSUME "signal" \notin Faults, TypeOK, IInv, NEW j \in Jobs, ErrorRaised(j),
         RecordError(j, ErrorState(j), ErrorCode(j)), UNCHANGED host
  PROVE  Contract!Fail(j) \/ Contract!GiveUp({j})
<1>1. /\ state[j] \in Unfinished
      /\ state' = [state EXCEPT ![j] = ErrorState(j)]
      /\ UNCHANGED <<saved, runs>>
  BY DEF ErrorRaised, Answered, RecordError, host, IInv, JobInv, Control, NoTask, Calls,
         Effects, Saving
<1>2. CASE ErrorState(j) = "unknown"
  BY <1>1, <1>2 DEF Contract!GiveUp, Contract!Pending, Unfinished, TypeOK
<1>3. CASE ErrorState(j) = "failed"
  <2>1. state[j] = "starting" => ~(runs[j] > 0)
    BY <1>3 DEF ErrorRaised, ErrorState, ErrorCode, Answered, IInv,
                JobInv, Control, NoTask, AtMostOnce, Honest, BeforeStart, Fresh, Calls,
                Effects, Saving, TypeOK
  <2> QED
    BY <1>1, <1>3, <2>1 DEF Contract!Fail, Unfinished
<1> QED
  BY <1>2, <1>3 DEF ErrorState

\* "running" is recorded of a job whose start command ran.
LEMMA ContractTracks ==
  ASSUME TypeOK, IInv, NEW j \in Jobs, Record(j, "running"), UNCHANGED host,
         Answered(j, "start", "ok") \/ Answered(j, "session", "ok")
  PROVE  Contract!Track(j) \/ UNCHANGED Contract!contractVars
<1>1. /\ state[j] \in Unfinished
      /\ runs[j] > 0
      /\ state' = [state EXCEPT ![j] = "running"]
      /\ UNCHANGED <<saved, runs>>
  BY DEF Answered, Record, host, IInv, JobInv, Control, NoTask, AtMostOnce, Evidence
<1>2. CASE state[j] = "starting"
  BY <1>1, <1>2 DEF Contract!Track
<1>3. CASE state[j] = "running"
  BY <1>1, <1>3, ContractStutter DEF TypeOK
<1> QED
  BY <1>1, <1>2, <1>3 DEF Unfinished

\* A recovery that finds neither marker nor session gives the job up.
LEMMA ContractGivesUp ==
  ASSUME TypeOK, IInv, NEW j \in Jobs, NEW c, RecordError(j, "unknown", c), UNCHANGED host,
         \E answer \in {"no", "fail", "killed"} : Answered(j, "session", answer)
  PROVE  Contract!GiveUp({j})
  BY DEF Answered, RecordError, host, IInv, JobInv, Control, NoTask, Contract!GiveUp,
         Contract!Pending, Unfinished, TypeOK

\* "complete" is recorded of a job whose outputs were saved.
LEMMA ContractCompletes ==
  ASSUME IInv, NEW j \in Jobs, NEW c, RecordError(j, "complete", c), UNCHANGED host,
         pc[j] = "record"
  PROVE  Contract!Complete(j)
  BY DEF RecordError, host, IInv, JobInv, Control, NoTask, Kept, Saving, Contract!Complete,
         Contract!Pending, Unfinished

LEMMA ContractStep ==
  ASSUME "signal" \notin Faults, TypeOK, IInv, [Next]_vars
  PROVE  [Contract!ContractNext]_Contract!contractVars
<1> USE DEF Contract!ContractNext
<1>1. CASE UNCHANGED vars
  BY <1>1, ContractStutter DEF vars, disk, host
<1>2. ASSUME NEW j \in Jobs, Submit(j) \/ SubmitUntracked(j)
      PROVE  Contract!Accept(j)
  BY <1>2 DEF Submit, SubmitUntracked, CreateRecord, host, Contract!Accept
<1>3. ASSUME NEW j \in Jobs, Started(j) \/ SessionSeen(j) \/ SessionMissing(j)
                               \/ SaveComplete(j)
      PROVE  \/ Contract!Track(j) \/ Contract!GiveUp({j}) \/ Contract!Complete(j)
             \/ UNCHANGED Contract!contractVars
  <2>1. UNCHANGED host
    BY <1>3 DEF Started, SessionSeen, SessionMissing, SaveComplete
  <2>2. CASE Started(j) \/ SessionSeen(j)
    BY <2>1, <2>2, ContractTracks DEF Started, SessionSeen
  <2>3. CASE SessionMissing(j)
    BY <2>1, <2>3, ContractGivesUp DEF SessionMissing
  <2>4. CASE SaveComplete(j)
    BY <2>1, <2>4, ContractCompletes DEF SaveComplete
  <2> QED
    BY <1>3, <2>2, <2>3, <2>4
<1>4. ASSUME NEW j \in Jobs, TaskFails(j)
      PROVE  Contract!Fail(j) \/ Contract!GiveUp({j})
  BY <1>4, ContractFails DEF TaskFails
<1>5. ASSUME NEW j \in Jobs, TaskCrashes(j)
      PROVE  \/ Contract!Track(j) \/ Contract!GiveUp({j}) \/ Contract!Complete(j)
             \/ Contract!Fail(j) \/ UNCHANGED Contract!contractVars
  <2>1. UNCHANGED host
    BY <1>5 DEF TaskCrashes
  <2>2. CASE UNCHANGED disk
    BY <2>1, <2>2, ContractStutter DEF disk, host
  <2>3. ASSUME NEW s, NEW c, Due(j, s, c), RecordError(j, s, c)
        PROVE  \/ Contract!Track(j) \/ Contract!GiveUp({j}) \/ Contract!Complete(j)
               \/ Contract!Fail(j) \/ UNCHANGED Contract!contractVars
    <3>1. CASE /\ s = "running" /\ c = code[j]
               /\ Answered(j, "start", "ok") \/ Answered(j, "session", "ok")
      <4>1. code' = code
        BY <2>3, <3>1 DEF RecordError, TypeOK
      <4>2. Record(j, "running")
        BY <2>3, <3>1, <4>1 DEF RecordError, Record
      <4> QED
        BY <2>1, <3>1, <4>2, ContractTracks
    <3>2. CASE /\ s = "unknown"
               /\ \E answer \in {"no", "fail", "killed"} : Answered(j, "session", answer)
      BY <2>1, <2>3, <3>2, ContractGivesUp
    <3>3. CASE pc[j] = "record" /\ s = "complete"
      BY <2>1, <2>3, <3>3, ContractCompletes
    <3>4. CASE ErrorRaised(j) /\ s = ErrorState(j) /\ c = ErrorCode(j)
      BY <2>1, <2>3, <3>4, ContractFails
    <3> QED
      BY <2>3, <3>1, <3>2, <3>3, <3>4 DEF Due
  <2> QED
    BY <1>5, <2>2, <2>3 DEF TaskCrashes
<1>6. ASSUME NEW j \in Jobs, RunEffect(j) \/ RunStray(j)
      PROVE  Contract!Run(j) \/ UNCHANGED Contract!contractVars
  BY <1>6, ContractEffect DEF RunEffect, RunStray, disk
<1>7. ASSUME NEW j \in Jobs,
             \/ Acquire(j) \/ Staged(j) \/ AccessGranted(j) \/ NotDone(j)
             \/ Wake(j) \/ CompletionSeen(j) \/ CompletionMissing(j)
             \/ Collected(j) \/ CleanedUp(j) \/ RunQuery(j)
             \/ Refuse(j) \/ Disconnect(j) \/ KillClient(j) \/ Wrapper(j)
             \/ SessionDies(j)
      PROVE  UNCHANGED Contract!contractVars
  <2>1. UNCHANGED <<state, runs, saved>>
    BY <1>7
    DEF Acquire, Staged, AccessGranted, NotDone, Wake, CompletionSeen, Collected,
        CompletionMissing, CleanedUp, RunQuery, Refuse, Disconnect,
        KillClient, ClientEnds, Wrapper, CommandExits, PublishDone, SessionEnds,
        SessionDies, disk, host
  <2> QED
    BY <2>1, ContractStutter
<1>8. CASE BrokerStart
  <2>1. PICK missing \in SUBSET Recoverable :
          state' = [j \in Jobs |-> IF j \in missing THEN "unknown" ELSE state[j]]
    BY <1>8 DEF BrokerStart
  <2>2. missing \in SUBSET Jobs /\ \A j \in missing : state[j] \in Unfinished
    BY DEF Recoverable, Records
  <2>3. Contract!GiveUp(missing)
    BY <1>8, <2>1, <2>2
    DEF BrokerStart, host, Contract!GiveUp, Contract!Pending, Unfinished
  <2> QED
    BY <2>2, <2>3
<1>9. CASE Close \/ Exit \/ Crash
  BY <1>9, ContractStutter DEF Close, Exit, Crash, Abandon, Forget, disk, host
<1> QED
  BY <1>1, <1>2, <1>3, <1>4, <1>5, <1>6, <1>7, <1>8, <1>9, ContractSave
  DEF Next, BrokerStep, Progress, Remote, Fault

\* Where no signal kills an ssh client, the broker keeps the promise of
\* JobContract: every step is a step of the contract or changes nothing in it.
THEOREM Refinement ==
  ASSUME "signal" \notin Faults
  PROVE  Spec => ImplementsContract
<1>1. Init => Contract!ContractInit
  <2> SUFFICES ASSUME Init
               PROVE  Contract!ContractInit
    OBVIOUS
  <2>1. \A j \in Jobs : (runs[j] > 0) = FALSE
    BY DEF Init
  <2>2. \A j \in Jobs : (saved[j] = {"stdout", "stderr"}) = FALSE
    BY DEF Init
  <2>3. ran = [j \in Jobs |-> FALSE] /\ kept = [j \in Jobs |-> FALSE]
    BY <2>1, <2>2, Zenon DEF ran, kept
  <2> QED
    BY <2>3 DEF Init, Contract!ContractInit, ran, kept
<1>2. TypeOK /\ IInv /\ [Next]_vars
        => [Contract!ContractNext]_Contract!contractVars
  BY ContractStep
<1> QED
  BY <1>1, <1>2, Invariance, PTL
  DEF Spec, ImplementsContract, Contract!ContractSpec

-----------------------------------------------------------------------------
(* Every unfinished record is worked on.                                   *)


\* A record that a restart left behind stays behind: no record is removed, and
\* none becomes younger.
LEMMA StaysBehind ==
  ASSUME TypeOK, NEW j \in Jobs, Records \subseteq Records',
         \A k \in Records : created'[k] = created[k], j \in Records
  PROVE  Cardinality(Newer(j)) >= RecoverLimit => Cardinality(Newer(j))' >= RecoverLimit
<1>1. Newer(j) \subseteq Newer(j)'
  BY DEF Newer
<1>2. IsFiniteSet(Newer(j)')
  BY LifecycleAssumption, FS_Subset DEF Newer, Records
<1>3. /\ Cardinality(Newer(j)) <= Cardinality(Newer(j)')
      /\ Cardinality(Newer(j)) \in Nat /\ Cardinality(Newer(j)') \in Nat
  BY <1>1, <1>2, FS_Subset, FS_CardinalityType
<1> QED
  BY <1>3, LifecycleAssumption

LEMMA OrphanStart ==
  ASSUME TypeOK, BrokerStart
  PROVE  NoOrphanRecord'
<1> SUFFICES ASSUME NEW k \in Jobs, state'[k] \in Unfinished, pc'[k] = "none"
             PROVE  (Cardinality(Newer(k)) >= RecoverLimit)'
  BY DEF NoOrphanRecord
<1>1. PICK missing \in SUBSET Recoverable :
        /\ state' = [j \in Jobs |-> IF j \in missing THEN "unknown" ELSE state[j]]
        /\ pc' = [j \in Jobs |-> IF j \in Recoverable \ missing THEN "queued" ELSE "none"]
  BY DEF BrokerStart
<1>2. k \notin Recoverable /\ state[k] \in Unfinished /\ k \in Records
  BY <1>1 DEF Unfinished, Records
<1>3. Cardinality(Newer(k)) \in Nat
  BY LifecycleAssumption, FS_Subset, FS_CardinalityType DEF Newer, Records
<1>4. Cardinality(Newer(k)) >= RecoverLimit
  BY <1>2, <1>3, LifecycleAssumption DEF Recoverable
<1>5. Records \subseteq Records' /\ created' = created
  BY <1>1 DEF BrokerStart, Records
<1> QED
  BY <1>2, <1>4, <1>5, StaysBehind

\* What a step other than a restart may do to a record that no task serves.
LEMMA OrphanKept ==
  ASSUME TypeOK, IInv, [Next]_vars, ~BrokerStart, NEW k \in Jobs,
         broker' = "up", state'[k] \in Unfinished, pc'[k] = "none"
  PROVE  broker = "up" /\ state[k] \in Unfinished /\ pc[k] = "none"
<1>1. broker = "up"
  BY DEF Next, BrokerStep, Progress, Remote, Wrapper, Fault, vars, service,
    Submit, SubmitUntracked, Acquire, Staged, AccessGranted, Started, NotDone,
    Wake, CompletionSeen, CompletionMissing, SessionSeen, SessionMissing,
    Collected, SaveStdout, SaveStderr, SaveOutput, SaveComplete, CleanedUp,
    TaskFails, TaskCrashes, Leave, Break, End, Forget, RunEffect, RunQuery,
    RunStray, Refuse, Disconnect, KillClient, ClientEnds, CommandExits,
    PublishDone, SessionEnds, SessionDies, Close, Exit, Crash
<1>2. ASSUME NEW j \in Jobs, SessionMissing(j) \/ CleanedUp(j) \/ TaskFails(j)
      PROVE  /\ state'[j] \notin Unfinished
             /\ \A i \in Jobs \ {j} : state'[i] = state[i] /\ pc'[i] = pc[i]
  BY <1>2, EndEffect
  DEF SessionMissing, CleanedUp, TaskFails, Leave, ErrorState, Answered,
      RecordError, disk, IInv, JobInv, Control, NoTask, TypeOK, Unfinished
<1>3. ASSUME NEW j \in Jobs, TaskCrashes(j)
      PROVE  /\ pc'[j] # "none"
             /\ \A i \in Jobs \ {j} : state'[i] = state[i] /\ pc'[i] = pc[i]
  BY <1>3, EndEffect DEF TaskCrashes, Break, RecordError, disk, TypeOK
<1>4. ASSUME NEW j \in Jobs, Submit(j) \/ SubmitUntracked(j) \/ BrokerStep(j),
             ~(SessionMissing(j) \/ CleanedUp(j) \/ TaskFails(j))
      PROVE  /\ pc'[j] # "none"
             /\ \A i \in Jobs \ {j} : state'[i] = state[i] /\ pc'[i] = pc[i]
  BY <1>4
  DEF BrokerStep, Progress, Submit, SubmitUntracked, CreateRecord, Acquire,
      Staged, Started, AccessGranted, NotDone, Wake, CompletionSeen,
      CompletionMissing, SessionSeen, Collected, SaveStdout, SaveStderr,
      SaveOutput, SaveComplete, Send, Goto, Record, RecordError, disk, TypeOK
<1>5. ASSUME NEW j \in Jobs,
             \/ Remote(j) \/ Wrapper(j) \/ RunStray(j) \/ Refuse(j)
             \/ Disconnect(j) \/ KillClient(j) \/ SessionDies(j)
      PROVE  UNCHANGED <<state, pc>>
  BY <1>5
  DEF Remote, RunEffect, RunQuery, Wrapper, CommandExits, PublishDone,
      SessionEnds, RunStray, Refuse, Disconnect, KillClient, ClientEnds,
      SessionDies, Answer, disk, task
<1>6. CASE UNCHANGED vars
  BY <1>1, <1>6 DEF vars, disk, task
<1>7. ~(Close \/ Exit \/ Crash)
  BY DEF Close, Exit, Crash
<1>8. (\E j \in Jobs : Submit(j) \/ BrokerStep(j) \/ Remote(j) \/ Wrapper(j) \/ Fault(j))
        \/ UNCHANGED vars
  BY <1>7 DEF Next
<1> QED
  BY <1>1, <1>2, <1>3, <1>4, <1>5, <1>6, <1>8 DEF BrokerStep, Fault

\* Records are only added, and created_at is written once.
LEMMA RecordsStay ==
  ASSUME TypeOK, [Next]_vars
  PROVE  /\ Records \subseteq Records'
         /\ \A k \in Records : created'[k] = created[k]
<1>1. ASSUME NEW j \in Jobs, CreateRecord(j)
      PROVE  \A k \in Jobs : state[k] # "none" => state'[k] # "none" /\ created'[k] = created[k]
  BY <1>1 DEF CreateRecord, TypeOK
<1>2. ASSUME NEW j \in Jobs, NEW s \in Unfinished \cup Settled, NEW c, RecordError(j, s, c)
      PROVE  created' = created /\ \A k \in Jobs : state[k] # "none" => state'[k] # "none"
  BY <1>2 DEF RecordError, Unfinished, Settled, TypeOK
<1>3. ASSUME NEW j \in Jobs, TaskFails(j) \/ TaskCrashes(j) \/ SessionMissing(j)
                               \/ SaveComplete(j)
      PROVE  created' = created /\ \A k \in Jobs : state[k] # "none" => state'[k] # "none"
  <2>1. UNCHANGED disk
          \/ \E s \in Unfinished \cup Settled, c \in Codes : RecordError(j, s, c)
    BY <1>3 DEF TaskFails, TaskCrashes, SessionMissing, SaveComplete, ErrorState,
                ErrorCode, Unfinished, Settled, Codes
  <2> QED
    BY <1>2, <2>1 DEF disk
<1>4. ASSUME NEW j \in Jobs, Started(j) \/ SessionSeen(j)
      PROVE  created' = created /\ \A k \in Jobs : state[k] # "none" => state'[k] # "none"
  BY <1>4 DEF Started, SessionSeen, Record, TypeOK
<1>5. CASE BrokerStart
  <2>1. created' = created /\ \A k \in Jobs : state[k] # "none" => state'[k] # "none"
    BY <1>5 DEF BrokerStart
  <2> QED
    BY <2>1 DEF Records
<1>6. ASSUME NEW j \in Jobs,
             \/ Acquire(j) \/ Staged(j) \/ AccessGranted(j) \/ NotDone(j)
             \/ Wake(j) \/ CompletionSeen(j) \/ CompletionMissing(j)
             \/ Collected(j) \/ SaveStdout(j) \/ SaveStderr(j) \/ CleanedUp(j)
             \/ Remote(j) \/ Wrapper(j) \/ RunStray(j) \/ Refuse(j)
             \/ Disconnect(j) \/ KillClient(j) \/ SessionDies(j)
      PROVE  UNCHANGED <<state, created>>
  BY <1>6
  DEF Acquire, Staged, AccessGranted, NotDone, Wake, CompletionSeen, Collected,
      CompletionMissing, SaveStdout, SaveStderr, SaveOutput, CleanedUp, Remote,
      RunEffect, RunQuery, Wrapper, CommandExits, PublishDone, SessionEnds,
      RunStray, Refuse, Disconnect, KillClient, ClientEnds, SessionDies, disk
<1>7. CASE Close \/ Exit \/ Crash \/ UNCHANGED vars
  BY <1>7 DEF Close, Exit, Crash, Abandon, vars, disk, Records
<1> QED
  BY <1>1, <1>3, <1>4, <1>5, <1>6, <1>7
  DEF Next, BrokerStep, Progress, Fault, Submit, SubmitUntracked, Records

LEMMA OrphanStep == TypeOK /\ IInv /\ NoOrphanRecord /\ [Next]_vars => NoOrphanRecord'
<1> SUFFICES ASSUME TypeOK, IInv, NoOrphanRecord, [Next]_vars
             PROVE  NoOrphanRecord'
  OBVIOUS
<1>1. CASE BrokerStart
  BY <1>1, OrphanStart
<1>2. CASE ~BrokerStart
  <2> SUFFICES ASSUME NEW k \in Jobs, broker' = "up", state'[k] \in Unfinished,
                      pc'[k] = "none"
               PROVE  (Cardinality(Newer(k)) >= RecoverLimit)'
    BY DEF NoOrphanRecord
  <2>1. broker = "up" /\ state[k] \in Unfinished /\ pc[k] = "none"
    BY <1>2, OrphanKept
  <2>2. Cardinality(Newer(k)) >= RecoverLimit
    BY <2>1 DEF NoOrphanRecord
  <2>3. k \in Records
    BY <2>1 DEF Records, Unfinished
  <2> QED
    BY <2>2, <2>3, RecordsStay, StaysBehind
<1> QED
  BY <1>1, <1>2

\* Under every fault and for every cut of the list, a broker that is up leaves
\* an unfinished record without a task only where an exception ended or refused
\* that task in this process, or where at least as many newer records exist as
\* a restart reads.
THEOREM NoOrphans == Spec => []NoOrphanRecord
<1>1. Init => NoOrphanRecord
  BY DEF Init, NoOrphanRecord
<1> QED
  BY <1>1, OrphanStep, Invariance, PTL DEF Spec
=============================================================================
