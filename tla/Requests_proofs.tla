-------------------------- MODULE Requests_proofs --------------------------
(***************************************************************************)
(* Proofs about Requests, for any number of jobs, callers and restarts.    *)
(* What is proved of JobLifecycle holds with callers too, because each of  *)
(* their steps is one of its steps or leaves it alone.                     *)
(***************************************************************************)
EXTENDS Requests, JobLifecycle_proofs

LEMMA CallerStep ==
  ASSUME NEW j \in Jobs, Caller(j)
  PROVE  UNCHANGED vars
  BY DEF Caller, Returns, Timeout, Leaves, GetJob, Resumes

LEMMA AsideStep ==
  ASSUME [RequestsNext]_allVars
  PROVE  [Next]_vars
<1>1. CASE UNCHANGED allVars
  BY <1>1, Zenon DEF allVars
<1>2. ASSUME NEW j \in Jobs, Caller(j)
      PROVE  [Next]_vars
  BY <1>2, CallerStep
<1>3. ASSUME NEW j \in Jobs,
             \/ Accepts(j) \/ Rejects(j) \/ Serves(j) \/ Breaks(j)
             \/ Remote(j) \/ Wrapper(j) \/ Lost(j)
      PROVE  Next
  BY <1>3 DEF Accepts, Rejects, Serves, Breaks, Lost, Next, Fault
<1>4. ASSUME BrokerStart \/ Closes \/ Exit \/ Crash
      PROVE  Next
  BY <1>4 DEF Closes, Next
<1> QED
  BY <1>1, <1>2, <1>3, <1>4 DEF RequestsNext

\* Nothing that happens to a caller - an answer, a timeout, a lost client -
\* happens to its job.
THEOREM Aside == RequestsSpec => CallersAside
<1>1. RequestsInit => Init
  BY DEF RequestsInit
<1>2. [RequestsNext]_allVars => [Next]_vars
  BY AsideStep
<1> QED
  BY <1>1, <1>2, PTL DEF RequestsSpec, CallersAside, Spec

LEMMA JobsInvariant == RequestsSpec => [](TypeOK /\ IInv)
  BY Aside, Invariance, PTL DEF CallersAside

-----------------------------------------------------------------------------
(* What a step of the jobs does to a record and to a task.                 *)

\* A record goes forward and a verdict stays.
LEMMA StateForward ==
  ASSUME TypeOK, IInv, [Next]_vars, NEW k \in Jobs
  PROVE  /\ Rank(state[k]) <= Rank(state'[k])
         /\ state[k] \in Settled => state'[k] = state[k]
<1> USE DEF TypeOK, Rank, Unfinished, Settled
<1>1. CASE state'[k] = state[k]
  BY <1>1
<1>2. ASSUME NEW j \in Jobs, Submit(j) \/ SubmitUntracked(j)
      PROVE  state' = [state EXCEPT ![j] = "starting"] /\ state[j] = "none"
  BY <1>2 DEF Submit, SubmitUntracked, CreateRecord
<1>3. ASSUME NEW j \in Jobs,
             Started(j) \/ SessionSeen(j) \/ SessionMissing(j) \/ SaveComplete(j)
               \/ TaskFails(j)
      PROVE  /\ state[j] \in Unfinished
             /\ \E s \in {"running"} \cup Settled : state' = [state EXCEPT ![j] = s]
  <2>1. pc[j] \notin NoTask \cup {"cleanup"}
    BY <1>3 DEF Started, SessionSeen, SessionMissing, SaveComplete, TaskFails, ErrorRaised,
                Answered, Calls, Effects, NoTask
  <2>2. state[j] \in Unfinished
    BY <2>1 DEF IInv, JobInv, Control
  <2> QED
    BY <1>3, <2>2 DEF Started, SessionSeen, SessionMissing, SaveComplete, TaskFails,
                      Record, RecordError, ErrorState
<1>7. ASSUME NEW j \in Jobs, TaskCrashes(j)
      PROVE  \/ UNCHANGED state
             \/ /\ state[j] \in Unfinished
                /\ \E s \in {"running"} \cup Settled : state' = [state EXCEPT ![j] = s]
  <2>1. CASE UNCHANGED disk
    BY <2>1 DEF disk
  <2>2. ASSUME NEW s \in {"running"} \cup Settled, NEW c, Due(j, s, c), RecordError(j, s, c)
        PROVE  state[j] \in Unfinished /\ state' = [state EXCEPT ![j] = s]
    BY <2>2 DEF Due, ErrorRaised, Answered, RecordError, Calls, Effects, NoTask, IInv,
                JobInv, Control
  <2> QED
    BY <1>7, <2>1, <2>2 DEF TaskCrashes
<1>4. CASE BrokerStart
  <2>1. PICK missing \in SUBSET Recoverable :
          state' = [j \in Jobs |-> IF j \in missing THEN "unknown" ELSE state[j]]
    BY <1>4 DEF BrokerStart
  <2>2. k \in missing => state[k] \in Unfinished
    BY DEF Recoverable, Records
  <2> QED
    BY <2>1, <2>2
<1>5. ASSUME NEW j \in Jobs,
             \/ Acquire(j) \/ Staged(j) \/ AccessGranted(j) \/ NotDone(j)
             \/ Wake(j) \/ CompletionSeen(j) \/ CompletionMissing(j)
             \/ Collected(j) \/ SaveStdout(j) \/ SaveStderr(j) \/ CleanedUp(j)
             \/ Remote(j) \/ Wrapper(j) \/ RunStray(j)
             \/ Refuse(j) \/ Disconnect(j) \/ KillClient(j) \/ SessionDies(j)
      PROVE  UNCHANGED state
  BY <1>5
  DEF Acquire, Staged, AccessGranted, NotDone, Wake, CompletionSeen, Collected,
      CompletionMissing, SaveStdout, SaveStderr, SaveOutput, CleanedUp,
      Remote, RunEffect, RunQuery, RunStray, Refuse, Disconnect, KillClient, ClientEnds,
      Wrapper, CommandExits, PublishDone, SessionEnds, SessionDies, disk
<1>6. CASE Close \/ Exit \/ Crash \/ UNCHANGED vars
  BY <1>1, <1>6 DEF Close, Exit, Crash, Abandon, vars, disk
<1> QED
  BY <1>1, <1>2, <1>3, <1>4, <1>5, <1>6, <1>7 DEF Next, BrokerStep, Progress, Fault

\* A task that goes on is a task, and one that ends by itself leaves a verdict.
LEMMA TaskEnds ==
  ASSUME TypeOK, IInv, NEW j \in Jobs, BrokerStep(j)
  PROVE  /\ \A k \in Jobs \ {j} : pc'[k] = pc[k]
         /\ pc'[j] \in NoTask => state'[j] \in Settled
<1> USE DEF TypeOK, Settled, NoTask
<1>1. CASE Acquire(j) \/ Staged(j) \/ AccessGranted(j) \/ Started(j) \/ NotDone(j) \/ Wake(j)
  BY <1>1 DEF Acquire, Staged, AccessGranted, Started, NotDone, Wake, Send, Goto
<1>2. CASE CompletionSeen(j) \/ CompletionMissing(j) \/ SessionSeen(j) \/ Collected(j)
  BY <1>2 DEF CompletionSeen, CompletionMissing, SessionSeen, Collected, Send, Goto
<1>3. CASE SaveStdout(j) \/ SaveStderr(j) \/ SaveComplete(j)
  BY <1>3 DEF SaveStdout, SaveStderr, SaveOutput, SaveComplete, Send, Goto
<1>4. CASE SessionMissing(j) \/ TaskFails(j)
  <2>1. Leave(j) /\ state'[j] \in Settled
    BY <1>4 DEF SessionMissing, TaskFails, RecordError, ErrorState
  <2> QED
    BY <2>1, EndEffect DEF Leave
<1>5. CASE CleanedUp(j)
  <2>1. Leave(j) /\ state'[j] = "complete"
    BY <1>5 DEF CleanedUp, Answered, disk, IInv, JobInv, Control
  <2> QED
    BY <2>1, EndEffect DEF Leave
<1> QED
  BY <1>1, <1>2, <1>3, <1>4, <1>5 DEF BrokerStep, Progress

-----------------------------------------------------------------------------
(* The callers.                                                            *)

\* Who waits has a task or its end; what was told or is to be returned is not
\* ahead of the record, and a verdict is the record's.
CallerInv(j) ==
  /\ j \in waiting /\ pc[j] \in NoTask => result[j] # "none"
  /\ result[j] \in Settled => state[j] = result[j]
  /\ told[j] \in Settled => state[j] = told[j]
  /\ Rank(told[j]) <= Rank(state[j])

CInv == CallerTypeOK /\ \A j \in Jobs : CallerInv(j)

LEMMA CallerStart ==
  ASSUME RequestsInit
  PROVE  CInv
  BY DEF RequestsInit, Init, CallerInit, CInv, CallerTypeOK, CallerInv, Settled, Rank

\* The record of k goes on, and nothing is told of it.
LEMMA CallerKeeps ==
  ASSUME TypeOK, IInv, CInv, [Next]_vars, NEW k \in Jobs, told'[k] = told[k],
         \/ result'[k] = result[k] \/ result'[k] \in {"none", "error"}
         \/ result'[k] = state'[k],
         k \in waiting' /\ pc'[k] \in NoTask => result'[k] # "none"
  PROVE  CallerInv(k)'
<1>1. CallerInv(k)
  BY DEF CInv
<1>2. /\ Rank(state[k]) <= Rank(state'[k])
      /\ state[k] \in Settled => state'[k] = state[k]
  BY StateForward
<1>3. Rank(told[k]) \in Int /\ Rank(state[k]) \in Int /\ Rank(state'[k]) \in Int
  BY DEF Rank
<1>4. Rank(told'[k]) = Rank(told[k])
  BY Zenon DEF Rank
<1>5. Rank(told'[k]) <= Rank(state'[k])
  BY <1>1, <1>2, <1>3, <1>4 DEF CallerInv
<1>6. \A s \in Settled : s # "none" /\ s # "error"
  BY DEF Settled
<1> QED
  BY <1>1, <1>2, <1>5, <1>6 DEF CallerInv

LEMMA CallerActs ==
  ASSUME TypeOK, IInv, CInv, NEW j \in Jobs, Caller(j)
  PROVE  CInv'
<1>1. UNCHANGED <<state, pc>>
  BY CallerStep DEF vars, disk, task
<1>2. CallerTypeOK'
  BY <1>1 DEF CInv, CallerTypeOK, TypeOK, Caller, Returns, Timeout, Leaves, GetJob,
              Resumes, Over, Tells, Load
<1>3. ASSUME NEW k \in Jobs
      PROVE  CallerInv(k)'
  <2>1. CallerInv(k) /\ Rank(told[k]) <= Rank(state[k])
    BY DEF CInv, CallerInv
  <2>2. told'[k] = told[k] \/ told'[k] = state[k]
    BY DEF CInv, CallerTypeOK, CallerInv, Caller, Returns, Timeout, Leaves, GetJob, Resumes,
           Tells, Load
  <2>3. result'[k] = result[k] \/ (k \notin waiting' /\ result'[k] = "none")
    <3>1. CASE GetJob(j)
      BY <3>1 DEF GetJob
    <3>2. CASE Over(j)
      BY <3>2 DEF CInv, CallerTypeOK, Over
    <3> QED
      BY <3>1, <3>2 DEF Caller, Returns, Timeout, Leaves, Resumes
  <2>4. waiting' \subseteq waiting
    BY DEF Caller, Returns, Timeout, Leaves, GetJob, Resumes, Over
  <2>5. state'[k] = state[k] /\ pc'[k] = pc[k] /\ Rank(state[k]) <= Rank(state[k])
    BY <1>1 DEF Rank
  <2>6. Rank(told'[k]) <= Rank(state'[k])
    <3>1. CASE told'[k] = told[k]
      BY <2>1, <2>5, <3>1
    <3>2. CASE told'[k] = state[k]
      BY <2>5, <3>2
    <3> QED
      BY <2>2, <3>1, <3>2
  <2>7. "none" \notin Settled
    BY DEF Settled
  <2> QED
    BY <2>1, <2>2, <2>3, <2>4, <2>5, <2>6, <2>7 DEF CallerInv
<1> QED
  BY <1>2, <1>3 DEF CInv

\* The end of a task reaches the one who waits for it.
LEMMA CallerHands ==
  ASSUME TypeOK, IInv, CInv, [Next]_vars, NEW j \in Jobs, NEW r \in {"error"} \cup Settled,
         Hands(j, r), r = "error" \/ r = state'[j],
         \A k \in Jobs \ {j} : pc'[k] = pc[k]
  PROVE  CInv'
<1>1. CallerTypeOK'
  BY DEF CInv, CallerTypeOK, Hands
<1>2. ASSUME NEW k \in Jobs
      PROVE  CallerInv(k)'
  <2>1. told'[k] = told[k]
    BY DEF Hands
  <2>2. \/ result'[k] = result[k] \/ result'[k] \in {"none", "error"}
        \/ result'[k] = state'[k]
    BY DEF CInv, CallerTypeOK, Hands
  <2>3. k \in waiting' /\ pc'[k] \in NoTask => result'[k] # "none"
    BY DEF CInv, CallerInv, CallerTypeOK, Hands, Settled
  <2> QED
    BY <2>1, <2>2, <2>3, CallerKeeps
<1> QED
  BY <1>1, <1>2 DEF CInv

\* Whatever else happens, no task ends unless its caller is gone.
LEMMA CallerWaits ==
  ASSUME TypeOK, IInv, CInv, [Next]_vars, waiting' \subseteq Jobs, UNCHANGED told,
         \A k \in Jobs : result'[k] = result[k] \/ result'[k] = "none",
         result' \in [Jobs -> {"none", "error"} \cup Settled],
         \A k \in waiting' : pc'[k] \in NoTask => result'[k] # "none"
  PROVE  CInv'
<1>1. CallerTypeOK'
  BY DEF CInv, CallerTypeOK
<1>2. ASSUME NEW k \in Jobs
      PROVE  CallerInv(k)'
  BY CallerKeeps
<1> QED
  BY <1>1, <1>2 DEF CInv

LEMMA CallerNext ==
  ASSUME TypeOK, IInv, CInv, [RequestsNext]_allVars
  PROVE  CInv'
<1>1. [Next]_vars
  BY AsideStep
<1>2. \A k \in waiting : k \in Jobs /\ (pc[k] \in NoTask => result[k] # "none")
  BY DEF CInv, CallerTypeOK, CallerInv
<1>3. ASSUME NEW j \in Jobs, Caller(j)
      PROVE  CInv'
  BY <1>3, CallerActs
<1>4. ASSUME NEW j \in Jobs, Accepts(j)
      PROVE  CInv'
  <2>1. /\ waiting' = waiting \cup {j} /\ UNCHANGED <<result, told>>
        /\ pc' = [pc EXCEPT ![j] = "queued"]
    BY <1>4 DEF Accepts, Submit
  <2> QED
    BY <1>1, <1>2, <2>1, CallerWaits DEF NoTask, CInv, CallerTypeOK, TypeOK
<1>5. ASSUME NEW j \in Jobs, Serves(j)
      PROVE  CInv'
  <2>1. BrokerStep(j)
    BY <1>5 DEF Serves
  <2>2. CASE pc'[j] \in NoTask
    BY <1>1, <1>5, <2>1, <2>2, TaskEnds, CallerHands DEF Serves
  <2>3. CASE pc'[j] \notin NoTask
    BY <1>1, <1>2, <1>5, <2>1, <2>3, TaskEnds, CallerWaits DEF Serves, caller, CInv, CallerTypeOK
  <2> QED
    BY <2>2, <2>3
<1>6. ASSUME NEW j \in Jobs, Breaks(j)
      PROVE  CInv'
  <2>1. pc' = [pc EXCEPT ![j] = "broken"] /\ Hands(j, "error")
    BY <1>6, EndEffect DEF Breaks, TaskCrashes, Break
  <2> QED
    BY <1>1, <2>1, CallerHands DEF TypeOK
<1>7. ASSUME NEW j \in Jobs,
             (Remote(j) \/ Wrapper(j) \/ Lost(j)) /\ UNCHANGED caller
      PROVE  CInv'
  <2>1. UNCHANGED <<pc, waiting, result, told>>
    BY <1>7 DEF Remote, RunEffect, RunQuery, Lost, RunStray, Refuse,
                Disconnect, KillClient, ClientEnds, SessionDies, Wrapper, CommandExits,
                PublishDone, SessionEnds, Answer, task, caller
  <2> QED
    BY <1>1, <1>2, <2>1, CallerWaits DEF CInv, CallerTypeOK
<1>12. ASSUME NEW j \in Jobs, Rejects(j)
       PROVE  CInv'
  <2>1. /\ UNCHANGED <<waiting, result, told>>
        /\ \A k \in Jobs : pc'[k] \in NoTask => pc[k] \in NoTask
    BY <1>12 DEF Rejects, SubmitUntracked, CreateRecord, caller, IInv, JobInv, Control,
                 TypeOK, NoTask
  <2> QED
    BY <1>1, <1>2, <2>1, CallerWaits DEF CInv, CallerTypeOK
<1>8. CASE BrokerStart /\ UNCHANGED caller
  <2>1. \A k \in Jobs : pc[k] \in NoTask
    BY <1>8 DEF BrokerStart, IInv, JobInv, Control
  <2> QED
    BY <1>1, <1>2, <1>8, <2>1, CallerWaits DEF caller, CInv, CallerTypeOK
<1>9. CASE Closes
  BY <1>1, <1>9, CallerWaits DEF Closes, CInv, CallerTypeOK
<1>10. CASE Drops
  BY <1>1, <1>10, CallerWaits DEF Drops
<1>11. CASE UNCHANGED allVars
  <2>1. UNCHANGED <<pc, waiting, result, told>>
    BY <1>11 DEF allVars, vars, task, caller
  <2> QED
    BY <1>1, <1>2, <2>1, CallerWaits DEF CInv, CallerTypeOK
<1> QED
  BY <1>3, <1>4, <1>5, <1>6, <1>7, <1>8, <1>9, <1>10, <1>11, <1>12
  DEF RequestsNext

LEMMA CallerInvariance == RequestsSpec => [](TypeOK /\ IInv /\ CInv)
<1>1. TypeOK /\ IInv /\ CInv /\ [RequestsNext]_allVars => CInv'
  BY CallerNext
<1>2. RequestsInit => CInv
  BY CallerStart
<1> QED
  BY <1>1, <1>2, JobsInvariant, PTL DEF RequestsSpec

\* The callers' variables have their types.
THEOREM CallerTypeCorrect == RequestsSpec => []CallerTypeOK
<1>1. CInv => CallerTypeOK
  BY DEF CInv
<1> QED
  BY <1>1, CallerInvariance, PTL

\* Nobody waits for a task that is gone without having handed over its end.
THEOREM Awaited == RequestsSpec => []NobodyForgotten
<1>1. CInv => NobodyForgotten
  BY DEF CInv, CallerTypeOK, CallerInv, NobodyForgotten
<1> QED
  BY <1>1, CallerInvariance, PTL

\* The verdict that anybody was given stands: it is in the record, and with
\* "complete" both outputs are in the state directory.
THEOREM Stand == RequestsSpec => []AnswersStand
<1>1. ASSUME TypeOK, IInv, CInv, NEW j \in Jobs, told[j] \in Settled
      PROVE  /\ state[j] = told[j]
             /\ told[j] = "complete" => saved[j] = {"stdout", "stderr"}
  <2>1. state[j] = told[j]
    BY <1>1 DEF CInv, CallerInv
  <2>2. state[j] = "complete" => saved[j] = {"stdout", "stderr"}
    BY <1>1 DEF IInv, JobInv, Kept
  <2> QED
    BY <2>1, <2>2
<1>2. TypeOK /\ IInv /\ CInv => AnswersStand
  BY <1>1 DEF AnswersStand
<1> QED
  BY <1>2, CallerInvariance, PTL

\* What is told in a step is the record of that moment, or the end that the
\* record still shows.
LEMMA TellsForward ==
  ASSUME TypeOK, IInv, CInv, NEW j \in Jobs, Caller(j), NEW k \in Jobs
  PROVE  Rank(told[k]) <= Rank(told'[k])
<1>1. Rank(told[k]) <= Rank(state[k]) /\ Rank(told[k]) <= Rank(told[k])
  BY DEF CInv, CallerInv, Rank
<1>2. told'[k] = told[k] \/ told'[k] = state[k]
  BY DEF CInv, CallerTypeOK, CallerInv, Caller, Returns, Timeout, Leaves, GetJob, Resumes,
     Tells, Load
<1>3. CASE told'[k] = told[k]
  BY <1>1, <1>3
<1>4. CASE told'[k] = state[k]
  BY <1>1, <1>4
<1> QED
  BY <1>2, <1>3, <1>4

\* No answer is older than one that anybody had before.
THEOREM Forward == RequestsSpec => AnswersForward
<1>1. ASSUME TypeOK, IInv, CInv, [RequestsNext]_allVars, told' # told
      PROVE  \A k \in Jobs : Rank(told[k]) <= Rank(told'[k])
  <2>1. PICK j \in Jobs : Caller(j)
    BY <1>1 DEF RequestsNext, allVars, caller, Accepts, Rejects, Serves, Breaks, Hands, Closes,
                Drops
  <2> QED
    BY <1>1, <2>1, TellsForward
<1>2. TypeOK /\ IInv /\ CInv /\ [RequestsNext]_allVars
        => [\A j \in Jobs : Rank(told[j]) <= Rank(told'[j])]_told
  BY <1>1
<1>3. RequestsSpec => [][\A j \in Jobs : Rank(told[j]) <= Rank(told'[j])]_told
  BY <1>2, CallerInvariance, PTL DEF RequestsSpec
<1> QED
  BY <1>3 DEF AnswersForward
=============================================================================
