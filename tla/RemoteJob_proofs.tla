-------------------------- MODULE RemoteJob_proofs --------------------------
(***************************************************************************)
(* Proofs about RemoteJob, for any amount of output.                       *)
(***************************************************************************)
EXTENDS RemoteJob, TLAPS

\* What each step of the wrapper, and each step of the broker, can rely on.
Sequence ==
  /\ running => pc = "command"
  /\ pc \in {"chown", "mark", "ownmark", "finish"} => exitcode = "whole"
  /\ pc \in {"mark", "ownmark", "finish"} => owned
  /\ ~sudo => owned
  /\ done => exitcode = "whole" /\ owned /\ ~running
  /\ broker # "polling" => done
  /\ broker \in {"reading", "cleanup"} \cup Saving => got >= final
  /\ removed <=> broker = "removed"
  /\ broker = "removed" => got >= final
  /\ pc \in {"command", "status", "publish"} => exitcode = "none"
  /\ pc = "exit" => done
  /\ done => pc \in {"exit", "over"}
  /\ broker # "denied"

IInv == TypeOK /\ Sequence

LEMMA InitIInv == Init => IInv
<1> SUFFICES ASSUME Init
             PROVE  IInv
  OBVIOUS
<1>1. TypeOK
  <2>1. sudo \in BOOLEAN /\ running \in BOOLEAN /\ background \in BOOLEAN
        /\ owned \in BOOLEAN /\ done \in BOOLEAN /\ removed \in BOOLEAN
    BY Zenon DEF Init
  <2>2. /\ pc \in Steps /\ out \in 0..MaxOutput /\ final \in 0..out /\ got \in 0..out
        /\ exitcode \in {"none", "whole"} /\ broker \in Brokers
    BY OutputAssumption DEF Init, Steps, Brokers
  <2> QED
    BY <2>1, <2>2, Zenon DEF TypeOK
<1>2. Sequence
  BY DEF Init, Sequence, Saving
<1> QED
  BY <1>1, <1>2 DEF IInv

LEMMA StepIInv ==
  ASSUME IInv, [Next]_vars
  PROVE  IInv'
<1> USE OutputAssumption DEF IInv, TypeOK, Steps, Brokers, Saving, Sequence
<1>1. CASE Output \/ Detach \/ BackgroundEnds \/ CommandEnds
  <2>1. CASE Output
    BY <2>1 DEF Output
  <2>2. CASE Detach
    BY <2>2 DEF Detach
  <2>3. CASE BackgroundEnds
    BY <2>3 DEF BackgroundEnds
  <2>4. CASE CommandEnds
    <3>1. ~done /\ broker = "polling"
      BY <2>4 DEF CommandEnds
    <3>2. final' = out /\ ~running' /\ running' \in BOOLEAN
      BY <2>4, Zenon DEF CommandEnds
    <3>3. UNCHANGED <<sudo, pc, background, out, exitcode, owned, done, removed, broker, got>>
      BY <2>4 DEF CommandEnds
    <3> QED
      BY <3>1, <3>2, <3>3
  <2> QED
    BY <1>1, <2>1, <2>2, <2>3, <2>4
<1>2. CASE Await \/ WriteStatus
  BY <1>2 DEF Await, WriteStatus, Step
<1>3. CASE PublishStatus
  BY <1>3 DEF PublishStatus, Step
<1>4. CASE ChownResults
  BY <1>4 DEF ChownResults, Step
<1>5. CASE Mark \/ Finish \/ Exit
  <2>1. CASE Mark
    BY <2>1 DEF Mark, Step
  <2>2. CASE Finish
    BY <2>2 DEF Finish, Step
  <2>3. CASE Exit
    BY <2>3 DEF Exit, Step
  <2> QED
    BY <1>5, <2>1, <2>2, <2>3
<1>6. CASE WrapperDies
  <2>1. pc' = "over" /\ ~running' /\ running' \in BOOLEAN
    BY <1>6, Zenon DEF WrapperDies
  <2>2. background' \in BOOLEAN
    BY <1>6, Zenon DEF WrapperDies
  <2>3. UNCHANGED <<sudo, out, exitcode, owned, done, removed, broker, got>>
    BY <1>6 DEF WrapperDies
  <2>4. final' = IF running THEN out ELSE final
    BY <1>6 DEF WrapperDies
  <2>5. CASE running
    <3>1. ~done /\ broker = "polling" /\ final' = out
      BY <2>4, <2>5
    <3> QED
      BY <2>1, <2>2, <2>3, <3>1
  <2>6. CASE ~running
    BY <2>1, <2>2, <2>3, <2>4, <2>6
  <2> QED
    BY <2>5, <2>6
<1>7. CASE Poll \/ ReadOutput
  <2>1. CASE Poll
    BY <2>1 DEF Poll, wrapper
  <2>2. CASE ReadOutput
    BY <2>2 DEF ReadOutput, wrapper
  <2> QED
    BY <1>7, <2>1, <2>2
<1>8. CASE ReadStatus \/ Store
  <2>1. CASE ReadStatus
    BY <2>1 DEF ReadStatus, wrapper
  <2>2. CASE Store
    BY <2>2 DEF Store, wrapper
  <2> QED
    BY <1>8, <2>1, <2>2
<1>10. CASE Cleanup
  <2>1. removed' /\ removed' \in BOOLEAN
    BY <1>10, Zenon DEF Cleanup
  <2> QED
    BY <1>10, <2>1 DEF Cleanup, wrapper
<1>9. CASE UNCHANGED vars
  BY <1>9 DEF vars, wrapper
<1> QED
  BY <1>1, <1>2, <1>3, <1>4, <1>5, <1>6, <1>7, <1>8, <1>9, <1>10 DEF Next

LEMMA Invariance == Spec => []IInv
<1>1. IInv /\ [Next]_vars => IInv'
  BY StepIInv
<1> QED
  BY <1>1, InitIInv, PTL DEF Spec

\* Every reachable state has the modelled shape.
THEOREM TypeCorrect == Spec => []TypeOK
<1>1. IInv => TypeOK
  BY DEF IInv
<1> QED
  BY <1>1, Invariance, PTL

\* The marker is published after everything that tar needs (remote_job.sh).
THEOREM MarkerSuffices == Spec => []NeverDenied
<1>1. IInv => NeverDenied
  BY DEF IInv, Sequence, NeverDenied
<1> QED
  BY <1>1, Invariance, PTL

\* The directory is removed only when all the command's output was read.
THEOREM NothingLost == Spec => []CollectedWhole
<1>1. IInv => CollectedWhole
  BY DEF IInv, Sequence, CollectedWhole
<1> QED
  BY <1>1, Invariance, PTL

-----------------------------------------------------------------------------
(* The job of JobLifecycle.                                                *)

\* What the functions of one job are made of.
LEMMA Only ==
  /\ \A x, y : [The(x) EXCEPT !["job"] = y] = The(y)
  /\ \A x : The(x)["job"] = x
  BY DEF The

\* A step that changes nothing that JobLifecycle sees.
LEMMA Unseen ==
  ASSUME UNCHANGED <<jobState, jobSaved, jobFiles, jobSession, jobPc, jobReply>>
  PROVE  UNCHANGED Job!vars
  BY DEF Job!vars, Job!disk, Job!host, Job!task, Job!service, The

\* The broker's side as it is while only the wrapper moves, and the other way round.
LEMMA Apart ==
  /\ UNCHANGED broker => UNCHANGED <<jobState, jobSaved, jobPc, jobReply>>
  /\ UNCHANGED <<pc, exitcode, done, removed>> => UNCHANGED <<jobFiles, jobSession>>
  BY DEF jobState, jobSaved, jobPc, jobReply, jobFiles, jobSession

\* The loop is idle while the only task is between two awaits.
LEMMA NotSaving ==
  ASSUME jobPc \in {"poll", "collect"}
  PROVE  Job!LoopIdle
  BY Only DEF Job!LoopIdle, Job!Saving

LEMMA JobStep ==
  ASSUME IInv, [Next]_vars
  PROVE  [Job!Next]_(Job!vars)
<1> USE DEF IInv, TypeOK, Sequence
<1>1. CASE UNCHANGED vars
  BY <1>1, Unseen, Apart DEF vars, wrapper
<1>2. CASE Output \/ Detach \/ BackgroundEnds \/ CommandEnds
  <2>1. UNCHANGED <<pc, exitcode, done, removed, broker>>
    BY <1>2 DEF Output, Detach, BackgroundEnds, CommandEnds
  <2> QED
    BY <2>1, Unseen, Apart
<1>3. CASE Await \/ WriteStatus \/ ChownResults \/ Mark
  <2>1. UNCHANGED <<exitcode, done, removed, broker>> /\ pc # "over" /\ pc' # "over"
    BY <1>3 DEF Await, WriteStatus, ChownResults, Mark, Step
  <2>2. UNCHANGED <<jobFiles, jobSession>>
    BY <2>1 DEF jobFiles, jobSession
  <2> QED
    BY <2>1, <2>2, Unseen, Apart
<1>4. CASE PublishStatus
  <2>1. /\ jobFiles = "staged" /\ jobFiles' = "final"
        /\ jobSession = "live" /\ jobSession' = "live"
        /\ UNCHANGED broker
    BY <1>4 DEF PublishStatus, Step, jobFiles, jobSession
  <2>2. Job!CommandExits("job")
    BY <2>1, Only, Apart DEF Job!CommandExits, Job!disk, Job!task, Job!service
  <2> QED
    BY <2>2 DEF Job!Next, Job!Wrapper
<1>5. CASE Finish
  <2>1. /\ jobFiles = "final" /\ jobFiles' = "done"
        /\ jobSession = "live" /\ jobSession' = "live"
        /\ UNCHANGED broker
    BY <1>5 DEF Finish, Step, jobFiles, jobSession
  <2>2. Job!PublishDone("job")
    BY <2>1, Only, Apart DEF Job!PublishDone, Job!disk, Job!task, Job!service
  <2> QED
    BY <2>2 DEF Job!Next, Job!Wrapper
<1>6. CASE Exit \/ WrapperDies
  <2>1. /\ jobSession = "live" /\ jobSession' = "ended"
        /\ UNCHANGED <<broker, jobFiles>>
    BY <1>6 DEF Exit, WrapperDies, Step, jobFiles, jobSession
  <2>2. jobFiles \in {"staged", "final", "done", "gone"}
    BY DEF jobFiles
  <2>3. Job!SessionEnds("job") \/ Job!SessionDies("job")
    BY <2>1, <2>2, Only, Apart
    DEF Job!SessionEnds, Job!SessionDies, Job!disk, Job!task, Job!service
  <2> QED
    BY <2>3 DEF Job!Next, Job!Wrapper, Job!Fault
<1>7. CASE Poll
  <2>1. /\ jobPc = "poll" /\ jobReply = "wait" /\ jobReply' = "ok" /\ jobFiles = "done"
        /\ UNCHANGED <<jobState, jobSaved, jobFiles, jobSession, jobPc>>
    BY <1>7 DEF Poll, wrapper, jobState, jobSaved, jobPc, jobReply, jobFiles, jobSession
  <2>2. Job!RunQuery("job")
    BY <2>1, Only DEF Job!RunQuery, Job!QueryAnswer, Job!Answer, Job!Calls, Job!Effects,
                      Job!disk, Job!host, Job!service
  <2> QED
    BY <2>2 DEF Job!Next, Job!Remote
<1>8. CASE ReadOutput
  <2>1. /\ jobPc = "poll" /\ jobReply = "ok" /\ jobPc' = "collect" /\ jobReply' = "wait"
        /\ UNCHANGED <<jobState, jobSaved, jobFiles, jobSession>>
    BY <1>8 DEF ReadOutput, wrapper, jobState, jobSaved, jobPc, jobReply, jobFiles, jobSession
  <2>2. Job!CompletionSeen("job")
    BY <2>1, Only, NotSaving
    DEF Job!CompletionSeen, Job!Answered, Job!Send, Job!disk, Job!host, Job!service
  <2> QED
    BY <2>2 DEF Job!Next, Job!BrokerStep, Job!Progress
<1>9. CASE ReadStatus
  <2>1. /\ jobPc = "collect" /\ jobReply = "wait"
        /\ jobFiles = "done"
        /\ UNCHANGED <<jobState, jobSaved, jobFiles, jobSession, jobPc>>
    BY <1>9 DEF ReadStatus, wrapper, jobState, jobSaved, jobPc, jobReply, jobFiles, jobSession
  <2>2. jobReply' = "ok" \/ jobReply' = "fail"
    BY <1>9 DEF ReadStatus, jobReply
  <2>3. Job!RunQuery("job") \/ Job!Refuse("job")
    BY <2>1, <2>2, Only
    DEF Job!RunQuery, Job!Refuse, Job!QueryAnswer, Job!Answer, Job!Calls, Job!Effects,
        Job!disk, Job!host, Job!service
  <2> QED
    BY <2>3 DEF Job!Next, Job!Remote, Job!Fault
<1>10. CASE Store
  <2>1. UNCHANGED <<jobFiles, jobSession>>
    BY <1>10 DEF Store, wrapper, jobFiles, jobSession
  <2>2. CASE broker = "collected"
    <3>1. /\ jobPc = "collect" /\ jobReply = "ok" /\ jobPc' = "stdout"
          /\ UNCHANGED <<jobState, jobSaved, jobReply>>
      BY <1>10, <2>2 DEF Store, jobState, jobSaved, jobPc, jobReply
    <3>2. Job!Collected("job")
      BY <2>1, <3>1, Only, NotSaving
      DEF Job!Collected, Job!Answered, Job!Goto, Job!disk, Job!host, Job!service
    <3> QED
      BY <3>2 DEF Job!Next, Job!BrokerStep, Job!Progress
  <2>3. CASE broker = "stdout"
    <3>1. /\ jobPc = "stdout" /\ jobPc' = "stderr" /\ jobSaved = {} /\ jobSaved' = {"stdout"}
          /\ UNCHANGED <<jobState, jobReply>>
      BY <1>10, <2>3 DEF Store, jobState, jobSaved, jobPc, jobReply
    <3>2. Job!SaveStdout("job")
      BY <2>1, <3>1, Only
      DEF Job!SaveStdout, Job!SaveOutput, Job!Goto, Job!host, Job!service
    <3> QED
      BY <3>2 DEF Job!Next, Job!BrokerStep, Job!Progress
  <2>4. CASE broker = "stderr"
    <3>1. /\ jobPc = "stderr" /\ jobPc' = "record"
          /\ jobSaved = {"stdout"} /\ jobSaved' = {"stdout", "stderr"}
          /\ UNCHANGED <<jobState, jobReply>>
      BY <1>10, <2>4 DEF Store, jobState, jobSaved, jobPc, jobReply
    <3>2. jobSaved' = jobSaved \cup {"stderr"}
      BY <3>1
    <3>3. Job!SaveStderr("job")
      BY <2>1, <3>1, <3>2, Only
      DEF Job!SaveStderr, Job!SaveOutput, Job!Goto, Job!host, Job!service
    <3> QED
      BY <3>3 DEF Job!Next, Job!BrokerStep, Job!Progress
  <2>5. CASE broker = "record"
    <3>1. /\ jobPc = "record" /\ jobPc' = "cleanup" /\ jobReply' = "wait"
          /\ jobState' = "complete"
          /\ UNCHANGED jobSaved
      BY <1>10, <2>5 DEF Store, jobState, jobSaved, jobPc, jobReply
    <3>2. Job!SaveComplete("job")
      BY <2>1, <3>1, Only
      DEF Job!SaveComplete, Job!RecordError, Job!Send, Job!host, Job!service
    <3> QED
      BY <3>2 DEF Job!Next, Job!BrokerStep, Job!Progress
  <2> QED
    BY <1>10, <2>2, <2>3, <2>4, <2>5 DEF Store
<1>11. CASE Cleanup
  <2>1. /\ jobPc = "cleanup" /\ jobReply = "wait" /\ jobReply' = "ok" /\ jobFiles' = "gone"
        /\ UNCHANGED <<jobState, jobSaved, jobSession, jobPc>>
    BY <1>11 DEF Cleanup, wrapper, jobState, jobSaved, jobPc, jobReply, jobFiles, jobSession
  <2>2. Job!RunEffect("job")
    BY <2>1, Only DEF Job!RunEffect, Job!Effect, Job!Answer, Job!Effects, Job!disk, Job!service
  <2> QED
    BY <2>2 DEF Job!Next, Job!Remote
<1> QED
  BY <1>1, <1>2, <1>3, <1>4, <1>5, <1>6, <1>7, <1>8, <1>9, <1>10, <1>11 DEF Next

\* Each step of the wrapper and of the collection is a step of JobLifecycle, or
\* nothing that it sees.
THEOREM Composition == Spec => StepsOfAJob
<1>1. IInv /\ [Next]_vars => [Job!Next]_(Job!vars)
  BY JobStep
<1> QED
  BY <1>1, Invariance, PTL DEF Spec, StepsOfAJob
=============================================================================
