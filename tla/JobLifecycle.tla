--------------------------- MODULE JobLifecycle ---------------------------
(***************************************************************************)
(* The life of tmuxgate jobs: one broker process (service.py, executor.py, *)
(* jobs.py) whose tasks talk over SSH to the machines where the wrapper    *)
(* remote_job.sh runs each command in a tmux session.  The broker may be   *)
(* closed, may crash and is started again; connections drop, remote        *)
(* commands refuse, sessions die.                                          *)
(*                                                                         *)
(* A task is at the SSH command pc[j]; reply[j] is that command's answer,  *)
(* "wait" until the machine gave one.  The machine acts and the broker     *)
(* reads the answer in two steps, so an answer may be stale when read.     *)
(***************************************************************************)
EXTENDS Integers, Sequences, FiniteSets

CONSTANTS Jobs,          \* job ids
          SudoJobs,      \* jobs requested with sudo=true
          Mortal,        \* jobs whose session may die before done, or whose
                         \* machine may answer no more
          Slots,         \* service.CONCURRENCY
          RecoverLimit,  \* how many of the newest records a restart reads
          MaxStarts,     \* bound: broker processes in one behaviour
          Faults         \* the failures this instance allows

FaultKinds == {"disconnect",  \* the ssh client loses the connection: 255
               "refuse",      \* the remote command exits nonzero
               "signal",      \* the local ssh client is killed by a signal
               "spawn",       \* the ssh client or credential cannot be had
               "disk",        \* a write under the state directory fails
               "alias",       \* an alias is missing after a restart
               "moved",       \* an alias names another machine after a restart
               "force",       \* a shutdown that does not wait for requests
               "crash"}       \* the broker process dies

ASSUME LifecycleAssumption ==
  /\ IsFiniteSet(Jobs)
  /\ SudoJobs \subseteq Jobs
  /\ Mortal \subseteq Jobs
  /\ Slots \in Nat \ {0}
  /\ RecoverLimit \in Nat
  /\ MaxStarts \in Nat
  /\ Faults \subseteq FaultKinds

VARIABLES
  \* the state directory
  state,     \* the record's state, "none" while there is no record
  code,      \* the record's error_code
  created,   \* the record's rank by created_at, 0 while there is no record
  saved,     \* which of the job's outputs are under results/
  \* the machines
  files,     \* ~/.cache/tmuxgate/jobs/<job_id>
  session,   \* the tmux session tmuxgate-<job_id>
  runs,      \* how often the command was started (history)
  stray,     \* commands whose ssh client is gone and that may still arrive
  \* the broker's tasks
  pc, mode, reply,
  \* the broker
  broker, queue, free, starts

disk    == <<state, code, created, saved>>
host    == <<files, session, runs, stray>>
task    == <<pc, mode, reply>>
service == <<broker, queue, free, starts>>
vars    == <<disk, host, task, service>>

Unfinished == {"starting", "running"}       \* what recoverable() selects
Settled    == {"complete", "failed", "unknown"}
Codes      == {"none", "ssh_failed", "remote_stage_failed", "sudo_failed",
               "remote_start_failed", "result_collection_failed",
               "remote_job_unknown", "unknown_machine"}
Files      == {"none", "staged", "final", "done", "gone"}
Effects    == {"stage", "start", "cleanup"}  \* commands that change a machine
Calls      == Effects \cup {"access", "poll", "check", "session", "collect"}
Saving     == {"stdout", "stderr", "record"} \* collect() between two awaits
Holding    == Calls \cup Saving \cup {"sleep"}
NoTask     == {"none", "broken"}             \* broken: an exception ended it
Replies    == {"wait", "ok", "no", "fail", "lost", "killed"}

TypeOK ==
  /\ state \in [Jobs -> {"none"} \cup Unfinished \cup Settled]
  /\ code \in [Jobs -> Codes]
  /\ created \in [Jobs -> Nat]
  /\ saved \in [Jobs -> SUBSET {"stdout", "stderr"}]
  /\ files \in [Jobs -> Files]
  /\ session \in [Jobs -> {"none", "live", "ended"}]
  /\ runs \in [Jobs -> Nat]
  /\ stray \in [Jobs -> SUBSET Effects]
  /\ pc \in [Jobs -> NoTask \cup {"queued"} \cup Holding]
  /\ mode \in [Jobs -> {"execute", "recover", "astray"}]
  /\ reply \in [Jobs -> Replies]
  /\ broker \in {"down", "up", "closing"}
  /\ queue \in Seq(Jobs)
  /\ free \in Int
  /\ starts \in Nat

Init ==
  /\ state = [j \in Jobs |-> "none"]
  /\ code = [j \in Jobs |-> "none"]
  /\ created = [j \in Jobs |-> 0]
  /\ saved = [j \in Jobs |-> {}]
  /\ files = [j \in Jobs |-> "none"]
  /\ session = [j \in Jobs |-> "none"]
  /\ runs = [j \in Jobs |-> 0]
  /\ stray = [j \in Jobs |-> {}]
  /\ pc = [j \in Jobs |-> "none"]
  /\ mode = [j \in Jobs |-> "execute"]
  /\ reply = [j \in Jobs |-> "wait"]
  /\ broker = "down"
  /\ queue = <<>>
  /\ free = Slots
  /\ starts = 0

-----------------------------------------------------------------------------
(* Helpers of the broker's steps.                                          *)

\* The event loop runs another task only at an await: never inside Saving.
LoopIdle == \A j \in Jobs : pc[j] \notin Saving

Records  == {j \in Jobs : state[j] # "none"}

Newer(j) == {k \in Records : created[k] > created[j]}

\* Mutated form of Recoverable: a restart looks at running records only.
RecoverableRunning == {j \in Records : state[j] = "running"}

\* Mutated form of Recoverable: the list is not reversed before it is cut.
RecoverableOldest ==
  {j \in Records : /\ state[j] \in Unfinished
                   /\ Cardinality({k \in Records : created[k] < created[j]})
                        < RecoverLimit}

\* JobStore.recoverable: the list is cut to the newest before it is filtered.
Recoverable ==
  {j \in Records : state[j] \in Unfinished /\ Cardinality(Newer(j)) < RecoverLimit}

\* JobStore.list returns newest first, and tasks are queued in that order.
NewestFirst(S) ==
  {q \in [1..Cardinality(S) -> S] :
     \A a, b \in 1..Cardinality(S) : a < b => created[q[a]] > created[q[b]]}

\* The task sends its next command and waits for the answer.
Send(j, command) == /\ pc' = [pc EXCEPT ![j] = command]
                    /\ reply' = [reply EXCEPT ![j] = "wait"]
                    /\ UNCHANGED mode

\* The task goes on without waiting for the machine.
Goto(j, place) == /\ pc' = [pc EXCEPT ![j] = place]
                  /\ UNCHANGED <<mode, reply>>

\* No task is left of these jobs.
Forget(S, place) ==
  /\ pc' = [j \in Jobs |-> IF j \in S THEN place ELSE pc[j]]
  /\ mode' = [j \in Jobs |-> IF j \in S THEN "execute" ELSE mode[j]]
  /\ reply' = [j \in Jobs |-> IF j \in S THEN "wait" ELSE reply[j]]

\* Mutated form of Leave: the slot is not given back.
LeaveHolding(j) == /\ Forget({j}, "none")
                   /\ UNCHANGED service

\* The task leaves `async with self._semaphore` and is forgotten.
End(j, place) == /\ Forget({j}, place)
                 /\ free' = free + 1
                 /\ UNCHANGED <<broker, queue, starts>>

Leave(j) == End(j, "none")    \* by return
Break(j) == End(j, "broken")  \* by an exception that no handler catches

\* JobStore.update of the state alone, and of an error.
Record(j, s) == /\ state' = [state EXCEPT ![j] = s]
                /\ UNCHANGED <<code, created, saved>>
RecordError(j, s, c) == /\ state' = [state EXCEPT ![j] = s]
                        /\ code' = [code EXCEPT ![j] = c]
                        /\ UNCHANGED <<created, saved>>

Answered(j, command, answer) == /\ LoopIdle
                                /\ pc[j] = command
                                /\ reply[j] = answer

-----------------------------------------------------------------------------
(* Requests and slots.                                                     *)

\* JobStore.create: the record is published before anything else happens.
CreateRecord(j) ==
  /\ LoopIdle
  /\ state[j] = "none"
  /\ state' = [state EXCEPT ![j] = "starting"]
  /\ created' = [created EXCEPT ![j] = Cardinality(Records) + 1]
  /\ UNCHANGED <<code, saved>>

\* ExecutionService._run: a task of its own carries the request.
Submit(j) ==
  /\ broker = "up"
  /\ CreateRecord(j)
  /\ pc' = [pc EXCEPT ![j] = "queued"]
  /\ mode' = [mode EXCEPT ![j] = "execute"]
  /\ queue' = Append(queue, j)
  /\ UNCHANGED <<host, reply, broker, free, starts>>

\* No task carries the request although its record was published: _track refuses
\* while shutting down, or the write raised when the file was in its place.  The
\* caller gets the exception.
SubmitUntracked(j) ==
  /\ \/ "force" \in Faults /\ broker = "closing"
     \/ "disk" \in Faults /\ broker = "up"
  /\ CreateRecord(j)
  /\ pc' = [pc EXCEPT ![j] = "broken"]
  /\ UNCHANGED <<host, mode, reply, service>>

\* The semaphore admits its waiters in the order they came.
Acquire(j) ==
  /\ LoopIdle
  /\ queue # <<>> /\ j = Head(queue) /\ pc[j] = "queued"
  /\ free > 0
  /\ free' = free - 1
  /\ queue' = Tail(queue)
  /\ Send(j, IF mode[j] = "execute" THEN "stage" ELSE "check")
  /\ UNCHANGED <<disk, host, broker, starts>>

-----------------------------------------------------------------------------
(* What the broker does with an answer.                                    *)

\* stage returned: start() asks for sudo first where the job wants it.
Staged(j) ==
  /\ Answered(j, "stage", "ok")
  /\ Send(j, IF j \in SudoJobs THEN "access" ELSE "start")
  /\ UNCHANGED <<disk, host, service>>

\* sudo_access returned, on the way to tmux new-session or has-session.
AccessGranted(j) ==
  /\ Answered(j, "access", "ok")
  /\ Send(j, IF mode[j] = "execute" THEN "start" ELSE "session")
  /\ UNCHANGED <<disk, host, service>>

\* start returned: the job is recorded as running and monitor() begins.
Started(j) ==
  /\ Answered(j, "start", "ok")
  /\ Record(j, "running")
  /\ Send(j, "poll")
  /\ UNCHANGED <<host, service>>

\* monitor: no marker yet, so sleep ...
NotDone(j) ==
  /\ Answered(j, "poll", "no")
  /\ Goto(j, "sleep")
  /\ UNCHANGED <<disk, host, service>>

\* ... and test again.
Wake(j) ==
  /\ LoopIdle
  /\ pc[j] = "sleep"
  /\ Send(j, "poll")
  /\ UNCHANGED <<disk, host, service>>

\* The marker exists: monitor() or recover() goes on to collect.
CompletionSeen(j) ==
  /\ Answered(j, "poll", "ok") \/ Answered(j, "check", "ok")
  /\ Send(j, "collect")
  /\ UNCHANGED <<disk, host, service>>

\* Mutated form of CompletionMissing: no marker, so start the job once more.
CompletionMissingRerun(j) ==
  /\ Answered(j, "check", "no")
  /\ Send(j, "start")
  /\ UNCHANGED <<disk, host, service>>

\* recover: no marker, so ask for the session.
CompletionMissing(j) ==
  /\ Answered(j, "check", "no")
  /\ Send(j, IF j \in SudoJobs THEN "access" ELSE "session")
  /\ UNCHANGED <<disk, host, service>>

\* recover: the session lives, so monitor it.
SessionSeen(j) ==
  /\ Answered(j, "session", "ok")
  /\ Record(j, "running")
  /\ Send(j, "poll")
  /\ UNCHANGED <<host, service>>

\* Mutated form of SessionMissing: a job without session is called failed.
SessionMissingFailed(j) ==
  /\ \E answer \in {"no", "fail", "killed"} : Answered(j, "session", answer)
  /\ RecordError(j, "failed", "remote_job_unknown")
  /\ Leave(j)
  /\ UNCHANGED host

\* recover: session_running takes every other exit status but 255 for "no".
SessionMissing(j) ==
  /\ \E answer \in {"no", "fail", "killed"} : Answered(j, "session", answer)
  /\ RecordError(j, "unknown", "remote_job_unknown")
  /\ Leave(j)
  /\ UNCHANGED host

\* collect: the archive arrived; what follows runs without an await.
Collected(j) ==
  /\ Answered(j, "collect", "ok")
  /\ Goto(j, "stdout")
  /\ UNCHANGED <<disk, host, service>>

SaveOutput(j, output, next) ==
  /\ pc[j] = output
  /\ saved' = [saved EXCEPT ![j] = @ \cup {output}]
  /\ Goto(j, next)
  /\ UNCHANGED <<state, code, created, host, service>>

\* Mutated form of SaveStdout: stderr is left for later.
SaveStdoutOnly(j) == SaveOutput(j, "stdout", "record")

SaveStdout(j) == SaveOutput(j, "stdout", "stderr")
SaveStderr(j) == SaveOutput(j, "stderr", "record")

\* The record becomes complete, and cleanup() is sent in the same stretch.
SaveComplete(j) ==
  /\ pc[j] = "record"
  /\ RecordError(j, "complete", "none")
  /\ Send(j, "cleanup")
  /\ UNCHANGED <<host, service>>

\* Whatever cleanup() answers, the record stays complete.
CleanedUp(j) ==
  /\ \E answer \in Replies \ {"wait"} : Answered(j, "cleanup", answer)
  /\ Leave(j)
  /\ UNCHANGED <<disk, host>>

-----------------------------------------------------------------------------
(* What the broker does with a failure.                                    *)

\* _classify_failure, _sudo_failure and collect: the error_code of a failure.
ErrorCode(j) ==
  IF pc[j] \in {"collect"} \cup Saving THEN "result_collection_failed"
  ELSE IF reply[j] = "lost" \/ pc[j] \in {"poll", "check"} THEN "ssh_failed"
  ELSE IF pc[j] = "stage" THEN "remote_stage_failed"
  ELSE IF j \in SudoJobs THEN "sudo_failed" ELSE "remote_start_failed"

\* Mutated form of ErrorState: possibly_started is not looked at.
ErrorStateUnaware(j) ==
  IF \/ mode[j] # "execute"
     \/ state[j] = "running" /\ ErrorCode(j) = "ssh_failed"
  THEN "unknown" ELSE "failed"

\* The `except ExecutionError` handlers of execute and recover.
ErrorState(j) ==
  IF \/ mode[j] # "execute"
     \/ /\ pc[j] = "start" \/ state[j] = "running"
        /\ ErrorCode(j) = "ssh_failed"
  THEN "unknown" ELSE "failed"

\* An ExecutionError is raised: a bad answer, or an output cannot be saved.
ErrorRaised(j) ==
  \/ /\ pc[j] \in Calls \ {"cleanup", "session"}
     /\ reply[j] \in {"fail", "lost", "killed"} /\ LoopIdle
  \/ Answered(j, "session", "lost")
  \/ j \in SudoJobs /\ Answered(j, "session", "fail")
  \/ pc[j] \in {"stdout", "stderr"} /\ "disk" \in Faults

TaskFails(j) ==
  /\ ErrorRaised(j)
  /\ RecordError(j, ErrorState(j), ErrorCode(j))
  /\ Leave(j)
  /\ UNCHANGED host

\* Mutated form of TaskCrashes: only a normal return releases the slot.
TaskCrashesHolding(j) ==
  /\ "spawn" \in Faults
  /\ \E command \in Calls : Answered(j, command, "wait")
  /\ Forget({j}, "broken")
  /\ UNCHANGED <<disk, host, service>>

\* The task is about to write state s and error code c to its record.
Due(j, s, c) ==
  \/ /\ Answered(j, "start", "ok") \/ (Answered(j, "session", "ok") /\ state[j] = "starting")
     /\ s = "running" /\ c = code[j]
  \/ /\ \E answer \in {"no", "fail", "killed"} : Answered(j, "session", answer)
     /\ s = "unknown" /\ c = "remote_job_unknown"
  \/ pc[j] = "record" /\ s = "complete" /\ c = "none"
  \/ ErrorRaised(j) /\ s = ErrorState(j) /\ c = ErrorCode(j)

\* Any other exception ends the task and is only logged (_track.finished):
\* ssh or the credential cannot be had, or a write of the record raises, before
\* or after the record took its place.
TaskCrashes(j) ==
  /\ \/ /\ "spawn" \in Faults
        /\ \E command \in Calls : Answered(j, command, "wait")
        /\ UNCHANGED disk
     \/ /\ "disk" \in Faults
        /\ \E s \in {"running"} \cup Settled, c \in Codes :
             Due(j, s, c) /\ (RecordError(j, s, c) \/ UNCHANGED disk)
  /\ Break(j)
  /\ UNCHANGED host

-----------------------------------------------------------------------------
(* The machines.                                                           *)

\* mkdir and cat > run.sh; tmux new-session; rm -rf.
Effect(j, command) ==
  \/ /\ command = "stage"
     /\ files[j] = "none"
     /\ files' = [files EXCEPT ![j] = "staged"]
     /\ UNCHANGED <<session, runs>>
  \/ /\ command = "start"
     /\ files[j] \notin {"none", "gone"}
     /\ session[j] # "live"
     /\ session' = [session EXCEPT ![j] = "live"]
     /\ runs' = [runs EXCEPT ![j] = @ + 1]
     /\ UNCHANGED files
  \/ /\ command = "cleanup"
     /\ files' = [files EXCEPT ![j] = "gone"]
     /\ UNCHANGED <<session, runs>>

Answer(j, answer) == /\ reply' = [reply EXCEPT ![j] = answer]
                     /\ UNCHANGED <<pc, mode>>

RunEffect(j) ==
  /\ pc[j] \in Effects /\ reply[j] = "wait"
  /\ Effect(j, pc[j])
  /\ Answer(j, "ok")
  /\ UNCHANGED <<stray, disk, service>>

\* A command whose ssh client is gone arrives after all, or is still running.
RunStray(j) ==
  \E command \in stray[j] :
    /\ Effect(j, command)
    /\ stray' = [stray EXCEPT ![j] = @ \ {command}]
    /\ UNCHANGED <<disk, task, service>>

\* test -f done; tmux has-session; tar of stdout, stderr and exit-code.  A
\* machine that the job is not on has neither its files nor its session.
QueryAnswer(j) ==
  IF \/ mode[j] = "astray" /\ pc[j] \in {"check", "session"}
     \/ pc[j] \in {"poll", "check"} /\ files[j] # "done"
     \/ pc[j] = "session" /\ session[j] # "live" THEN "no"
  ELSE IF pc[j] = "collect" /\ files[j] \notin {"final", "done"} THEN "fail"
  ELSE "ok"

RunQuery(j) ==
  /\ pc[j] \in Calls \ Effects /\ reply[j] = "wait"
  /\ Answer(j, QueryAnswer(j))
  /\ UNCHANGED <<disk, host, service>>

\* The remote command exits nonzero without its effect.
Refuse(j) ==
  /\ "refuse" \in Faults
  /\ pc[j] \in Calls /\ reply[j] = "wait"
  /\ Answer(j, "fail")
  /\ UNCHANGED <<disk, host, service>>

\* Commands still on their way when their client goes.
InFlight(j) == IF reply[j] = "wait" THEN {pc[j]} \cap Effects ELSE {}

\* The client ends before the task read the answer: with 255, or by a signal.
ClientEnds(j, answer) ==
  /\ pc[j] \in Calls /\ reply[j] \notin {"lost", "killed"}
  /\ stray' = [stray EXCEPT ![j] = @ \cup InFlight(j)]
  /\ Answer(j, answer)
  /\ UNCHANGED <<files, session, runs, disk, service>>

Disconnect(j) == "disconnect" \in Faults /\ ClientEnds(j, "lost")
KillClient(j) == "signal" \in Faults /\ ClientEnds(j, "killed")

\* remote_job.sh: the command ends and its outputs and exit code are final,
\* then done appears, then the wrapper and with it the session ends.
CommandExits(j) ==
  /\ session[j] = "live" /\ files[j] = "staged"
  /\ files' = [files EXCEPT ![j] = "final"]
  /\ UNCHANGED <<session, runs, stray, disk, task, service>>

PublishDone(j) ==
  /\ session[j] = "live" /\ files[j] = "final"
  /\ files' = [files EXCEPT ![j] = "done"]
  /\ UNCHANGED <<session, runs, stray, disk, task, service>>

SessionEnds(j) ==
  /\ session[j] = "live" /\ files[j] \in {"done", "gone"}
  /\ session' = [session EXCEPT ![j] = "ended"]
  /\ UNCHANGED <<files, runs, stray, disk, task, service>>

\* The machine reboots, the session is killed or the wrapper exits 125.
SessionDies(j) ==
  /\ j \in Mortal
  /\ session[j] = "live" /\ files[j] \in {"staged", "final"}
  /\ session' = [session EXCEPT ![j] = "ended"]
  /\ UNCHANGED <<files, runs, stray, disk, task, service>>
-----------------------------------------------------------------------------
(* The broker process.                                                     *)

\* ExecutionService.start: one recovery task per recoverable record, unless
\* its alias is gone from the configuration.  The alias of a recovered job is
\* looked up again, and may by now be that of another machine.
BrokerStart ==
  /\ broker = "down"
  /\ starts < MaxStarts
  /\ \E missing \in IF "alias" \in Faults THEN SUBSET Recoverable ELSE {{}} :
     \E moved \in IF "moved" \in Faults THEN SUBSET Recoverable ELSE {{}} :
       LET tracked == Recoverable \ missing
       IN  /\ state' = [j \in Jobs |-> IF j \in missing THEN "unknown"
                                                        ELSE state[j]]
           /\ code' = [j \in Jobs |-> IF j \in missing THEN "unknown_machine"
                                                       ELSE code[j]]
           /\ pc' = [j \in Jobs |-> IF j \in tracked THEN "queued" ELSE "none"]
           /\ mode' = [j \in Jobs |->
                IF j \notin tracked THEN mode[j]
                ELSE IF j \in moved THEN "astray" ELSE "recover"]
           /\ queue' \in NewestFirst(tracked)
  /\ broker' = "up"
  /\ starts' = starts + 1
  /\ UNCHANGED <<created, saved, host, reply, free>>

\* No task is left; what was on its way to a machine may still arrive there.
Abandon ==
  /\ stray' = [j \in Jobs |-> stray[j] \cup InFlight(j)]
  /\ Forget(Jobs, "none")
  /\ queue' = <<>>
  /\ free' = Slots
  /\ UNCHANGED <<disk, files, session, runs, starts>>

\* ExecutionService.close cancels every task.
Close ==
  /\ broker = "up"
  /\ LoopIdle
  /\ broker' = "closing"
  /\ Abandon

Exit ==
  /\ broker = "closing"
  /\ broker' = "down"
  /\ UNCHANGED <<disk, host, task, queue, free, starts>>

\* A crash may fall between two writes of collect().
Crash ==
  /\ "crash" \in Faults
  /\ broker # "down"
  /\ broker' = "down"
  /\ Abandon

-----------------------------------------------------------------------------
Progress(j) == \/ Acquire(j) \/ Staged(j) \/ AccessGranted(j) \/ Started(j)
               \/ NotDone(j) \/ Wake(j) \/ CompletionSeen(j)
               \/ CompletionMissing(j) \/ SessionSeen(j) \/ SessionMissing(j)
               \/ Collected(j) \/ SaveStdout(j) \/ SaveStderr(j)
               \/ SaveComplete(j) \/ CleanedUp(j)
BrokerStep(j) == Progress(j) \/ TaskFails(j)
Remote(j)  == RunEffect(j) \/ RunQuery(j)
Wrapper(j) == CommandExits(j) \/ PublishDone(j) \/ SessionEnds(j)
Fault(j)   == \/ SubmitUntracked(j) \/ TaskCrashes(j) \/ RunStray(j)
              \/ Refuse(j) \/ Disconnect(j) \/ KillClient(j) \/ SessionDies(j)

Next == \/ \E j \in Jobs : \/ Submit(j) \/ BrokerStep(j) \/ Remote(j)
                           \/ Wrapper(j) \/ Fault(j)
        \/ BrokerStart \/ Close \/ Exit \/ Crash

\* asyncio runs every ready task, a command ends and a stopped broker is started
\* again; no failure is ever owed.  No ssh call of a job has a timeout: only a
\* machine that answers lets the task go on.
Fairness == /\ \A j \in Jobs : WF_vars(BrokerStep(j)) /\ WF_vars(Wrapper(j))
            /\ \A j \in Jobs \ Mortal : WF_vars(Remote(j))
            /\ WF_vars(BrokerStart)
            /\ WF_vars(Exit)

Spec == Init /\ [][Next]_vars
FairSpec == Spec /\ Fairness

-----------------------------------------------------------------------------
(* Properties.                                                             *)

\* A job's command is started at most once, however often the broker is
\* restarted, connections drop and commands outlive their client: recover
\* never stages or starts (README: "It never automatically reruns such a job").
AtMostOneRun == \A j \in Jobs : runs[j] <= 1

\* A complete record has both outputs beside it, and the remote directory is
\* removed only under a complete record: a crash at any point of collect
\* leaves the result either on the machine or in the state directory.
ResultNeverLost ==
  \A j \in Jobs :
    /\ state[j] = "complete" => saved[j] = {"stdout", "stderr"}
    /\ files[j] = "gone" => state[j] = "complete"

\* A record that says the command was refused before it ran is right, now and
\* later: it did not run and no start command is left that could run it.
FailedNeverRan ==
  \A j \in Jobs :
    state[j] = "failed" /\ code[j] # "result_collection_failed" =>
      runs[j] = 0 /\ "start" \notin stray[j]

Holders == {j \in Jobs : pc[j] \in Holding}

\* The semaphore is neither leaked nor released twice: every free slot and
\* every task holding one add up to CONCURRENCY, across failures and crashes.
SlotsConserved == free + Cardinality(Holders) = Slots /\ free >= 0

\* While the broker serves, every unfinished record has a task, unless an
\* exception ended that task or refused it in this process, or the record was
\* behind the newest 1000 that a restart reads (jobs.py:174).
NoOrphanRecord ==
  broker = "up" => \A j \in Jobs :
    state[j] \in Unfinished /\ pc[j] = "none" => Cardinality(Newer(j)) >= RecoverLimit

Contract == INSTANCE JobContract WITH
              status <- state,
              ran <- [j \in Jobs |-> runs[j] > 0],
              kept <- [j \in Jobs |-> saved[j] = {"stdout", "stderr"}]

\* Every step is a step of the contract: a record goes only forward, "failed"
\* excludes a later run, "complete" is written after the outputs.
ImplementsContract == Contract!ContractSpec

\* recover (executor.py:482) and the README: "remote_job_unknown" is recorded
\* only of a job without completion marker.
UnknownMeansNoMarker ==
  [][\A j \in Jobs :
       code'[j] = "remote_job_unknown" /\ code[j] # "remote_job_unknown"
         => files[j] # "done"]_vars

OutOfStarts == broker = "down" /\ starts = MaxStarts

\* A job that was accepted reaches a verdict, whatever crashes and drops come
\* in between, unless its session died, its machine hangs or the broker is not
\* started again: a job that hangs holds up no other while slots are left.
EveryJobSettles ==
  \A j \in Jobs \ Mortal :
    state[j] \in Unfinished ~> state[j] \in Settled \/ OutOfStarts
=============================================================================
