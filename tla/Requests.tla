------------------------------ MODULE Requests ------------------------------
(***************************************************************************)
(* The callers of run_argv, run_script, get_job and list_jobs beside the   *)
(* jobs of JobLifecycle: service.py _run, its shield and its timeout, and  *)
(* the readers of records in the broker (mcp.py) and in other processes    *)
(* (tmuxgate jobs).  What happens to a caller is not to happen to its job. *)
(***************************************************************************)
EXTENDS JobLifecycle

CONSTANT Timed             \* jobs whose request has a timeout

ASSUME RequestsAssumption == Timed \subseteq Jobs

VARIABLES
  waiting,   \* jobs whose request waits for them
  result,    \* what the finished task holds for it: a state, or an exception
  told       \* the state of the job in the last answer of any reader

caller == <<waiting, result, told>>

CallerTypeOK == /\ waiting \subseteq Jobs
                /\ result \in [Jobs -> {"none", "error"} \cup Settled]
                /\ told \in [Jobs -> {"none"} \cup Unfinished \cup Settled]

CallerInit == /\ waiting = {}
              /\ result = [j \in Jobs |-> "none"]
              /\ told = [j \in Jobs |-> "none"]

-----------------------------------------------------------------------------
(* The callers.                                                            *)

\* A request is over, and what its task held for it is dropped.
Over(j) == /\ waiting' = waiting \ {j}
           /\ result' = [result EXCEPT ![j] = "none"]

\* JobStore.load: the record as it is.
Load(j) == state[j]

Tells(j, s) == told' = [told EXCEPT ![j] = s]

\* The loop runs the caller: between two awaits of collect it cannot.
Resumes(j) == LoopIdle /\ j \in waiting /\ UNCHANGED vars /\ Over(j)

\* `await asyncio.shield(task)` returns the task's record, or raises.
Returns(j) == /\ result[j] # "none"
              /\ Resumes(j)
              /\ IF result[j] = "error" THEN UNCHANGED told ELSE Tells(j, result[j])

\* Mutated form of Timeout: it answers with the record that _run created.
TimeoutStale(j) == j \in Timed /\ Resumes(j) /\ Tells(j, "starting")

\* Mutated form of Timeout: it runs only while the job has its turn.
TimeoutServed(j) == j \in Timed /\ pc[j] # "queued" /\ Resumes(j) /\ Tells(j, Load(j))

\* wait_for gives up, maybe with the result there already: the record as it is.
Timeout(j) == j \in Timed /\ Resumes(j) /\ Tells(j, Load(j))

\* Mutated form of Leaves: without the shield the task is cancelled too.
LeavesWithTask(j) ==
  /\ LoopIdle /\ j \in waiting /\ pc[j] \in Holding
  /\ stray' = [stray EXCEPT ![j] = @ \cup InFlight(j)]
  /\ Break(j)
  /\ UNCHANGED <<disk, files, session, runs, told>>
  /\ Over(j)

\* The client goes away: the shield keeps the task.
Leaves(j) == Resumes(j) /\ UNCHANGED told

\* tmuxgate jobs reads the record in a process of its own, at any time, and so
\* do get_job and list_jobs in the broker, between two awaits.
GetJob(j) == /\ Load(j) # "none"
             /\ Tells(j, Load(j))
             /\ UNCHANGED <<vars, waiting, result>>

-----------------------------------------------------------------------------
(* Steps of JobLifecycle, and what they mean to the callers.               *)

Accepts(j) == /\ Submit(j)
              /\ waiting' = waiting \cup {j}
              /\ UNCHANGED <<result, told>>

\* The caller gets the exception: of _track, or of the write of the record.
Rejects(j) == SubmitUntracked(j) /\ UNCHANGED caller

\* The task ends and its future holds r; a recovery has nobody that waits.
Hands(j, r) == /\ result' = IF j \in waiting THEN [result EXCEPT ![j] = r] ELSE result
               /\ UNCHANGED <<waiting, told>>

Serves(j) == /\ BrokerStep(j)
             /\ IF pc'[j] \in NoTask THEN Hands(j, state'[j]) ELSE UNCHANGED caller

\* Mutated form of Breaks: the exception is logged and nobody else hears of it.
BreaksSilently(j) == TaskCrashes(j) /\ UNCHANGED caller

Breaks(j) == TaskCrashes(j) /\ Hands(j, "error")

\* close() cancels the tasks: the CancelledError goes to those who wait for
\* them, while a result that is there can still be returned.
Closes == /\ Close
          /\ waiting' = {j \in waiting : result[j] # "none"}
          /\ UNCHANGED <<result, told>>

\* The process is gone, and the connections with it.
Drops == /\ waiting' = {}
         /\ result' = [j \in Jobs |-> "none"]
         /\ UNCHANGED told

Caller(j) == Returns(j) \/ Timeout(j) \/ Leaves(j) \/ GetJob(j)
Lost(j) == RunStray(j) \/ Refuse(j) \/ Disconnect(j) \/ KillClient(j) \/ SessionDies(j)

RequestsInit == Init /\ CallerInit

RequestsNext ==
  \/ \E j \in Jobs :
       \/ Caller(j) \/ Accepts(j) \/ Rejects(j) \/ Serves(j) \/ Breaks(j)
       \/ (Remote(j) \/ Wrapper(j) \/ Lost(j)) /\ UNCHANGED caller
  \/ BrokerStart /\ UNCHANGED caller
  \/ Closes
  \/ (Exit \/ Crash) /\ Drops

allVars == <<vars, caller>>

\* The timer of a request fires and the loop runs what is ready; of the machines
\* nothing is owed.
RequestsFairness == \A j \in Jobs : WF_allVars(Timeout(j)) /\ WF_allVars(Serves(j))

RequestsSpec == RequestsInit /\ [][RequestsNext]_allVars
FairRequests == RequestsSpec /\ RequestsFairness

-----------------------------------------------------------------------------
(* Properties.                                                             *)

\* A verdict that anybody was given stands, across restarts and whatever the
\* machine does later, and with "complete" both outputs could be read at once.
AnswersStand ==
  \A j \in Jobs : told[j] \in Settled =>
    /\ state[j] = told[j]
    /\ told[j] = "complete" => saved[j] = {"stdout", "stderr"}

\* Nobody waits for a task that is gone without having handed over its end.
NobodyForgotten ==
  \A j \in waiting : pc[j] \in NoTask => result[j] # "none"

Rank(s) == CASE s = "none" -> 0 [] s = "starting" -> 1 [] s = "running" -> 2 [] OTHER -> 3

\* An answer is never older than the one before it, whoever got that: a late
\* timeout does not answer "starting" of a job that was seen running.
AnswersForward == [][\A j \in Jobs : Rank(told[j]) <= Rank(told'[j])]_told

\* A job goes on as if nobody had asked for it: with its callers, every step is
\* still one of JobLifecycle's (ARCHITECTURE.md: "MCP cancellation does not cancel
\* the background execution task").
CallersAside == Spec

\* A request with a timeout is answered also while its job hangs on a machine
\* or waits for its slot.
TimedAnswered == \A j \in Timed : j \in waiting ~> j \notin waiting
=============================================================================
