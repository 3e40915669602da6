----------------------------- MODULE RemoteJob -----------------------------
(***************************************************************************)
(* One remote job directory: the wrapper remote_job.sh that runs the       *)
(* command and publishes its results, and the broker that asks for the     *)
(* marker, collects with tar, and removes the directory.                   *)
(*                                                                         *)
(* Seen from outside it is a running job of JobLifecycle, which has the    *)
(* other jobs, the failures and the restarts around it.                    *)
(*                                                                         *)
(* External: the command, which may leave a process behind that keeps the  *)
(* output files open; tar, which notices a file that grows only sometimes. *)
(***************************************************************************)
EXTENDS Naturals

CONSTANT MaxOutput        \* bound: pieces of output

ASSUME OutputAssumption == MaxOutput \in Nat

VARIABLES
  sudo,        \* the wrapper runs as root: its files are not the user's
  pc,          \* the wrapper's next step
  running,     \* the command runs
  background,  \* a process that the command left behind runs
  out,         \* pieces of output in stdout and stderr
  final,       \* of them, what was there when the command ended
  exitcode,    \* the file exit-code
  owned,       \* the user may read the results
  done,        \* the file done
  removed,     \* the directory is gone
  broker,      \* where the collection is
  got          \* the output that tar read

wrapper == <<sudo, pc, running, background, out, final, exitcode, owned, done>>
vars == <<wrapper, removed, broker, got>>

Saving == {"collected", "stdout", "stderr", "record"}   \* collect(), after tar
Brokers == {"polling", "seen", "reading"} \cup Saving
             \cup {"cleanup", "removed", "failed", "denied"}
Steps == {"command", "status", "publish", "chown", "mark", "ownmark", "finish", "exit",
          "over"}

TypeOK == /\ sudo \in BOOLEAN /\ running \in BOOLEAN /\ background \in BOOLEAN
          /\ pc \in Steps
          /\ out \in 0..MaxOutput /\ final \in 0..out /\ got \in 0..out
          /\ exitcode \in {"none", "whole"}
          /\ owned \in BOOLEAN /\ done \in BOOLEAN /\ removed \in BOOLEAN
          /\ broker \in Brokers

Init == /\ sudo \in BOOLEAN
        /\ pc = "command" /\ running = TRUE /\ background = FALSE
        /\ out = 0 /\ final = 0
        /\ exitcode = "none" /\ owned = ~sudo /\ done = FALSE /\ removed = FALSE
        /\ broker = "polling" /\ got = 0

-----------------------------------------------------------------------------
(* The command.                                                            *)

Output == /\ running \/ background
          /\ out < MaxOutput /\ out' = out + 1
          /\ UNCHANGED <<sudo, pc, running, background, final, exitcode, owned, done,
                         removed, broker, got>>

Detach == /\ running /\ background' = TRUE
          /\ UNCHANGED <<sudo, pc, running, out, final, exitcode, owned, done, removed,
                         broker, got>>

BackgroundEnds == /\ background /\ background' = FALSE
                  /\ UNCHANGED <<sudo, pc, running, out, final, exitcode, owned, done,
                                 removed, broker, got>>

CommandEnds == /\ running /\ running' = FALSE
               /\ final' = out
               /\ UNCHANGED <<sudo, pc, background, out, exitcode, owned, done, removed,
                              broker, got>>

-----------------------------------------------------------------------------
(* The wrapper.                                                            *)

Step(from, to) == pc = from /\ pc' = to

\* Mutated form of Await: the command is started in the background.
AwaitNot == /\ Step("command", "status")
            /\ UNCHANGED <<sudo, running, background, out, final, exitcode, owned, done,
                           removed, broker, got>>

\* The subshell is over; what it left behind is not waited for.
Await == /\ Step("command", "status") /\ ~running
         /\ UNCHANGED <<sudo, running, background, out, final, exitcode, owned, done,
                        removed, broker, got>>

\* printf into a temporary file.
WriteStatus == /\ Step("status", "publish")
               /\ UNCHANGED <<sudo, running, background, out, final, exitcode, owned, done,
                              removed, broker, got>>

\* Mutated form of PublishStatus: the marker's own chown is taken for enough.
PublishUnowned == /\ Step("publish", "mark")
                  /\ exitcode' = "whole"
                  /\ UNCHANGED <<sudo, running, background, out, final, owned, done,
                                 removed, broker, got>>

\* mv to exit-code.
PublishStatus == /\ Step("publish", IF sudo THEN "chown" ELSE "mark")
                 /\ exitcode' = "whole"
                 /\ UNCHANGED <<sudo, running, background, out, final, owned, done, removed,
                                broker, got>>

ChownResults == /\ Step("chown", "mark")
                /\ owned' = TRUE
                /\ UNCHANGED <<sudo, running, background, out, final, exitcode, done,
                               removed, broker, got>>

\* The temporary marker, and its owner.
Mark == /\ \/ Step("mark", IF sudo THEN "ownmark" ELSE "finish")
           \/ Step("ownmark", "finish")
        /\ UNCHANGED <<sudo, running, background, out, final, exitcode, owned, done,
                       removed, broker, got>>

\* mv to done.
Finish == /\ Step("finish", "exit")
          /\ done' = TRUE
          /\ UNCHANGED <<sudo, running, background, out, final, exitcode, owned, removed,
                         broker, got>>

\* The wrapper ends, and with it the session.
Exit == /\ Step("exit", "over")
        /\ UNCHANGED <<sudo, running, background, out, final, exitcode, owned, done, removed,
                       broker, got>>

\* A step fails and the wrapper exits with 125, or the session is killed; a
\* killed command may live on as a process left behind.
WrapperDies ==
  /\ pc # "over" /\ pc' = "over"
  /\ running' = FALSE
  /\ final' = IF running THEN out ELSE final
  /\ background' \in {background, background \/ running}
  /\ UNCHANGED <<sudo, out, exitcode, owned, done, removed, broker, got>>

-----------------------------------------------------------------------------
(* The broker.                                                             *)

\* Mutated form of Poll: the exit code is taken for the marker.
PollStatus == /\ broker = "polling" /\ exitcode # "none"
              /\ broker' = "seen"
              /\ UNCHANGED <<wrapper, removed, got>>

\* test -f done.
Poll == /\ broker = "polling" /\ done
        /\ broker' = "seen"
        /\ UNCHANGED <<wrapper, removed, got>>

\* tar adds stdout and stderr as they are now.
ReadOutput == /\ broker = "seen"
              /\ broker' = IF owned THEN "reading" ELSE "denied"
              /\ got' = out
              /\ UNCHANGED <<wrapper, removed>>

\* It may notice that they grew meanwhile; else exit-code.
ReadStatus == /\ broker = "reading"
              /\ \/ exitcode = "whole" /\ broker' = "collected"
                 \/ exitcode # "whole" /\ broker' = "denied"
                 \/ out > got /\ broker' = "failed"
              /\ UNCHANGED <<wrapper, removed, got>>

\* The results are stored one after the other, then the record.
Store == /\ \/ broker = "collected" /\ broker' = "stdout"
            \/ broker = "stdout" /\ broker' = "stderr"
            \/ broker = "stderr" /\ broker' = "record"
            \/ broker = "record" /\ broker' = "cleanup"
         /\ UNCHANGED <<wrapper, removed, got>>

\* rm -rf of the directory.
Cleanup == /\ broker = "cleanup" /\ broker' = "removed"
           /\ removed' = TRUE
           /\ UNCHANGED <<wrapper, got>>

Next == \/ Output \/ Detach \/ BackgroundEnds \/ CommandEnds
        \/ Await \/ WriteStatus \/ PublishStatus \/ ChownResults \/ Mark \/ Finish
        \/ Exit \/ WrapperDies
        \/ Poll \/ ReadOutput \/ ReadStatus \/ Store \/ Cleanup

Spec == Init /\ [][Next]_vars

-----------------------------------------------------------------------------
(* Properties.                                                             *)

\* A collection that the marker allowed finds every file whole and readable,
\* also of a root job, whatever step the wrapper died at.
NeverDenied == broker # "denied"

\* What is stored as the result of a complete job holds everything the command
\* wrote until it ended: the directory that had it is gone.
CollectedWhole == removed => ~running /\ got >= final

\* The job as JobLifecycle has it: running since its start command succeeded, with
\* the first broker at work on it in the only slot.
The(x) == [j \in {"job"} |-> x]

jobState   == IF broker \in {"cleanup", "removed"} THEN "complete" ELSE "running"
jobSaved   == CASE broker = "stderr" -> {"stdout"}
                [] broker \in {"record", "cleanup", "removed"} -> {"stdout", "stderr"}
                [] OTHER -> {}
jobFiles   == CASE removed -> "gone"
                [] done /\ ~removed -> "done"
                [] ~done /\ exitcode = "whole" -> "final"
                [] OTHER -> "staged"
jobSession == IF pc = "over" THEN "ended" ELSE "live"
jobPc      == CASE broker \in {"polling", "seen"} -> "poll"
                [] broker \in {"stdout", "stderr", "record"} -> broker
                [] broker \in {"cleanup", "removed"} -> "cleanup"
                [] OTHER -> "collect"
jobReply   == CASE broker \in {"polling", "reading", "cleanup"} -> "wait"
                [] broker = "failed" -> "fail"
                [] OTHER -> "ok"

Job == INSTANCE JobLifecycle WITH
         Jobs <- {"job"}, SudoJobs <- {}, Mortal <- {"job"}, Slots <- 1, RecoverLimit <- 1,
         MaxStarts <- 1, Faults <- {"refuse"},
         state <- The(jobState), code <- The("none"), created <- The(1),
         saved <- The(jobSaved), files <- The(jobFiles), session <- The(jobSession),
         runs <- The(1), stray <- The({}), pc <- The(jobPc), mode <- The("execute"),
         reply <- The(jobReply), broker <- "up", queue <- <<>>, free <- 0, starts <- 1

\* Every step of the files, the wrapper and the collection is one that JobLifecycle
\* knows: CommandExits is the moment when exit-code gets its name, PublishDone the
\* one when done does, and the collection reads only what these published.
StepsOfAJob == [][Job!Next]_(Job!vars)
=============================================================================
