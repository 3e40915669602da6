---------------------------- MODULE JobContract ----------------------------
(***************************************************************************)
(* What tmuxgate promises the caller of run_argv or run_script about a job *)
(* record, whatever crashes, disconnects or restarts happen in between.    *)
(* JobLifecycle implements this specification.                             *)
(***************************************************************************)
CONSTANT Jobs               \* job ids

VARIABLES status,           \* the durable state of the job record
          ran,              \* the command has been started on its machine
          kept              \* both outputs are saved beside the record

contractVars == <<status, ran, kept>>

Pending == {"starting", "running"}          \* what a restart tries to recover
Verdict == {"complete", "failed", "unknown"}

ContractTypeOK == /\ status \in [Jobs -> {"none"} \cup Pending \cup Verdict]
                  /\ ran \in [Jobs -> BOOLEAN]
                  /\ kept \in [Jobs -> BOOLEAN]

ContractInit == /\ status = [j \in Jobs |-> "none"]
                /\ ran = [j \in Jobs |-> FALSE]
                /\ kept = [j \in Jobs |-> FALSE]

\* The request is durable before anything is sent to the machine.
Accept(j) == /\ status[j] = "none"
             /\ status' = [status EXCEPT ![j] = "starting"]
             /\ UNCHANGED <<ran, kept>>

\* The command starts once, and never under a record that says it failed.
Run(j) == /\ status[j] \in {"starting", "unknown"}
          /\ ~ran[j]
          /\ ran' = [ran EXCEPT ![j] = TRUE]
          /\ UNCHANGED <<status, kept>>

\* "running" is recorded only of a command that was started.
Track(j) == /\ status[j] = "starting"
            /\ ran[j]
            /\ status' = [status EXCEPT ![j] = "running"]
            /\ UNCHANGED <<ran, kept>>

Keep(j) == /\ status[j] \in Pending
           /\ ran[j]
           /\ kept' = [kept EXCEPT ![j] = TRUE]
           /\ UNCHANGED <<status, ran>>

\* "complete" is recorded only when its outputs are already saved.
Complete(j) == /\ status[j] \in Pending
               /\ kept[j]
               /\ status' = [status EXCEPT ![j] = "complete"]
               /\ UNCHANGED <<ran, kept>>

\* "failed" means the command was not started, or its result was refused.
Fail(j) == /\ \/ status[j] = "starting" /\ ~ran[j]
              \/ status[j] = "running"
           /\ status' = [status EXCEPT ![j] = "failed"]
           /\ UNCHANGED <<ran, kept>>

\* Everything ambiguous is "unknown"; a restart may give up several jobs.
GiveUp(S) == /\ \A j \in S : status[j] \in Pending
             /\ status' = [j \in Jobs |-> IF j \in S THEN "unknown" ELSE status[j]]
             /\ UNCHANGED <<ran, kept>>

ContractNext == \/ \E j \in Jobs : \/ Accept(j) \/ Run(j) \/ Track(j) \/ Keep(j)
                                   \/ Complete(j) \/ Fail(j)
                \/ \E S \in SUBSET Jobs : GiveUp(S)

ContractSpec == ContractInit /\ [][ContractNext]_contractVars
=============================================================================
