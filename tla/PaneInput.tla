----------------------------- MODULE PaneInput -----------------------------
(***************************************************************************)
(* Writes into tmux panes: ExecutionService._send_tmux_input and           *)
(* pane_input.send.  A call takes the writer scope of its pane, waits for  *)
(* one of the slots it shares with jobs, lists the panes, and dispatches   *)
(* one guarded send-keys.  Its deadline or a cancellation may end it at    *)
(* every await, and stopping its ssh child takes time.                     *)
(*                                                                         *)
(* External: the panes, tmux, and ssh, whose command may still arrive when *)
(* the local client is long gone.                                          *)
(***************************************************************************)
EXTENDS Naturals, FiniteSets

CONSTANTS
  Requests,      \* write calls
  Panes,         \* scopes: (destination, server, pane)
  Target,        \* the pane a request names
  CONCURRENCY,   \* slots of the service
  MaxRespawns,   \* bound: respawns of a pane
  MaxHits        \* bound: deadline, cancellations and excess that hit one call

ASSUME PaneAssumption == /\ IsFiniteSet(Requests)
                         /\ Target \in [Requests -> Panes]
                         /\ CONCURRENCY \in Nat \ {0}
                         /\ MaxRespawns \in Nat
                         /\ MaxHits \in Nat \ {0}

VARIABLES
  pc,            \* where a call is
  writers,       \* _pane_writers
  free,          \* the semaphore's value
  jobs,          \* slots that jobs hold
  closing,       \* _closing
  started,       \* Dispatch.started
  wire,          \* the remote side of a call's current ssh command
  client,        \* a call's ssh child is not reaped
  hits,          \* deadline, cancellations and excess of a call so far
  mode,          \* panes in a tmux mode, dead or gone: the pane takes no input
  process, named, reached, receipt      \* see PaneReceipt

local  == <<pc, writers, closing, started, hits, named, receipt>>
world  == <<process, mode>>
vars   == <<pc, writers, free, jobs, closing, started, wire, client, hits, mode,
            process, named, reached, receipt>>

Receipt == INSTANCE PaneReceipt

Stopping == {"late", "cancelling", "excess"}
Holding == {"listing", "dispatching"} \cup Stopping
InProgress == Holding \cup {"waiting"}
Wires == {"idle", "asked", "listed", "missing", "flight", "accepted", "rejected", "failed"}

TypeOK == /\ pc \in [Requests -> InProgress \cup {"new", "over"}]
          /\ writers \subseteq Panes
          /\ free \in 0..CONCURRENCY
          /\ jobs \in 0..CONCURRENCY
          /\ closing \in BOOLEAN
          /\ started \in [Requests -> BOOLEAN]
          /\ wire \in [Requests -> Wires]
          /\ client \in [Requests -> BOOLEAN]
          /\ hits \in [Requests -> 0..MaxHits]
          /\ mode \in [Panes -> {"normal", "copy", "gone"}]
          /\ process \in [Panes -> 0..MaxRespawns]
          /\ named \in [Requests -> 0..MaxRespawns]
          /\ reached \in [Requests -> Receipt!Reached]
          /\ receipt \in [Requests -> Receipt!Receipts]

Init == /\ pc = [r \in Requests |-> "new"]
        /\ writers = {} /\ free = CONCURRENCY /\ jobs = 0
        /\ closing = FALSE
        /\ started = [r \in Requests |-> FALSE]
        /\ wire = [r \in Requests |-> "idle"]
        /\ client = [r \in Requests |-> FALSE]
        /\ hits = [r \in Requests |-> 0]
        /\ mode = [p \in Panes |-> "normal"]
        /\ process = [p \in Panes |-> 0]
        /\ named \in [Requests -> 0..MaxRespawns]
        /\ reached = [r \in Requests |-> "nothing"]
        /\ receipt = [r \in Requests |-> "none"]

-----------------------------------------------------------------------------
(* The world.                                                              *)

\* Jobs take and give back the slots they share with the pane calls.
JobTakes == /\ free > 0 /\ free' = free - 1 /\ jobs' = jobs + 1
            /\ UNCHANGED <<local, world, wire, client, reached>>
JobLeaves == /\ jobs > 0 /\ free' = free + 1 /\ jobs' = jobs - 1
             /\ UNCHANGED <<local, world, wire, client, reached>>

Respawn(p) == /\ process[p] < MaxRespawns
              /\ process' = [process EXCEPT ![p] = @ + 1]
              /\ UNCHANGED <<local, free, jobs, wire, client, mode, reached>>

ChangeMode(p) == /\ mode[p] # "gone"
                 /\ \E m \in {"normal", "copy", "gone"} \ {mode[p]} :
                      mode' = [mode EXCEPT ![p] = m]
                 /\ UNCHANGED <<local, free, jobs, wire, client, process, reached>>

\* The remote side of the inventory: the pane and process as they are now.
RemoteLists(r) ==
  /\ wire[r] = "asked"
  /\ wire' = [wire EXCEPT ![r] =
       IF mode[Target[r]] # "gone" /\ process[Target[r]] = named[r]
         THEN "listed" ELSE "missing"]
  /\ UNCHANGED <<local, world, free, jobs, client, reached>>

Gives(r, much) == reached' = [reached EXCEPT ![r] = much]

\* Mutated form of TmuxRuns: the preflight is trusted, no guard beside the keys.
TmuxRunsUnguarded(r) ==
  /\ wire[r] = "flight"
  /\ mode[Target[r]] # "gone"
  /\ Gives(r, "all") /\ wire' = [wire EXCEPT ![r] = "accepted"]
  /\ UNCHANGED <<local, world, free, jobs, client>>

\* tmux's guarded if-shell, one command queue: the guard, then all the keys.
\* A target that is gone makes tmux fail; a server that dies stops in between.
TmuxRuns(r) ==
  /\ wire[r] = "flight"
  /\ \/ /\ mode[Target[r]] = "normal" /\ process[Target[r]] = named[r]
        /\ \/ Gives(r, "all") /\ wire' = [wire EXCEPT ![r] = "accepted"]
           \/ Gives(r, "some") /\ wire' = [wire EXCEPT ![r] = "failed"]
     \/ /\ \/ mode[Target[r]] = "copy"
           \/ mode[Target[r]] = "normal" /\ process[Target[r]] # named[r]
        /\ wire' = [wire EXCEPT ![r] = "rejected"]
        /\ UNCHANGED reached
     \/ /\ mode[Target[r]] = "gone"
        /\ wire' = [wire EXCEPT ![r] = "failed"]
        /\ UNCHANGED reached
  /\ UNCHANGED <<local, world, free, jobs, client>>

\* The command never gets there.
WireLost(r) == /\ wire[r] \in {"asked", "flight"}
               /\ wire' = [wire EXCEPT ![r] = "failed"]
               /\ UNCHANGED <<local, world, free, jobs, client, reached>>

\* A child that was told to stop is gone and waited for.
ChildGone(r) == /\ client[r] /\ pc[r] \in Stopping \cup {"over"}
                /\ client' = [client EXCEPT ![r] = FALSE]
                /\ UNCHANGED <<local, world, free, jobs, wire, reached>>

-----------------------------------------------------------------------------
(* The call.                                                               *)

Goes(r, where) == pc' = [pc EXCEPT ![r] = where]

\* Mutated form of Ends: the slot is given back by a call that never had one.
EndsReleasing(r, k) ==
  /\ Goes(r, "over")
  /\ receipt' = [receipt EXCEPT ![r] = k]
  /\ free' = free + 1
  /\ writers' = writers \ {Target[r]}

\* Out of the semaphore, and the finally that gives the scope back.
Ends(r, k) ==
  /\ Goes(r, "over")
  /\ receipt' = [receipt EXCEPT ![r] = k]
  /\ free' = IF pc[r] \in Holding THEN free + 1 ELSE free
  /\ writers' = writers \ {Target[r]}

\* Mutated form of Submit: the busy answer passes the finally.
SubmitReleasing(r) ==
  /\ pc[r] = "new" /\ ~closing /\ named[r] <= process[Target[r]]
  /\ IF Target[r] \in writers
       THEN /\ Goes(r, "over")
            /\ receipt' = [receipt EXCEPT ![r] = "not_sent"]
            /\ writers' = writers \ {Target[r]}
       ELSE /\ Goes(r, "waiting")
            /\ writers' = writers \cup {Target[r]}
            /\ UNCHANGED receipt
  /\ UNCHANGED <<world, free, jobs, closing, started, wire, client, hits, named,
                 reached>>

\* A caller that discovered the pane, now or earlier, names it: busy, or waiting.
Submit(r) ==
  /\ pc[r] = "new" /\ ~closing /\ named[r] <= process[Target[r]]
  /\ IF Target[r] \in writers
       THEN /\ Goes(r, "over")
            /\ receipt' = [receipt EXCEPT ![r] = "not_sent"]
            /\ UNCHANGED writers
       ELSE /\ Goes(r, "waiting")
            /\ writers' = writers \cup {Target[r]}
            /\ UNCHANGED receipt
  /\ UNCHANGED <<world, free, jobs, closing, started, wire, client, hits, named,
                 reached>>

SubmitWhileClosing(r) ==
  /\ pc[r] = "new" /\ closing
  /\ Goes(r, "over")
  /\ receipt' = [receipt EXCEPT ![r] = "lost"]
  /\ UNCHANGED <<world, writers, free, jobs, closing, started, wire, client, hits,
                 named, reached>>

\* ExecutionService.close: pane calls are not among the tasks it cancels.
Close == /\ ~closing /\ closing' = TRUE
         /\ UNCHANGED <<world, pc, writers, free, jobs, started, wire, client, hits,
                        named, reached, receipt>>

\* A slot: list_panes.
Acquire(r) == /\ pc[r] = "waiting" /\ free > 0
              /\ free' = free - 1
              /\ Goes(r, "listing")
              /\ wire' = [wire EXCEPT ![r] = "asked"]
              /\ client' = [client EXCEPT ![r] = TRUE]
              /\ UNCHANGED <<world, writers, jobs, closing, started, hits, named, reached,
                             receipt>>

\* The child of the current ssh command is reaped, with an answer or without.
Reaped(r) == client' = [client EXCEPT ![r] = FALSE]

\* Mutated form of Dispatch: started is set when the answer is there.
DispatchUnmarked(r) ==
  /\ pc[r] = "listing" /\ wire[r] = "listed"
  /\ Goes(r, "dispatching")
  /\ wire' = [wire EXCEPT ![r] = "flight"]
  /\ UNCHANGED <<world, writers, free, jobs, closing, started, client, hits, named,
                 reached, receipt>>

\* The named pane and process are there: dispatch.started, then send-keys.
Dispatch(r) ==
  /\ pc[r] = "listing" /\ wire[r] = "listed"
  /\ Goes(r, "dispatching")
  /\ started' = [started EXCEPT ![r] = TRUE]
  /\ wire' = [wire EXCEPT ![r] = "flight"]
  /\ UNCHANGED <<world, writers, free, jobs, closing, client, hits, named, reached, receipt>>

\* The pane or process is gone, or the inventory failed: a PaneError.
PreflightFails(r) ==
  /\ pc[r] = "listing" /\ wire[r] \in {"asked", "listed", "missing", "failed"}
  /\ Ends(r, "not_sent")
  /\ Reaped(r)
  /\ UNCHANGED <<world, jobs, closing, started, wire, hits, named, reached>>

\* The two exact acknowledgements; everything else is unknown: an error of tmux
\* or of ssh, an acknowledgement lost with the connection.
\* Without an answer the command may still be on its way.
Answered(r) ==
  /\ pc[r] = "dispatching"
  /\ \/ wire[r] = "accepted" /\ Ends(r, "sent")
     \/ wire[r] = "rejected" /\ Ends(r, "not_sent")
     \/ Ends(r, "unknown")
  /\ Reaped(r)
  /\ UNCHANGED <<world, jobs, closing, started, wire, hits, named, reached>>

Hit(r) == hits[r] < MaxHits /\ hits' = [hits EXCEPT ![r] = @ + 1]

Overdue(r) == IF started[r] THEN "unknown" ELSE "not_sent"

\* Mutated form of Deadline: it runs only when the slot is there.
DeadlineOfDispatch(r) ==
  /\ Hit(r)
  /\ \/ pc[r] = "excess" /\ Ends(r, Overdue(r))
     \/ /\ pc[r] \in {"listing", "dispatching"} /\ Goes(r, "late")
        /\ UNCHANGED <<receipt, free, writers>>
     \/ pc[r] = "cancelling" /\ Ends(r, "lost")
  /\ UNCHANGED <<world, jobs, closing, started, wire, client, named, reached>>

\* Mutated form of Deadline: ssh.run leaves its child to itself.
DeadlineAtOnce(r) ==
  /\ Hit(r)
  /\ \/ pc[r] \in InProgress \ {"late", "cancelling"} /\ Ends(r, Overdue(r))
     \/ pc[r] = "cancelling" /\ Ends(r, "lost")
  /\ UNCHANGED <<world, jobs, closing, started, wire, client, named, reached>>

\* asyncio.timeout: in the queue it ends the call, later it stops the ssh
\* child.  It ends the call whose child is being stopped for another reason.
Deadline(r) ==
  /\ Hit(r)
  /\ \/ pc[r] \in {"waiting", "excess"} /\ Ends(r, Overdue(r))
     \/ /\ pc[r] \in {"listing", "dispatching"} /\ Goes(r, "late")
        /\ UNCHANGED <<receipt, free, writers>>
     \/ pc[r] = "cancelling" /\ Ends(r, "lost")
  /\ UNCHANGED <<world, jobs, closing, started, wire, client, named, reached>>

\* The client goes away, or the server stops.  A second time it ends the call
\* while ssh.run is still stopping the child; the wait_for of Python 3.11 drops a
\* cancellation that finds the child gone, and the excess is told all the same.
Cancel(r) ==
  /\ Hit(r)
  /\ \/ pc[r] \in Stopping \cup {"waiting"} /\ Ends(r, "lost")
     \/ /\ pc[r] \in {"listing", "dispatching"} /\ Goes(r, "cancelling")
        /\ UNCHANGED <<receipt, free, writers>>
     \/ /\ pc[r] = "excess" /\ ~client[r]
        /\ UNCHANGED <<pc, receipt, free, writers>>
  /\ UNCHANGED <<world, jobs, closing, started, wire, client, named, reached>>

\* Mutated form of Overflow: the error of the reader passes _stop.
OverflowAtOnce(r) ==
  /\ Hit(r)
  /\ pc[r] \in {"listing", "dispatching"} /\ Ends(r, Overdue(r))
  /\ UNCHANGED <<world, jobs, closing, started, wire, client, named, reached>>

\* An answer longer than MAX_RESPONSE_BYTES: ssh.run stops its child first.
Overflow(r) ==
  /\ Hit(r)
  /\ pc[r] \in {"listing", "dispatching"} /\ Goes(r, "excess")
  /\ UNCHANGED <<receipt, free, writers>>
  /\ UNCHANGED <<world, jobs, closing, started, wire, client, named, reached>>

\* _stop is over: a receipt by what was dispatched, or the cancellation.
Stopped(r) ==
  /\ pc[r] \in Stopping /\ ~client[r]
  /\ Ends(r, IF pc[r] = "cancelling" THEN "lost" ELSE Overdue(r))
  /\ UNCHANGED <<world, jobs, closing, started, wire, client, hits, named, reached>>

-----------------------------------------------------------------------------
World(p) == Respawn(p) \/ ChangeMode(p)
Remote(r) == RemoteLists(r) \/ TmuxRuns(r) \/ WireLost(r)
Call(r) == \/ Submit(r) \/ SubmitWhileClosing(r) \/ Acquire(r) \/ Dispatch(r)
           \/ PreflightFails(r) \/ Answered(r) \/ Stopped(r)
Interrupt(r) == Deadline(r) \/ Cancel(r) \/ Overflow(r)

Next == \/ \E r \in Requests : Call(r) \/ Remote(r) \/ ChildGone(r) \/ Interrupt(r)
        \/ \E p \in Panes : World(p)
        \/ JobTakes \/ JobLeaves \/ Close

\* The deadline of a call runs, ssh.run's escalation ends its child, and the
\* event loop goes on.  No slot need become free and no answer need come.
Fairness == \A r \in Requests : /\ WF_vars(Deadline(r))
                                /\ WF_vars(ChildGone(r))
                                /\ WF_vars(Stopped(r))

Spec == Init /\ [][Next]_vars
FairSpec == Spec /\ Fairness

-----------------------------------------------------------------------------
(* Properties.                                                             *)

\* Every step keeps the promise of the receipts: input at most once and to the
\* named process only, "sent" of input given, "not_sent" of input never given
\* afterwards either (README, "Write receipts contain").
ReceiptsAreTrue == Receipt!Spec

\* One call at a time writes to a pane, and the scope is exactly its (README:
\* "simultaneous writes to the same configured destination, server and pane
\* are rejected with pane_busy").
OneWriter ==
  /\ writers = {Target[r] : r \in {q \in Requests : pc[q] \in InProgress}}
  /\ \A q, r \in Requests :
       pc[q] \in InProgress /\ pc[r] \in InProgress /\ Target[q] = Target[r] => q = r

\* No ending, early or late, loses a slot or gives one back twice: jobs share them.
SlotsKept ==
  free + jobs + Cardinality({r \in Requests : pc[r] \in Holding}) = CONCURRENCY

\* A call that is stopped for one reason, its deadline, a cancellation or an answer
\* too long, holds its scope until its ssh child is reaped (README: "Each dispatch
\* owns that scope until SSH cleanup finishes"); one hit twice need not.
ScopeCoversChild ==
  \A r \in Requests : hits[r] <= 1 /\ client[r] => Target[r] \in writers

\* The ssh commands of a call as one, whose child is the call's.
Ssh == INSTANCE SshPromise WITH
  Calls <- Requests,
  phase <- [r \in Requests |-> IF pc[r] \in {"new", "waiting"} THEN "idle"
                               ELSE IF pc[r] \in {"listing", "dispatching"} THEN "open"
                               ELSE IF pc[r] \in Stopping THEN "stopping" ELSE "over"],
  owed  <- client,
  stops <- hits

\* The calls expect of their ssh children what ssh.run promises, which SshCall
\* is shown to keep, and no more.
SshAsPromised == Ssh!PromiseSpec

\* Every call ends by its deadline, also while jobs keep all the slots.
EveryCallEnds == \A r \in Requests : pc[r] \in InProgress ~> pc[r] = "over"
=============================================================================
