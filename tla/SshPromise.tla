----------------------------- MODULE SshPromise -----------------------------
(***************************************************************************)
(* What ssh.run promises those who hold something while it runs, a slot or *)
(* the scope of a pane: it is over only when its child is gone, unless it  *)
(* was stopped a second time.  SshCall keeps this promise, and the calls   *)
(* of PaneInput rely on no more than it.                                   *)
(***************************************************************************)
EXTENDS Naturals

CONSTANT Calls

VARIABLES
  phase,     \* of a call
  owed,      \* a child is there, or may still be made
  stops      \* reasons to stop it so far: cancellations, an exceeded limit

promise == <<phase, owed, stops>>

PromiseInit == /\ phase \in [Calls -> {"idle", "open"}]
               /\ owed = [c \in Calls |-> phase[c] = "open"]
               /\ stops = [c \in Calls |-> 0]

Moves(c, to) == phase' = [phase EXCEPT ![c] = to]
Pays(c) == owed' = [owed EXCEPT ![c] = FALSE]
Counts(c) == stops' = [stops EXCEPT ![c] = @ + 1]

Starts(c) == /\ phase[c] = "idle" /\ Moves(c, "open")
             /\ owed' = [owed EXCEPT ![c] = TRUE]
             /\ UNCHANGED stops

\* What is over before it started owes nothing.
Declined(c) == /\ phase[c] = "idle" /\ Moves(c, "over")
               /\ Counts(c) \/ UNCHANGED stops
               /\ UNCHANGED owed

\* The child is gone and waited for, or will not be made.
ChildGone(c) == owed[c] /\ Pays(c) /\ UNCHANGED <<phase, stops>>

\* A result, or an error of the call itself: there is no child any more.
Answers(c) == phase[c] = "open" /\ Moves(c, "over") /\ Pays(c) /\ UNCHANGED stops

\* The first reason to stop: the call waits for its child, if there is one.
Stops(c) == /\ phase[c] = "open" /\ Counts(c)
            /\ Moves(c, "stopping") \/ (Moves(c, "over") /\ ~owed[c])
            /\ UNCHANGED owed

Stopped(c) == /\ phase[c] = "stopping" /\ ~owed[c] /\ Moves(c, "over")
              /\ UNCHANGED <<owed, stops>>

\* Another one may leave the child behind.
StopsAgain(c) == /\ phase[c] = "stopping" /\ Counts(c)
                 /\ Moves(c, "over") \/ UNCHANGED phase
                 /\ Pays(c) \/ UNCHANGED owed

PromiseNext == \E c \in Calls : \/ Starts(c) \/ Declined(c) \/ ChildGone(c) \/ Answers(c)
                                \/ Stops(c) \/ Stopped(c) \/ StopsAgain(c)

PromiseSpec == PromiseInit /\ [][PromiseNext]_promise
=============================================================================
