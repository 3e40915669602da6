---------------------------- MODULE PaneReceipt ----------------------------
(***************************************************************************)
(* What the receipt of a write into a pane promises its caller, without    *)
(* ssh, slots, scopes or timeouts.  "none" is a call that is not over,     *)
(* "lost" a call that ended with an error instead of a receipt.            *)
(***************************************************************************)
EXTENDS Naturals

CONSTANTS
  Requests,    \* write calls
  Panes,       \* a pane of a tmux server at a configured destination
  Target       \* the pane a request names

VARIABLES
  process,     \* the process in a pane: the pid changes with every respawn
  named,       \* the process a request names
  reached,     \* how much of the input the process was given
  receipt      \* what the caller was told

contract == <<process, named, reached, receipt>>

Reached  == {"nothing", "some", "all"}
Receipts == {"none", "sent", "not_sent", "unknown", "lost"}

Init == /\ process = [p \in Panes |-> 0]
        /\ named \in [Requests -> Nat]
        /\ reached = [r \in Requests |-> "nothing"]
        /\ receipt = [r \in Requests |-> "none"]

Respawn(p) == /\ process' = [process EXCEPT ![p] = @ + 1]
              /\ UNCHANGED <<named, reached, receipt>>

\* Input is given once, to the process that was named, and never after the
\* caller was told that it was not sent.
Deliver(r) == /\ reached[r] = "nothing"
              /\ receipt[r] \in {"none", "unknown", "lost"}
              /\ process[Target[r]] = named[r]
              /\ \E much \in {"some", "all"} : reached' = [reached EXCEPT ![r] = much]
              /\ UNCHANGED <<process, named, receipt>>

\* "sent" is told of input given in full, "not_sent" of input not given.
Tell(r, k) == /\ receipt[r] = "none"
              /\ k = "sent" => reached[r] = "all"
              /\ k = "not_sent" => reached[r] = "nothing"
              /\ receipt' = [receipt EXCEPT ![r] = k]
              /\ UNCHANGED <<process, named, reached>>

Next == \/ \E r \in Requests : Deliver(r)
        \/ \E r \in Requests, k \in Receipts \ {"none"} : Tell(r, k)
        \/ \E p \in Panes : Respawn(p)

Spec == Init /\ [][Next]_contract
=============================================================================
