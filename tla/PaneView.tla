------------------------------ MODULE PaneView ------------------------------
(***************************************************************************)
(* What an answer about a pane promises its caller, without ssh, slots,    *)
(* timeouts or rows.  The caller names a server, a session, a window and a *)
(* pane; `here' tells where that pane is at the moment.                    *)
(***************************************************************************)
CONSTANT Calls

VARIABLES
  here,     \* "member": as named; "window": its window has left the session;
            \* "elsewhere": in another window or server, or nowhere
  stage,    \* what a call has observed, in this order
  told      \* what the caller was told

contract == <<here, stage, told>>

Stages == {"asked", "seen", "missed", "held", "sure", "over"}
Answers == {"none", "present", "absent", "text", "error"}

Init == /\ here \in {"member", "window", "elsewhere"}
        /\ stage = [c \in Calls |-> "asked"]
        /\ told = [c \in Calls |-> "none"]

Moves == /\ here' \in {"member", "window", "elsewhere"}
         /\ UNCHANGED <<stage, told>>

Observes(c, from, to, true) == /\ stage[c] = from /\ true
                               /\ stage' = [stage EXCEPT ![c] = to]
                               /\ UNCHANGED <<here, told>>

Sees(c)      == Observes(c, "asked", "seen", here = "member")
Misses(c)    == Observes(c, "asked", "missed", here # "member")
Holds(c)     == Observes(c, "seen", "held", here # "elsewhere")
SeesAgain(c) == Observes(c, "held", "sure", here = "member")

\* Text is told when the pane was seen as named, then read where it was named,
\* then seen again; an inventory tells what it saw.
Tells(c) == \E what \in Answers \ {"none"} :
              /\ told[c] = "none"
              /\ what = "text" => stage[c] = "sure"
              /\ what = "present" => stage[c] = "seen"
              /\ what = "absent" => stage[c] = "missed"
              /\ told' = [told EXCEPT ![c] = what]
              /\ stage' = [stage EXCEPT ![c] = "over"]
              /\ UNCHANGED here

\* What was observed is dropped: the call will tell an error.
GivesUp(c) == /\ stage' = [stage EXCEPT ![c] = "over"]
              /\ UNCHANGED <<here, told>>

Next == Moves \/ \E c \in Calls : \/ Sees(c) \/ Misses(c) \/ Holds(c) \/ SeesAgain(c)
                                  \/ Tells(c) \/ GivesUp(c)

Spec == Init /\ [][Next]_contract
=============================================================================
