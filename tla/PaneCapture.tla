---------------------------- MODULE PaneCapture ----------------------------
(***************************************************************************)
(* list_tmux_panes and capture_tmux_pane: service.py and panes.py.  A call *)
(* waits for one of the slots it shares with jobs, and lists the panes; a  *)
(* capture then reads the rows of the pane it names between two frames of  *)
(* metadata and lists the panes again.  The pane may move, close or be     *)
(* resized and its server may restart between any two of these.            *)
(*                                                                         *)
(* External: the pane, tmux, whose command queue is atomic, and ssh, whose *)
(* child SshCall shows to end when it is told to.                          *)
(***************************************************************************)
EXTENDS Naturals, FiniteSets

CONSTANTS
  Calls,
  Lines,         \* rows that a capture asks for
  CONCURRENCY,   \* slots of the service
  MaxHeight,     \* bound: rows of the screen
  MaxHistory,    \* bound: rows of the history
  MaxServers     \* bound: restarts of the tmux server

ASSUME CaptureAssumption == /\ IsFiniteSet(Calls)
                            /\ Lines \in Nat \ {0}
                            /\ CONCURRENCY \in Nat \ {0}
                            /\ MaxHeight \in Nat \ {0}
                            /\ MaxHistory \in Nat
                            /\ MaxServers \in Nat

VARIABLES
  server,      \* restarts of the server: the callers name pid:start_time of 0
  place,       \* the pane with the named ID: in the named window ("home"), in
               \* another ("away"), closed ("gone"), or without a server ("down")
  linked,      \* the named window belongs to the named session
  height, history,
  kind,        \* of a call
  pc,          \* where a call is
  wire,        \* the remote side of its current ssh command
  seen,        \* the height of the pane in the first inventory
  rows,        \* the rows captured, counted from the oldest, of how many
  told,        \* what the caller was told
  free,        \* the semaphore's value
  jobs,        \* slots that jobs hold
  closing      \* _closing

pane == <<server, place, linked, height, history>>
call == <<pc, wire, seen, rows, told>>
vars == <<pane, kind, call, free, jobs, closing>>

Holding == {"first", "capture", "second", "late", "cancelling"}
Codes == {"ssh_failed", "tmux_unavailable", "output_limit", "tmux_failed",
          "invalid_tmux_output", "stale_target", "inspection_timeout",
          "cancelled", "shutting_down"}
Faults == {"255", "127", "long", "failed", "garbled"}
Nothing == [from |-> 0, to |-> 0, of |-> 0, height |-> 0]
MaxRows == MaxHistory + MaxHeight
Rows == [from : 0..MaxRows, to : 0..MaxRows, of : 0..MaxRows, height : 0..MaxHeight]

TypeOK == /\ server \in 0..MaxServers
          /\ place \in {"home", "away", "gone", "down"}
          /\ linked \in BOOLEAN
          /\ height \in 1..MaxHeight /\ history \in 0..MaxHistory
          /\ kind \in [Calls -> {"list", "capture"}]
          /\ pc \in [Calls -> Holding \cup {"new", "waiting", "over"}]
          /\ wire \in [Calls -> Faults \cup {"idle", "asked", "hit", "miss", "frames", "others"}]
          /\ seen \in [Calls -> 0..MaxHeight]
          /\ rows \in [Calls -> Rows]
          /\ told \in [Calls -> Codes \cup {"none", "text", "present", "absent"}]
          /\ free \in 0..CONCURRENCY /\ jobs \in 0..CONCURRENCY
          /\ closing \in BOOLEAN

Init == /\ server \in 0..MaxServers /\ place = "home" /\ linked = TRUE
        /\ height \in 1..MaxHeight /\ history \in 0..MaxHistory
        /\ kind \in [Calls -> {"list", "capture"}]
        /\ pc = [c \in Calls |-> "new"]
        /\ wire = [c \in Calls |-> "idle"]
        /\ seen = [c \in Calls |-> 0]
        /\ rows = [c \in Calls |-> Nothing]
        /\ told = [c \in Calls |-> "none"]
        /\ free = CONCURRENCY /\ jobs = 0
        /\ closing = FALSE

-----------------------------------------------------------------------------
(* The world.                                                              *)

Output == /\ place \in {"home", "away"} /\ history < MaxHistory
          /\ history' = history + 1
          /\ UNCHANGED <<server, place, linked, height>>

ClearHistory == /\ history' = 0
                /\ UNCHANGED <<server, place, linked, height>>

\* Rows go to the history or come back from it, or blank ones go and come.
Resize(h) == /\ height' = h
             /\ history' \in 0..MaxHistory
             /\ h > height => history' \in history - (h - height)..history
             /\ h <= height => history' \in history..history + (height - h)
             /\ UNCHANGED <<server, place, linked>>

\* The pane goes to another window or back, or closes; its window leaves the
\* session or joins it again; the server dies.
Move == /\ place # "down"
        /\ \/ place # "gone" /\ place' \in {"home", "away", "gone"} /\ UNCHANGED linked
           \/ linked' = ~linked /\ UNCHANGED place
           \/ place' = "down" /\ UNCHANGED linked
        /\ UNCHANGED <<server, height, history>>

\* A new server gives out the same IDs again.
ServerStarts == /\ place = "down" /\ server < MaxServers
                /\ server' = server + 1
                /\ place' \in {"home", "gone"} /\ linked' = TRUE
                /\ UNCHANGED <<height, history>>

World == /\ \/ Output \/ ClearHistory \/ Move \/ ServerStarts
            \/ \E h \in 1..MaxHeight : Resize(h)
         /\ UNCHANGED <<kind, call, free, jobs, closing>>

JobTakes == /\ free > 0 /\ free' = free - 1 /\ jobs' = jobs + 1
            /\ UNCHANGED <<pane, kind, call, closing>>
JobLeaves == /\ jobs > 0 /\ free' = free + 1 /\ jobs' = jobs - 1
             /\ UNCHANGED <<pane, kind, call, closing>>

-----------------------------------------------------------------------------
(* The remote side of a command.                                           *)

Named == server = 0 /\ place = "home"
Member == Named /\ linked

Answers(c, answer) == /\ wire[c] = "asked" /\ wire' = [wire EXCEPT ![c] = answer]
                      /\ UNCHANGED <<pane, kind, pc, told, free, jobs, closing>>

\* list-panes -a, and the row that _select looks for.  Without a server it is
\* an empty inventory.
Lists(c) == /\ pc[c] \in {"first", "second"}
            /\ Answers(c, IF Member THEN "hit" ELSE "miss")
            /\ seen' = IF pc[c] = "first" /\ Member THEN [seen EXCEPT ![c] = height] ELSE seen
            /\ UNCHANGED rows

Within(n) == IF n < 1 THEN 1 ELSE IF n > history + height THEN history + height ELSE n

\* Mutated form of Captured: a row short.
CapturedShort(h) == [from |-> Within((history + h + 2) - Lines), to |-> Within(history + h),
                     of |-> history + height, height |-> height]

\* capture-pane -S h-Lines -E h-1: row 0 is the first of the screen.
Captured(h) == [from |-> Within((history + h + 1) - Lines), to |-> Within(history + h),
                of |-> history + height, height |-> height]

\* display-message, capture-pane, display-message in one queue.
Captures(c) == /\ pc[c] = "capture"
               /\ IF place \in {"home", "away"}
                    THEN /\ Answers(c, IF Named THEN "frames" ELSE "others")
                         /\ rows' = [rows EXCEPT ![c] = Captured(seen[c])]
                    ELSE /\ Answers(c, "failed")
                         /\ UNCHANGED rows
               /\ UNCHANGED seen

\* ssh fails or cannot be launched, there is no tmux, the answer is too long,
\* tmux fails, or answers what cannot be parsed.
ReadFails(c) == /\ pc[c] \in {"first", "capture", "second"}
                /\ \E fault \in Faults : Answers(c, fault)
                /\ UNCHANGED <<seen, rows>>

-----------------------------------------------------------------------------
(* The call.                                                               *)

\* Out of the semaphore and the timeout.
Ends(c, answer) ==
  /\ pc' = [pc EXCEPT ![c] = "over"]
  /\ told' = [told EXCEPT ![c] = answer]
  /\ rows' = IF answer = "text" THEN rows ELSE [rows EXCEPT ![c] = Nothing]
  /\ free' = IF pc[c] \in Holding THEN free + 1 ELSE free
  /\ UNCHANGED <<pane, kind, wire, seen, jobs, closing>>

Asks(c, step) == /\ pc' = [pc EXCEPT ![c] = step]
                 /\ wire' = [wire EXCEPT ![c] = "asked"]
                 /\ UNCHANGED <<pane, kind, seen, rows, told, jobs, closing>>

Goes(c, where) == /\ pc' = [pc EXCEPT ![c] = where]
                  /\ UNCHANGED <<pane, kind, wire, seen, rows, told, free, jobs, closing>>

Submit(c) == pc[c] = "new" /\ IF closing THEN Ends(c, "shutting_down") ELSE Goes(c, "waiting")

\* close() cancels jobs; a pane call goes on.
Close == /\ ~closing /\ closing' = TRUE
         /\ UNCHANGED <<pane, kind, call, free, jobs>>

Acquire(c) == pc[c] = "waiting" /\ free > 0 /\ free' = free - 1 /\ Asks(c, "first")

Inventory(c) == /\ pc[c] = "first" /\ kind[c] = "list"
                /\ \/ wire[c] = "hit" /\ Ends(c, "present")
                   \/ wire[c] = "miss" /\ Ends(c, "absent")

\* A capture that goes on after _select, or after its frames.
Selected(c) == /\ pc[c] = "first" /\ kind[c] = "capture" /\ wire[c] = "hit"
               /\ Asks(c, "capture") /\ UNCHANGED free

\* Mutated form of Framed: the frames are not compared.
FramedAnyhow(c) == /\ pc[c] = "capture" /\ wire[c] \in {"frames", "others"}
                   /\ Asks(c, "second") /\ UNCHANGED free

Framed(c) == /\ pc[c] = "capture" /\ wire[c] = "frames"
             /\ Asks(c, "second") /\ UNCHANGED free

Confirmed(c) == pc[c] = "second" /\ wire[c] = "hit" /\ Ends(c, "text")

\* Not in the inventory, frames of another place, or capture-pane failed.
Stale(c) == /\ kind[c] = "capture"
            /\ \/ pc[c] \in {"first", "second"} /\ wire[c] = "miss"
               \/ pc[c] = "capture" /\ wire[c] \in {"others", "garbled", "failed"}
            /\ Ends(c, "stale_target")

Fails(c) ==
  \/ /\ pc[c] \in {"first", "capture", "second"}
     /\ \/ wire[c] = "255" /\ Ends(c, "ssh_failed")
        \/ wire[c] = "127" /\ Ends(c, "tmux_unavailable")
        \/ wire[c] = "long" /\ Ends(c, "output_limit")
  \/ /\ pc[c] \in {"first", "second"}
     /\ \/ wire[c] = "failed" /\ Ends(c, "tmux_failed")
        \/ wire[c] = "garbled" /\ Ends(c, "invalid_tmux_output")

\* Mutated form of Deadline: the wait for a slot is outside the timeout.
DeadlineWithSlot(c) == \/ pc[c] \in {"first", "capture", "second"} /\ Goes(c, "late")
                       \/ pc[c] = "cancelling" /\ Ends(c, "cancelled")

\* asyncio.timeout: in the queue it ends the call, later ssh.run stops its child.
Deadline(c) == \/ pc[c] = "waiting" /\ Ends(c, "inspection_timeout")
               \/ pc[c] \in {"first", "capture", "second"} /\ Goes(c, "late")
               \/ pc[c] = "cancelling" /\ Ends(c, "cancelled")

\* The client goes away; a second interruption does not wait for the child.
Cancel(c) == \/ pc[c] \in {"waiting", "late", "cancelling"} /\ Ends(c, "cancelled")
             \/ pc[c] \in {"first", "capture", "second"} /\ Goes(c, "cancelling")

Stopped(c) == \/ pc[c] = "late" /\ Ends(c, "inspection_timeout")
              \/ pc[c] = "cancelling" /\ Ends(c, "cancelled")

-----------------------------------------------------------------------------
Remote(c) == Lists(c) \/ Captures(c) \/ ReadFails(c)
Call(c) == \/ Submit(c) \/ Acquire(c) \/ Inventory(c) \/ Selected(c) \/ Framed(c)
           \/ Confirmed(c) \/ Stale(c) \/ Fails(c) \/ Deadline(c) \/ Cancel(c) \/ Stopped(c)

Next == World \/ JobTakes \/ JobLeaves \/ Close \/ \E c \in Calls : Remote(c) \/ Call(c)

\* The deadline runs and a child that is stopped ends.
Fairness == \A c \in Calls : WF_vars(Deadline(c)) /\ WF_vars(Stopped(c))

Spec == Init /\ [][Next]_vars
FairSpec == Spec /\ Fairness

-----------------------------------------------------------------------------
(* Properties.                                                             *)

Stage(c) ==
  CASE pc[c] \in {"new", "waiting"} -> "asked"
    [] pc[c] = "first" /\ wire[c] \notin {"hit", "miss"} -> "asked"
    [] pc[c] = "first" /\ wire[c] = "miss" -> "missed"
    [] pc[c] = "first" /\ wire[c] = "hit" -> "seen"
    [] pc[c] = "capture" /\ wire[c] # "frames" -> "seen"
    [] pc[c] = "capture" /\ wire[c] = "frames" -> "held"
    [] pc[c] = "second" /\ wire[c] # "hit" -> "held"
    [] pc[c] = "second" /\ wire[c] = "hit" -> "sure"
    [] OTHER -> "over"

View == INSTANCE PaneView WITH
  here  <- IF Member THEN "member" ELSE IF Named THEN "window" ELSE "elsewhere",
  stage <- [c \in Calls |-> Stage(c)],
  told  <- [c \in Calls |-> IF told[c] \in Codes THEN "error" ELSE told[c]]

\* Text is told only of a pane that was as named before and after it was read,
\* and that was read in the named window of the named server; an inventory
\* tells what was there (docs/ARCHITECTURE.md:84-88).
ViewsAreTrue == View!Spec

\* A capture never has more rows than were asked for.  However the pane was
\* resized since the first inventory, the text ends with the last row of the
\* screen unless the pane grew; with the height unchanged not a row is missing
\* (README.md:99-101).
LastLines ==
  \A c \in Calls : told[c] = "text" =>
    LET r == rows[c]
        count == r.to + 1 - r.from
    IN  /\ count \in 1..Lines
        /\ r.height <= seen[c] => r.to = r.of
        /\ r.height = seen[c] => count = Lines \/ r.from = 1

\* No ending, early or late, loses a slot or gives one back twice.
SlotsKept == free + jobs + Cardinality({c \in Calls : pc[c] \in Holding}) = CONCURRENCY

\* A call ends by its deadline also while jobs keep all the slots (README.md:118
\* "total deadline (including slot wait)").
EveryCallEnds == \A c \in Calls : pc[c] \in Holding \cup {"waiting"} ~> pc[c] = "over"
=============================================================================
