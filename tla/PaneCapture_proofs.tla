------------------------- MODULE PaneCapture_proofs -------------------------
(***************************************************************************)
(* Proofs about PaneCapture, for any calls, slots, rows and screens.       *)
(***************************************************************************)
EXTENDS PaneCapture, FiniteSetTheorems, TLAPS

-----------------------------------------------------------------------------
(* The forms that a step of a call has.                                    *)

\* It ends, with an answer that what it has at that place allows.
Ending(c) ==
  /\ pc[c] # "over"
  /\ \E a \in Codes \cup {"text", "present", "absent"} :
       /\ Ends(c, a)
       /\ a = "text" => pc[c] = "second" /\ wire[c] = "hit"
       /\ a = "present" => pc[c] = "first" /\ wire[c] = "hit"
       /\ a = "absent" => pc[c] = "first" /\ wire[c] = "miss"

\* It goes on to the next read.
Reading(c) ==
  /\ UNCHANGED free
  /\ \/ pc[c] = "first" /\ wire[c] = "hit" /\ Asks(c, "capture")
     \/ pc[c] = "capture" /\ wire[c] = "frames" /\ Asks(c, "second")

\* It waits: in the queue, or for its child to stop.
Waiting(c) ==
  \/ pc[c] = "new" /\ Goes(c, "waiting")
  \/ /\ pc[c] \in {"first", "capture", "second"}
     /\ Goes(c, "late") \/ Goes(c, "cancelling")

LEMMA CallForms ==
  ASSUME NEW c \in Calls, Call(c)
  PROVE  Ending(c) \/ Acquire(c) \/ Reading(c) \/ Waiting(c)
<1>1. CASE Submit(c)
  BY <1>1 DEF Submit, Ending, Waiting, Codes
<1>2. CASE Inventory(c) \/ Confirmed(c)
  BY <1>2 DEF Inventory, Confirmed, Ending, Codes
<1>3. CASE Selected(c) \/ Framed(c)
  BY <1>3 DEF Selected, Framed, Reading
<1>4. CASE Stale(c) \/ Fails(c)
  BY <1>4 DEF Stale, Fails, Ending, Codes
<1>5. CASE Deadline(c)
  BY <1>5 DEF Deadline, Ending, Waiting, Codes
<1>6. CASE Cancel(c) \/ Stopped(c)
  BY <1>6 DEF Cancel, Stopped, Ending, Waiting, Codes
<1> QED
  BY <1>1, <1>2, <1>3, <1>4, <1>5, <1>6 DEF Call

-----------------------------------------------------------------------------
(* The slots.                                                              *)

Holders == {c \in Calls : pc[c] \in Holding}

LEMMA HoldersFinite == IsFiniteSet(Holders) /\ Cardinality(Holders) \in Nat
  BY CaptureAssumption, FS_Subset, FS_CardinalityType DEF Holders

\* What every step does about the slots.
SlotsMove == /\ free' \in 0..CONCURRENCY
             /\ jobs' \in 0..CONCURRENCY
             /\ SlotsKept'

LEMMA SlotsEnd ==
  ASSUME TypeOK, SlotsKept, NEW c \in Calls, Ending(c)
  PROVE  SlotsMove
<1>1. /\ pc' = [pc EXCEPT ![c] = "over"] /\ UNCHANGED jobs
      /\ free' = IF pc[c] \in Holding THEN free + 1 ELSE free
  BY DEF Ending, Ends
<1>2. CASE pc[c] \in Holding
  <2>1. Holders' = Holders \ {c} /\ c \in Holders
    BY <1>1, <1>2 DEF TypeOK, Holders, Holding
  <2>2. Cardinality(Holders') = Cardinality(Holders) - 1 /\ Cardinality(Holders') \in Nat
    BY <2>1, HoldersFinite, FS_RemoveElement, FS_CardinalityType
  <2> QED
    BY <1>1, <1>2, <2>2, HoldersFinite, CaptureAssumption
    DEF SlotsMove, SlotsKept, Holders, TypeOK
<1>3. CASE pc[c] \notin Holding
  <2>1. Holders' = Holders
    BY <1>1, <1>3 DEF TypeOK, Holders, Holding
  <2> QED
    BY <1>1, <1>3, <2>1 DEF SlotsMove, SlotsKept, Holders, TypeOK
<1> QED
  BY <1>2, <1>3

LEMMA SlotsStep ==
  ASSUME TypeOK, SlotsKept, [Next]_vars
  PROVE  SlotsMove
<1>1. ASSUME UNCHANGED <<free, jobs>>, Holders' = Holders
      PROVE  SlotsMove
  BY <1>1 DEF SlotsMove, SlotsKept, Holders, TypeOK
<1>2. CASE JobTakes \/ JobLeaves
  <2>1. UNCHANGED Holders
    BY <1>2 DEF JobTakes, JobLeaves, call, Holders
  <2>2. /\ free \in Nat /\ jobs \in Nat /\ CONCURRENCY \in Nat
        /\ free + jobs + Cardinality(Holders) = CONCURRENCY
    BY CaptureAssumption DEF SlotsKept, Holders, TypeOK
  <2>3. free' + jobs' = free + jobs /\ free' \in Nat /\ jobs' \in Nat
    BY <1>2, <2>2 DEF JobTakes, JobLeaves
  <2> DEFINE held == Cardinality(Holders)
  <2>4. free' + jobs' + held = CONCURRENCY /\ held \in Nat
    BY <2>2, <2>3, HoldersFinite
  <2> HIDE DEF held
  <2>5. free' \in 0..CONCURRENCY /\ jobs' \in 0..CONCURRENCY
    <3>1. \A x, y, z, n \in Nat : x + y + z = n => x \in 0..n /\ y \in 0..n
      OBVIOUS
    <3> QED
      BY <2>2, <2>3, <2>4, <3>1
  <2>6. SlotsKept'
    <3>1. Cardinality(Holders') = held
      BY <2>1 DEF held
    <3> QED
      BY <2>4, <3>1 DEF SlotsKept, Holders
  <2> QED
    BY <2>5, <2>6 DEF SlotsMove
<1>3. CASE World \/ Close \/ UNCHANGED vars
  BY <1>1, <1>3 DEF World, Close, vars, call, Holders
<1>4. ASSUME NEW c \in Calls, Remote(c)
      PROVE  SlotsMove
  BY <1>1, <1>4 DEF Remote, Lists, Captures, ReadFails, Answers, Holders
<1>5. ASSUME NEW c \in Calls, Ending(c)
      PROVE  SlotsMove
  BY <1>5, SlotsEnd
<1>6. ASSUME NEW c \in Calls, Acquire(c)
      PROVE  SlotsMove
  <2>1. Holders' = Holders \cup {c} /\ c \notin Holders
    BY <1>6 DEF Acquire, Asks, TypeOK, Holders, Holding
  <2>2. Cardinality(Holders') = Cardinality(Holders) + 1
    BY <2>1, HoldersFinite, FS_AddElement
  <2> QED
    BY <1>6, <2>2, HoldersFinite DEF Acquire, Asks, SlotsMove, SlotsKept, Holders, TypeOK
<1>7. ASSUME NEW c \in Calls, Reading(c) \/ Waiting(c)
      PROVE  SlotsMove
  <2>1. Holders' = Holders
    BY <1>7 DEF Reading, Waiting, Asks, Goes, TypeOK, Holders, Holding
  <2> QED
    BY <1>1, <1>7, <2>1 DEF Reading, Waiting, Asks, Goes
<1> QED
  BY <1>2, <1>3, <1>4, <1>5, <1>6, <1>7, CallForms DEF Next

-----------------------------------------------------------------------------
(* Type correctness.                                                       *)

LEMMA TypeInit == Init => TypeOK /\ SlotsKept
<1> SUFFICES ASSUME Init
             PROVE  TypeOK /\ SlotsKept
  OBVIOUS
<1>1. /\ place \in {"home", "away", "gone", "down"} /\ linked \in BOOLEAN
      /\ closing \in BOOLEAN
  BY DEF Init
<1>2. /\ pc \in [Calls -> Holding \cup {"new", "waiting", "over"}]
      /\ wire \in [Calls -> Faults \cup {"idle", "asked", "hit", "miss", "frames", "others"}]
      /\ told \in [Calls -> Codes \cup {"none", "text", "present", "absent"}]
  BY DEF Init
<1>3. /\ seen \in [Calls -> 0..MaxHeight]
      /\ free \in 0..CONCURRENCY /\ jobs \in 0..CONCURRENCY
  BY CaptureAssumption DEF Init
<1>4. rows \in [Calls -> Rows]
  <2>1. Nothing \in Rows
    BY CaptureAssumption DEF Nothing, Rows, MaxRows
  <2> QED
    BY <2>1 DEF Init
<1>5. Cardinality(Holders) = 0
  <2>1. Holders = {}
    BY DEF Init, Holders, Holding
  <2> QED
    BY <2>1, FS_EmptySet
<1>6. SlotsKept
  BY <1>5, CaptureAssumption DEF Init, SlotsKept, Holders
<1> QED
  BY <1>1, <1>2, <1>3, <1>4, <1>6 DEF Init, TypeOK

\* The rows that a capture reads are on the screen or in the history.
LEMMA CapturedType ==
  ASSUME TypeOK, NEW h \in 0..MaxHeight
  PROVE  Captured(h) \in Rows
<1>1. history + height \in 1..MaxRows /\ height \in 0..MaxHeight
  BY CaptureAssumption DEF TypeOK, MaxRows
<1>2. \A n \in Int : Within(n) \in 0..MaxRows
  BY <1>1, CaptureAssumption DEF Within, MaxRows, TypeOK
<1>3. (history + h + 1) - Lines \in Int /\ history + h \in Int
  BY CaptureAssumption DEF TypeOK
<1>4. /\ Within((history + h + 1) - Lines) \in 0..MaxRows
      /\ Within(history + h) \in 0..MaxRows
      /\ history + height \in 0..MaxRows
  BY <1>1, <1>2, <1>3, CaptureAssumption DEF MaxRows
<1> QED
  BY <1>1, <1>4, Zenon DEF Captured, Rows

LEMMA TypeStep == TypeOK /\ SlotsKept /\ [Next]_vars => (TypeOK /\ SlotsKept)'
<1> SUFFICES ASSUME TypeOK, SlotsKept, [Next]_vars
             PROVE  TypeOK' /\ SlotsKept'
  OBVIOUS
<1>1. SlotsMove
  BY SlotsStep
<1>2. /\ server' \in 0..MaxServers
      /\ place' \in {"home", "away", "gone", "down"}
      /\ linked' \in BOOLEAN
      /\ height' \in 1..MaxHeight /\ history' \in 0..MaxHistory
  <2>1. CASE UNCHANGED pane
    BY <2>1 DEF pane, TypeOK
  <2>2. CASE World
    <3>1. CASE Output \/ ClearHistory \/ ServerStarts
      <4>1. linked' \in BOOLEAN
        BY <3>1, Zenon DEF Output, ClearHistory, ServerStarts, TypeOK
      <4>2. height' \in 1..MaxHeight /\ history' \in 0..MaxHistory
        BY <3>1, CaptureAssumption DEF Output, ClearHistory, ServerStarts, TypeOK
      <4>3. server' \in 0..MaxServers /\ place' \in {"home", "away", "gone", "down"}
        BY <3>1, CaptureAssumption DEF Output, ClearHistory, ServerStarts, TypeOK
      <4> QED
        BY <4>1, <4>2, <4>3
    <3>2. CASE Move
      <4>1. linked' \in BOOLEAN
        BY <3>2, Zenon DEF Move, TypeOK
      <4> QED
        BY <3>2, <4>1 DEF Move, TypeOK
    <3>3. CASE \E h \in 1..MaxHeight : Resize(h)
      BY <3>3 DEF Resize, TypeOK
    <3> QED
      BY <2>2, <3>1, <3>2, <3>3 DEF World
  <2>3. ASSUME NEW c \in Calls, Remote(c)
        PROVE  UNCHANGED pane
    BY <2>3 DEF Remote, Lists, Captures, ReadFails, Answers
  <2>4. ASSUME NEW c \in Calls, Ending(c) \/ Acquire(c) \/ Reading(c) \/ Waiting(c)
        PROVE  UNCHANGED pane
    BY <2>4 DEF Ending, Ends, Acquire, Reading, Waiting, Asks, Goes
  <2>5. CASE JobTakes \/ JobLeaves \/ Close \/ UNCHANGED vars
    BY <2>1, <2>5 DEF JobTakes, JobLeaves, Close, vars
  <2> QED
    BY <2>1, <2>2, <2>3, <2>4, <2>5, CallForms DEF Next
<1>3. ASSUME UNCHANGED <<kind, call>>, closing' \in BOOLEAN
      PROVE  TypeOK'
  BY <1>1, <1>2, <1>3 DEF call, TypeOK, SlotsMove
<1>4. ASSUME NEW c \in Calls, Remote(c)
      PROVE  TypeOK'
  <2>1. wire' \in [Calls -> Faults \cup {"idle", "asked", "hit", "miss", "frames", "others"}]
    BY <1>4 DEF Remote, Lists, Captures, ReadFails, Answers, TypeOK, Faults
  <2>2. seen' \in [Calls -> 0..MaxHeight]
    BY <1>4, CaptureAssumption DEF Remote, Lists, Captures, ReadFails, TypeOK
  <2>3. rows' \in [Calls -> Rows]
    <3>1. CASE UNCHANGED rows
      BY <3>1 DEF TypeOK
    <3>2. CASE rows' = [rows EXCEPT ![c] = Captured(seen[c])]
      BY <3>2, CapturedType DEF TypeOK
    <3> QED
      BY <1>4, <3>1, <3>2 DEF Remote, Lists, Captures, ReadFails
  <2>4. UNCHANGED <<kind, pc, told, closing>>
    BY <1>4 DEF Remote, Lists, Captures, ReadFails, Answers
  <2> QED
    BY <1>1, <1>2, <2>1, <2>2, <2>3, <2>4 DEF TypeOK, SlotsMove
<1>5. ASSUME NEW c \in Calls, Ending(c)
      PROVE  TypeOK'
  <2>1. PICK a \in Codes \cup {"text", "present", "absent"} : Ends(c, a)
    BY <1>5 DEF Ending
  <2>2. pc' \in [Calls -> Holding \cup {"new", "waiting", "over"}]
    BY <2>1 DEF Ends, TypeOK
  <2>3. told' \in [Calls -> Codes \cup {"none", "text", "present", "absent"}]
    BY <2>1 DEF Ends, TypeOK
  <2>4. rows' \in [Calls -> Rows]
    <3>1. Nothing \in Rows
      BY CaptureAssumption DEF Nothing, Rows, MaxRows
    <3> QED
      BY <2>1, <3>1 DEF Ends, TypeOK
  <2>5. UNCHANGED <<kind, wire, seen, closing>>
    BY <2>1 DEF Ends
  <2> QED
    BY <1>1, <1>2, <2>2, <2>3, <2>4, <2>5 DEF TypeOK, SlotsMove
<1>6. ASSUME NEW c \in Calls, Acquire(c) \/ Reading(c) \/ Waiting(c)
      PROVE  TypeOK'
  <2>1. /\ pc' \in [Calls -> Holding \cup {"new", "waiting", "over"}]
        /\ wire' \in [Calls -> Faults \cup {"idle", "asked", "hit", "miss", "frames", "others"}]
    BY <1>6 DEF Acquire, Reading, Waiting, Asks, Goes, TypeOK, Holding
  <2>2. UNCHANGED <<kind, seen, rows, told, closing>>
    BY <1>6 DEF Acquire, Reading, Waiting, Asks, Goes
  <2> QED
    BY <1>1, <1>2, <2>1, <2>2 DEF TypeOK, SlotsMove
<1>7. ASSUME World \/ JobTakes \/ JobLeaves \/ Close \/ UNCHANGED vars
      PROVE  TypeOK'
  <2>1. closing' \in BOOLEAN
    BY <1>7, Zenon DEF World, JobTakes, JobLeaves, Close, vars, TypeOK
  <2>2. UNCHANGED <<kind, call>>
    BY <1>7 DEF World, JobTakes, JobLeaves, Close, vars
  <2> QED
    BY <1>3, <2>1, <2>2
<1> QED
  BY <1>1, <1>4, <1>5, <1>6, <1>7, CallForms DEF Next, SlotsMove

LEMMA Types == Spec => [](TypeOK /\ SlotsKept)
  BY TypeInit, TypeStep, PTL DEF Spec

\* Every variable keeps its type.
THEOREM TypeCorrect == Spec => []TypeOK
  BY Types, PTL

\* The slots of the service are free, a job's or a pane call's, and however a
\* call ends it leaves none behind.
THEOREM SlotsConserved == Spec => []SlotsKept
  BY Types, PTL

-----------------------------------------------------------------------------
(* The rows of an answer.                                                  *)

\* What the text of a call is, given the screen of its first inventory.
LastRows(r, h) ==
  /\ r.to + 1 - r.from \in 1..Lines
  /\ r.height <= h => r.to = r.of
  /\ r.height = h => r.to + 1 - r.from = Lines \/ r.from = 1

\* A call has read its rows, and an error does not keep them.
Read(c) == \/ pc[c] = "capture" /\ wire[c] \in {"frames", "others"}
           \/ pc[c] = "second"
           \/ told[c] = "text"

RowsInv == \A c \in Calls : /\ told[c] = "none" \/ pc[c] = "over"
                            /\ Read(c) => LastRows(rows[c], seen[c])

\* However the screen was resized since a call saw it with h rows.
LEMMA CapturedRows ==
  ASSUME TypeOK, NEW h \in 0..MaxHeight
  PROVE  LastRows(Captured(h), h)
<1> DEFINE total == history + height
           first == Within((history + h + 1) - Lines)
           last  == Within(history + h)
<1>1. /\ history \in Nat /\ height \in Nat \ {0} /\ h \in Nat /\ Lines \in Nat \ {0}
      /\ total \in Nat \ {0}
  BY CaptureAssumption DEF TypeOK
<1>2. /\ first = IF (history + h + 1) - Lines < 1 THEN 1
                 ELSE IF (history + h + 1) - Lines > total THEN total
                 ELSE (history + h + 1) - Lines
      /\ last = IF history + h < 1 THEN 1
                ELSE IF history + h > total THEN total ELSE history + h
  BY DEF Within
<1> HIDE DEF first, last, total
<1>3. first \in Nat /\ last \in Nat /\ last + 1 - first \in 1..Lines
  BY <1>1, <1>2 DEF total
<1>4. height <= h => last = total
  BY <1>1, <1>2 DEF total
<1>5. height = h => last + 1 - first = Lines \/ first = 1
  BY <1>1, <1>2 DEF total
<1>6. Captured(h) = [from |-> first, to |-> last, of |-> total, height |-> height]
  BY DEF Captured, first, last, total
<1> QED
  BY <1>3, <1>4, <1>5, <1>6 DEF LastRows

LEMMA RowsStep == TypeOK /\ RowsInv /\ [Next]_vars => RowsInv'
<1> SUFFICES ASSUME TypeOK, RowsInv, [Next]_vars, NEW d \in Calls
             PROVE  /\ told'[d] = "none" \/ pc'[d] = "over"
                    /\ Read(d)' => LastRows(rows'[d], seen'[d])
  BY DEF RowsInv, Read, LastRows
<1>1. /\ told[d] = "none" \/ pc[d] = "over"
      /\ Read(d) => LastRows(rows[d], seen[d])
  BY DEF RowsInv
<1>2. ASSUME UNCHANGED call
      PROVE  /\ told'[d] = "none" \/ pc'[d] = "over"
             /\ Read(d)' => LastRows(rows'[d], seen'[d])
  BY <1>1, <1>2 DEF call, Read
<1>3. CASE World \/ JobTakes \/ JobLeaves \/ Close \/ UNCHANGED vars
  BY <1>2, <1>3 DEF World, JobTakes, JobLeaves, Close, vars
<1>4. ASSUME NEW c \in Calls, c # d,
             Remote(c) \/ Ending(c) \/ Acquire(c) \/ Reading(c) \/ Waiting(c)
      PROVE  /\ told'[d] = "none" \/ pc'[d] = "over"
             /\ Read(d)' => LastRows(rows'[d], seen'[d])
  <2>1. /\ told'[d] = told[d] /\ pc'[d] = pc[d] /\ wire'[d] = wire[d]
        /\ rows'[d] = rows[d] /\ seen'[d] = seen[d]
    BY <1>4 DEF TypeOK, Remote, Lists, Captures, ReadFails, Answers, Ending, Ends, Acquire,
                Reading, Waiting, Asks, Goes
  <2> QED
    BY <1>1, <2>1 DEF Read
<1>5. CASE Lists(d) \/ ReadFails(d)
  BY <1>1, <1>5 DEF Lists, ReadFails, Answers, Faults, TypeOK, Read
<1>6. CASE Captures(d)
  <2>1. /\ UNCHANGED <<told, pc, seen>> /\ pc[d] = "capture" /\ seen[d] \in 0..MaxHeight
    BY <1>6 DEF Captures, Answers, TypeOK
  <2>2. CASE rows' = [rows EXCEPT ![d] = Captured(seen[d])]
    <3>1. rows'[d] = Captured(seen[d])
      BY <2>2 DEF TypeOK
    <3> QED
      BY <1>1, <2>1, <3>1, CapturedRows
  <2>3. CASE UNCHANGED rows /\ Answers(d, "failed")
    BY <1>1, <2>1, <2>3 DEF Answers, TypeOK, Read
  <2> QED
    BY <1>6, <2>2, <2>3 DEF Captures
<1>7. CASE Ending(d)
  <2>1. PICK a \in Codes \cup {"text", "present", "absent"} :
          Ends(d, a) /\ (a = "text" => pc[d] = "second")
    BY <1>7 DEF Ending
  <2>2. /\ pc'[d] = "over" /\ told'[d] = a /\ UNCHANGED seen
        /\ a = "text" => rows'[d] = rows[d]
    BY <2>1 DEF Ends, TypeOK
  <2> QED
    BY <1>1, <2>1, <2>2 DEF Read
<1>8. CASE Acquire(d) \/ Reading(d) \/ Waiting(d)
  BY <1>1, <1>8 DEF Acquire, Reading, Waiting, Asks, Goes, TypeOK, Read
<1> QED
  BY <1>3, <1>4, <1>5, <1>6, <1>7, <1>8, CallForms DEF Next, Remote

\* A text is never longer than was asked for, ends with the last row unless the
\* pane grew, and with the height unchanged has all the rows that there are.
THEOREM Texts == Spec => []LastLines
<1>1. Init => RowsInv
  BY DEF Init, RowsInv, Read
<1>2. TypeOK /\ RowsInv => LastLines
  BY DEF RowsInv, Read, LastRows, LastLines
<1> QED
  BY <1>1, <1>2, RowsStep, TypeCorrect, PTL DEF Spec

-----------------------------------------------------------------------------
(* PaneCapture implements PaneView.                                        *)

here  == IF Member THEN "member" ELSE IF Named THEN "window" ELSE "elsewhere"
stage == [c \in Calls |-> Stage(c)]
shown == [c \in Calls |-> IF told[c] \in Codes THEN "error" ELSE told[c]]

LEMMA CodesAreErrors ==
  \A a \in Codes \cup {"none", "text", "present", "absent"} :
    a \in Codes <=> a \notin {"none", "text", "present", "absent"}
  BY DEF Codes

\* The stages of the calls that a step leaves alone.
LEMMA StageStays ==
  ASSUME NEW d \in Calls, pc'[d] = pc[d], wire'[d] = wire[d]
  PROVE  Stage(d)' = Stage(d)
  BY DEF Stage

LEMMA ViewStutter ==
  ASSUME UNCHANGED <<server, place, linked, pc, wire, told>>
  PROVE  UNCHANGED <<here, stage, shown>>
<1>1. \A d \in Calls : Stage(d)' = Stage(d)
  BY StageStays
<1>2. stage' = stage
  BY <1>1, Zenon DEF stage
<1>3. here' = here
  BY DEF here, Member, Named
<1>4. shown' = shown
  BY DEF shown
<1> QED
  BY <1>2, <1>3, <1>4

LEMMA ViewWorld ==
  ASSUME World
  PROVE  View!Next
<1>1. UNCHANGED <<stage, shown>>
  <2>1. UNCHANGED <<pc, wire, told>>
    BY DEF World, call
  <2>2. \A d \in Calls : Stage(d)' = Stage(d)
    BY <2>1, StageStays
  <2>3. stage' = stage
    BY <2>2, Zenon DEF stage
  <2> QED
    BY <2>1, <2>3 DEF shown
<1>2. here' \in {"member", "window", "elsewhere"}
  BY DEF here
<1>3. View!Moves
  BY <1>1, <1>2 DEF View!Moves, stage, shown, here
<1> QED
  BY <1>3 DEF View!Next

\* A call c that goes from a stage to a stage, and the others that stay.
LEMMA StageMoves ==
  ASSUME TypeOK, NEW c \in Calls,
         UNCHANGED <<server, place, linked, told>>,
         \A d \in Calls \ {c} : pc'[d] = pc[d] /\ wire'[d] = wire[d]
  PROVE  /\ UNCHANGED <<here, shown>>
         /\ stage' = [stage EXCEPT ![c] = Stage(c)']
<1>1. \A d \in Calls \ {c} : Stage(d)' = Stage(d)
  BY StageStays
<1>2. stage' = [stage EXCEPT ![c] = Stage(c)']
  BY <1>1, Zenon DEF stage
<1>3. here' = here /\ shown' = shown
  BY DEF here, Member, Named, shown
<1> QED
  BY <1>2, <1>3

LEMMA ViewRemote ==
  ASSUME TypeOK, NEW c \in Calls, Remote(c)
  PROVE  View!Next \/ UNCHANGED <<here, stage, shown>>
<1>1. /\ UNCHANGED <<server, place, linked, pc, told>> /\ wire[c] = "asked"
      /\ pc[c] \in {"first", "capture", "second"}
      /\ \A d \in Calls \ {c} : wire'[d] = wire[d]
  BY DEF Remote, Lists, Captures, ReadFails, Answers, pane, TypeOK
<1>2. UNCHANGED <<here, shown>> /\ stage' = [stage EXCEPT ![c] = Stage(c)']
  BY <1>1, StageMoves
<1>3. ASSUME Stage(c)' = Stage(c)
      PROVE  UNCHANGED <<here, stage, shown>>
  <2>1. stage' = stage
    BY <1>2, <1>3, Zenon DEF stage
  <2> QED
    BY <1>2, <2>1
<1>4. CASE Lists(c)
  <2>1. wire'[c] = IF Member THEN "hit" ELSE "miss"
    BY <1>4 DEF Lists, Answers, TypeOK
  <2>2. CASE pc[c] = "first" /\ Member
    <3>1. Stage(c) = "asked" /\ Stage(c)' = "seen"
      BY <1>1, <2>1, <2>2 DEF Stage
    <3>2. View!Sees(c)
      BY <1>2, <2>2, <3>1 DEF View!Sees, View!Observes, stage, shown, here
    <3> QED
      BY <3>2 DEF View!Next
  <2>3. CASE pc[c] = "first" /\ ~Member
    <3>1. Stage(c) = "asked" /\ Stage(c)' = "missed"
      BY <1>1, <2>1, <2>3 DEF Stage
    <3>2. View!Misses(c)
      BY <1>2, <2>3, <3>1 DEF View!Misses, View!Observes, stage, shown, here
    <3> QED
      BY <3>2 DEF View!Next
  <2>4. CASE pc[c] = "second" /\ Member
    <3>1. Stage(c) = "held" /\ Stage(c)' = "sure"
      BY <1>1, <2>1, <2>4 DEF Stage
    <3>2. View!SeesAgain(c)
      BY <1>2, <2>4, <3>1 DEF View!SeesAgain, View!Observes, stage, shown, here
    <3> QED
      BY <3>2 DEF View!Next
  <2>5. CASE pc[c] = "second" /\ ~Member
    BY <1>1, <1>3, <2>1, <2>5 DEF Stage
  <2> QED
    BY <1>4, <2>2, <2>3, <2>4, <2>5 DEF Lists
<1>5. CASE Captures(c)
  <2>1. CASE wire'[c] = "frames" /\ Named
    <3>1. Stage(c) = "seen" /\ Stage(c)' = "held"
      BY <1>1, <1>5, <2>1 DEF Stage, Captures
    <3>2. here # "elsewhere"
      BY <2>1 DEF here
    <3>3. View!Holds(c)
      BY <1>2, <3>1, <3>2 DEF View!Holds, View!Observes, stage, shown, here
    <3> QED
      BY <3>3 DEF View!Next
  <2>2. CASE wire'[c] \in {"others", "failed"}
    BY <1>1, <1>3, <1>5, <2>2 DEF Stage, Captures
  <2> QED
    BY <1>5, <2>1, <2>2 DEF Captures, Answers, TypeOK
<1>6. CASE ReadFails(c)
  <2>1. wire'[c] \in Faults
    BY <1>6 DEF ReadFails, Answers, TypeOK
  <2>2. Stage(c)' = Stage(c)
    BY <1>1, <2>1 DEF Stage, Faults
  <2> QED
    BY <1>3, <2>2
<1> QED
  BY <1>4, <1>5, <1>6 DEF Remote

LEMMA ViewEnds ==
  ASSUME TypeOK, RowsInv, NEW c \in Calls, Ending(c)
  PROVE  View!Next
<1>1. PICK a \in Codes \cup {"text", "present", "absent"} :
        /\ Ends(c, a)
        /\ a = "text" => pc[c] = "second" /\ wire[c] = "hit"
        /\ a = "present" => pc[c] = "first" /\ wire[c] = "hit"
        /\ a = "absent" => pc[c] = "first" /\ wire[c] = "miss"
  BY DEF Ending
<1>2. /\ UNCHANGED <<server, place, linked, wire>>
      /\ pc' = [pc EXCEPT ![c] = "over"] /\ told' = [told EXCEPT ![c] = a]
  BY <1>1 DEF Ends, pane
<1>3. told[c] = "none"
  BY DEF RowsInv, Ending
<1> DEFINE what == IF a \in Codes THEN "error" ELSE a
<1>4. here' = here
  BY <1>2 DEF here, Member, Named
<1>5. shown' = [shown EXCEPT ![c] = what] /\ shown[c] = "none"
  BY <1>2, <1>3, CodesAreErrors DEF shown, TypeOK
<1>6. stage' = [stage EXCEPT ![c] = "over"]
  <2>1. \A d \in Calls \ {c} : Stage(d)' = Stage(d)
    BY <1>2, StageStays DEF TypeOK
  <2>2. Stage(c)' = "over"
    BY <1>2 DEF Stage, TypeOK
  <2> QED
    BY <2>1, <2>2, Zenon DEF stage
<1>7. /\ what \in View!Answers \ {"none"}
      /\ what = "text" => stage[c] = "sure"
      /\ what = "present" => stage[c] = "seen"
      /\ what = "absent" => stage[c] = "missed"
  BY <1>1, CodesAreErrors DEF stage, Stage, View!Answers
<1>8. View!Tells(c)
  BY <1>4, <1>5, <1>6, <1>7 DEF View!Tells, stage, shown, here
<1> QED
  BY <1>8 DEF View!Next

LEMMA ViewGoesOn ==
  ASSUME TypeOK, NEW c \in Calls, Acquire(c) \/ Reading(c) \/ Waiting(c)
  PROVE  View!Next \/ UNCHANGED <<here, stage, shown>>
<1>1. /\ UNCHANGED <<server, place, linked, told>>
      /\ \A d \in Calls \ {c} : pc'[d] = pc[d] /\ wire'[d] = wire[d]
  BY DEF Acquire, Reading, Waiting, Asks, Goes, pane, TypeOK
<1>2. UNCHANGED <<here, shown>> /\ stage' = [stage EXCEPT ![c] = Stage(c)']
  BY <1>1, StageMoves
<1>3. Stage(c)' = Stage(c) \/ Stage(c)' = "over"
  BY DEF Acquire, Reading, Waiting, Asks, Goes, TypeOK, Stage
<1>4. CASE Stage(c)' = Stage(c)
  <2>1. stage' = stage
    BY <1>2, <1>4, Zenon DEF stage
  <2> QED
    BY <1>2, <2>1
<1>5. CASE Stage(c)' = "over"
  <2>1. View!GivesUp(c)
    BY <1>2, <1>5 DEF View!GivesUp, stage, shown, here
  <2> QED
    BY <2>1 DEF View!Next
<1> QED
  BY <1>3, <1>4, <1>5

LEMMA ViewStep ==
  ASSUME TypeOK, RowsInv, [Next]_vars
  PROVE  [View!Next]_View!contract
<1>1. ASSUME UNCHANGED <<here, stage, shown>>
      PROVE  UNCHANGED View!contract
  BY <1>1 DEF View!contract, here, stage, shown
<1>2. CASE World
  BY <1>2, ViewWorld
<1>3. CASE JobTakes \/ JobLeaves \/ Close \/ UNCHANGED vars
  <2>1. UNCHANGED <<server, place, linked, pc, wire, told>>
    BY <1>3 DEF JobTakes, JobLeaves, Close, vars, pane, call
  <2> QED
    BY <1>1, <2>1, ViewStutter
<1>4. ASSUME NEW c \in Calls, Remote(c)
      PROVE  [View!Next]_View!contract
  BY <1>1, <1>4, ViewRemote
<1>5. ASSUME NEW c \in Calls, Call(c)
      PROVE  [View!Next]_View!contract
  BY <1>1, <1>5, CallForms, ViewEnds, ViewGoesOn
<1> QED
  BY <1>2, <1>3, <1>4, <1>5 DEF Next

\* Every behaviour of the calls keeps the promise of the views.
THEOREM ViewsTold == Spec => ViewsAreTrue
<1>1. Init => View!Init
  BY DEF Init, View!Init, Stage, Member, Named, Codes
<1>2. TypeOK /\ RowsInv /\ [Next]_vars => [View!Next]_View!contract
  BY ViewStep
<1>3. Init => RowsInv
  BY DEF Init, RowsInv, Read
<1> QED
  BY <1>1, <1>2, <1>3, RowsStep, TypeCorrect, PTL DEF Spec, ViewsAreTrue, View!Spec
=============================================================================
