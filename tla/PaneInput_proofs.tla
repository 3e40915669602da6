-------------------------- MODULE PaneInput_proofs --------------------------
(***************************************************************************)
(* Proofs about PaneInput, for any requests, panes, slots and bounds.      *)
(***************************************************************************)
EXTENDS PaneInput, FiniteSetTheorems, TLAPS

-----------------------------------------------------------------------------
(* The slots.                                                              *)

Holders == {r \in Requests : pc[r] \in Holding}

LEMMA HoldersFinite == IsFiniteSet(Holders) /\ Cardinality(Holders) \in Nat
  BY PaneAssumption, FS_Subset, FS_CardinalityType DEF Holders

\* A call that moves without crossing the semaphore.
LEMMA HoldersStay ==
  ASSUME TypeOK, NEW r \in Requests, NEW where, Goes(r, where),
         pc[r] \in Holding <=> where \in Holding
  PROVE  Holders' = Holders
  BY DEF TypeOK, Goes, Holders

LEMMA HoldersGrow ==
  ASSUME TypeOK, NEW r \in Requests, Goes(r, "listing"), pc[r] = "waiting"
  PROVE  Cardinality(Holders') = Cardinality(Holders) + 1
<1>1. Holders' = Holders \cup {r} /\ r \notin Holders
  BY DEF TypeOK, Goes, Holders, Holding, Stopping
<1> QED
  BY <1>1, HoldersFinite, FS_AddElement

LEMMA HoldersShrink ==
  ASSUME TypeOK, NEW r \in Requests, Goes(r, "over"), pc[r] \in Holding
  PROVE  /\ Cardinality(Holders') = Cardinality(Holders) - 1
         /\ Cardinality(Holders') \in Nat
<1>1. Holders' = Holders \ {r} /\ r \in Holders
  BY DEF TypeOK, Goes, Holders, Holding, Stopping
<1> QED
  BY <1>1, HoldersFinite, FS_RemoveElement, FS_CardinalityType

\* What every step does about the slots.
SlotsMove == /\ free' \in 0..CONCURRENCY
             /\ jobs' \in 0..CONCURRENCY
             /\ SlotsKept'

\* A call that ends gives back the slot that it has, if it has one.
LEMMA SlotsEnd ==
  ASSUME TypeOK, SlotsKept, UNCHANGED jobs,
         NEW r \in Requests, NEW k, Ends(r, k), pc[r] # "over"
  PROVE  SlotsMove
<1>1. CASE pc[r] \in Holding
  <2>1. /\ Cardinality(Holders') = Cardinality(Holders) - 1
        /\ Cardinality(Holders') \in Nat
    BY <1>1, HoldersShrink DEF Ends
  <2> QED
    BY <1>1, <2>1, HoldersFinite, PaneAssumption
    DEF Ends, SlotsMove, SlotsKept, Holders, TypeOK
<1>2. CASE pc[r] \notin Holding
  <2>1. Holders' = Holders
    BY <1>2, HoldersStay DEF Ends, Holding, Stopping
  <2> QED
    BY <1>2, <2>1, HoldersFinite DEF Ends, SlotsMove, SlotsKept, Holders, TypeOK
<1> QED
  BY <1>1, <1>2

\* A call that moves on keeps what it has.
LEMMA SlotsMoveOn ==
  ASSUME TypeOK, SlotsKept, UNCHANGED <<free, jobs>>,
         NEW r \in Requests, NEW where, Goes(r, where),
         pc[r] \in Holding <=> where \in Holding
  PROVE  SlotsMove
<1>1. Holders' = Holders
  BY HoldersStay
<1> QED
  BY <1>1 DEF SlotsMove, SlotsKept, Holders, TypeOK

LEMMA SlotsStep ==
  ASSUME TypeOK, SlotsKept, [Next]_vars
  PROVE  SlotsMove
<1>1. ASSUME UNCHANGED <<pc, free, jobs>>
      PROVE  SlotsMove
  BY <1>1 DEF SlotsMove, SlotsKept, TypeOK
<1>2. CASE JobTakes \/ JobLeaves
  <2>1. UNCHANGED Holders
    BY <1>2 DEF JobTakes, JobLeaves, local, Holders
  <2> QED
    BY <1>2, <2>1, HoldersFinite, PaneAssumption
    DEF JobTakes, JobLeaves, SlotsMove, SlotsKept, Holders, TypeOK
<1>3. CASE Close \/ UNCHANGED vars \/ \E p \in Panes : World(p)
  BY <1>1, <1>3 DEF Close, vars, World, Respawn, ChangeMode, local
<1>4. ASSUME NEW r \in Requests, Remote(r) \/ ChildGone(r)
      PROVE  SlotsMove
  BY <1>1, <1>4 DEF Remote, RemoteLists, TmuxRuns, WireLost, ChildGone, local
<1>5. ASSUME NEW r \in Requests, Acquire(r)
      PROVE  SlotsMove
  <2>1. Cardinality(Holders') = Cardinality(Holders) + 1
    BY <1>5, HoldersGrow DEF Acquire
  <2> QED
    BY <1>5, <2>1, HoldersFinite DEF Acquire, SlotsMove, SlotsKept, Holders, TypeOK
<1>6. ASSUME NEW r \in Requests, Submit(r) \/ SubmitWhileClosing(r)
      PROVE  SlotsMove
  <2>1. \E where \in {"over", "waiting"} : Goes(r, where)
    BY <1>6 DEF Submit, SubmitWhileClosing
  <2>2. pc[r] = "new" /\ UNCHANGED <<free, jobs>>
    BY <1>6 DEF Submit, SubmitWhileClosing
  <2> QED
    BY <2>1, <2>2, SlotsMoveOn DEF Holding, Stopping
<1>7. ASSUME NEW r \in Requests, Dispatch(r)
      PROVE  SlotsMove
  BY <1>7, SlotsMoveOn DEF Dispatch, Holding, Stopping
<1>8. ASSUME NEW r \in Requests, PreflightFails(r) \/ Answered(r) \/ Stopped(r)
      PROVE  SlotsMove
  <2>1. /\ \E k \in Receipt!Receipts : Ends(r, k)
        /\ pc[r] # "over" /\ UNCHANGED jobs
    BY <1>8 DEF PreflightFails, Answered, Stopped, Stopping, Overdue, Receipt!Receipts
  <2> QED
    BY <2>1, SlotsEnd
<1>9. ASSUME NEW r \in Requests, Interrupt(r)
      PROVE  SlotsMove
  <2>1. UNCHANGED jobs
    BY <1>9 DEF Interrupt, Deadline, Cancel, Overflow
  <2>2. CASE pc[r] # "over" /\ \E k \in Receipt!Receipts : Ends(r, k)
    BY <2>1, <2>2, SlotsEnd
  <2>3. CASE /\ pc[r] \in {"listing", "dispatching"} /\ UNCHANGED free
             /\ \E where \in Stopping : Goes(r, where)
    BY <2>1, <2>3, SlotsMoveOn DEF Holding, Stopping
  <2> QED
    BY <1>1, <1>9, <2>1, <2>2, <2>3
    DEF Interrupt, Deadline, Cancel, Overflow, Stopping, Overdue, Receipt!Receipts
<1> QED
  BY <1>2, <1>3, <1>4, <1>5, <1>6, <1>7, <1>8, <1>9 DEF Next, Call

-----------------------------------------------------------------------------
(* Type correctness.                                                       *)

LEMMA TypeInit == Init => TypeOK /\ SlotsKept
<1> SUFFICES ASSUME Init
             PROVE  TypeOK /\ SlotsKept
  OBVIOUS
<1>1. TypeOK
  <2>1. /\ writers \subseteq Panes
        /\ free \in 0..CONCURRENCY /\ jobs \in 0..CONCURRENCY
    BY PaneAssumption DEF Init
  <2>4. /\ closing \in BOOLEAN
        /\ started \in [Requests -> BOOLEAN] /\ client \in [Requests -> BOOLEAN]
    BY Zenon DEF Init
  <2>2. /\ hits \in [Requests -> 0..MaxHits]
        /\ process \in [Panes -> 0..MaxRespawns]
        /\ named \in [Requests -> 0..MaxRespawns]
    BY PaneAssumption DEF Init
  <2>3. /\ pc \in [Requests -> InProgress \cup {"new", "over"}]
        /\ wire \in [Requests -> Wires]
        /\ mode \in [Panes -> {"normal", "copy", "gone"}]
        /\ reached \in [Requests -> Receipt!Reached]
        /\ receipt \in [Requests -> Receipt!Receipts]
    BY DEF Init, Wires, Receipt!Reached, Receipt!Receipts
  <2> QED
    BY <2>1, <2>2, <2>3, <2>4 DEF TypeOK
<1>2. Cardinality(Holders) = 0
  <2>1. Holders = {}
    BY DEF Init, Holders, Holding, Stopping
  <2> QED
    BY <2>1, FS_EmptySet
<1>3. free = CONCURRENCY /\ jobs = 0 /\ CONCURRENCY \in Nat
  BY PaneAssumption DEF Init
<1> QED
  BY <1>1, <1>2, <1>3 DEF SlotsKept, Holders

\* The parts of TypeOK that an ending changes.
LEMMA TypeEnds ==
  ASSUME TypeOK, NEW r \in Requests, NEW k \in Receipt!Receipts, Ends(r, k)
  PROVE  /\ pc' \in [Requests -> InProgress \cup {"new", "over"}]
         /\ receipt' \in [Requests -> Receipt!Receipts]
         /\ writers' \subseteq Panes
  BY DEF TypeOK, Ends, Goes

LEMMA TypeStep ==
  ASSUME TypeOK, SlotsKept, [Next]_vars
  PROVE  TypeOK'
<1> USE DEF TypeOK
<1>1. free' \in 0..CONCURRENCY /\ jobs' \in 0..CONCURRENCY
  BY SlotsStep DEF SlotsMove
<1>2. CASE JobTakes \/ JobLeaves \/ Close \/ UNCHANGED vars
  BY <1>1, <1>2 DEF JobTakes, JobLeaves, Close, local, world, vars
<1>3. ASSUME NEW p \in Panes, World(p)
      PROVE  TypeOK'
  BY <1>3, PaneAssumption DEF World, Respawn, ChangeMode, local
<1>4. ASSUME NEW r \in Requests, Remote(r) \/ ChildGone(r)
      PROVE  TypeOK'
  <2>1. wire' \in [Requests -> Wires]
    BY <1>4 DEF Remote, RemoteLists, TmuxRuns, WireLost, ChildGone, Wires
  <2>2. reached' \in [Requests -> Receipt!Reached]
    BY <1>4 DEF Remote, RemoteLists, TmuxRuns, WireLost, ChildGone, Gives, Receipt!Reached
  <2>3. client' \in [Requests -> BOOLEAN]
    BY <1>4 DEF Remote, RemoteLists, TmuxRuns, WireLost, ChildGone
  <2> QED
    BY <1>1, <1>4, <2>1, <2>2, <2>3
    DEF Remote, RemoteLists, TmuxRuns, WireLost, ChildGone, local, world
<1>5. ASSUME NEW r \in Requests, Submit(r) \/ SubmitWhileClosing(r)
      PROVE  TypeOK'
  BY <1>5, PaneAssumption
  DEF Submit, SubmitWhileClosing, Goes, InProgress, world, Receipt!Receipts
<1>6. ASSUME NEW r \in Requests, Acquire(r) \/ Dispatch(r)
      PROVE  TypeOK'
  BY <1>1, <1>6 DEF Acquire, Dispatch, Goes, InProgress, Holding, Stopping, Wires, world
<1>7. ASSUME NEW r \in Requests, PreflightFails(r) \/ Answered(r) \/ Stopped(r)
      PROVE  TypeOK'
  <2>1. PICK k \in Receipt!Receipts : Ends(r, k)
    BY <1>7 DEF PreflightFails, Answered, Stopped, Stopping, Overdue, Receipt!Receipts
  <2> QED
    BY <1>1, <1>7, <2>1, TypeEnds DEF PreflightFails, Answered, Stopped, Reaped, world
<1>8. ASSUME NEW r \in Requests, Interrupt(r)
      PROVE  TypeOK'
  <2>1. hits' \in [Requests -> 0..MaxHits]
    BY <1>8, PaneAssumption DEF Interrupt, Deadline, Cancel, Overflow, Hit
  <2>2. UNCHANGED <<world, jobs, closing, started, wire, client, named, reached>>
    BY <1>8 DEF Interrupt, Deadline, Cancel, Overflow
  <2>3. CASE \E k \in Receipt!Receipts : Ends(r, k)
    BY <1>1, <2>1, <2>2, <2>3, TypeEnds DEF world
  <2>4. CASE /\ \E where \in Stopping : Goes(r, where)
             /\ UNCHANGED <<receipt, free, writers>>
    BY <2>1, <2>2, <2>4 DEF world, Goes, InProgress, Holding, Stopping
  <2>5. CASE UNCHANGED <<pc, receipt, free, writers>>
    BY <2>1, <2>2, <2>5 DEF world
  <2> QED
    BY <1>8, <2>3, <2>4, <2>5
    DEF Interrupt, Deadline, Cancel, Overflow, Stopping, Overdue, Receipt!Receipts
<1> QED
  BY <1>2, <1>3, <1>4, <1>5, <1>6, <1>7, <1>8 DEF Next, Call

\* The types of the state, and no slot lost or given back twice by any ending.
LEMMA Types == Spec => [](TypeOK /\ SlotsKept)
<1>1. TypeOK /\ SlotsKept /\ [Next]_vars => TypeOK' /\ SlotsKept'
  BY TypeStep, SlotsStep DEF SlotsMove
<1> QED
  BY <1>1, TypeInit, PTL DEF Spec

\* Type correctness of _send_tmux_input and its world.
THEOREM TypeCorrect == Spec => []TypeOK
  BY Types, PTL

\* No ending of a call, early or late, loses a slot or gives one back twice.
THEOREM SlotsConserved == Spec => []SlotsKept
  BY Types, PTL

-----------------------------------------------------------------------------
(* The scopes.                                                             *)

\* A call enters its scope only when nobody is in it, and takes it along.
LEMMA WriterStep ==
  ASSUME TypeOK, OneWriter, [Next]_vars
  PROVE  OneWriter'
<1> USE DEF TypeOK
<1>1. ASSUME UNCHANGED <<pc, writers>>
      PROVE  OneWriter'
  BY <1>1 DEF OneWriter
<1>2. ASSUME NEW r \in Requests, NEW where, Goes(r, where), UNCHANGED writers,
             pc[r] \in InProgress <=> where \in InProgress
      PROVE  OneWriter'
  <2>1. \A q \in Requests : pc'[q] \in InProgress <=> pc[q] \in InProgress
    BY <1>2 DEF Goes
  <2> QED
    BY <1>2, <2>1 DEF OneWriter
<1>3. ASSUME NEW r \in Requests, NEW k, Ends(r, k), pc[r] \in InProgress
      PROVE  OneWriter'
  <2>1. \A q \in Requests : pc'[q] \in InProgress <=> pc[q] \in InProgress /\ q # r
    BY <1>3 DEF Ends, Goes, InProgress, Holding, Stopping
  <2>2. writers' = writers \ {Target[r]}
    BY <1>3 DEF Ends
  <2>3. writers' = {Target[q] : q \in {q \in Requests : pc'[q] \in InProgress}}
    BY <1>3, <2>1, <2>2 DEF OneWriter
  <2> QED
    BY <2>1, <2>3 DEF OneWriter
<1>4. ASSUME NEW r \in Requests, Submit(r) \/ SubmitWhileClosing(r)
      PROVE  OneWriter'
  <2>1. CASE Goes(r, "over") /\ UNCHANGED writers /\ pc[r] = "new"
    BY <1>2, <2>1 DEF InProgress, Holding, Stopping
  <2>2. CASE /\ Goes(r, "waiting") /\ pc[r] = "new"
             /\ Target[r] \notin writers /\ writers' = writers \cup {Target[r]}
    <3>1. \A q \in Requests : pc'[q] \in InProgress <=> pc[q] \in InProgress \/ q = r
      BY <2>2 DEF Goes, InProgress
    <3>2. writers' = {Target[q] : q \in {q \in Requests : pc'[q] \in InProgress}}
      BY <2>2, <3>1 DEF OneWriter
    <3> QED
      BY <2>2, <3>1, <3>2 DEF OneWriter
  <2> QED
    BY <1>4, <2>1, <2>2 DEF Submit, SubmitWhileClosing
<1>5. ASSUME NEW r \in Requests, Acquire(r) \/ Dispatch(r)
      PROVE  OneWriter'
  BY <1>2, <1>5 DEF Acquire, Dispatch, InProgress, Holding, Stopping
<1>6. ASSUME NEW r \in Requests, PreflightFails(r) \/ Answered(r) \/ Stopped(r)
      PROVE  OneWriter'
  BY <1>3, <1>6 DEF PreflightFails, Answered, Stopped, InProgress, Holding, Stopping
<1>7. ASSUME NEW r \in Requests, Interrupt(r)
      PROVE  OneWriter'
  <2>1. CASE pc[r] \in InProgress /\ \E k : Ends(r, k)
    BY <1>3, <2>1
  <2>2. CASE /\ pc[r] \in {"listing", "dispatching"} /\ UNCHANGED writers
             /\ \E where \in Stopping : Goes(r, where)
    BY <1>2, <2>2 DEF InProgress, Holding, Stopping
  <2> QED
    BY <1>1, <1>7, <2>1, <2>2
    DEF Interrupt, Deadline, Cancel, Overflow, InProgress, Holding, Stopping
<1>8. ASSUME NEW r \in Requests, Remote(r) \/ ChildGone(r)
      PROVE  OneWriter'
  BY <1>1, <1>8 DEF Remote, RemoteLists, TmuxRuns, WireLost, ChildGone, local
<1>9. CASE \/ JobTakes \/ JobLeaves \/ Close \/ UNCHANGED vars
           \/ \E p \in Panes : World(p)
  BY <1>1, <1>9
  DEF JobTakes, JobLeaves, Close, vars, World, Respawn, ChangeMode, local
<1> QED
  BY <1>4, <1>5, <1>6, <1>7, <1>8, <1>9 DEF Next, Call

\* At most one call at a time is in the scope of a pane (_pane_writers).
THEOREM OneWriterAtATime == Spec => []OneWriter
<1>1. Init => OneWriter
  BY DEF Init, OneWriter, InProgress, Holding, Stopping
<1>2. TypeOK /\ OneWriter /\ [Next]_vars => OneWriter'
  BY WriterStep
<1> QED
  BY <1>1, <1>2, TypeCorrect, PTL DEF Spec

-----------------------------------------------------------------------------
(* The receipts.                                                           *)

\* What a call knows at each await about its ssh command and the pane.
Story(r) ==
  /\ receipt[r] = "none" <=> pc[r] # "over"
  /\ pc[r] \in {"new", "waiting"} => wire[r] = "idle" /\ ~client[r]
  /\ pc[r] \in {"new", "waiting", "listing"} => ~started[r]
  /\ pc[r] = "dispatching" => started[r]
  /\ pc[r] \in Stopping => hits[r] >= 1
  /\ client[r] => pc[r] \in Holding \/ hits[r] >= 2
  /\ started[r] => wire[r] \in {"flight", "accepted", "rejected", "failed"}
  /\ ~started[r] => wire[r] \notin {"flight", "accepted", "rejected"}
  /\ ~started[r] => reached[r] = "nothing"
  /\ wire[r] \in {"flight", "rejected"} => reached[r] = "nothing"
  /\ wire[r] = "accepted" => reached[r] = "all"
  /\ receipt[r] = "sent" => reached[r] = "all"
  /\ receipt[r] = "not_sent" => wire[r] # "flight" /\ reached[r] = "nothing"

Stories == \A r \in Requests : Story(r)

LEMMA StoryInit == Init => Stories
  BY PaneAssumption DEF Init, Stories, Story, Holding, Stopping

\* A call's story depends on what is its own.
LEMMA StoryStays ==
  ASSUME NEW q \in Requests, Story(q),
         pc'[q] = pc[q], started'[q] = started[q], wire'[q] = wire[q],
         client'[q] = client[q], hits'[q] = hits[q], reached'[q] = reached[q],
         receipt'[q] = receipt[q]
  PROVE  Story(q)'
  BY DEF Story

LEMMA StoryStep ==
  ASSUME TypeOK, Stories, [Next]_vars
  PROVE  Stories'
<1> SUFFICES ASSUME NEW q \in Requests
             PROVE  Story(q)'
  BY DEF Stories
<1> Story(q)
  BY DEF Stories
<1> USE DEF TypeOK
<1>1. CASE \/ JobTakes \/ JobLeaves \/ Close \/ UNCHANGED vars
           \/ \E p \in Panes : World(p)
  BY <1>1, StoryStays
  DEF JobTakes, JobLeaves, Close, vars, World, Respawn, ChangeMode, local
<1>2. ASSUME NEW r \in Requests, r # q, Call(r) \/ Remote(r) \/ ChildGone(r) \/ Interrupt(r)
      PROVE  Story(q)'
  <2>1. pc'[q] = pc[q] /\ receipt'[q] = receipt[q]
    BY <1>2
    DEF Call, Submit, SubmitWhileClosing, Acquire, Dispatch, PreflightFails, Answered,
        Stopped, Remote, RemoteLists, TmuxRuns, WireLost, ChildGone, Interrupt,
        Deadline, Cancel, Overflow, Ends, Goes, local
  <2>2. started'[q] = started[q] /\ hits'[q] = hits[q]
    BY <1>2
    DEF Call, Submit, SubmitWhileClosing, Acquire, Dispatch, PreflightFails, Answered,
        Stopped, Remote, RemoteLists, TmuxRuns, WireLost, ChildGone, Interrupt,
        Deadline, Cancel, Overflow, Hit, local
  <2>3. wire'[q] = wire[q] /\ reached'[q] = reached[q] /\ client'[q] = client[q]
    BY <1>2
    DEF Call, Submit, SubmitWhileClosing, Acquire, Dispatch, PreflightFails, Answered,
        Stopped, Remote, RemoteLists, TmuxRuns, WireLost, ChildGone, Interrupt,
        Deadline, Cancel, Overflow, Gives, Reaped
  <2> QED
    BY <2>1, <2>2, <2>3, StoryStays
<1>3. CASE Submit(q) \/ SubmitWhileClosing(q)
  BY <1>3 DEF Submit, SubmitWhileClosing, Goes, Story, Holding, Stopping
<1>4. CASE Acquire(q)
  BY <1>4 DEF Acquire, Goes, Story, Holding, Stopping
<1>5. CASE Dispatch(q)
  BY <1>5 DEF Dispatch, Goes, Story, Holding, Stopping
<1>6. CASE PreflightFails(q)
  BY <1>6 DEF PreflightFails, Ends, Goes, Reaped, Story, Holding, Stopping
<1>7. CASE Answered(q)
  BY <1>7 DEF Answered, Ends, Goes, Reaped, Story, Holding, Stopping
<1>8. CASE Stopped(q)
  BY <1>8 DEF Stopped, Ends, Goes, Overdue, Story, Holding, Stopping
<1>9. CASE Deadline(q)
  BY <1>9, PaneAssumption DEF Deadline, Hit, Ends, Goes, Overdue, Story, Holding, Stopping
<1>10. CASE Cancel(q) \/ Overflow(q)
  BY <1>10, PaneAssumption DEF Cancel, Overflow, Hit, Ends, Goes, Story, Holding, Stopping
<1>11. CASE RemoteLists(q) \/ WireLost(q)
  BY <1>11 DEF RemoteLists, WireLost, local, Story, Holding, Stopping
<1>12. CASE TmuxRuns(q)
  BY <1>12 DEF TmuxRuns, Gives, local, Story, Holding, Stopping
<1>13. CASE ChildGone(q)
  BY <1>13 DEF ChildGone, local, Story, Holding, Stopping
<1> QED
  BY <1>1, <1>2, <1>3, <1>4, <1>5, <1>6, <1>7, <1>8, <1>9, <1>10, <1>11, <1>12, <1>13
  DEF Next, Call, Remote, Interrupt

LEMMA StoriesHold == Spec => []Stories
<1>1. TypeOK /\ Stories /\ [Next]_vars => Stories'
  BY StoryStep
<1> QED
  BY <1>1, StoryInit, TypeCorrect, PTL DEF Spec

\* A call that is hit at most once keeps its scope until its child is reaped.
THEOREM ScopeCovers == Spec => []ScopeCoversChild
<1>1. TypeOK /\ OneWriter /\ Stories => ScopeCoversChild
  BY DEF TypeOK, OneWriter, Stories, Story, ScopeCoversChild, InProgress
<1> QED
  BY <1>1, TypeCorrect, OneWriterAtATime, StoriesHold, PTL

-----------------------------------------------------------------------------
(* PaneInput implements PaneReceipt.                                       *)

\* Every ending tells the truth about the input.
LEMMA EndTells ==
  ASSUME TypeOK, Stories, NEW r \in Requests, NEW k \in Receipt!Receipts,
         pc[r] # "over", Ends(r, k), UNCHANGED <<process, named, reached>>,
         k # "none",
         k = "sent" => reached[r] = "all",
         k = "not_sent" => reached[r] = "nothing"
  PROVE  Receipt!Next
<1>1. receipt[r] = "none"
  BY DEF Stories, Story
<1>2. Receipt!Tell(r, k)
  BY <1>1 DEF Receipt!Tell, Ends
<1> QED
  BY <1>2 DEF Receipt!Next

LEMMA ReceiptStep ==
  ASSUME TypeOK, Stories, [Next]_vars
  PROVE  [Receipt!Next]_Receipt!contract
<1> USE DEF TypeOK
<1>1. ASSUME UNCHANGED Receipt!contract
      PROVE  [Receipt!Next]_Receipt!contract
  BY <1>1
<1>2. CASE JobTakes \/ JobLeaves \/ Close \/ UNCHANGED vars
  BY <1>1, <1>2
  DEF JobTakes, JobLeaves, Close, vars, local, world, Receipt!contract
<1>3. ASSUME NEW p \in Panes, World(p)
      PROVE  [Receipt!Next]_Receipt!contract
  <2>1. CASE Respawn(p)
    BY <2>1 DEF Respawn, local, Receipt!Respawn, Receipt!Next
  <2>2. CASE ChangeMode(p)
    BY <1>1, <2>2 DEF ChangeMode, local, Receipt!contract
  <2> QED
    BY <1>3, <2>1, <2>2 DEF World
<1>4. ASSUME NEW r \in Requests, \/ RemoteLists(r) \/ WireLost(r) \/ ChildGone(r)
                                 \/ Acquire(r) \/ Dispatch(r)
      PROVE  [Receipt!Next]_Receipt!contract
  BY <1>1, <1>4
  DEF RemoteLists, WireLost, ChildGone, Acquire, Dispatch, local, world, Receipt!contract
<1>5. ASSUME NEW r \in Requests, TmuxRuns(r)
      PROVE  [Receipt!Next]_Receipt!contract
  <2>1. CASE UNCHANGED reached
    BY <1>1, <1>5, <2>1 DEF TmuxRuns, local, world, Receipt!contract
  <2>2. CASE /\ process[Target[r]] = named[r]
             /\ \E much \in {"some", "all"} : Gives(r, much)
    <3>1. /\ reached[r] = "nothing"
          /\ receipt[r] \in {"none", "unknown", "lost"}
      BY <1>5 DEF Stories, Story, TmuxRuns, Receipt!Receipts
    <3>2. Receipt!Deliver(r)
      BY <1>5, <2>2, <3>1 DEF Receipt!Deliver, TmuxRuns, Gives, local, world
    <3> QED
      BY <3>2 DEF Receipt!Next
  <2> QED
    BY <1>5, <2>1, <2>2 DEF TmuxRuns
<1>6. ASSUME NEW r \in Requests, Submit(r) \/ SubmitWhileClosing(r)
      PROVE  [Receipt!Next]_Receipt!contract
  <2>1. UNCHANGED <<process, named, reached>> /\ receipt[r] = "none" /\ reached[r] = "nothing"
    BY <1>6 DEF Submit, SubmitWhileClosing, world, Stories, Story
  <2>2. CASE UNCHANGED receipt
    BY <1>1, <2>1, <2>2 DEF Receipt!contract
  <2>3. CASE \E k \in {"not_sent", "lost"} : receipt' = [receipt EXCEPT ![r] = k]
    <3>1. \E k \in {"not_sent", "lost"} : Receipt!Tell(r, k)
      BY <2>1, <2>3 DEF Receipt!Tell
    <3> QED
      BY <3>1 DEF Receipt!Next, Receipt!Receipts
  <2> QED
    BY <1>6, <2>2, <2>3 DEF Submit, SubmitWhileClosing
<1>7. ASSUME NEW r \in Requests, PreflightFails(r) \/ Answered(r) \/ Stopped(r)
      PROVE  [Receipt!Next]_Receipt!contract
  <2>1. Story(r) /\ UNCHANGED <<process, named, reached>> /\ pc[r] # "over"
    BY <1>7 DEF Stories, PreflightFails, Answered, Stopped, Stopping, world
  <2>2. \E k \in Receipt!Receipts : /\ Ends(r, k) /\ k # "none"
                                    /\ k = "sent" => reached[r] = "all"
                                    /\ k = "not_sent" => reached[r] = "nothing"
    BY <1>7, <2>1
    DEF PreflightFails, Answered, Stopped, Stopping, Overdue, Story, Receipt!Receipts
  <2> QED
    BY <2>1, <2>2, EndTells
<1>8. ASSUME NEW r \in Requests, Interrupt(r)
      PROVE  [Receipt!Next]_Receipt!contract
  <2>1. Story(r) /\ UNCHANGED <<process, named, reached>>
    BY <1>8 DEF Stories, Interrupt, Deadline, Cancel, Overflow, world
  <2>2. CASE UNCHANGED receipt
    BY <1>1, <2>1, <2>2 DEF Receipt!contract
  <2>3. CASE /\ pc[r] # "over"
             /\ \E k \in Receipt!Receipts : /\ Ends(r, k) /\ k # "none"
                                            /\ k = "sent" => reached[r] = "all"
                                            /\ k = "not_sent" => reached[r] = "nothing"
    BY <2>1, <2>3, EndTells
  <2> QED
    BY <1>8, <2>1, <2>2, <2>3
    DEF Interrupt, Deadline, Cancel, Overflow, Stopping, Overdue, Story, Receipt!Receipts
<1> QED
  BY <1>2, <1>3, <1>4, <1>5, <1>6, <1>7, <1>8 DEF Next, Call, Remote

\* Every behaviour of the calls keeps the promise of the receipts.
THEOREM ReceiptsTold == Spec => ReceiptsAreTrue
<1>1. Init => Receipt!Init
  BY PaneAssumption DEF Init, Receipt!Init
<1>2. TypeOK /\ Stories /\ [Next]_vars => [Receipt!Next]_Receipt!contract
  BY ReceiptStep
<1> QED
  BY <1>1, <1>2, TypeCorrect, StoriesHold, PTL DEF Spec, ReceiptsAreTrue, Receipt!Spec

-----------------------------------------------------------------------------
(* The ssh children.                                                       *)

\* A call without a step of its own is where it was for the promise too.
LEMMA PromiseStays ==
  ASSUME UNCHANGED <<pc, client, hits>>
  PROVE  UNCHANGED Ssh!promise
BY DEF Ssh!promise

\* What a call does between its slot and its answer is a step of the promise.
LEMMA PromiseOfCall ==
  ASSUME TypeOK, Stories, NEW r \in Requests, Call(r) \/ ChildGone(r)
  PROVE  [Ssh!PromiseNext]_Ssh!promise
<1> USE DEF TypeOK
<1>1. ASSUME Submit(r) \/ SubmitWhileClosing(r)
      PROVE  Ssh!Declined(r) \/ UNCHANGED Ssh!promise
  BY <1>1 DEF Submit, SubmitWhileClosing, Goes, Stopping, Ssh!Declined, Ssh!Moves,
     Ssh!promise
<1>2. ASSUME Acquire(r)
      PROVE  Ssh!Starts(r)
  BY <1>2 DEF Acquire, Goes, Stopping, Ssh!Starts, Ssh!Moves
<1>3. ASSUME Dispatch(r)
      PROVE  UNCHANGED Ssh!promise
  BY <1>3 DEF Dispatch, Goes, Stopping, Ssh!promise
<1>4. ASSUME PreflightFails(r) \/ Answered(r)
      PROVE  Ssh!Answers(r)
  BY <1>4 DEF PreflightFails, Answered, Ends, Goes, Reaped, Stopping, Ssh!Answers,
     Ssh!Moves, Ssh!Pays
<1>5. ASSUME Stopped(r)
      PROVE  Ssh!Stopped(r)
  BY <1>5 DEF Stopped, Ends, Goes, Stopping, Ssh!Stopped, Ssh!Moves
<1>6. ASSUME ChildGone(r)
      PROVE  Ssh!ChildGone(r)
  BY <1>6 DEF ChildGone, local, Ssh!ChildGone, Ssh!Pays
<1> QED
  BY <1>1, <1>2, <1>3, <1>4, <1>5, <1>6 DEF Call, Ssh!PromiseNext

\* What ends a call early stops its ssh command, or leaves it while it is stopped.
LEMMA PromiseOfInterrupt ==
  ASSUME TypeOK, Stories, NEW r \in Requests, Interrupt(r)
  PROVE  Ssh!PromiseNext
<1> USE DEF TypeOK
<1>1. Ssh!Counts(r) /\ UNCHANGED client
  BY DEF Interrupt, Deadline, Cancel, Overflow, Hit, Ssh!Counts
<1>2. CASE pc[r] = "waiting" /\ Goes(r, "over")
  BY <1>1, <1>2 DEF Goes, Stopping, Ssh!Declined, Ssh!Moves, Ssh!PromiseNext
<1>3. CASE /\ pc[r] \in {"listing", "dispatching"}
           /\ \E where \in Stopping : Goes(r, where)
  <2>1. PICK where \in Stopping : Goes(r, where)
    BY <1>3
  <2>2. Ssh!Moves(r, "stopping")
    BY <1>3, <2>1 DEF Goes, Stopping, Ssh!Moves
  <2> QED
    BY <1>1, <1>3, <2>2 DEF Ssh!Stops, Ssh!PromiseNext
<1>4. CASE pc[r] \in Stopping /\ Goes(r, "over")
  BY <1>1, <1>4 DEF Goes, Stopping, Ssh!StopsAgain, Ssh!Moves, Ssh!PromiseNext
<1>5. CASE pc[r] \in Stopping /\ UNCHANGED pc
  BY <1>1, <1>5 DEF Stopping, Ssh!StopsAgain, Ssh!Moves, Ssh!PromiseNext
<1> QED
  BY <1>2, <1>3, <1>4, <1>5 DEF Interrupt, Deadline, Cancel, Overflow, Ends, Stopping

LEMMA PromiseStep ==
  ASSUME TypeOK, Stories, [Next]_vars
  PROVE  [Ssh!PromiseNext]_Ssh!promise
<1>1. ASSUME UNCHANGED <<pc, client, hits>>
      PROVE  UNCHANGED Ssh!promise
  BY <1>1, PromiseStays
<1>2. CASE \/ JobTakes \/ JobLeaves \/ Close \/ UNCHANGED vars
           \/ \E p \in Panes : World(p)
  BY <1>1, <1>2 DEF JobTakes, JobLeaves, Close, vars, World, Respawn, ChangeMode, local
<1>3. ASSUME NEW r \in Requests, Remote(r)
      PROVE  UNCHANGED Ssh!promise
  BY <1>1, <1>3 DEF Remote, RemoteLists, TmuxRuns, WireLost, local
<1> QED
  BY <1>2, <1>3, PromiseOfCall, PromiseOfInterrupt DEF Next

\* The pane calls use ssh.run as it is shown to be in SshCall.
THEOREM ChildrenAsPromised == Spec => SshAsPromised
<1>1. Init => Ssh!PromiseInit
  BY DEF Init, Ssh!PromiseInit
<1>2. TypeOK /\ Stories /\ [Next]_vars => [Ssh!PromiseNext]_Ssh!promise
  BY PromiseStep
<1> QED
  BY <1>1, <1>2, TypeCorrect, StoriesHold, PTL DEF Spec, SshAsPromised, Ssh!PromiseSpec
=============================================================================
