------------------------- MODULE AtomicFile_proofs -------------------------
(***************************************************************************)
(* Proofs about AtomicFile, for any number of calls.                       *)
(***************************************************************************)
EXTENDS AtomicFile, TLAPS

\* What may be found at the path now or after a power loss.
Candidates == {path, safe} \cup loose

\* A call was reported as written and its directory is still there.
Told == acked > 0

Types == /\ pc \in {"idle", "write", "fsync", "publish", "unlink", "sync"}
         /\ write \in 0..MaxWrites
         /\ path \in 0..write /\ safe \in 0..write /\ acked \in 0..write
         /\ nt \in BOOLEAN /\ exclusive \in BOOLEAN /\ entry \in {"safe", "new"}
         /\ whole \subseteq 1..write /\ synced \subseteq whole
         /\ temps \subseteq 1..write /\ renamed \subseteq 1..write
         /\ loose \subseteq 1..write /\ unsure \subseteq 1..write

\* The order of the system calls of a write.
Order == /\ pc \in {"publish", "unlink", "sync"} => write \in synced
         /\ pc \in {"write", "fsync", "publish"} => write \notin Candidates \cup renamed
         /\ pc # "idle" => acked < write
         /\ pc = "fsync" => write \in whole
         /\ pc = "unlink" => ~nt /\ ~Told /\ path = write
         /\ pc = "sync" => /\ path = write /\ write \notin temps
                           /\ write \in renamed \/ ~Told

\* Only synced contents are published, and what is found may be found again.
Published == /\ Candidates \ {0} \subseteq synced
             /\ path \in {safe} \cup loose

\* Nothing older than the last acknowledged call can come back.
Recent == Told => \A f \in Candidates : f >= acked

\* Nothing that has two names, or might after a power loss.
OneName == /\ path \in renamed => path \notin temps
           /\ Told => Candidates \cap (temps \cup unsure) \subseteq renamed
           /\ nt => Candidates \ {0} \subseteq renamed

IInv == Types /\ Order /\ Published /\ Recent /\ OneName

LEMMA InitIInv ==
  ASSUME Init
  PROVE  IInv
<1>1. entry \in {"safe", "new"} /\ nt \in BOOLEAN
  BY Zenon DEF Init
<1>2. /\ pc = "idle" /\ exclusive = FALSE
      /\ write = 0 /\ path = 0 /\ safe = 0 /\ acked = 0
      /\ whole = {} /\ synced = {} /\ temps = {} /\ renamed = {}
      /\ loose = {} /\ unsure = {}
  BY DEF Init
<1>3. Types
  <2>1. exclusive \in BOOLEAN /\ nt \in BOOLEAN /\ entry \in {"safe", "new"}
    BY <1>1, <1>2, Zenon
  <2>2. /\ write \in 0..MaxWrites /\ path \in 0..write /\ safe \in 0..write /\ acked \in 0..write
        /\ whole \subseteq 1..write /\ synced \subseteq whole
        /\ temps \subseteq 1..write /\ renamed \subseteq 1..write
        /\ loose \subseteq 1..write /\ unsure \subseteq 1..write
    BY <1>2, FileAssumption
  <2> QED
    BY <1>2, <2>1, <2>2, Zenon DEF Types
<1>4. Order /\ Recent
  BY <1>2 DEF Order, Recent, Told
<1>5. Published /\ OneName
  BY <1>2 DEF Published, OneName, Candidates, Told
<1> QED
  BY <1>3, <1>4, <1>5 DEF IInv

LEMMA StepIInv ==
  ASSUME IInv, [Next]_vars
  PROVE  IInv'
<1> USE FileAssumption DEF IInv, Types, Candidates, Told, names
<1>1. ASSUME NEW x \in BOOLEAN, Begin(x)
      PROVE  IInv'
  <2>1. Types' /\ write' = write + 1 /\ UNCHANGED <<nt, path, safe, loose, renamed, synced, acked>>
    BY <1>1 DEF Begin, Temporary
  <2>2. Order'
    BY <1>1, <2>1 DEF Begin, Order
  <2>3. Published' /\ Recent'
    BY <1>1, <2>1 DEF Begin, Published, Recent
  <2>4. OneName'
    BY <1>1, <2>1 DEF Begin, Temporary, OneName
  <2> QED
    BY <2>1, <2>2, <2>3, <2>4
<1>2. CASE WriteAll \/ Fsync
  <2>1. CASE WriteAll
    BY <2>1 DEF WriteAll, Order, Published, Recent, OneName
  <2>2. CASE Fsync
    <3>1. Types' /\ Order'
      BY <2>2 DEF Fsync, Order
    <3>2. Published' /\ Recent' /\ OneName'
      BY <2>2 DEF Fsync, Published, Recent, OneName
    <3> QED
      BY <3>1, <3>2
  <2> QED
    BY <1>2, <2>1, <2>2
<1>3. CASE Link
  <2>1. ~Told
    BY <1>3 DEF Link, Recent
  <2> QED
    BY <1>3, <2>1 DEF Link, Order, Published, Recent, OneName
<1>4. CASE Unlink
  <2>1. Types' /\ Order'
    BY <1>4 DEF Unlink, Temporary, Order
  <2>2. Published' /\ Recent' /\ OneName'
    BY <1>4 DEF Unlink, Temporary, Order, Published, Recent, OneName
  <2> QED
    BY <2>1, <2>2
<1>5. CASE Replace \/ MoveFile
  <2> Renames
    BY <1>5 DEF Replace, MoveFile
  <2>1. Types' /\ Order'
    BY DEF Renames, Temporary, Order
  <2>2. Published' /\ Recent'
    BY DEF Renames, Order, Published, Recent
  <2>3. OneName'
    BY DEF Renames, Temporary, Order, OneName
  <2> QED
    BY <2>1, <2>2, <2>3
<1>6. CASE SyncDirectory
  BY <1>6 DEF SyncDirectory, Order, Published, Recent, OneName
<1>7. CASE Fails
  <2>1. Types' /\ Order' /\ Published' /\ Recent'
    BY <1>7 DEF Fails, Temporary, Order, Published, Recent
  <2>2. OneName'
    BY <1>7 DEF Fails, Temporary, Order, OneName
  <2> QED
    BY <2>1, <2>2
<1>8. CASE Killed \/ UNCHANGED vars
  <2>1. UNCHANGED <<nt, write, exclusive, whole, synced, names, acked>>
    BY <1>8, Zenon DEF Killed, vars
  <2>2. pc' = "idle" \/ pc' = pc
    BY <1>8, Zenon DEF Killed, vars
  <2>3. Types'
    BY <2>1, <2>2
  <2>4. Order'
    BY <2>1, <2>2 DEF Order
  <2>5. Published' /\ Recent'
    BY <2>1, <2>2 DEF Published, Recent
  <2>6. OneName'
    BY <2>1, <2>2 DEF OneName
  <2> QED
    BY <2>3, <2>4, <2>5, <2>6
<1>9. CASE PowerLoss
  <2>1. synced \subseteq synced' /\ synced' = whole' /\ whole' \subseteq whole
    BY <1>9 DEF PowerLoss
  <2>2. /\ pc' = "idle" /\ loose' = {} /\ unsure' = {}
        /\ UNCHANGED <<nt, write, exclusive, renamed>>
    BY <1>9 DEF PowerLoss
  <2>3. CASE NamesSettle
    <3>1. path' = safe' /\ path' \in {safe} \cup loose
      BY <2>3 DEF NamesSettle
    <3>2. PICK kept \in SUBSET unsure : temps' = (temps \ unsure) \cup kept
      BY <2>3 DEF NamesSettle
    <3>3. entry' \in {"safe", "new"} /\ acked' = acked
      BY <2>2, <2>3 DEF NamesSettle
    <3>4. Types'
      BY <2>1, <2>2, <3>1, <3>2, <3>3
    <3>5. Order' /\ Published' /\ Recent'
      BY <2>1, <2>2, <3>1, <3>3 DEF Order, Published, Recent
    <3>6. OneName'
      BY <2>2, <2>3, <3>1, <3>2, <3>3 DEF NamesSettle, OneName
    <3> QED
      BY <3>4, <3>5, <3>6
  <2>4. CASE DirectoryLost
    <3>1. path' = 0 /\ safe' = 0 /\ temps' = {} /\ entry' = entry /\ acked' = 0
      BY <2>4 DEF DirectoryLost
    <3>2. Types'
      BY <2>1, <2>2, <3>1
    <3> QED
      BY <2>1, <2>2, <3>1, <3>2 DEF Order, Published, Recent, OneName
  <2> QED
    BY <1>9, <2>3, <2>4 DEF PowerLoss
<1> QED
  BY <1>1, <1>2, <1>3, <1>4, <1>5, <1>6, <1>7, <1>8, <1>9 DEF Next

\* The invariant of every call, crash and power loss.
LEMMA Invariance == Spec => []IInv
<1>1. Init => IInv
  BY InitIInv
<1>2. IInv /\ [Next]_vars => IInv'
  BY StepIInv
<1> QED
  BY <1>1, <1>2, PTL DEF Spec

\* Every reachable state has the modelled shape.
THEOREM TypeCorrect == Spec => []TypeOK
<1>1. IInv => TypeOK
  BY FileAssumption DEF IInv, Types, TypeOK
<1> QED
  BY <1>1, Invariance, PTL

\* A reader of the path finds nothing or one whole payload.
THEOREM WholePayloads == Spec => []NeverTorn
<1>1. IInv => NeverTorn
  BY DEF IInv, Types, Published, Candidates, NeverTorn
<1> QED
  BY <1>1, Invariance, PTL

\* What atomic_write returned from is there after any crash or power loss,
\* unless the loss took the directory that the job itself had made.
THEOREM Durable == Spec => []AckedDurable
<1>1. IInv => AckedDurable
  BY DEF IInv, Types, Recent, OneName, Candidates, Told, AckedDurable, Readable
<1> QED
  BY <1>1, Invariance, PTL

\* An update leaves a readable file wherever it is interrupted.
THEOREM UpdatesSafe == Spec => []UpdatesReadable
<1>1. IInv => UpdatesReadable
  BY DEF IInv, Types, OneName, Candidates, UpdatesReadable, Readable
<1> QED
  BY <1>1, Invariance, PTL

-----------------------------------------------------------------------------
(* What a reader finds.                                                    *)

LEMMA Finds ==
  ASSUME IInv
  PROVE  readerFinds = IF path = 0 THEN 0 ELSE IF path \in temps THEN -1 ELSE path
<1>1. path # 0 => path \in whole
  BY DEF IInv, Types, Published, Candidates
<1>2. path \in Int
  BY FileAssumption DEF IInv, Types
<1> QED
  BY <1>1, <1>2 DEF readerFinds, Readable

\* A step that leaves the names and the last call alone is none that a reader sees.
LEMMA SameNames ==
  ASSUME IInv, IInv', UNCHANGED <<write, path, safe, loose, acked, entry>>,
         path \in temps' <=> path \in temps
  PROVE  UNCHANGED Reader!promise
<1>1. path # 0 => path \in whole /\ path \in whole'
  BY DEF IInv, Types, Published, Candidates
<1>2. Readable' <=> Readable
  BY DEF Readable
<1>3. readerFinds' = readerFinds
  <2>1. CASE path = 0
    BY <2>1 DEF readerFinds, Readable
  <2>2. CASE path # 0 /\ ~Readable
    BY <1>2, <2>2 DEF readerFinds
  <2>3. CASE Readable
    <3>1. readerFinds = path
      BY <1>1, <2>3 DEF readerFinds, Readable
    <3>2. readerFinds' = path'
      BY <1>1, <1>2, <2>3 DEF readerFinds, Readable
    <3> QED
      BY <3>1, <3>2
  <2> QED
    BY <2>1, <2>2, <2>3
<1> QED
  BY <1>3 DEF Reader!promise

LEMMA ReaderStep ==
  ASSUME IInv, IInv', [Next]_vars
  PROVE  [Reader!DurableNext]_(Reader!promise)
<1> USE FileAssumption DEF Types, Candidates, Told, Reader!DurableNext
<1>0. /\ readerFinds = IF path = 0 THEN 0 ELSE IF path \in temps THEN -1 ELSE path
      /\ readerFinds' = IF path' = 0 THEN 0 ELSE IF path' \in temps' THEN -1 ELSE path'
  BY Finds DEF readerFinds, IInv, Readable, Published
<1>1. ASSUME NEW x \in BOOLEAN, Begin(x)
      PROVE  Reader!Call
  <2>1. UNCHANGED <<path, safe, loose, acked, entry>> /\ write' = write + 1
    BY <1>1 DEF Begin
  <2>2. path \in temps' <=> path \in temps
    BY <1>1 DEF Begin, Temporary, IInv
  <2> QED
    BY <1>0, <2>1, <2>2 DEF Reader!Call
<1>2. CASE WriteAll \/ Fsync \/ Killed \/ UNCHANGED vars
  BY <1>2, SameNames DEF WriteAll, Fsync, Killed, vars, names
<1>3. CASE Link \/ Replace \/ MoveFile
  <2>1. /\ path' = write /\ loose' = loose \cup {write}
        /\ UNCHANGED <<write, safe, acked, entry>>
        /\ Link => path = 0
        /\ ~Link => write \notin temps'
    BY <1>3 DEF Link, Replace, MoveFile, Renames, Temporary
  <2>2. write \notin {safe} \cup loose
    BY <1>3 DEF IInv, Order, Link, Replace, MoveFile, Renames
  <2>3. write # 0
    BY <1>3 DEF IInv, Order, Link, Replace, MoveFile, Renames
  <2>4. readerFinds' = write \/ (readerFinds = 0 /\ readerFinds' = -1)
    BY <1>0, <2>1, <2>3
  <2>5. ({safe} \cup loose)' = ({safe} \cup loose) \cup {write}
    BY <2>1
  <2> QED
    BY <2>1, <2>2, <2>4, <2>5 DEF Reader!Appears, Reader!Nothing, Reader!Refused
<1>4. CASE Unlink \/ Fails
  <2>1. temps' = temps \ {write} /\ UNCHANGED <<write, path, safe, loose, acked, entry>>
    BY <1>4 DEF Unlink, Fails, Temporary
  <2>2. CASE path = write /\ write \in temps
    <3>1. path # 0 /\ path \in {safe} \cup loose
      BY <2>2 DEF IInv, Published
    <3>2. readerFinds = -1 /\ readerFinds' = write
      BY <1>0, <2>1, <2>2, <3>1
    <3> QED
      BY <2>1, <2>2, <3>1, <3>2 DEF Reader!Opens, Reader!Refused
  <2>3. CASE ~(path = write /\ write \in temps)
    BY <2>1, <2>3, SameNames
  <2> QED
    BY <2>2, <2>3
<1>5. CASE SyncDirectory
  <2>1. /\ path = write /\ write \notin temps
        /\ safe' = path /\ loose' = {} /\ acked' = write
        /\ UNCHANGED <<write, path, temps, entry>>
    BY <1>5 DEF SyncDirectory, IInv, Order
  <2>2. write # 0
    BY <1>5 DEF SyncDirectory, IInv, Order
  <2>3. readerFinds = write /\ readerFinds' = write
    BY <1>0, <2>1, <2>2
  <2>4. ({safe} \cup loose)' = {write}
    BY <2>1
  <2> QED
    BY <2>1, <2>3, <2>4 DEF Reader!Returns
<1>6. CASE PowerLoss
  <2>1. loose' = {} /\ UNCHANGED <<write, renamed>>
    BY <1>6 DEF PowerLoss
  <2>2. CASE NamesSettle
    <3>1. PICK p \in {safe} \cup loose : path' = p /\ safe' = p
      BY <2>2 DEF NamesSettle
    <3>2. ({safe} \cup loose)' = {p} /\ entry' = "safe" /\ UNCHANGED acked
      BY <2>1, <2>2, <3>1 DEF NamesSettle
    <3>3. Told => p \notin temps'
      BY <2>2, <3>1 DEF NamesSettle, IInv, OneName
    <3>4. acked = 0 \/ Told
      BY DEF IInv
    <3>5. readerFinds' = p \/ (p # 0 /\ acked = 0 /\ readerFinds' = -1)
      BY <1>0, <3>1, <3>3, <3>4
    <3> QED
      BY <2>1, <3>1, <3>2, <3>5 DEF Reader!Reboot, Reader!Nothing, Reader!Refused
  <2>3. CASE DirectoryLost
    <3>1. /\ path' = 0 /\ safe' = 0 /\ acked' = 0
          /\ entry = "new" /\ UNCHANGED entry
      BY <2>3 DEF DirectoryLost
    <3>2. readerFinds' = 0 /\ ({safe} \cup loose)' = {0}
      BY <1>0, <2>1, <3>1
    <3> QED
      BY <2>1, <3>1, <3>2 DEF Reader!Vanishes, Reader!Nothing
  <2> QED
    BY <1>6, <2>2, <2>3 DEF PowerLoss
<1> QED
  BY <1>1, <1>2, <1>3, <1>4, <1>5, <1>6 DEF Next

\* A call of atomic_write, in its many system calls and wherever it is cut short, is
\* for every reader one replacement of a whole payload, durable when it returns.
THEOREM Refinement == Spec => ImplementsDurable
<1>1. Init => Reader!DurableInit
  <2> SUFFICES ASSUME Init
               PROVE  Reader!DurableInit
    OBVIOUS
  <2>1. write = 0 /\ path = 0 /\ safe = 0 /\ loose = {} /\ acked = 0
    BY DEF Init
  <2>2. entry \in {"safe", "new"}
    BY Zenon DEF Init
  <2>3. readerFinds = 0 /\ {safe} \cup loose = {0}
    BY <2>1, InitIInv, Finds
  <2> QED
    BY <2>1, <2>2, <2>3 DEF Reader!DurableInit, Reader!Nothing
<1>2. IInv /\ IInv' /\ [Next]_vars => [Reader!DurableNext]_(Reader!promise)
  BY ReaderStep
<1> QED
  BY <1>1, <1>2, Invariance, PTL DEF Spec, ImplementsDurable, Reader!DurableSpec
=============================================================================
