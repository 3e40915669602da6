----------------------- MODULE StateDirectory_proofs -----------------------
(***************************************************************************)
(* Proofs about StateDirectory, for any number of brokers, commands and    *)
(* passwords.                                                              *)
(***************************************************************************)
EXTENDS StateDirectory, TLAPS

\* The steps of a broker's process and of its task.
Process(b) == \/ TakeLock(b) \/ Recovers(b) \/ Submits(b) \/ ServerEnds(b)
              \/ Closes(b) \/ Unlocks(b) \/ Killed(b)

-----------------------------------------------------------------------------
(* The inductive invariant, one conjunct per concern.                      *)

\* A process that is not off has the lock, and only then there are tasks.
LockInv ==
  /\ \A b \in Brokers : /\ at[b] # "off" <=> lock = b
                        /\ pc[b] # "none" => at[b] \in {"up", "closing"}
  /\ lock \in Brokers \cup {None}

\* Every password that is stored or sent with a job was tested, and an ssh call
\* without need of one carries none.
SecretInv ==
  /\ file # None => file \in accepted
  /\ \A b \in Brokers :
       /\ copy[b] # None => copy[b] \in accepted /\ pc[b] \in WithCopy
       /\ pc[b] = "test" => copy[b] # None
  /\ \A c \in Commands :
       /\ doing[c] = "test" => typed[c] # None /\ copy[c] = typed[c]
       /\ doing[c] = "save" => typed[c] \in accepted
       /\ typed[c] # None => doing[c] \in {"test", "save"}
       /\ copy[c] # None => doing[c] = "test"

\* The record, seen from the task: before the start nothing has run and nothing
\* is on its way, after it something has.
TaskInv(b) ==
  /\ record \in Pending
  /\ pc[b] \in {"start", "started"} => mode[b] = "execute"
  /\ mode[b] = "execute" =>
       /\ wire = {}
       /\ pc[b] \notin {"check", "session"}
       /\ pc[b] \in {"ask", "test", "start"} => record = "starting" /\ ~ran
       /\ pc[b] = "started" => record = "starting"
  /\ pc[b] \in {"started", "poll", "collect", "saved"} => ran
  /\ pc[b] = "saved" => kept

JobInv ==
  /\ \A b \in Brokers : pc[b] # "none" => TaskInv(b)
  /\ record = "none" => ~ran
  /\ done => ran
  /\ record \in {"running", "complete"} => ran
  /\ record \in {"none", "failed"} => wire = {}

IInv == TypeOK /\ LockInv /\ SecretInv /\ JobInv

-----------------------------------------------------------------------------
(* Types.                                                                  *)

LEMMA InitIInv ==
  ASSUME Init
  PROVE  IInv
<1>1. ran = FALSE /\ done = FALSE /\ kept = FALSE
  BY DEF Init
<1>2. {ran, done, kept} \subseteq BOOLEAN
  BY <1>1, Zenon
<1>3. TypeOK
  BY <1>2 DEF Init, TypeOK, Processes, Stored, Pending
<1>4. LockInv /\ SecretInv
  BY DirectoryAssumption DEF Init, LockInv, SecretInv, Processes
<1>5. JobInv
  BY <1>1 DEF Init, JobInv
<1> QED
  BY <1>3, <1>4, <1>5 DEF IInv

\* What the helpers do to a process keeps its shape.
LEMMA DropsType ==
  ASSUME TypeOK, NEW b \in Brokers, Drops(b)
  PROVE  /\ pc' \in [Brokers -> {"none"} \cup Places]
         /\ mode' \in [Brokers -> {"execute", "recover"}]
         /\ copy' \in [Processes -> Stored]
         /\ wire' \subseteq Stored
  BY DEF TypeOK, Drops, Processes, Stored

LEMMA SendsType ==
  ASSUME TypeOK, NEW b \in Brokers, NEW p \in {"none"} \cup Places,
         NEW w \in Stored, Sends(b, p, w)
  PROVE  /\ pc' \in [Brokers -> {"none"} \cup Places]
         /\ mode' \in [Brokers -> {"execute", "recover"}]
         /\ copy' \in [Processes -> Stored]
  BY DEF TypeOK, Sends, Processes, Stored

LEMMA VerdictType ==
  ASSUME TypeOK, NEW b \in Brokers, NEW s \in {"complete", "failed", "unknown"},
         Verdict(b, s), UNCHANGED <<brokers, secret, commands, file>>,
         accepted' \subseteq Passwords
  PROVE  TypeOK'
<1>1. UNCHANGED <<at, lock, secret, doing, typed, said, file, ran, done, kept>>
  BY DEF Verdict, brokers, commands
<1>2. record' = s /\ Drops(b)
  BY DEF Verdict
<1> QED
  BY <1>1, <1>2, DropsType DEF TypeOK

LEMMA StoredType ==
  ASSUME TypeOK, NEW b \in Brokers, NEW p \in Places, SendsStored(b, p),
         UNCHANGED <<brokers, secret, commands, file>>, accepted' \subseteq Passwords
  PROVE  TypeOK'
<1>1. CASE file = None
  BY <1>1, VerdictType DEF SendsStored, Fails
<1>2. CASE file # None
  <2>1. Sends(b, p, file) /\ UNCHANGED job
    BY <1>2 DEF SendsStored
  <2>2. file \in Stored
    BY DEF TypeOK
  <2> QED
    BY <2>1, <2>2, SendsType DEF TypeOK, job, brokers, commands
<1> QED
  BY <1>1, <1>2

LEMMA TypeProcess ==
  ASSUME TypeOK, NEW b \in Brokers, Process(b)
  PROVE  TypeOK'
<1> USE DEF TypeOK, Moves, brokers, tasks, job, machine, commands
<1>1. CASE TakeLock(b)
  BY <1>1 DEF TakeLock
<1>2. CASE Recovers(b)
  BY <1>2 DEF Recovers, Places
<1>3. CASE Submits(b)
  <2>1. "ask" \in Places /\ None \in Stored /\ "starting" \in Pending
    BY DEF Places, Access, Stored, Pending
  <2> QED
    BY <1>3, <2>1, SendsType DEF Submits
<1>4. CASE ServerEnds(b)
  BY <1>4 DEF ServerEnds
<1>5. CASE Closes(b)
  BY <1>5, DropsType DEF Closes
<1>6. CASE Unlocks(b)
  BY <1>6 DEF Unlocks
<1>7. CASE Killed(b)
  BY <1>7, DropsType DEF Killed
<1> QED
  BY <1>1, <1>2, <1>3, <1>4, <1>5, <1>6, <1>7 DEF Process

LEMMA TypeTask ==
  ASSUME TypeOK, SecretInv, NEW b \in Brokers, Task(b)
  PROVE  TypeOK'
<1>1. {"ask", "test", "start", "started", "session", "poll", "collect", "saved"}
        \subseteq Places /\ None \in Stored /\ "running" \in Pending
  BY DEF Places, Access, WithCopy, Stored, Pending
<1>2. Purpose(b) \in Places
  BY <1>1 DEF Purpose
<1>3. accepted \subseteq Passwords /\ UNCHANGED machine => accepted' \subseteq Passwords
  BY DEF machine
<1> USE DEF TypeOK, brokers, tasks, job, machine, commands
<1>4. CASE Asks(b)
  <2>1. CASE Passes(None)
    BY <1>1, <1>2, <1>4, <2>1, SendsType DEF Asks
  <2>2. CASE ~Passes(None)
    <3>1. SendsStored(b, "test") /\ UNCHANGED <<brokers, secret, commands, file>>
      BY <1>4, <2>2 DEF Asks
    <3>2. accepted' \subseteq Passwords
      BY <1>4 DEF Asks
    <3> QED
      BY <1>1, <3>1, <3>2, StoredType
  <2> QED
    BY <2>1, <2>2
<1>5. CASE Tests(b)
  <2>1. UNCHANGED <<brokers, secret, commands, file>>
    BY <1>5 DEF Tests
  <2>2. CASE ~Passes(copy[b])
    <3>1. Fails(b) /\ accepted' \subseteq Passwords
      BY <1>5, <2>2 DEF Tests
    <3> QED
      BY <2>1, <3>1, VerdictType DEF Fails
  <2>3. CASE Passes(copy[b])
    <3>1. SendsStored(b, Purpose(b)) /\ accepted' = accepted \cup {copy[b]}
      BY <1>5, <2>3 DEF Tests
    <3>2. copy[b] \in Passwords
      BY <1>5 DEF Tests, SecretInv, Processes, Stored
    <3> QED
      BY <1>2, <2>1, <3>1, <3>2, StoredType
  <2> QED
    BY <2>2, <2>3
<1>6. CASE Unreadable(b) \/ Starts(b) \/ Refused(b)
  <2>1. CASE Unreadable(b)
    BY <2>1, DropsType DEF Unreadable
  <2>2. CASE Starts(b)
    BY <1>1, <2>2 DEF Starts
  <2>3. CASE Refused(b)
    BY <1>1, <2>3, SendsType DEF Refused
  <2> QED
    BY <1>6, <2>1, <2>2, <2>3
<1>7. CASE Started(b) \/ Checks(b) \/ Polls(b) \/ Collects(b)
  <2>1. CASE Started(b)
    BY <1>1, <2>1, SendsType DEF Started
  <2>2. CASE Checks(b)
    <3>1. (IF done THEN "collect" ELSE "ask") \in Places
      BY <1>1
    <3> QED
      BY <1>1, <2>2, <3>1, SendsType DEF Checks
  <2>3. CASE Polls(b)
    BY <1>1, <2>3, SendsType DEF Polls
  <2>4. CASE Collects(b)
    BY <1>1, <2>4, SendsType DEF Collects
  <2> QED
    BY <1>7, <2>1, <2>2, <2>3, <2>4
<1>8. CASE Looks(b)
  <2>1. CASE Passes(copy[b]) /\ ran /\ ~done
    BY <1>1, <1>8, <2>1, SendsType DEF Looks
  <2>2. CASE ~(Passes(copy[b]) /\ ran /\ ~done)
    BY <1>8, <2>2, VerdictType DEF Looks
  <2> QED
    BY <2>1, <2>2
<1>9. CASE Completes(b) \/ Lost(b)
  <2>1. CASE Completes(b)
    BY <2>1, VerdictType DEF Completes
  <2>2. CASE Lost(b)
    <3>1. PICK s \in {"failed", "unknown"} : Verdict(b, s)
      BY <2>2 DEF Lost
    <3> QED
      BY <2>2, <3>1, VerdictType DEF Lost
  <2> QED
    BY <1>9, <2>1, <2>2
<1> QED
  BY <1>4, <1>5, <1>6, <1>7, <1>8, <1>9 DEF Task

LEMMA TypeCommand ==
  ASSUME TypeOK, SecretInv, NEW c \in Commands, Command(c)
  PROVE  TypeOK'
<1> USE DEF TypeOK, Does, Processes, Stored, brokers, tasks, job, machine, commands
<1>1. ASSUME NEW password \in Passwords, Enters(c, password)
      PROVE  TypeOK'
  BY <1>1 DEF Enters
<1>2. CASE Tried(c)
  BY <1>2 DEF Tried, SecretInv
<1>3. CASE Gives(c) \/ ClearFails(c)
  BY <1>3 DEF Gives, ClearFails, Reports
<1>4. CASE Saves(c)
  BY <1>4 DEF Saves, Reports
<1>5. CASE Examines(c)
  BY <1>5 DEF Examines
<1>6. CASE Unlinks(c)
  BY <1>6 DEF Unlinks, Reports
<1> QED
  BY <1>1, <1>2, <1>3, <1>4, <1>5, <1>6 DEF Command

LEMMA TypeMachine ==
  ASSUME TypeOK, Arrives \/ CommandEnds \/ Changes \/ UNCHANGED vars
  PROVE  TypeOK'
<1> USE DEF TypeOK, brokers, tasks, job, machine, commands
<1>1. CASE Arrives
  BY <1>1 DEF Arrives, Passes
<1>2. CASE CommandEnds
  BY <1>2 DEF CommandEnds
<1>3. CASE Changes
  BY <1>3 DEF Changes
<1>4. CASE UNCHANGED vars
  BY <1>4 DEF vars
<1> QED
  BY <1>1, <1>2, <1>3, <1>4

LEMMA TypeStep ==
  ASSUME TypeOK, SecretInv, [Next]_vars
  PROVE  TypeOK'
  BY TypeProcess, TypeTask, TypeCommand, TypeMachine DEF Next, Process

-----------------------------------------------------------------------------
(* The lock.                                                               *)

\* A step of a task leaves the processes alone and keeps a task a task.
LEMMA TaskScope ==
  ASSUME TypeOK, NEW b \in Brokers, Task(b)
  PROVE  /\ pc[b] # "none" /\ UNCHANGED <<at, lock>>
         /\ \A d \in Brokers \ {b} : pc'[d] = pc[d] /\ mode'[d] = mode[d]
<1> USE DEF TypeOK, brokers, Sends, Drops, Verdict, Fails, SendsStored, Access, WithCopy
<1>1. CASE Asks(b) \/ Tests(b)
  BY <1>1 DEF Asks, Tests
<1>2. CASE Unreadable(b) \/ Starts(b) \/ Refused(b) \/ Started(b)
  BY <1>2 DEF Unreadable, Starts, Refused, Started
<1>3. CASE Checks(b) \/ Looks(b) \/ Polls(b) \/ Collects(b) \/ Completes(b) \/ Lost(b)
  BY <1>3 DEF Checks, Looks, Polls, Collects, Completes, Lost
<1> QED
  BY <1>1, <1>2, <1>3 DEF Task

LEMMA LockStep ==
  ASSUME TypeOK, LockInv, [Next]_vars
  PROVE  LockInv'
<1> USE DirectoryAssumption DEF TypeOK, LockInv, Moves, brokers, tasks
<1>1. ASSUME NEW b \in Brokers, Process(b)
      PROVE  LockInv'
  <2>1. CASE TakeLock(b)
    BY <2>1 DEF TakeLock
  <2>2. CASE Recovers(b)
    BY <2>2 DEF Recovers
  <2>3. CASE Submits(b)
    BY <2>3 DEF Submits, Sends
  <2>4. CASE ServerEnds(b)
    BY <2>4 DEF ServerEnds
  <2>5. CASE Closes(b)
    BY <2>5 DEF Closes, Drops
  <2>6. CASE Unlocks(b)
    BY <2>6 DEF Unlocks
  <2>7. CASE Killed(b)
    BY <2>7 DEF Killed, Drops
  <2> QED
    BY <1>1, <2>1, <2>2, <2>3, <2>4, <2>5, <2>6, <2>7 DEF Process
<1>2. ASSUME NEW b \in Brokers, Task(b)
      PROVE  LockInv'
  <2>1. /\ pc[b] # "none" /\ UNCHANGED <<at, lock>>
        /\ \A d \in Brokers \ {b} : pc'[d] = pc[d]
    BY <1>2, TaskScope
  <2> QED
    BY <2>1
<1>3. ASSUME NEW c \in Commands, Command(c)
      PROVE  LockInv'
  BY <1>3 DEF Command, Enters, Tried, Gives, Saves, Examines, ClearFails, Unlinks,
              Reports
<1>4. CASE Arrives \/ CommandEnds \/ Changes \/ UNCHANGED vars
  BY <1>4 DEF Arrives, CommandEnds, Changes, vars
<1> QED
  BY <1>1, <1>2, <1>3, <1>4 DEF Next, Process

-----------------------------------------------------------------------------
(* Passwords.                                                              *)

\* What SecretInv says of the copy a broker has.
Copied(b) == /\ copy[b] # None => copy[b] \in accepted /\ pc[b] \in WithCopy
             /\ pc[b] = "test" => copy[b] # None

\* A step of one broker's task: the rest of the passwords stays.
LEMMA SecretLocal ==
  ASSUME TypeOK, SecretInv, NEW b \in Brokers, Copied(b)',
         UNCHANGED <<commands, file>>, accepted \subseteq accepted',
         \A d \in Processes \ {b} : copy'[d] = copy[d],
         \A d \in Brokers \ {b} : pc'[d] = pc[d]
  PROVE  SecretInv'
<1>1. \A c \in Commands : c \in Processes \ {b}
  BY DirectoryAssumption DEF Processes
<1>2. \A d \in Brokers \ {b} : d \in Processes \ {b}
  BY DEF Processes
<1> QED
  BY <1>1, <1>2 DEF SecretInv, Copied, commands

LEMMA SecretProcess ==
  ASSUME TypeOK, LockInv, SecretInv, NEW b \in Brokers, Process(b)
  PROVE  SecretInv'
<1> USE DEF brokers, tasks, machine, Moves
<1>1. CASE TakeLock(b) \/ ServerEnds(b) \/ Unlocks(b)
  BY <1>1 DEF TakeLock, ServerEnds, Unlocks, commands, SecretInv
<1>2. CASE Recovers(b)
  <2>1. pc[b] = "none" /\ UNCHANGED <<copy, commands, file, accepted>>
    BY <1>2 DEF Recovers, LockInv, TypeOK
  <2>2. copy[b] = None
    BY <2>1 DEF SecretInv, WithCopy
  <2>3. pc'[b] # "test" /\ \A d \in Brokers \ {b} : pc'[d] = pc[d]
    BY <1>2, <2>1 DEF Recovers, TypeOK
  <2> QED
    BY <2>1, <2>2, <2>3, SecretLocal DEF Copied
<1>3. CASE Submits(b)
  BY <1>3, SecretLocal DEF Submits, Sends, Copied, TypeOK, Processes
<1>4. CASE Closes(b) \/ Killed(b)
  BY <1>4, SecretLocal DEF Closes, Killed, Drops, Copied, TypeOK, Processes
<1> QED
  BY <1>1, <1>2, <1>3, <1>4 DEF Process

LEMMA SecretTask ==
  ASSUME TypeOK, SecretInv, NEW b \in Brokers, Task(b)
  PROVE  SecretInv'
<1> USE DEF machine, Sends, Drops, Verdict, Fails, SendsStored, Copied, TypeOK, Processes,
            WithCopy
<1>1. CASE Asks(b)
  BY <1>1, SecretLocal DEF Asks, SecretInv, Purpose
<1>2. CASE Tests(b)
  BY <1>2, SecretLocal DEF Tests, SecretInv, Purpose
<1>3. CASE Unreadable(b) \/ Refused(b) \/ Started(b)
  BY <1>3, SecretLocal DEF Unreadable, Refused, Started
<1>4. CASE Starts(b)
  BY <1>4, SecretLocal DEF Starts, SecretInv
<1>5. CASE Checks(b) \/ Looks(b) \/ Polls(b)
  BY <1>5, SecretLocal DEF Checks, Looks, Polls
<1>6. CASE Collects(b) \/ Completes(b) \/ Lost(b)
  BY <1>6, SecretLocal DEF Collects, Completes, Lost
<1> QED
  BY <1>1, <1>2, <1>3, <1>4, <1>5, <1>6 DEF Task

LEMMA SecretCommand ==
  ASSUME TypeOK, SecretInv, NEW c \in Commands, Command(c)
  PROVE  SecretInv'
<1>1. \A b \in Brokers : b \in Processes \ {c}
  BY DirectoryAssumption DEF Processes
<1> USE <1>1, DirectoryAssumption
    DEF SecretInv, TypeOK, Does, Processes, Stored, tasks, machine
<1>2. ASSUME NEW password \in Passwords, Enters(c, password)
      PROVE  SecretInv'
  BY <1>2 DEF Enters
<1>3. CASE Tried(c)
  BY <1>3 DEF Tried
<1>4. CASE Gives(c) \/ ClearFails(c)
  BY <1>4 DEF Gives, ClearFails, Reports
<1>5. CASE Saves(c)
  BY <1>5 DEF Saves, Reports
<1>6. CASE Examines(c)
  BY <1>6 DEF Examines
<1>7. CASE Unlinks(c)
  BY <1>7 DEF Unlinks, Reports
<1> QED
  BY <1>2, <1>3, <1>4, <1>5, <1>6, <1>7 DEF Command

LEMMA SecretStep ==
  ASSUME TypeOK, LockInv, SecretInv, [Next]_vars
  PROVE  SecretInv'
<1>1. CASE Arrives \/ CommandEnds \/ Changes \/ UNCHANGED vars
  BY <1>1 DEF Arrives, CommandEnds, Changes, vars, tasks, machine, commands, SecretInv
<1> QED
  BY <1>1, SecretProcess, SecretTask, SecretCommand DEF Next, Process

-----------------------------------------------------------------------------
(* The job.                                                                *)

\* The broker that works on the job, or may begin to, is the only one.
LEMMA Alone ==
  ASSUME LockInv, NEW b \in Brokers, at[b] # "off" \/ pc[b] # "none"
  PROVE  lock = b /\ \A d \in Brokers \ {b} : at[d] = "off" /\ pc[d] = "none"
  BY DEF LockInv

\* What is left to show when only b has a task.
LEMMA JobLocal ==
  ASSUME TypeOK, LockInv, JobInv, NEW b \in Brokers,
         at[b] # "off" \/ pc[b] # "none",
         \A d \in Brokers \ {b} : pc'[d] = pc[d],
         pc'[b] # "none" => TaskInv(b)',
         record' = "none" => ~ran', done' => ran',
         record' \in {"running", "complete"} => ran',
         record' \in {"none", "failed"} => wire' = {}
  PROVE  JobInv'
  BY Alone DEF JobInv

LEMMA JobProcess ==
  ASSUME TypeOK, LockInv, JobInv, NEW b \in Brokers, Process(b)
  PROVE  JobInv'
<1> USE DEF brokers, tasks, job, Moves
<1>1. CASE TakeLock(b) \/ ServerEnds(b) \/ Unlocks(b)
  BY <1>1 DEF TakeLock, ServerEnds, Unlocks, JobInv, TaskInv
<1>2. CASE Recovers(b)
  <2>1. at[b] = "locked" /\ pc[b] = "none" /\ UNCHANGED job
    BY <1>2 DEF Recovers, LockInv, TypeOK
  <2>2. \A d \in Brokers \ {b} : pc'[d] = pc[d]
    BY <1>2 DEF Recovers, TypeOK
  <2>3. pc'[b] # "none" => TaskInv(b)'
    BY <1>2, <2>1 DEF Recovers, TypeOK, TaskInv
  <2> QED
    BY <2>1, <2>2, <2>3, JobLocal DEF JobInv
<1>3. CASE Submits(b)
  <2>1. at[b] = "up" /\ record = "none" /\ record' = "starting" /\ pc[b] = "none"
    BY <1>3 DEF Submits, JobInv, TaskInv, Pending
  <2>2. /\ UNCHANGED <<ran, done, wire, mode>>
        /\ pc'[b] = "ask" /\ \A d \in Brokers \ {b} : pc'[d] = pc[d]
    BY <1>3 DEF Submits, Sends, TypeOK
  <2>3. TaskInv(b)'
    BY <2>1, <2>2 DEF TaskInv, JobInv, Pending
  <2> QED
    BY <2>1, <2>2, <2>3, JobLocal DEF JobInv
<1>4. CASE Closes(b) \/ Killed(b)
  <2>1. /\ at[b] # "off" /\ pc'[b] = "none" /\ UNCHANGED <<record, ran, done>>
        /\ \A d \in Brokers \ {b} : pc'[d] = pc[d]
        /\ wire' = IF pc[b] = "start" THEN wire \cup {copy[b]} ELSE wire
    BY <1>4 DEF Closes, Killed, Drops, TypeOK
  <2>2. record \in {"none", "failed"} => wire' = {}
    BY <2>1 DEF JobInv, TaskInv, Pending
  <2> QED
    BY <2>1, <2>2, JobLocal DEF JobInv
<1> QED
  BY <1>1, <1>2, <1>3, <1>4 DEF Process

\* A verdict of the task: "failed" while nothing has run or is on its way,
\* "complete" after the command.
LEMMA JobVerdict ==
  ASSUME TypeOK, LockInv, JobInv, NEW b \in Brokers, pc[b] # "none",
         NEW s \in {"complete", "failed", "unknown"}, Verdict(b, s),
         s = "failed" => wire = {} /\ pc[b] # "start",
         s = "complete" => ran
  PROVE  JobInv'
  BY JobLocal DEF Verdict, Drops, TypeOK, JobInv

\* A step to the next place of the task.
LEMMA JobSends ==
  ASSUME TypeOK, LockInv, JobInv, NEW b \in Brokers, pc[b] # "none",
         NEW p, NEW w, p # "none", Sends(b, p, w), UNCHANGED <<record, ran, done, wire>>,
         TaskInv(b)'
  PROVE  JobInv'
  BY JobLocal DEF Sends, TypeOK, JobInv

LEMMA JobStored ==
  ASSUME TypeOK, LockInv, JobInv, NEW b \in Brokers, pc[b] \in {"ask", "test"},
         \/ SendsStored(b, "test")
         \/ SendsStored(b, Purpose(b))
         \/ Sends(b, Purpose(b), None) /\ UNCHANGED job
         \/ Fails(b)
  PROVE  JobInv'
<1>1. TaskInv(b)
  BY DEF JobInv
<1>2. CASE Fails(b)
  <2>1. CASE mode[b] = "recover"
    BY <1>2, <2>1, JobVerdict DEF Fails
  <2>2. CASE mode[b] # "recover"
    <3>1. Verdict(b, "failed") /\ wire = {} /\ pc[b] # "start"
      BY <1>1, <1>2, <2>2 DEF Fails, TaskInv, TypeOK
    <3> QED
      BY <3>1, JobVerdict
  <2> QED
    BY <2>1, <2>2
<1>3. ASSUME NEW p \in {"test", Purpose(b)}, NEW w, Sends(b, p, w), UNCHANGED job
      PROVE  JobInv'
  <2>1. pc'[b] = p /\ UNCHANGED <<record, ran, done, wire, kept, mode>> /\ p # "none"
    BY <1>3 DEF Sends, TypeOK, job, Purpose
  <2>2. TaskInv(b)'
    BY <1>1, <2>1 DEF TaskInv, Purpose, TypeOK
  <2> QED
    BY <1>3, <2>1, <2>2, JobSends
<1>4. CASE Sends(b, Purpose(b), None) /\ UNCHANGED job
  BY <1>3, <1>4
<1>5. CASE SendsStored(b, "test")
  BY <1>2, <1>3, <1>5 DEF SendsStored
<1>6. CASE SendsStored(b, Purpose(b))
  BY <1>2, <1>3, <1>6 DEF SendsStored
<1> QED
  BY <1>2, <1>4, <1>5, <1>6

LEMMA JobTask ==
  ASSUME TypeOK, LockInv, JobInv, NEW b \in Brokers, Task(b)
  PROVE  JobInv'
<1>1. pc[b] # "none" /\ TaskInv(b)
  BY TaskScope DEF JobInv
<1>2. CASE Asks(b) \/ Tests(b)
  BY <1>2, JobStored DEF Asks, Tests
<1>3. CASE Unreadable(b)
  BY <1>1, <1>3, JobLocal DEF Unreadable, Drops, TypeOK, JobInv
<1>4. CASE Starts(b)
  BY <1>1, <1>4, JobLocal DEF Starts, TypeOK, TaskInv, JobInv, Pending
<1>5. CASE Refused(b)
  BY <1>1, <1>5, JobLocal DEF Refused, Sends, TypeOK, TaskInv, JobInv
<1>6. CASE Started(b)
  BY <1>1, <1>6, JobLocal DEF Started, Sends, TypeOK, TaskInv, JobInv, Pending
<1>7. CASE Checks(b)
  BY <1>1, <1>7, JobLocal DEF Checks, Sends, TypeOK, TaskInv, JobInv, job
<1>8. CASE Looks(b)
  <2>1. CASE Passes(copy[b]) /\ ran /\ ~done
    BY <1>1, <1>8, <2>1, JobLocal DEF Looks, Sends, TypeOK, TaskInv, JobInv, Pending
  <2>2. CASE ~(Passes(copy[b]) /\ ran /\ ~done)
    BY <1>1, <1>8, <2>2, JobVerdict DEF Looks
  <2> QED
    BY <2>1, <2>2
<1>9. CASE Polls(b) \/ Collects(b)
  BY <1>1, <1>9, JobLocal DEF Polls, Collects, Sends, TypeOK, TaskInv, JobInv, job
<1>10. CASE Completes(b)
  BY <1>1, <1>10, JobVerdict DEF Completes, TaskInv
<1>11. CASE Lost(b)
  <2>1. CASE mode[b] = "execute" /\ pc[b] \in {"ask", "test"}
    <3>1. Verdict(b, "failed") /\ wire = {} /\ pc[b] # "start"
      BY <1>1, <1>11, <2>1 DEF Lost, TaskInv
    <3> QED
      BY <1>1, <3>1, JobVerdict
  <2>2. CASE ~(mode[b] = "execute" /\ pc[b] \in {"ask", "test"})
    <3>1. Verdict(b, "unknown")
      BY <1>11, <2>2 DEF Lost
    <3> QED
      BY <1>1, <3>1, JobVerdict
  <2> QED
    BY <2>1, <2>2
<1> QED
  BY <1>2, <1>3, <1>4, <1>5, <1>6, <1>7, <1>8, <1>9, <1>10, <1>11 DEF Task

LEMMA JobStep ==
  ASSUME TypeOK, LockInv, JobInv, [Next]_vars
  PROVE  JobInv'
<1>1. ASSUME NEW c \in Commands, Command(c)
      PROVE  JobInv'
  BY <1>1 DEF Command, Enters, Tried, Gives, Saves, Examines, ClearFails, Unlinks,
              Reports, tasks, job, JobInv, TaskInv
<1>2. CASE Arrives
  BY <1>2 DEF Arrives, tasks, JobInv, TaskInv
<1>3. CASE CommandEnds \/ Changes \/ UNCHANGED vars
  BY <1>3 DEF CommandEnds, Changes, vars, tasks, job, JobInv, TaskInv
<1> QED
  BY <1>1, <1>2, <1>3, JobProcess, JobTask DEF Next, Process

\* The invariant of all processes of a state directory.
LEMMA Invariance == Spec => []IInv
<1>1. Init => IInv
  BY InitIInv
<1>2. IInv /\ [Next]_vars => IInv'
  BY TypeStep, LockStep, SecretStep, JobStep DEF IInv
<1> QED
  BY <1>1, <1>2, PTL DEF Spec

\* Every reachable state has the modelled shape.
THEOREM TypeCorrect == Spec => []TypeOK
<1>1. IInv => TypeOK
  BY DEF IInv
<1> QED
  BY <1>1, Invariance, PTL

\* However many brokers are started and killed, a job is worked on only under
\* the lock, and no lock is left behind.
THEOREM LockHolds == Spec => []TasksUnderLock
<1>1. IInv => TasksUnderLock
  BY DirectoryAssumption DEF IInv, LockInv, TasksUnderLock
<1> QED
  BY <1>1, Invariance, PTL

\* No password that sudo did not take is ever stored or sent with a job.
THEOREM OnlyTested == Spec => []StoredWasAccepted
<1>1. IInv => StoredWasAccepted
  BY DEF IInv, SecretInv, StoredWasAccepted
<1> QED
  BY <1>1, Invariance, PTL

-----------------------------------------------------------------------------
(* The reports of sudo set and sudo clear.                                 *)

Reported(c) == said[c] = "working" =>
  CASE said'[c] = "cleared" -> file # None /\ file' = None
    [] said'[c] = "nothing" -> file = None /\ file' = None
    [] said'[c] = "stored" -> file' # None
    [] OTHER -> TRUE

\* Nothing but a command's own step changes what it reports.
LEMMA OthersQuiet ==
  ASSUME TypeOK, NEW c \in Commands, said'[c] = said[c]
  PROVE  Reported(c)
  BY DEF Reported

LEMMA CommandReports ==
  ASSUME TypeOK, SecretInv, NEW c \in Commands, Command(c)
  PROVE  \A d \in Commands : Reported(d)
<1>1. \A d \in Commands \ {c} : said'[d] = said[d]
  BY DEF Command, Enters, Tried, Gives, Saves, Examines, ClearFails, Unlinks,
         Reports, TypeOK
<1>2. Reported(c)
  <2>1. CASE UNCHANGED said
    BY <2>1, OthersQuiet
  <2>2. CASE Gives(c) \/ ClearFails(c) \/ \E password \in Passwords : Enters(c, password)
    BY <2>2 DEF Gives, ClearFails, Enters, Reports, TypeOK, Reported
  <2>3. CASE Saves(c)
    BY <2>3, DirectoryAssumption DEF Saves, Reports, TypeOK, SecretInv, Reported
  <2>4. CASE Unlinks(c)
    BY <2>4 DEF Unlinks, Reports, TypeOK, Reported
  <2>5. CASE Examines(c)
    BY <2>5 DEF Examines, TypeOK, Reported
  <2> QED
    BY <2>1, <2>2, <2>3, <2>4, <2>5 DEF Command, Tried
<1> QED
  BY <1>1, <1>2, OthersQuiet

LEMMA StepReports ==
  ASSUME TypeOK, SecretInv, [Next]_vars
  PROVE  \A c \in Commands : Reported(c)
<1>1. CASE UNCHANGED said
  BY <1>1, OthersQuiet
<1>2. ASSUME NEW b \in Brokers, Process(b)
      PROVE  UNCHANGED said
  BY <1>2 DEF Process, TakeLock, Recovers, Submits, ServerEnds, Closes, Unlocks, Killed,
              commands
<1>3. ASSUME NEW b \in Brokers, Task(b)
      PROVE  UNCHANGED said
  BY <1>3 DEF Task, Asks, Tests, Unreadable, Starts, Refused, Started, Checks, Looks, Polls,
              Collects, Completes, Lost, commands
<1>4. CASE Arrives \/ CommandEnds \/ Changes \/ UNCHANGED vars
  BY <1>1, <1>4 DEF Arrives, CommandEnds, Changes, vars, commands
<1> QED
  BY <1>1, <1>2, <1>3, <1>4, CommandReports DEF Next, Process

\* With any number of commands at work, each report is of the step that made it.
THEOREM ReportsTrue == Spec => CommandsReport
<1>1. IInv /\ [Next]_vars => \A c \in Commands : Reported(c)
  BY StepReports DEF IInv
<1>2. IInv /\ [Next]_vars =>
        [\A c \in Commands : said[c] = "working" =>
           CASE said'[c] = "cleared" -> file # None /\ file' = None
             [] said'[c] = "nothing" -> file = None /\ file' = None
             [] said'[c] = "stored" -> file' # None
             [] OTHER -> TRUE]_<<said, file>>
  BY <1>1 DEF Reported
<1> QED
  BY <1>2, Invariance, PTL DEF Spec, CommandsReport

-----------------------------------------------------------------------------
(* The contract.                                                           *)

\* The contract's variables, for the one job.
Same == UNCHANGED <<record, ran, kept>>

LEMMA ContractStutter ==
  ASSUME Same
  PROVE  UNCHANGED Contract!contractVars
  BY DEF Same, Contract!contractVars

LEMMA ContractGiveUp ==
  ASSUME record \in Pending, record' = "unknown", UNCHANGED <<ran, kept>>
  PROVE  Contract!GiveUp(Jobs)
  BY DEF Contract!GiveUp, Contract!Pending, Pending, Jobs

LEMMA ContractVerdict ==
  ASSUME TypeOK, JobInv, NEW b \in Brokers, pc[b] # "none",
         \/ Verdict(b, "unknown")
         \/ /\ record = "starting" /\ ~ran
            /\ record' = "failed" /\ UNCHANGED <<ran, kept>>
  PROVE  Contract!Fail("job") \/ Contract!GiveUp(Jobs)
<1>1. CASE Verdict(b, "unknown")
  BY <1>1, ContractGiveUp DEF Verdict, JobInv, TaskInv
<1>2. CASE /\ record = "starting" /\ ~ran
           /\ record' = "failed" /\ UNCHANGED <<ran, kept>>
  BY <1>2 DEF Contract!Fail, Jobs
<1> QED
  BY <1>1, <1>2

\* The answer to sudo_access: a verdict, or the task goes on.
LEMMA ContractAccess ==
  ASSUME TypeOK, JobInv, NEW b \in Brokers, Asks(b) \/ Tests(b)
  PROVE  [Contract!ContractNext]_Contract!contractVars
<1>1. pc[b] \in {"ask", "test"} /\ TaskInv(b)
  BY DEF Asks, Tests, JobInv
<1>2. CASE Fails(b)
  <2>1. CASE mode[b] = "recover"
    BY <1>1, <1>2, <2>1, ContractVerdict DEF Fails, Contract!ContractNext, Jobs
  <2>2. CASE mode[b] # "recover"
    <3>1. /\ record = "starting" /\ ~ran
          /\ record' = "failed" /\ UNCHANGED <<ran, kept>>
      BY <1>1, <1>2, <2>2 DEF Fails, Verdict, TaskInv, TypeOK
    <3> QED
      BY <1>1, <3>1, ContractVerdict DEF Contract!ContractNext, Jobs
  <2> QED
    BY <2>1, <2>2
<1>3. CASE UNCHANGED job
  BY <1>3, ContractStutter DEF job, Same
<1> QED
  BY <1>2, <1>3 DEF Asks, Tests, SendsStored

LEMMA ContractTask ==
  ASSUME TypeOK, JobInv, NEW b \in Brokers, Task(b)
  PROVE  [Contract!ContractNext]_Contract!contractVars
<1>1. pc[b] # "none" /\ TaskInv(b)
  BY TaskScope DEF JobInv
<1> USE DEF Contract!ContractNext, Jobs
<1>2. CASE Asks(b) \/ Tests(b)
  BY <1>2, ContractAccess
<1>3. CASE Unreadable(b) \/ Checks(b) \/ Polls(b)
  BY <1>3, ContractStutter DEF Unreadable, Checks, Polls, job, Same
<1>4. CASE Starts(b)
  <2>1. record = "starting" /\ ~ran /\ ran' = TRUE /\ UNCHANGED <<record, kept>>
    BY <1>1, <1>4 DEF Starts, TaskInv
  <2>2. Contract!Run("job")
    BY <2>1 DEF Contract!Run
  <2> QED
    BY <2>2
<1>5. CASE Refused(b)
  BY <1>1, <1>5, ContractVerdict DEF Refused, TaskInv
<1>6. CASE Started(b)
  BY <1>1, <1>6 DEF Started, TaskInv, Contract!Track
<1>7. CASE Looks(b)
  <2>1. CASE Passes(copy[b]) /\ ran /\ ~done
    <3>1. ran /\ record' = "running" /\ UNCHANGED <<ran, kept>>
      BY <1>7, <2>1 DEF Looks
    <3>2. CASE record = "starting"
      BY <3>1, <3>2 DEF Contract!Track
    <3>3. CASE record = "running"
      BY <3>1, <3>3, ContractStutter DEF Same
    <3> QED
      BY <1>1, <3>2, <3>3 DEF TaskInv, Pending
  <2>2. CASE ~(Passes(copy[b]) /\ ran /\ ~done)
    BY <1>1, <1>7, <2>2, ContractVerdict DEF Looks
  <2> QED
    BY <2>1, <2>2
<1>8. CASE Collects(b)
  BY <1>1, <1>8 DEF Collects, TaskInv, Contract!Keep, Contract!Pending, Pending
<1>9. CASE Completes(b)
  BY <1>1, <1>9 DEF Completes, Verdict, TaskInv, Contract!Complete, Contract!Pending, Pending
<1>10. CASE Lost(b)
  <2>1. CASE mode[b] = "execute" /\ pc[b] \in {"ask", "test"}
    <3>1. /\ record = "starting" /\ ~ran
          /\ record' = "failed" /\ UNCHANGED <<ran, kept>>
      BY <1>1, <1>10, <2>1 DEF Lost, Verdict, TaskInv
    <3> QED
      BY <1>1, <3>1, ContractVerdict
  <2>2. CASE ~(mode[b] = "execute" /\ pc[b] \in {"ask", "test"})
    BY <1>1, <1>10, <2>2, ContractVerdict DEF Lost
  <2> QED
    BY <2>1, <2>2
<1> QED
  BY <1>2, <1>3, <1>4, <1>5, <1>6, <1>7, <1>8, <1>9, <1>10 DEF Task

LEMMA ContractStep ==
  ASSUME TypeOK, JobInv, [Next]_vars
  PROVE  [Contract!ContractNext]_Contract!contractVars
<1>1. ASSUME NEW b \in Brokers, Submits(b)
      PROVE  Contract!Accept("job")
  BY <1>1 DEF Submits, Contract!Accept, Jobs
<1>2. ASSUME NEW b \in Brokers, Process(b), ~Submits(b)
      PROVE  Same
  BY <1>2 DEF Process, TakeLock, Recovers, ServerEnds, Closes, Unlocks, Killed, job, Same
<1>3. ASSUME NEW c \in Commands, Command(c)
      PROVE  Same
  BY <1>3 DEF Command, Enters, Tried, Gives, Saves, Examines, ClearFails, Unlinks,
              Reports, job, Same
<1>4. CASE Arrives
  <2>1. wire # {} /\ UNCHANGED <<record, kept>> /\ record \notin {"none", "failed"}
    BY <1>4 DEF Arrives, JobInv
  <2>2. CASE ran' = ran
    BY <2>1, <2>2, ContractStutter DEF Same
  <2>3. CASE ran' # ran
    <3>1. ~ran /\ ran' = TRUE
      BY <1>4, <2>3 DEF Arrives, TypeOK
    <3>2. record \in {"starting", "unknown"}
      BY <2>1, <3>1 DEF TypeOK, JobInv, Pending
    <3>3. Contract!Run("job")
      BY <2>1, <3>1, <3>2 DEF Contract!Run, Jobs
    <3> QED
      BY <3>3 DEF Contract!ContractNext, Jobs
  <2> QED
    BY <2>2, <2>3
<1>5. CASE CommandEnds \/ Changes \/ UNCHANGED vars
  BY <1>5, ContractStutter DEF CommandEnds, Changes, vars, job, Same
<1>6. Same => [Contract!ContractNext]_Contract!contractVars
  BY ContractStutter
<1>7. ASSUME NEW b \in Brokers, Process(b)
      PROVE  [Contract!ContractNext]_Contract!contractVars
  BY <1>1, <1>2, <1>6, <1>7 DEF Contract!ContractNext, Jobs
<1>8. CASE UNCHANGED vars
  BY <1>5, <1>8
<1>9. CASE Next
  BY <1>3, <1>4, <1>5, <1>6, <1>7, <1>9, ContractTask DEF Next, Process
<1> QED
  BY <1>8, <1>9

\* The lock, the two looks at the password and the verdicts together implement
\* JobContract: no second broker and no change of a password breaks it.
THEOREM Refinement == Spec => OneBrokerContract
<1>1. Init => Contract!ContractInit
  BY DEF Init, Contract!ContractInit
<1>2. IInv /\ [Next]_vars => [Contract!ContractNext]_Contract!contractVars
  BY ContractStep DEF IInv
<1> QED
  BY <1>1, <1>2, Invariance, PTL DEF Spec, OneBrokerContract, Contract!ContractSpec
=============================================================================
