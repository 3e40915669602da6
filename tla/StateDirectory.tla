-------------------------- MODULE StateDirectory --------------------------
(***************************************************************************)
(* The processes that share one state directory: brokers that contend for  *)
(* broker.lock (storage.py, cli.py serve), and the commands sudo set and   *)
(* sudo clear, which take no lock.  A broker has one job with sudo=true;   *)
(* of its life only the steps between which a password is read or another  *)
(* broker may come are kept, JobLifecycle has the others.                  *)
(*                                                                         *)
(* Of a machine and its sudo: secret is the password it wants, None while  *)
(* it wants none.  An ssh call that changes nothing there is one step.     *)
(* copy and typed are the values in use, not the memory that holds them.   *)
(***************************************************************************)
CONSTANTS Brokers,    \* processes of tmuxgate serve
          Commands,   \* processes of tmuxgate sudo set and sudo clear
          Passwords,
          None

ASSUME DirectoryAssumption == /\ None \notin Passwords \cup Brokers
                              /\ Brokers \cap Commands = {}

VARIABLES
  at,        \* where a broker's process is
  lock,      \* the broker that has the flock on broker.lock
  pc, mode,  \* its task of the job, executing or recovering it
  record,    \* the job's state, "none" while there is no record
  ran, done, \* the command was started; its completion marker exists
  kept,      \* its outputs are in the state directory
  wire,      \* what start commands without a client carry for sudo
  file,      \* the stored password
  secret,    \* what the machine's sudo wants
  accepted,  \* the passwords that it took in a test (history)
  doing,     \* a command's next step
  typed,     \* the password it was given and may still save
  copy,      \* the password that a process's ssh call carries, None without
  said       \* what a command reported, "nothing" before

brokers  == <<at, lock>>
tasks    == <<pc, mode>>
job      == <<record, ran, done, kept, wire>>
machine  == <<secret, accepted>>
commands == <<doing, typed, said>>
vars     == <<brokers, tasks, job, machine, commands, file, copy>>

Processes == Brokers \cup Commands
Stored    == Passwords \cup {None}
Pending   == {"starting", "running"}
WithCopy  == {"test", "start", "started", "session"}   \* its ssh has a password
Access    == {"ask"} \cup WithCopy
Places    == {"check", "poll", "collect", "saved"} \cup Access

TypeOK == /\ at \in [Brokers -> {"off", "locked", "up", "closing", "closed"}]
          /\ lock \in Brokers \cup {None}
          /\ pc \in [Brokers -> {"none"} \cup Places]
          /\ mode \in [Brokers -> {"execute", "recover"}]
          /\ record \in {"none", "complete", "failed", "unknown"} \cup Pending
          /\ {ran, done, kept} \subseteq BOOLEAN
          /\ wire \subseteq Stored
          /\ {file, secret} \subseteq Stored
          /\ accepted \subseteq Passwords
          /\ doing \in [Commands -> {"idle", "test", "save", "unlink"}]
          /\ typed \in [Commands -> Stored]
          /\ copy \in [Processes -> Stored]
          /\ said \in [Commands -> {"working", "nothing", "refused", "stored", "cleared"}]

Init == /\ at = [b \in Brokers |-> "off"] /\ lock = None
        /\ pc = [b \in Brokers |-> "none"] /\ mode = [b \in Brokers |-> "execute"]
        /\ record = "none" /\ ran = FALSE /\ done = FALSE /\ kept = FALSE
        /\ wire = {}
        /\ file = None /\ secret \in Stored /\ accepted = {}
        /\ doing = [c \in Commands |-> "idle"]
        /\ typed = [c \in Commands |-> None]
        /\ copy = [x \in Processes |-> None]
        /\ said = [c \in Commands |-> "nothing"]

\* sudo lets a command through that carries this password, or none.
Passes(password) == secret \in {None, password}

-----------------------------------------------------------------------------
(* A broker's process.                                                     *)

Moves(b, from, to) == at[b] = from /\ at' = [at EXCEPT ![b] = to]

\* The task sends its next ssh call, with this password on its stdin.
Sends(b, place, password) == /\ pc' = [pc EXCEPT ![b] = place]
                             /\ copy' = [copy EXCEPT ![b] = password]
                             /\ UNCHANGED mode

\* The task is gone.  A start that is on its way may still arrive.
Drops(b) == /\ pc' = [pc EXCEPT ![b] = "none"]
            /\ mode' = [mode EXCEPT ![b] = "execute"]
            /\ copy' = [copy EXCEPT ![b] = None]
            /\ wire' = IF pc[b] = "start" THEN wire \cup {copy[b]} ELSE wire

\* Mutated form of TakeLock: a shared lock.
TakeLockShared(b) ==
  /\ Moves(b, "off", "locked")
  /\ lock' = b
  /\ UNCHANGED <<tasks, job, machine, commands, file, copy>>

\* broker_lock: whoever finds it held leaves, before any recovery.
TakeLock(b) ==
  /\ lock = None
  /\ Moves(b, "off", "locked")
  /\ lock' = b
  /\ UNCHANGED <<tasks, job, machine, commands, file, copy>>

\* ExecutionService.start: an unfinished record is recovered.
Recovers(b) ==
  /\ Moves(b, "locked", "up")
  /\ IF record \in Pending THEN /\ pc' = [pc EXCEPT ![b] = "check"]
                                /\ mode' = [mode EXCEPT ![b] = "recover"]
                           ELSE UNCHANGED tasks
  /\ UNCHANGED <<lock, job, machine, commands, file, copy>>

Submits(b) ==
  /\ at[b] = "up"
  /\ record = "none"
  /\ record' = "starting"
  /\ Sends(b, "ask", None)
  /\ UNCHANGED <<brokers, ran, done, kept, wire, machine, commands, file>>

\* Mutated form of ServerEnds: the lock is let go before the tasks are cancelled.
ServerEndsUnlocked(b) ==
  /\ Moves(b, "up", "closing")
  /\ lock' = None
  /\ UNCHANGED <<tasks, job, machine, commands, file, copy>>

\* server.serve() is on its way out; the tasks go on meanwhile.
ServerEnds(b) ==
  /\ Moves(b, "up", "closing")
  /\ UNCHANGED <<lock, tasks, job, machine, commands, file, copy>>

Closes(b) ==
  /\ Moves(b, "closing", "closed")
  /\ Drops(b)
  /\ UNCHANGED <<lock, record, ran, done, kept, machine, commands, file>>

Unlocks(b) ==
  /\ Moves(b, "closed", "off")
  /\ lock' = None
  /\ UNCHANGED <<tasks, job, machine, commands, file, copy>>

\* The system closes the descriptor of a process that is gone.
Killed(b) ==
  /\ at[b] # "off"
  /\ at' = [at EXCEPT ![b] = "off"]
  /\ lock' = IF lock = b THEN None ELSE lock
  /\ Drops(b)
  /\ UNCHANGED <<record, ran, done, kept, machine, commands, file>>

-----------------------------------------------------------------------------
(* The job's task: sudo_access, start, session_running, recover.           *)

Verdict(b, state) == /\ record' = state
                     /\ Drops(b)
                     /\ UNCHANGED <<ran, done, kept>>

\* What an ExecutionError makes of the record.
Fails(b) == Verdict(b, IF mode[b] = "recover" THEN "unknown" ELSE "failed")

\* What access was asked for: to start the session, or to look for it.
Purpose(b) == IF mode[b] = "execute" THEN "start" ELSE "session"

\* _run_with_sudo_password reads the stored password each time it is called.
SendsStored(b, place) ==
  IF file = None THEN Fails(b) ELSE Sends(b, place, file) /\ UNCHANGED job

\* sudo -n true.
Asks(b) ==
  /\ pc[b] = "ask"
  /\ IF Passes(None) THEN Sends(b, Purpose(b), None) /\ UNCHANGED job
                     ELSE SendsStored(b, "test")
  /\ UNCHANGED <<brokers, machine, commands, file>>

\* sudo -S true, and for what follows the password is read again.
Tests(b) ==
  /\ pc[b] = "test"
  /\ IF Passes(copy[b])
     THEN SendsStored(b, Purpose(b)) /\ accepted' = accepted \cup {copy[b]}
     ELSE Fails(b) /\ UNCHANGED accepted
  /\ UNCHANGED <<brokers, secret, commands, file>>

\* The stored password cannot be read, because sudo set replaces it between the
\* open and the fstat of read_private for one: no ExecutionError, the task ends.
Unreadable(b) ==
  /\ \/ pc[b] = "ask" /\ ~Passes(None)
     \/ pc[b] = "test" /\ Passes(copy[b])
  /\ Drops(b)
  /\ UNCHANGED <<brokers, record, ran, done, kept, machine, commands, file>>

\* sudo tmux new-session: it is tried with what was read before.
Starts(b) ==
  /\ pc[b] = "start" /\ Passes(copy[b])
  /\ ran' = TRUE
  /\ pc' = [pc EXCEPT ![b] = "started"]
  /\ UNCHANGED <<brokers, mode, record, done, kept, wire, machine, commands, file, copy>>

\* sudo_job_start_failed: what was true when it was tested is not any more.
\* The command has ended, nothing of it is left on its way.
Refused(b) ==
  /\ pc[b] = "start" /\ ~Passes(copy[b])
  /\ record' = "failed"
  /\ Sends(b, "none", None)
  /\ UNCHANGED <<brokers, ran, done, kept, wire, machine, commands, file>>

Started(b) ==
  /\ pc[b] = "started"
  /\ record' = "running"
  /\ Sends(b, "poll", None)
  /\ UNCHANGED <<brokers, ran, done, kept, wire, machine, commands, file>>

\* recover: no marker, so access for has-session is asked for.
Checks(b) ==
  /\ pc[b] = "check"
  /\ Sends(b, IF done THEN "collect" ELSE "ask", None)
  /\ UNCHANGED <<brokers, job, machine, commands, file>>

\* has-session; a password that is refused here looks like a session that is
\* not there.
Looks(b) ==
  /\ pc[b] = "session"
  /\ IF Passes(copy[b]) /\ ran /\ ~done
     THEN /\ record' = "running"
          /\ Sends(b, "poll", None)
          /\ UNCHANGED <<ran, done, kept, wire>>
     ELSE Verdict(b, "unknown")
  /\ UNCHANGED <<brokers, machine, commands, file>>

Polls(b) ==
  /\ pc[b] = "poll" /\ done
  /\ Sends(b, "collect", None)
  /\ UNCHANGED <<brokers, job, machine, commands, file>>

Collects(b) ==
  /\ pc[b] = "collect"
  /\ kept' = TRUE
  /\ Sends(b, "saved", None)
  /\ UNCHANGED <<brokers, record, ran, done, wire, machine, commands, file>>

Completes(b) ==
  /\ pc[b] = "saved"
  /\ Verdict(b, "complete")
  /\ UNCHANGED <<brokers, machine, commands, file>>

\* ssh loses the connection; of a start nobody knows whether it arrives.
Lost(b) ==
  /\ pc[b] \in Access \cup {"check", "poll"}
  /\ Verdict(b, IF mode[b] = "execute" /\ pc[b] \in {"ask", "test"} THEN "failed"
                                                                  ELSE "unknown")
  /\ UNCHANGED <<brokers, machine, commands, file>>

Task(b) == \/ Asks(b) \/ Tests(b) \/ Unreadable(b) \/ Starts(b) \/ Refused(b)
           \/ Started(b) \/ Checks(b) \/ Looks(b) \/ Polls(b) \/ Collects(b)
           \/ Completes(b) \/ Lost(b)

-----------------------------------------------------------------------------
(* sudo set and sudo clear.                                                *)

Does(c, place) == doing' = [doing EXCEPT ![c] = place]

\* A command ends and has no more use for a password.
Reports(c, what) == /\ Does(c, "idle")
                    /\ typed' = [typed EXCEPT ![c] = None]
                    /\ copy' = [copy EXCEPT ![c] = None]
                    /\ said' = [said EXCEPT ![c] = what]
                    /\ UNCHANGED <<brokers, tasks, job, secret>>

\* getpass, and the test with a copy of what was entered.
Enters(c, password) ==
  /\ doing[c] = "idle"
  /\ Does(c, "test")
  /\ typed' = [typed EXCEPT ![c] = password]
  /\ copy' = [copy EXCEPT ![c] = password]
  /\ said' = [said EXCEPT ![c] = "working"]
  /\ UNCHANGED <<brokers, tasks, job, machine, file>>

\* Mutated form of Tried: what was entered is saved, whatever sudo said.
TriedAnyhow(c) ==
  /\ doing[c] = "test"
  /\ Does(c, "save")
  /\ copy' = [copy EXCEPT ![c] = None]
  /\ UNCHANGED <<brokers, tasks, job, machine, file, typed, said>>

\* sudo took it.
Tried(c) ==
  /\ doing[c] = "test" /\ Passes(copy[c])
  /\ accepted' = accepted \cup {copy[c]}
  /\ Does(c, "save")
  /\ copy' = [copy EXCEPT ![c] = None]
  /\ UNCHANGED <<brokers, tasks, job, secret, file, typed, said>>

\* sudo refused it, ssh failed, the file cannot be written.
Gives(c) ==
  /\ doing[c] \in {"test", "save"}
  /\ Reports(c, "refused")
  /\ UNCHANGED <<accepted, file>>

Saves(c) ==
  /\ doing[c] = "save"
  /\ file' = typed[c]
  /\ Reports(c, "stored")
  /\ UNCHANGED accepted

\* remove_private reads the file, to see whether it is one to remove, ...
Examines(c) ==
  /\ doing[c] = "idle"
  /\ said' = [said EXCEPT ![c] = IF file = None THEN "nothing" ELSE "working"]
  /\ Does(c, IF file = None THEN "idle" ELSE "unlink")
  /\ UNCHANGED <<brokers, tasks, job, machine, file, typed, copy>>

\* clear: the file cannot be read, is not one that read_private takes, or cannot
\* be unlinked.
ClearFails(c) ==
  /\ doing[c] \in {"idle", "unlink"}
  /\ Reports(c, "refused")
  /\ UNCHANGED <<accepted, file>>

\* Mutated form of Unlinks: unlink(missing_ok=True).
UnlinksAny(c) ==
  /\ doing[c] = "unlink"
  /\ file' = None
  /\ Reports(c, "cleared")
  /\ UNCHANGED accepted

\* ... and unlinks what has its name by then.
Unlinks(c) ==
  /\ doing[c] = "unlink"
  /\ file' = None
  /\ Reports(c, IF file = None THEN "nothing" ELSE "cleared")
  /\ UNCHANGED accepted

Command(c) == \/ \E password \in Passwords : Enters(c, password)
              \/ Tried(c) \/ Gives(c) \/ Saves(c) \/ Examines(c)
              \/ ClearFails(c) \/ Unlinks(c)

-----------------------------------------------------------------------------
(* The machine.                                                            *)

Arrives ==
  /\ \E password \in wire :
       /\ wire' = wire \ {password}
       /\ ran' = (ran \/ Passes(password))
  /\ UNCHANGED <<brokers, tasks, record, done, kept, machine, commands, file, copy>>

CommandEnds ==
  /\ ran /\ ~done
  /\ done' = TRUE
  /\ UNCHANGED <<brokers, tasks, record, ran, kept, wire, machine, commands, file, copy>>

\* Its administrator gives the account another password, or NOPASSWD.
Changes ==
  /\ secret' \in Stored
  /\ UNCHANGED <<brokers, tasks, job, accepted, commands, file, copy>>

Next == \/ \E b \in Brokers :
             \/ TakeLock(b) \/ Recovers(b) \/ Submits(b) \/ ServerEnds(b)
             \/ Closes(b) \/ Unlocks(b) \/ Killed(b) \/ Task(b)
        \/ \E c \in Commands : Command(c)
        \/ Arrives \/ CommandEnds \/ Changes

Spec == Init /\ [][Next]_vars

-----------------------------------------------------------------------------
(* Properties.                                                             *)

\* Only the broker that has the lock works on jobs, up to the last step of its
\* last task; and the lock never outlives its process (README: "holds a process
\* lock on its state directory before recovery", "a crash releases the lock").
TasksUnderLock ==
  /\ \A b \in Brokers : pc[b] # "none" => lock = b
  /\ lock # None => at[lock] # "off"

\* What is stored was accepted by the machine's sudo once (README: "`sudo set`
\* tests the entered value before saving it"), and so was each password that a
\* job sends to start its command.
StoredWasAccepted ==
  /\ file # None => file \in accepted
  /\ \A b \in Brokers : copy[b] # None => copy[b] \in accepted

Jobs == {"job"}

Contract == INSTANCE JobContract WITH
              status <- [j \in Jobs |-> record],
              ran <- [j \in Jobs |-> ran],
              kept <- [j \in Jobs |-> kept]

\* Whoever restarts a broker, and whatever happens to the password between the
\* test and the start, the record keeps the contract of JobContract: two brokers
\* never write one record, "failed" excludes that the command ran.
OneBrokerContract == Contract!ContractSpec

\* Commands without a lock between them report what they did: a password that was
\* there is cleared by the one command that says so, also when another stored or
\* cleared it since it looked.
CommandsReport ==
  [][\A c \in Commands : said[c] = "working" =>
       CASE said'[c] = "cleared" -> file # None /\ file' = None
         [] said'[c] = "nothing" -> file = None /\ file' = None
         [] said'[c] = "stored" -> file' # None
         [] OTHER -> TRUE]_<<said, file>>
=============================================================================
