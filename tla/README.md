# Verification of tmuxgate

tmuxgate is a loopback MCP broker. It runs noninteractive commands on named
machines as tmux sessions reached over ordinary OpenSSH, keeps one durable JSON
record per job, and lets callers look at and type into existing tmux panes.
This directory holds TLA+ models of it, the TLC runs that check them on small
instances, and proofs, checked by TLAPS, for every size.

Paths are relative to the repository; `executor.py` is
`src/tmuxgate/executor.py` and so on.

## 1. Inventory

| Component | Source | State it keeps | Operations | Correct when |
|---|---|---|---|---|
| Execution service | `service.py` | tasks, a FIFO semaphore of three slots, `_closing`, `_pane_writers` | `start`, `run_argv`, `run_script`, pane calls, `close` | no slot is lost; an unfinished record has a task |
| Remote executor | `executor.py` | none: it advances one record | `stage`, `start`, `monitor`, `collect`, `cleanup`, `execute`, `recover`, `sudo_access` | a command runs at most once; a record tells the truth |
| Job store | `jobs.py` | one JSON record per job, two result files | `create`, `update`, `load`, `list`, `recoverable` | a record goes forward only; a complete record has its result |
| Remote wrapper | `assets/remote_job.sh` | the remote job directory | run, publish `exit-code`, `chown`, publish `done` | the marker comes after everything that it stands for |
| SSH helper | `ssh.py` | one child process per call | `run`, `_bounded_output`, `_stop` | no child outlives its call; a cancellation is not swallowed |
| Pane input | `pane_input.py`, `service.py` | `Dispatch` in memory, the writer scope | one guarded `send-keys` | the receipt is true, now and later |
| Pane inspection | `panes.py` | none | `list_panes`, `capture_pane` | the text is the named pane's |
| Durable files | `storage.py`, `windows_storage.py` | private files, the broker lock | `atomic_write`, `read_private`, `remove_private`, `broker_lock` | whole payloads only; a reported write stays |
| Sudo access, credentials | `executor.py`, `credentials.py` | password files | `sudo_access`, `save`, `read`, `clear` | a password that was tested is the one stored |
| Configuration, CLI, MCP surface | `config.py`, `cli.py`, `mcp.py` | none | parse, map calls and errors | |

How they interact. An MCP call becomes `ExecutionService._run`: it writes a
record `starting` and starts a task, which the caller only waits for. The task
waits for a slot and then runs `stage`, `start`, `monitor`, `collect`, each one
or more SSH commands. The caller may time out or go away meanwhile: a shield
keeps the task. The wrapper on the machine knows nothing of the broker;
the file `done` is their only signal. A restart of the broker reads unfinished
records and recovers each with questions: is it done, is its session there.
Pane calls, reads as well as writes, take slots of the same semaphore. The CLI's
`sudo set`, `sudo clear` and `jobs` are processes beside the broker that share
its state directory without its lock. `close` cancels the job tasks and
with them, through `ssh.run`, their local SSH children.

What is hard here:

- *Lost answers.* An SSH command may have had its effect, or may have it later,
  when its client is gone. Nothing may be started twice for that, and no record
  or receipt may say "did not happen" of what may still happen.
- *Crashes* between the writes of a collection, between two system calls of one
  write, and with commands on their way.
- *Cancellation* at every await, and a second one while the first is dealt with.
- *Shared slots*, which every way of ending has to give back once.
- *Two questions* whose answers are of different moments: is it done, is its
  session there; is the pane there, what are its rows, is it still there; which
  password, does sudo take it, which password now.
- *Other processes* on the state directory: a second broker, the CLI.

Every hazard is listed at its line in `PROJECT.json`, with the properties that
are about it.

## 2. Modules

| Module | Models | Composition |
|---|---|---|
| `JobContract` | what a record promises: forward only, `failed` excludes a run, `complete` has its outputs, one run | abstract |
| `JobLifecycle` | requests, slots, `execute`, `recover`, the machine's effects, shutdown, crash, restart | implements `JobContract` (`ImplementsContract`) |
| `SshPromise` | what those who call `ssh.run` build on: over only when the child is gone, unless stopped twice | abstract |
| `SshCall` | one `ssh.run`: launch, child, `_stop`, any number of cancellations | implements `SshPromise` (`KeepsPromise`) |
| `PaneReceipt` | what a write receipt promises | abstract |
| `PaneInput` | `_send_tmux_input` and `pane_input.send`: scope, slot, preflight, dispatch, deadline | implements `PaneReceipt` (`ReceiptsAreTrue`); its SSH children are those of `SshPromise` (`SshAsPromised`) |
| `PaneView` | what an answer about a pane promises | abstract |
| `PaneCapture` | `list_tmux_panes`, `capture_tmux_pane`: slot, inventory, frames, rows, second inventory | implements `PaneView` (`ViewsAreTrue`) |
| `Requests` | callers of `run_argv`, `run_script`, `get_job`, `list_jobs`, `tmuxgate jobs`: shield, timeout, lost client | extends `JobLifecycle`, and implements it (`CallersAside`) |
| `StateDirectory` | brokers that contend for the lock, `sudo_access`, `sudo set`, `sudo clear`, the passwords that these have in use | implements `JobContract` (`OneBrokerContract`) |
| `RemoteJob` | `remote_job.sh`, the command and what it leaves behind, poll, tar, saving and cleanup | each step is one of `JobLifecycle` (`StepsOfAJob`) |
| `DurableFile` | what a reader of a file may find, now and after a power loss | abstract |
| `AtomicFile` | `atomic_write` under errors, kills and power losses | implements `DurableFile` (`ImplementsDurable`) |
| `MC*` | the constants of the instances | |
| `*_proofs` | theorems | |

### JobLifecycle

One record (`state`, `code`, `created`, `saved`) and one machine side (`files`,
`session`, `runs`, `stray`) per job. `pc` is the command or the await a job's
task is at, `reply` the answer of its SSH command: `ok`, `no`, `fail` (another
exit status), `lost` (255), `killed` (the client ended by a signal). A step of
the broker runs from one await to the next and does everything the code does in
between; `Saving` splits `collect` at its three writes because a crash may fall
there, and `LoopIdle` keeps other tasks from running inside. `stray` holds the
commands whose client is gone and whose effect is still to come. `execute` and
`recover` share their actions; `mode` says which handler a failure reaches.
`Faults` chooses the failures of an instance: `disconnect`, `refuse`, `signal`,
`crash`, `spawn` (ssh or a credential cannot be had), `disk`, `alias` (missing after a
restart), `moved` (an alias that names another machine after a restart: the
job's task is then in mode `astray`, and asks a machine that has neither its
directory nor its session), `force` (requests during a forced shutdown).
`Mortal` jobs may lose their session, and their machine may stop to answer, with
a connection that hangs for good.

With `disk` a write of the record raises, before or after the record is in place
(the fsync of the directory comes last): a request whose `create` raises may leave a
record without a task (`SubmitUntracked`, which is also what a forced shutdown does),
and a task whose `update` raises may have written it (`Due`). An output whose write
raised counts as not saved. `pc` is `broken` where an exception ended the task, or
refused it, and `none` where there is none for another reason: the code does not
keep that difference, `NoOrphanRecord` is about it. No guard of a step depends on it.

Abstractions: the two SSH commands of `sudo_access` are one; a credential or
spawn error is an exception that is not an `ExecutionError`; error codes of sudo
are one code; a stage that was interrupted in the middle and one that was not
differ only in that the second may be started, and no start follows either; every
record can be read, which one that a kill between `link` and `unlink` left cannot
(section 5): no request was ever answered with it, and it counts as none; a
partly executed `start` of the broker is a crash right after it; records are
created at different times.

### SshCall

`pc` is the await: `launch` (the shielded one), `own` (`process = await launch`
in the handler), `talk`, `term` and `kill` (the two waits of `_stop`). `Cancel`
may happen at each. At `own` it cancels the launch itself, at `term` and `kill`
no handler is left. Python 3.11's `wait_for` drops a cancellation that comes
when its task is done. A child's pipes are taken to end with the child. Seen as
`SshPromise`, `launch` and `talk` are `open`, the other awaits `stopping`; an exceeded
limit counts as a stop like a cancellation. The wait for cancelled readers
(`ssh.py:114-117`) is part of the step before it: a cancellation there reaches the
same handler.

### PaneInput

`pc`: `waiting` for a slot, `listing`, `dispatching`, `late` (the deadline hit,
`ssh.run` stops its child), `cancelling` (the same for a cancellation), `excess`
(the same for an answer above `MAX_RESPONSE_BYTES`). `wire`
is the remote side of the current command and lives on when the call is over.
`process[p]` counts the respawns of a pane; a request names the process that its
caller discovered, now or earlier. `client[r]` is an SSH child not yet reaped.
`SshCall` is the reason for `hits`: one hit is cleaned up, a second ends the
call at once, also when the first was the excess (but for the cancellation that
`wait_for` drops, which leaves the excess to be told). That the two modules agree on
this is what `SshPromise` is for: the one keeps it, the other needs no more. The
semaphore's order and validation of the text are left out.

### PaneCapture

`place` is where the pane with the named ID is: as named, in another window,
closed, or without a server; `linked`, whether its window is in the named
session; `server` counts restarts, after which the same IDs are given out again
to others. The world changes them, the height and the history at any moment.
`pc` is the read a call is at (`first`, `capture`, `second`), `wire` what the
machine has answered, `rows` the rows that `capture-pane -S -E` yields, counted
from the oldest one there is. The arithmetic of the window is the code's, the
clipping to what exists is tmux's. `Faults` are the answers on which the code
takes its own branch (255, 127, too long, another status, unparsable).

### Requests

`waiting` is who awaits a task, `result` what the finished task's future holds
until the loop runs the caller, `told` the last state that any reader was given.
Every step of `JobLifecycle` is conjoined with what it does to these. A caller
acts between two awaits of the broker, where `LoopIdle` holds.

### StateDirectory

A process of `tmuxgate serve` goes from `off` over `locked`, `up`, `closing` and
`closed` to `off`, or is killed. Its one job keeps the steps between which a
password is read or another process may come. `secret` is what the machine's sudo
wants at the moment, None under NOPASSWD; `accepted` every password that it took
in a test. `copy` is the password that a process's ssh call carries and `typed` what
a command was given, as values and not as memory. `file` is the
credential; `remove_private` reads it and unlinks in two steps. An ssh call that
changes nothing on the machine is one step.

### RemoteJob

The wrapper step by step, from the subshell to the last `mv`; it may die or be
killed at each. The command may leave a process behind. `tar` reads the outputs
as they are, then `exit-code`; then the outputs and the record are saved, and the
directory goes. `Job` shows it to `JobLifecycle` as one job under a broker that stays
up: nothing is published there before `Finish`, which is its `PublishDone`; `Poll` is
its `CompletionSeen`, and the outputs are saved and the directory removed in its order.

### AtomicFile

One path. `names` is what the directory holds, `safe`, `loose` and `unsure` what
of it survives a power loss: of the names changed since the last directory
fsync any part may be kept, a rename as a whole. Contents that were not fsynced
are kept or not. `entry` is the directory's own name in its parent: `jobs/` and
`sudo/` are there for good, `results/<job-id>/` is made by the job and nothing
fsyncs `results/` afterwards. With `nt` the call is the one of
`windows_storage.py`: one write-through `MoveFileEx`, exclusive or not, in place
of link, unlink, rename and the fsync of the directory. That its rename is durable
when it returns is what Windows documents of that flag, taken as given.
For a reader it is `DurableFile`: `found` is what `read_private` takes at the moment,
`spare` what a power loss may leave of it, `promised` the last payload whose call
returned, forgotten only with the directory.

## 3. Runs

Deadlock checking is on in `state_directory`, where the machine's administrator
may always do something, and off in the others: a job that is settled, a call
that is over and a broker that is not started again may rest.

| Run | Instance | Shows |
|---|---|---|
| `job_faults` | 2 jobs (one sudo, one mortal), 1 slot, 2 broker processes, every fault but a killed client | `AtMostOneRun`, `ResultNeverLost`, `FailedNeverRan`, `SlotsConserved`, `NoOrphanRecord`, `ImplementsContract` |
| `job_liveness` | 2 jobs, 1 slot, 2 broker processes; disconnect, killed client, crash | `EveryJobSettles` |
| `job_dead_session` | 3 jobs, 2 slots, one mortal | `EveryJobSettles` for the others: a dead session or a machine that hangs costs its slot only |
| `requests` | 2 jobs, one with a timeout, 1 slot, 2 broker processes, a restart reads 1 record; spawn, force, crash; machines owe nothing | `AnswersStand`, `NobodyForgotten`, `NoOrphanRecord`, `AnswersForward`, `CallersAside`; `TimedAnswered` |
| `state_directory` | 2 brokers, 2 commands, 2 passwords, each up to symmetry | `TasksUnderLock`, `StoredWasAccepted`, `OneBrokerContract`, `CommandsReport` |
| `ssh_cancels` | up to 3 cancellations | `OneStopReaps`, `ReportedMeansReaped`, `CancelNotSwallowed`, `KeepsPromise`; `StoppedCallEnds` |
| `pane_faults` | 2 writes to one pane, 1 slot shared with jobs, a respawn, 2 hits each | `OneWriter`, `SlotsKept`, `ScopeCoversChild`, `ReceiptsAreTrue`, `SshAsPromised`; `EveryCallEnds` |
| `pane_capture` | 1 call, 1 slot shared with jobs, 2 rows asked for, up to 3 rows and 2 of history, a restart of the server | `LastLines`, `ViewsAreTrue`; `EveryCallEnds` |
| `remote_publish` | user and root job, up to 3 pieces of output | `NeverDenied`, `CollectedWhole`, `StepsOfAJob` |
| `file_crash` | 4 writes, both kinds of directory, both systems | `NeverTorn`, `AckedDurable`, `UpdatesReadable`, `ImplementsDurable` |
| `job_missed_marker`, `job_killed_client` | one job | a disagreement each, see section 5 |

Beside each property stands a mutated form of an action (`...Unguarded`,
`...Holding` and the like, commented "Mutated form of"), a bug one could write in
that code, under which the same run finds the property violated.

Why the bounds are enough. Two jobs show what one does to another through the
slots; more add waiters only, and three on two slots are in `job_dead_session`.
Two broker processes let a command of the first arrive while the second
recovers the job, or after it has settled it; a third would recover what the second
did. Two hits are two of a deadline, a cancellation and an answer too long; a third
finds no handler that a second would not. Two writes to one pane never hold slots
together, so that one slot shows what jobs do to them. One respawn is enough to make a request stale,
or to make a stale one right by accident of pid, which `named` excludes. Four
writes are a record's create and updates. One reader of panes: calls meet only in
the queue for a slot, which jobs stand for. Three rows and two of history make
screens lower than, as high as and higher than what is asked for, and resizes of
each kind between the reads. Two brokers and two commands contend for the lock and
for the file; a third of a kind would meet one that is already there. With two
passwords and none at all, the one that is stored, the one that is entered and the
one that sudo wants can be different or not. The instances are small because the
theorems of section 4 cover every size; the runs find what is wrong first, and
liveness only they show. `RecoverLimit` is 1000 in the code; with 2 jobs and a limit of
1, in `requests`, a restart leaves the older one behind.

Fairness. `JobLifecycle`: asyncio runs a ready task, an open SSH command is
answered or its client ends (but for `Mortal` jobs), a command ends and the wrapper goes on, a stopped
broker is started again while the bound allows it. No failure is owed. `SshCall`:
the event loop runs, process creation ends, a timer fires, SIGKILL works, a dead
child is waited for; no remote command need end. `PaneInput`: only the deadline,
the end of a stopped child, and the event loop; no slot need become free, no
answer come. `PaneCapture`: the same, the deadline and the end of a stopped child.
`Requests`: the timer of a request and the loop; no machine need answer, no slot
become free. `StateDirectory` states no liveness. What this leaves out is in section 6.

## 4. Theorems

Nearly all leaves are within the provers' default time; together they take a few
minutes.

`JobLifecycle_proofs`, for any set of jobs, slots, limits and faults:

- `TypeCorrect`, `OneRun` (`AtMostOneRun`), `ResultKept` (`ResultNeverLost`),
  `SlotsKept` (`SlotsConserved`): under every fault. The
  inductive invariant says at each point of a task what its record and the
  machine may be: before `start` is answered nothing has run and no start is on
  its way from elsewhere; once a start may be out, no other can be sent; outputs
  are saved before the record is complete and `cleanup` comes only after.
- `FailedIsFinal` (`FailedNeverRan`), `Refinement` (`ImplementsContract`): where
  `signal` is not a fault. The assumption is needed: `job_killed_client`.
- `NoOrphans` (`NoOrphanRecord`): under every fault and for every `RecoverLimit`, with
  no assumption. The code does leave unfinished records without a task, and the
  theorem says which: those whose task an exception ended or refused in this process,
  until the next restart, and those behind at least `RecoverLimit` newer records. The
  argument is that a record once behind stays behind, since records are only added and
  keep their time, and that every other end of a task writes a verdict.

`Requests_proofs`, for any jobs, timeouts and faults: `Aside` (`CallersAside`),
`CallerTypeCorrect`, `Awaited` (`NobodyForgotten`), `Stand` (`AnswersStand`),
`Forward` (`AnswersForward`). `Aside` makes every invariant of `JobLifecycle`
hold with callers; on top of them, a caller that waits has a task or its end, what a
future holds is what the record says, and what was told is no newer than it.
`AnswersStand` needs no assumption on the faults: a settled record is never
written again.

`StateDirectory_proofs`, for any numbers of brokers, commands and passwords:
`TypeCorrect`, `LockHolds` (`TasksUnderLock`), `OnlyTested`
(`StoredWasAccepted`), `ReportsTrue` (`CommandsReport`), `Refinement`
(`OneBrokerContract`). The invariant has three parts: a process that is not off has the lock; each password in use was tested
or is under test, at the steps that need it; and the record, seen from the one
task there can be, says before the start that nothing ran or is on its way.

`SshCall_proofs`, for any number of cancellations: `TypeCorrect`, `OneStop`, `Reaped`,
`NotSwallowed`, `Refinement` (`KeepsPromise`). The invariant ties the await to the
child: at `talk`, `term` and `kill` the launch has made one, and a call that is over
has left one only if it was stopped twice.

`PaneInput_proofs`, for any finite set of calls, panes, slots and bounds:
`TypeCorrect`, `SlotsConserved`, `OneWriterAtATime`, `ScopeCovers`,
`ReceiptsTold`, `ChildrenAsPromised` (`SshAsPromised`). The last two are
refinements; their invariant says what a call may
have told and where its command may be: before `started` no keys can be on
their way, `accepted` means all keys were given, and what was told `not_sent`
has no command in flight. With `Refinement` of `SshCall_proofs` the chain from the
scope of a pane to the SSH child is closed: every step that a pane call takes with its
child is one of `SshPromise`, and `ssh.run` takes no others.

`PaneCapture_proofs`, for any finite set of calls, any screen, history, number of
rows, slots and restarts: `TypeCorrect`, `SlotsConserved`, `Texts`
(`LastLines`), `ViewsTold` (`ViewsAreTrue`). The invariant: a call past its
capture has the rows of the screen that it then found, cut with the height of its
first inventory; only a call that is over has told anything.

`RemoteJob_proofs`, for any output: `TypeCorrect`, `MarkerSuffices`, `NothingLost`,
`Composition` (`StepsOfAJob`). The invariant orders the
wrapper's steps: past `publish` the exit code is whole, past `chown` the files
are the user's, and `done` is past both. The composition is of steps: the wrapper
starts where `JobLifecycle` has a running job, a reachable state of it and not its
first, so that every step is one of `JobLifecycle!Next` or concerns nothing it sees.

`AtomicFile_proofs`, for any number of writes: `TypeCorrect`, `WholePayloads`, `Durable`,
`UpdatesSafe`, `Refinement` (`ImplementsDurable`). The invariant: everything that may be found at the path now or
after a power loss was fsynced, is no older than the last acknowledged write,
and has, or can get back, a second name only if it was never acknowledged.

The type invariants are proved (`TypeCorrect` of each module) and are in no run. What stays only model-checked is liveness
(`EveryJobSettles`, `TimedAnswered`, `StoppedCallEnds`, the two `EveryCallEnds`), which
is out of this prover's reach, and the two violations. Proofs need no assumption on
the constants but the named ones of the modules, which every run evaluates.

## 5. Where the code and its documents disagree

With a run:

1. `job_missed_marker`: `recover` asks for `done` and then for the session
   (`executor.py:469`, `471`). A job that finishes between the two is recorded
   `unknown` with its marker and result on the machine, and never collected.
2. `job_killed_client`: only exit status 255 counts as possibly started
   (`executor.py:256-258`). A client killed by a signal makes the record
   `failed` of a job that runs.

Without a run of their own:

- `recoverable` filters the newest 1000 records (`jobs.py:174`); an older
  unfinished job is never recovered, where `README.md:232-234` has a startup deal with
  every job. `NoOrphanRecord` states what holds, and `requests` reaches the case.
- A second cancellation during `_stop` or `await launch` leaves the SSH child
  behind (`ssh.py:73`, `127`); `README.md:122` says that a
  cancellation reaps it. Named
  as an invariant of `ssh_cancels`, `NoChildLeft` is violated; `OneStopReaps` is
  what holds.
- A kill between `link` and `unlink` (`storage.py:58-59`) leaves a record with two
  links, which `read_private` refuses for good; `docs/ARCHITECTURE.md:165-166`
  calls the publication atomic. `UpdatesReadable` is about the other writes.
- A file that is replaced between the `open` and the `fstat` of `read_private` has no
  link any more (`storage.py:31-38`) and is refused, by a `sudo set` under way to
  a job's task, which then ends with its record `starting` or `running`
  (`Unreadable` in `StateDirectory`), or by an update to `tmuxgate jobs`.
- On a machine with NOPASSWD `sudo set` stores whatever was entered: sudo takes
  any password there (`cli.py:127-128`, `executor.py:172-183`), and `README.md:268`
  says that it is tested. `StoredWasAccepted` says what holds: sudo let it through.
- A password that sudo refuses when recovery looks for a session is a session that
  is not there: a root job that runs is recorded `unknown` for it (`Looks`).
- A collection that fails during recovery is recorded `unknown`
  (`executor.py:492-499`); `docs/ARCHITECTURE.md:216` says `failed`.
- A pane call that is hit a second time gives back its scope before its SSH
  child is gone (`service.py:246`, by way of 4); `README.md:186-187` says it owns
  the scope until cleanup finishes. `ScopeCoversChild` states what holds.
- `results/<job-id>` is never synced into `results/` (`jobs.py:101`). By what
  POSIX promises a power loss may take the whole directory of a complete job.
  `AckedDurable` excepts exactly that.
- A process that the command leaves in the background may write after `done`
  (`remote_job.sh:17`); `README.md:220` calls the output final.
  `CollectedWhole` states what holds: everything until the command's end.
- `monitor` polls for `done` only: a job whose session died holds its slot until
  a restart, and as many such jobs as slots stop all others.

## 6. Not modelled

- `ensure_directory` but for the entry that it makes, owners and modes; the checks
  of a record's fields.
- Windows but for `atomic_write`: handles, ACLs, reparse points and the lock by
  `msvcrt` are calls whose promises are the system's.
- The bearer check and configuration: stateless. The MCP surface is the callers of
  `Requests`, `PaneCapture` and `PaneInput`; how it words a result is left out.
  The systemd unit, packaging and CI are not code of the broker.
- Rendering of `run.sh`, validation of requests, parsing of tmux's and sudo's
  output, `terminal_text`: data that no property here tells apart. What the parsers
  reject is a fault of the models.
- Passwords as memory. The buffers are overwritten in a `finally` each
  (`credentials.py:58`, `executor.py:156`, `cli.py:127`), which is what
  `docs/ARCHITECTURE.md:254-256` and `docs/WINDOWS.md:98` promise of them; the immutable
  copies beside them (`credentials.py:29`, `43`, `cli.py:120-121`) never are.
- Liveness of a job whose connection hangs: no SSH call of a job has a timeout, so
  there is none. `job_dead_session` and `requests` show that others go on.
- The order in which two writes to one pane arrive when the first was told
  `unknown`: `README.md` excludes it, and `PaneReceipt` allows it.
- PID reuse; a destination that is changed between two starts.

## 7. Plan

Done, in this order: the job lifecycle and its contract, the SSH call, pane
input and its receipt, the remote wrapper, durable files; callers, pane captures
and their promise, the state directory with its lock and passwords; the proofs of
each; and how they compose: the wrapper and its collection take steps of
`JobLifecycle`, `AtomicFile` implements `DurableFile`, pane input and `SshCall` meet
at `SshPromise`.

Next:

1. `StateDirectory` with several jobs, so that it refines `JobLifecycle` and not
   only `JobContract`; the records of `JobLifecycle` as files of `DurableFile`, one
   each, and the stops of `PaneCapture` as those of `SshPromise`.
2. Pure functions against a reference: `_read_result_archive`, `parse_panes`,
   `_sudo_failure`, `_requires_tty`.
3. `ensure_directory` with owners and modes, and the Windows lock.
