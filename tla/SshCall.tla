------------------------------ MODULE SshCall ------------------------------
(***************************************************************************)
(* One call of ssh.run: a local OpenSSH child is created by a task of its  *)
(* own (launch), talked to, and stopped when the caller is cancelled or    *)
(* its output exceeds the limit.  Cancellations may arrive at every await, *)
(* more than once: a deadline, a client that goes away, a shutdown.        *)
(*                                                                         *)
(* External: the event loop's subprocess support (asyncio) and the child.  *)
(***************************************************************************)
EXTENDS Naturals

CONSTANT MaxCancels       \* bound: cancellations in one call

ASSUME CallAssumption == MaxCancels \in Nat

VARIABLES
  pc,        \* the await the caller is at, or how the call ended
  ending,    \* what is raised once _stop is done
  launch,    \* the task that creates the child
  child,     \* "exited" is a child not yet waited for
  signals,   \* what was sent to the child
  bounded,   \* an output_limit was given
  stubborn,  \* the child does not end on SIGTERM
  cancels    \* cancellations so far

vars == <<pc, ending, launch, child, signals, bounded, stubborn, cancels>>

Awaits  == {"launch", "own", "talk", "term", "kill"}
Endings == {"raised", "cancelled"}
Final   == Endings \cup {"returned"}

TypeOK == /\ pc \in Awaits \cup Final
          /\ ending \in Endings
          /\ launch \in {"pending", "made", "failed", "aborted"}
          /\ child \in {"none", "running", "exited", "reaped"}
          /\ signals \subseteq {"TERM", "KILL"}
          /\ bounded \in BOOLEAN
          /\ stubborn \in BOOLEAN
          /\ cancels \in 0..MaxCancels

\* create_task(create_subprocess_exec(...)), then await shield(launch).
Init == /\ pc = "launch"
        /\ ending = "cancelled"
        /\ launch = "pending"
        /\ child = "none"
        /\ signals = {}
        /\ bounded \in BOOLEAN
        /\ stubborn \in BOOLEAN
        /\ cancels = 0

-----------------------------------------------------------------------------
(* The launch task and the child.                                          *)

LaunchMakes == /\ launch = "pending"
               /\ launch' = "made"
               /\ child' = "running"
               /\ UNCHANGED <<pc, ending, signals, bounded, stubborn, cancels>>

LaunchFails == /\ launch = "pending"
               /\ launch' = "failed"
               /\ UNCHANGED <<pc, ending, child, signals, bounded, stubborn, cancels>>

\* The remote command ends, in its own time or never.
ChildFinishes == /\ child = "running"
                 /\ child' = "exited"
                 /\ UNCHANGED <<pc, ending, launch, signals, bounded, stubborn, cancels>>

\* A signal takes effect.
ChildDies == /\ child = "running"
             /\ \/ "KILL" \in signals
                \/ "TERM" \in signals /\ ~stubborn
             /\ child' = "exited"
             /\ UNCHANGED <<pc, ending, launch, signals, bounded, stubborn, cancels>>

\* asyncio's child watcher; returncode is known from here on.
Reap == /\ child = "exited"
        /\ child' = "reaped"
        /\ UNCHANGED <<pc, ending, launch, signals, bounded, stubborn, cancels>>

-----------------------------------------------------------------------------
(* The caller.                                                             *)

\* process.terminate() and kill(): nothing is sent to a child that is gone.
Signal(s) == signals' = IF child = "reaped" THEN signals ELSE signals \cup {s}

\* _stop: terminate, then wait at most two seconds.
Stop(e) == /\ Signal("TERM")
           /\ ending' = e
           /\ pc' = "term"

\* await shield(launch) is over.
Launched == /\ pc = "launch" /\ launch \in {"made", "failed"}
            /\ pc' = IF launch = "made" THEN "talk" ELSE "raised"
            /\ UNCHANGED <<ending, launch, child, signals, bounded, stubborn, cancels>>

\* Mutated form of Owned: the launch's own error is raised.
OwnedRaising ==
  /\ pc = "own"
  /\ \/ launch = "made" /\ Stop("cancelled")
     \/ launch = "failed" /\ pc' = "raised" /\ UNCHANGED <<ending, signals>>
  /\ UNCHANGED <<launch, child, bounded, stubborn, cancels>>

\* Cancelled while launching: `process = await launch`, then stop it; a launch
\* that fails now is not reported.
Owned ==
  /\ pc = "own"
  /\ \/ launch = "made" /\ Stop("cancelled")
     \/ launch = "failed" /\ pc' = "cancelled" /\ UNCHANGED <<ending, signals>>
  /\ UNCHANGED <<launch, child, bounded, stubborn, cancels>>

\* Mutated form of TalkEnds: end of file is enough, wait() is left out.
TalkEndsAtEof == /\ pc = "talk" /\ child \in {"exited", "reaped"}
                 /\ pc' = "returned"
                 /\ UNCHANGED <<ending, launch, child, signals, bounded, stubborn, cancels>>

\* communicate() or the bounded readers, then the exit status.
TalkEnds == /\ pc = "talk" /\ child = "reaped"
            /\ pc' = "returned"
            /\ UNCHANGED <<ending, launch, child, signals, bounded, stubborn, cancels>>

\* OutputLimitError out of a bounded reader.  The wait for the cancelled readers
\* (ssh.py:114-117) is part of the step: a cancellation in it goes to the same
\* handler as one at "talk".
Overflow == /\ pc = "talk" /\ bounded
            /\ Stop("raised")
            /\ UNCHANGED <<launch, child, bounded, stubborn, cancels>>

\* _stop's communicate() is over.
Stopped == /\ pc \in {"term", "kill"} /\ child = "reaped"
           /\ pc' = ending
           /\ UNCHANGED <<ending, launch, child, signals, bounded, stubborn, cancels>>

\* Mutated form of StopTimeout: the timeout ends _stop.
StopTimeoutGivesUp ==
  /\ pc = "term"
  /\ pc' = ending
  /\ UNCHANGED <<ending, launch, child, signals, bounded, stubborn, cancels>>

\* Mutated form of StopTimeout: SIGTERM again, never SIGKILL.
StopTimeoutTerm == /\ pc = "term"
                   /\ Signal("TERM")
                   /\ pc' = "kill"
                   /\ UNCHANGED <<ending, launch, child, bounded, stubborn, cancels>>

\* wait_for times out: kill, and wait as long as it takes.
StopTimeout == /\ pc = "term"
               /\ Signal("KILL")
               /\ pc' = "kill"
               /\ UNCHANGED <<ending, launch, child, bounded, stubborn, cancels>>

\* Mutated form of Cancel: no shield, a child just made is left behind.
CancelUnshielded ==
  /\ pc \in Awaits
  /\ cancels < MaxCancels
  /\ cancels' = cancels + 1
  /\ IF pc = "talk" THEN Stop("cancelled")
                    ELSE pc' = "cancelled" /\ UNCHANGED <<ending, signals>>
  /\ UNCHANGED <<launch, child, bounded, stubborn>>

\* CancelledError at the await.  shield() keeps a pending launch alive the
\* first time; the second time `await launch` cancels it, and asyncio undoes
\* what it had created.  Where no handler is left the cancellation goes through,
\* but Python 3.11's wait_for drops one that comes when its task is done.
Cancel ==
  /\ pc \in Awaits
  /\ cancels < MaxCancels
  /\ cancels' = cancels + 1
  /\ \/ /\ pc = "launch" /\ launch = "pending"
        /\ pc' = "own"
        /\ UNCHANGED <<ending, launch, signals>>
     \/ /\ \/ pc = "launch" /\ launch = "made"
           \/ pc = "talk"
        /\ Stop("cancelled")
        /\ UNCHANGED launch
     \/ /\ pc = "own" /\ launch = "pending"
        /\ launch' = "aborted"
        /\ pc' = "cancelled"
        /\ UNCHANGED <<ending, signals>>
     \/ /\ \/ pc \in {"launch", "own"} /\ launch = "failed"
           \/ pc = "own" /\ launch = "made"
           \/ pc \in {"term", "kill"}
        /\ pc' = "cancelled"
        /\ UNCHANGED <<ending, launch, signals>>
     \/ /\ pc = "term" /\ child = "reaped"
        /\ UNCHANGED <<pc, ending, launch, signals>>
  /\ UNCHANGED <<child, bounded, stubborn>>

-----------------------------------------------------------------------------
Caller == Launched \/ Owned \/ TalkEnds \/ Stopped
LaunchEnds == LaunchMakes \/ LaunchFails

Next == \/ LaunchEnds \/ ChildFinishes \/ ChildDies \/ Reap
        \/ Caller \/ Overflow \/ StopTimeout \/ Cancel

\* The event loop runs, process creation ends one way or the other, timers
\* fire, a child that is killed dies and is waited for.  Nothing makes a remote
\* command end, a limit be exceeded or a cancellation come.
Fairness == /\ WF_vars(Caller) /\ WF_vars(LaunchEnds) /\ WF_vars(Reap)
            /\ WF_vars(ChildDies) /\ WF_vars(StopTimeout)

Spec == Init /\ [][Next]_vars
FairSpec == Spec /\ Fairness

-----------------------------------------------------------------------------
(* Properties.                                                             *)

\* The promise that those who call ssh.run build on; this is the only call.
This == {"this"}

Promise == INSTANCE SshPromise WITH
  Calls <- This,
  phase <- [c \in This |-> IF pc \in {"launch", "talk"} THEN "open"
                           ELSE IF pc \in Final THEN "over" ELSE "stopping"],
  owed  <- [c \in This |-> launch = "pending" \/ child \in {"running", "exited"}],
  stops <- [c \in This |-> IF ending = "raised" THEN cancels + 1 ELSE cancels]

\* However launch, child, timers and cancellations interleave, a call is over only
\* when its child is gone, unless it is stopped twice (ssh.run, _stop).
KeepsPromise == Promise!PromiseSpec

\* When a call is over, however it ended, its child was waited for or never
\* made (README: "Cancellation reaps the local SSH child").
NoChildLeft == pc \in Final => child \in {"none", "reaped"} /\ launch # "pending"

\* What holds of it for any number of cancellations: a call that is stopped for
\* one reason only, a cancellation or an exceeded limit, leaves no child behind,
\* at whatever await the cancellation finds it.
Overflowed == ending = "raised"
StoppedOnce == IF Overflowed THEN cancels = 0 ELSE cancels <= 1
OneStopReaps == StoppedOnce => NoChildLeft

\* A result or an error of the call is reported only of a child that is gone,
\* however often the caller is cancelled.
ReportedMeansReaped == pc \in {"returned", "raised"} => child \in {"none", "reaped"}

\* A cancellation is never turned into a result, nor into an error other than
\* the exceeded limit that was being reported already.
CancelNotSwallowed ==
  cancels > 0 /\ pc \in Final => pc = "cancelled" \/ (Overflowed /\ pc = "raised")

\* ARCHITECTURE.md, "escalating to kill after a bounded wait": a call that is
\* being stopped ends, also when the child ignores SIGTERM or never answers.
StoppedCallEnds == pc \in {"own", "term", "kill"} ~> pc \in Final
=============================================================================
