---------------------------- MODULE DurableFile ----------------------------
(***************************************************************************)
(* What atomic_write promises those who read the file: a reader finds one  *)
(* whole payload or nothing, a call that returned stays, and a power loss  *)
(* leaves one of the payloads published since.  AtomicFile implements it.  *)
(***************************************************************************)
EXTENDS Integers

VARIABLES
  latest,    \* the payload of the current or last call
  found,     \* what a reader finds: a payload, Nothing, or Refused
  spare,     \* what a power loss may leave of it: Nothing or payloads
  promised,  \* the last payload whose call returned, Nothing before
  place      \* whether a power loss leaves the directory: safe or new

promise == <<latest, found, spare, promised, place>>

Nothing == 0
Refused == -1               \* a file that read_private does not take

DurableInit == /\ latest = 0 /\ found = Nothing /\ spare = {Nothing} /\ promised = Nothing
               /\ place \in {"safe", "new"}

Call == /\ latest' = latest + 1
        /\ UNCHANGED <<found, spare, promised, place>>

\* The payload appears at once, except that a new file may be refused for a while.
Appears == /\ latest \notin spare
           /\ \/ found' = latest
              \/ found = Nothing /\ found' = Refused
           /\ spare' = spare \cup {latest}
           /\ UNCHANGED <<latest, promised, place>>

Opens == /\ found = Refused /\ latest \in spare
         /\ found' = latest
         /\ UNCHANGED <<latest, spare, promised, place>>

\* The call returns: from now on this payload is found, or a later one.
Returns == /\ found = latest
           /\ spare' = {latest}
           /\ promised' = latest
           /\ UNCHANGED <<latest, found, place>>

\* The power is lost, and only a file that nobody was told of is refused then.
Reboot == /\ \E p \in spare : /\ spare' = {p}
                              /\ \/ found' = p
                                 \/ p # Nothing /\ promised = Nothing /\ found' = Refused
          /\ place' = "safe"
          /\ UNCHANGED <<latest, promised>>

\* The directory goes with it, and what was promised before.
Vanishes == /\ place = "new"
            /\ found' = Nothing /\ spare' = {Nothing} /\ promised' = Nothing
            /\ UNCHANGED <<latest, place>>

DurableNext == Call \/ Appears \/ Opens \/ Returns \/ Reboot \/ Vanishes

DurableSpec == DurableInit /\ [][DurableNext]_promise
=============================================================================
