----------------------------- MODULE AtomicFile -----------------------------
(***************************************************************************)
(* atomic_write and read_private on one path, of storage.py on a POSIX     *)
(* broker and of windows_storage.py on Windows (nt): job records, result   *)
(* files and passwords are all written this way, one process at a time.    *)
(* The process may be killed and the machine may lose its power between    *)
(* any two system calls.                                                   *)
(*                                                                         *)
(* External: the file system.  A power loss keeps what was fsynced; of the *)
(* rest it keeps any part, a rename as a whole.                            *)
(***************************************************************************)
EXTENDS Integers

CONSTANT MaxWrites         \* bound: calls of atomic_write

ASSUME FileAssumption == MaxWrites \in Nat

Writes == 1..MaxWrites      \* a call, its payload and the file that it makes

VARIABLES
  nt,         \* the broker runs on Windows
  pc,         \* the next system call of the current write
  write,      \* the current or last call
  exclusive,  \* its argument: the file must be new
  whole,      \* files that hold their payload
  synced,     \* files whose contents are fsynced
  temps,      \* files that have their temporary name
  path,       \* the file at the path, 0 for none
  renamed,    \* files published by rename: they cannot have two names
  safe,       \* the file at the path as of the last directory fsync
  loose,      \* files published since
  unsure,     \* temporary names made or removed since
  entry,      \* the directory's own name in its parent: a job makes its result
              \* directory, and nothing fsyncs results/ afterwards
  acked       \* the last call that returned without an error, 0 for none since the
              \* directory was made

names == <<temps, path, renamed, safe, loose, unsure, entry>>
vars  == <<nt, pc, write, exclusive, whole, synced, names, acked>>

Init == /\ nt \in BOOLEAN
        /\ pc = "idle" /\ write = 0 /\ exclusive = FALSE
        /\ whole = {} /\ synced = {}
        /\ temps = {} /\ path = 0 /\ renamed = {}
        /\ safe = 0 /\ loose = {} /\ unsure = {}
        /\ entry \in {"safe", "new"}
        /\ acked = 0

TypeOK == /\ nt \in BOOLEAN
          /\ pc \in {"idle", "write", "fsync", "publish", "unlink", "sync"}
          /\ write \in 0..MaxWrites
          /\ exclusive \in BOOLEAN
          /\ synced \subseteq whole /\ whole \subseteq 1..write
          /\ temps \cup renamed \cup loose \cup unsure \subseteq 1..write
          /\ {path, safe, acked} \subseteq 0..write
          /\ entry \in {"safe", "new"}

-----------------------------------------------------------------------------
(* One call of atomic_write.                                               *)

\* A temporary name comes or goes.
Temporary(file, left) == temps' = left /\ unsure' = unsure \cup {file}

\* mkstemp, fchmod.
Begin(x) == /\ pc = "idle" /\ write < MaxWrites
            /\ write' = write + 1
            /\ exclusive' = x
            /\ Temporary(write + 1, temps \cup {write + 1})
            /\ pc' = "write"
            /\ UNCHANGED <<nt, whole, synced, path, renamed, safe, loose, entry, acked>>

\* Mutated form of WriteAll: no flush, the fsync covers nothing.
WriteUnflushed == /\ pc = "write"
                  /\ pc' = "fsync"
                  /\ UNCHANGED <<nt, write, exclusive, whole, synced, names, acked>>

\* write and flush.
WriteAll == /\ pc = "write"
            /\ whole' = whole \cup {write}
            /\ pc' = "fsync"
            /\ UNCHANGED <<nt, write, exclusive, synced, names, acked>>

\* Mutated form of Fsync: the contents are left to the kernel.
FsyncSkipped == /\ pc = "fsync"
                /\ pc' = "publish"
                /\ UNCHANGED <<nt, write, exclusive, whole, synced, names, acked>>

Fsync == /\ pc = "fsync"
         /\ synced' = synced \cup {write}
         /\ pc' = "publish"
         /\ UNCHANGED <<nt, write, exclusive, whole, names, acked>>

\* os.link of a new file: it has two names until the temporary one is gone.
Link == /\ pc = "publish" /\ ~nt /\ exclusive /\ path = 0
        /\ path' = write
        /\ loose' = loose \cup {write}
        /\ pc' = "unlink"
        /\ UNCHANGED <<nt, write, exclusive, whole, synced, temps, renamed, safe, unsure,
                       entry, acked>>

Unlink == /\ pc = "unlink"
          /\ Temporary(write, temps \ {write})
          /\ pc' = "sync"
          /\ UNCHANGED <<nt, write, exclusive, whole, synced, path, renamed, safe, loose,
                         entry, acked>>

\* The temporary file takes the place of what is at the path.
Renames == /\ pc = "publish"
           /\ path' = write
           /\ loose' = loose \cup {write}
           /\ renamed' = renamed \cup {write}
           /\ Temporary(write, temps \ {write})
           /\ pc' = "sync"
           /\ UNCHANGED <<nt, write, exclusive, whole, synced, safe, entry, acked>>

\* Mutated form of Replace: an update is published by link and unlink too.
ReplaceByLink == /\ pc = "publish" /\ ~nt /\ ~exclusive
                 /\ path' = write
                 /\ loose' = loose \cup {write}
                 /\ renamed' = renamed \cup {write}
                 /\ pc' = "unlink"
                 /\ UNCHANGED <<nt, write, exclusive, whole, synced, temps, safe, unsure,
                                entry, acked>>

\* os.replace.
Replace == ~nt /\ ~exclusive /\ Renames

\* MoveFileEx: a new file lacks REPLACE_EXISTING, an old one is validated first.
MoveFile == /\ nt
            /\ IF exclusive THEN path = 0 ELSE path \notin temps
            /\ Renames

\* Mutated form of SyncDirectory: the names are left to the kernel.
SyncSkipped == /\ pc = "sync"
               /\ acked' = write
               /\ pc' = "idle"
               /\ UNCHANGED <<nt, write, exclusive, whole, synced, names>>

\* fsync of the directory, or MOVEFILE_WRITE_THROUGH, and the call returns.
SyncDirectory == /\ pc = "sync"
                 /\ safe' = path /\ loose' = {} /\ unsure' = {}
                 /\ acked' = write
                 /\ pc' = "idle"
                 /\ UNCHANGED <<nt, write, exclusive, whole, synced, temps, path, renamed, entry>>

\* A system call fails (a full disk, an I/O error, a name that exists): the
\* finally removes the temporary name and the error is raised.
Fails == /\ pc # "idle"
         /\ Temporary(write, temps \ {write})
         /\ pc' = "idle"
         /\ UNCHANGED <<nt, write, exclusive, whole, synced, path, renamed, safe, loose,
                        entry, acked>>

-----------------------------------------------------------------------------
(* The process and the machine.                                            *)

Killed == /\ pc # "idle"
          /\ pc' = "idle"
          /\ UNCHANGED <<nt, write, exclusive, whole, synced, names, acked>>

\* A directory whose name was not safe is gone; the next write makes another.
DirectoryLost == /\ entry = "new" /\ UNCHANGED entry
                 /\ path' = 0 /\ temps' = {} /\ safe' = 0
                 /\ acked' = 0

\* Every name is as it was fsynced or as it was changed since.
NamesSettle ==
  /\ \E p \in {safe} \cup loose : path' = p /\ safe' = p
  /\ \E kept \in SUBSET unsure : temps' = (temps \ unsure) \cup kept
  /\ path' \in renamed => path' \notin temps'
  /\ entry' = "safe"
  /\ UNCHANGED acked

PowerLoss ==
  /\ pc' = "idle"
  /\ \E kept \in SUBSET (whole \ synced) : whole' = synced \cup kept
  /\ synced' = whole'
  /\ DirectoryLost \/ NamesSettle
  /\ loose' = {} /\ unsure' = {}
  /\ UNCHANGED <<nt, write, exclusive, renamed>>

Next == \/ \E x \in BOOLEAN : Begin(x)
        \/ WriteAll \/ Fsync \/ Link \/ Unlink \/ Replace \/ MoveFile
        \/ SyncDirectory \/ Fails \/ Killed \/ PowerLoss

Spec == Init /\ [][Next]_vars

-----------------------------------------------------------------------------
(* Properties.  read_private of either platform refuses a second name.     *)

Readable == path # 0 /\ path \notin temps

\* A reader never finds a part of a payload, in whatever order the kernel wrote
\* contents and names back.
NeverTorn == path # 0 => path \in whole

\* What a call reported as written is read ever after, it or a later payload,
\* unless its whole directory went.
AckedDurable == acked > 0 => Readable /\ path >= acked

\* A file published by an update, and on Windows every file, is readable also
\* after a crash: only a first publication on POSIX that nobody was told of may
\* be refused (storage.py:58-59).
UpdatesReadable == pc = "idle" /\ path # 0 /\ (nt \/ path \in renamed) => Readable

\* Nothing, a file that read_private refuses, one that it reads, and part of one.
readerFinds == CASE path = 0 -> 0
                 [] path # 0 /\ ~Readable -> -1
                 [] Readable /\ path \in whole -> path
                 [] OTHER -> -2

Reader == INSTANCE DurableFile WITH
            latest <- write, found <- readerFinds, spare <- {safe} \cup loose,
            promised <- acked, place <- entry

\* The system calls, in their order and wherever they are cut short, are one
\* atomic replacement of what a reader finds.
ImplementsDurable == Reader!DurableSpec
=============================================================================
