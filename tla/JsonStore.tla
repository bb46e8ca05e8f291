------------------------------ MODULE JsonStore ------------------------------
(***************************************************************************)
(* JsonStore of persistence.ts: save() takes its snapshot when it is       *)
(* called and chains the write behind those before it; a write fills a     *)
(* temporary file and renames it over the file.  Each await of the chain   *)
(* ends an action.                                                         *)
(***************************************************************************)
EXTENDS Sequences

CONSTANTS
  Snapshots,
  NoFile,     \* there is no such file
  Torn        \* a file whose writing has begun and not ended

ASSUME FilesDiffer == {NoFile, Torn} \cap Snapshots = {}

VARIABLES
  file,
  tmp,        \* the temporary file of this process
  queue,      \* snapshots of the promise chain, the first one being written
  writing     \* what the first one waits for: nothing yet, writeFile, rename

storeVars == << file, tmp, queue, writing >>

StoreTypeOK ==
  /\ file \in Snapshots \cup {NoFile}
  /\ tmp \in Snapshots \cup {NoFile, Torn}
  /\ queue \in Seq(Snapshots)
  /\ writing \in {"no", "tmp", "rename"}

StoreInit == file = NoFile /\ tmp = NoFile /\ queue = << >> /\ writing = "no"

Save(snapshot) == queue' = Append(queue, snapshot) /\ UNCHANGED << file, tmp, writing >>

WriteFile ==
  /\ queue # << >> /\ writing = "no"
  /\ tmp' = Torn /\ writing' = "tmp"
  /\ UNCHANGED << file, queue >>

Written ==
  /\ writing = "tmp"
  /\ tmp' = Head(queue) /\ writing' = "rename"
  /\ UNCHANGED << file, queue >>

\* Mutant: the rename is not chained behind the write.
RenameAtOnce == writing # "no"

MayRename == writing = "rename"

Rename ==
  /\ MayRename
  /\ file' = tmp /\ tmp' = NoFile
  /\ queue' = Tail(queue) /\ writing' = "no"

\* mkdir, writeFile or rename throws: the chain goes on with the next save.
WriteFails ==
  /\ queue # << >>
  /\ queue' = Tail(queue) /\ writing' = "no" /\ tmp' = NoFile
  /\ UNCHANGED file

\* The process dies, in the middle of a write or not.  The next one writes to
\* a temporary file of its own name (the pid is in it).
StoreDies == queue' = << >> /\ writing' = "no" /\ tmp' = NoFile /\ UNCHANGED file

StoreNext ==
  \/ \E snapshot \in Snapshots : Save(snapshot)
  \/ WriteFile \/ Written \/ Rename \/ WriteFails
  \/ StoreDies

StoreSpec == StoreInit /\ [][StoreNext]_storeVars

Store == INSTANCE SnapshotStore WITH saved <- file, pending <- queue, Nothing <- NoFile

\* The file and the promise chain are the register the server relies on: a
\* half-written snapshot never becomes the file, no save overtakes another,
\* a failed one leaves the file alone (persistence.ts:3-4, 26, 39).
ImplementsRegister == Store!Spec
=============================================================================
