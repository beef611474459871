------------------------------ MODULE ServicesProofs ------------------------------
(***************************************************************************)
(* Theorems about the maintenance commands, for any commands at once and   *)
(* any names: what stands under a name is whole, no command changes the    *)
(* database before its copy is safe (Offline), and pruning keeps as many   *)
(* backups as it was told to (Backups).  Then about the services together: *)
(* whichever of them move, each behaves as it does alone, and so keeps     *)
(* what the theorems about it say.                                         *)
(***************************************************************************)
EXTENDS Services, AccountsProofs, LibraryProofs, TextProofs, FiniteSetTheorems, TLAPS

USE OfflineAssumption

Versions == {"old", "current"}
Contents == [kind: {"none", "archive", "documents", "copy"}, version: Versions, data: 0..MaxData]
FileStates == [content: Contents, synced: BOOLEAN, torn: BOOLEAN]
Running  == [op: {"none", "export", "convert", "migrate", "identity", "import"},
             step: {"none", "read", "written", "linked", "saved", "checked"},
             name: Paths \cup {Nothing}, held: Contents, synced: BOOLEAN]

Types ==
    /\ db \in [version: Versions, data: 0..MaxData]
    /\ open \subseteq Commands \cup {Server} /\ lock \in Commands \cup {Nothing}
    /\ file \in [Paths -> FileStates] /\ cmd \in [Commands -> Running]
    /\ lasting \subseteq Paths /\ done \subseteq Paths

\* A file under a name was synced before; one whose directory was synced, or that was
\* reported as written, is there.
FilesHold ==
    /\ \A p \in Paths : ~file[p].torn /\ (Free(p) \/ file[p].synced)
    /\ done \subseteq lasting /\ \A p \in lasting : ~Free(p)

\* What a command has done so far with its output.
OutputsHold ==
    \A c \in Commands :
        /\ cmd[c].step \in {"read", "written", "linked", "saved"} => cmd[c].name \in Paths
        /\ cmd[c].step = "written" => cmd[c].synced
        /\ cmd[c].step \in {"linked", "saved"} =>
             ~Free(cmd[c].name) /\ file[cmd[c].name].content = cmd[c].held
        /\ cmd[c].step = "saved" => lock = c /\ cmd[c].name \in lasting

\* The database stands still under a lock, as its holder has read it.
LockHolds ==
    lock # Nothing =>
        /\ open = {}
        /\ cmd[lock].step \in {"read", "written", "linked", "saved"}
        /\ cmd[lock].held = Content("copy", db) /\ db.data < MaxData

OfflineInv == Types /\ FilesHold /\ OutputsHold /\ LockHolds

-------------------------------------------------------------------------------
LEMMA Blanks ==
  /\ NoContent \in Contents /\ NoFile \in FileStates /\ NoFile.synced = FALSE /\ NoFile.torn = FALSE
  /\ NoCommandRuns \in Running /\ NoCommandRuns.step = "none"
<1>1. NoContent \in Contents
  BY DEF NoContent, Contents, Versions
<1> QED BY <1>1 DEF NoFile, FileStates, NoCommandRuns, Running

LEMMA OfflineBegin == OfflineInit => OfflineInv
<1> SUFFICES ASSUME OfflineInit PROVE OfflineInv
  OBVIOUS
<1>1. PICK left \in SUBSET Paths :
        file = [p \in Paths |-> IF p \in left
                   THEN [NoFile EXCEPT !.content = Content("archive", [version |-> "old", data |-> 1]),
                                       !.synced = TRUE]
                   ELSE NoFile]
  BY DEF OfflineInit
<1> DEFINE remains == [NoFile EXCEPT !.content = Content("archive", [version |-> "old", data |-> 1]),
                                  !.synced = TRUE]
<1>2. remains \in FileStates /\ remains.synced = TRUE /\ remains.torn = FALSE /\ remains # NoFile
  <2>1. Content("archive", [version |-> "old", data |-> 1]) \in Contents
    BY DEF Content, Contents, Versions
  <2> QED BY <2>1, Blanks DEF FileStates
<1> HIDE DEF remains
<1>3. /\ file \in [Paths -> FileStates]
      /\ \A p \in Paths : file[p] = remains \/ file[p] = NoFile
  BY <1>1, <1>2, Blanks DEF remains
<1>4. /\ db \in [version: Versions, data: 0..MaxData]
      /\ open = {} /\ lock = Nothing /\ cmd = [c \in Commands |-> NoCommandRuns]
      /\ lasting = {p \in Paths : file[p] # NoFile} /\ done = lasting
  BY DEF OfflineInit, Versions
<1>5. Types
  BY <1>3, <1>4, Blanks DEF Types
<1>6. FilesHold
  BY <1>2, <1>3, <1>4, Blanks DEF FilesHold, Free
<1>7. OutputsHold /\ LockHolds
  BY <1>4, Blanks DEF OutputsHold, LockHolds
<1> QED BY <1>5, <1>6, <1>7 DEF OfflineInv

-------------------------------------------------------------------------------
\* A step that leaves database and files alone, moves one command and may end its
\* connection or take the lock.
LEMMA MoveStep ==
  ASSUME OfflineInv, UNCHANGED <<db, file, lasting, done>>,
         NEW c \in Commands, NEW m \in Running, cmd' = [cmd EXCEPT ![c] = m],
         open' \subseteq Commands \cup {Server},
         lock' \in Commands \cup {Nothing},
         m.step \in {"read", "written", "linked", "saved"} => m.name \in Paths,
         m.step = "written" => m.synced,
         m.step \in {"linked", "saved"} => ~Free(m.name) /\ file[m.name].content = m.held,
         m.step = "saved" => lock' = c /\ m.name \in lasting,
         \A d \in Commands : d # c /\ cmd[d].step = "saved" => lock' = lock,
         lock' # Nothing =>
            /\ open' = {}
            /\ lock' # c => lock' = lock
            /\ lock' = c => /\ m.step \in {"read", "written", "linked", "saved"}
                           /\ m.held = Content("copy", db) /\ db.data < MaxData
  PROVE  OfflineInv'
<1> USE DEF OfflineInv
<1>1. /\ cmd' \in [Commands -> Running] /\ cmd'[c] = m
      /\ \A d \in Commands : d # c => cmd'[d] = cmd[d]
  BY DEF Types
<1>2. Types'
  BY <1>1 DEF Types
<1>3. FilesHold'
  BY DEF FilesHold, Free
<1>4. OutputsHold'
  BY <1>1 DEF OutputsHold, Free
<1>5. LockHolds'
  BY <1>1, <1>2 DEF LockHolds, Types
<1> QED BY <1>2, <1>3, <1>4, <1>5

\* A command ends, wherever it was, beside a database that is as it was.
LEMMA CommandEndsStep ==
  ASSUME OfflineInv, NEW c \in Commands, End(c), UNCHANGED <<db, file, lasting, done>>
  PROVE  OfflineInv'
<1> USE DEF OfflineInv
<1>1. /\ cmd' = [cmd EXCEPT ![c] = NoCommandRuns] /\ open' = open \ {c}
      /\ lock' = IF lock = c THEN Nothing ELSE lock
  BY DEF End, Go
<1>2. /\ open' \subseteq Commands \cup {Server} /\ lock' \in Commands \cup {Nothing}
      /\ \A d \in Commands : d # c /\ cmd[d].step = "saved" => lock' = lock
      /\ lock' # Nothing => open' = {} /\ lock' = lock /\ lock' # c
  BY <1>1 DEF Types, OutputsHold, LockHolds
<1> QED BY <1>1, <1>2, Blanks, MoveStep

\* The database changes under a command that ends: it held the lock, or nobody did.
LEMMA ChangeStep ==
  ASSUME OfflineInv, NEW c \in Commands, db' \in [version: Versions, data: 0..MaxData],
         cmd' = [cmd EXCEPT ![c] = NoCommandRuns], open' \subseteq open, lock' = Nothing,
         lock \in {c, Nothing}, UNCHANGED <<file, lasting, done>>
  PROVE  OfflineInv'
<1> USE DEF OfflineInv
<1>1. /\ cmd' \in [Commands -> Running] /\ cmd'[c] = NoCommandRuns
      /\ \A d \in Commands : d # c => cmd'[d] = cmd[d]
  BY Blanks DEF Types
<1>2. \A d \in Commands : d # c => cmd[d].step # "saved"
  BY DEF OutputsHold
<1>3. Types' /\ LockHolds'
  BY <1>1 DEF Types, LockHolds
<1>4. FilesHold'
  BY DEF FilesHold, Free
<1>5. OutputsHold'
  BY <1>1, <1>2, Blanks DEF OutputsHold, Free
<1> QED BY <1>3, <1>4, <1>5

-------------------------------------------------------------------------------
LEMMA OutputStep == ASSUME OfflineInv, NEW c \in Commands, Output(c) PROVE OfflineInv'
<1> USE DEF OfflineInv
<1>t. /\ cmd[c] \in Running /\ db.data \in Nat /\ db.version \in Versions
      /\ open \subseteq Commands \cup {Server} /\ lock \in Commands \cup {Nothing}
      /\ \A kind \in {"archive", "documents", "copy"} : Content(kind, db) \in Contents
  BY DEF Types, Content, Contents
<1>1. ASSUME NEW p \in Paths, NEW held \in Contents,
             NEW op \in {"export", "convert", "migrate", "identity"}
      PROVE  LET m == Writing(op, p, held) IN
             m \in Running /\ m.step = "read" /\ m.name = p /\ m.held = held
  BY DEF Writing, NoCommandRuns, Running, NoContent, Contents, Versions
<1>2. ASSUME NEW p \in Paths, NEW kind \in {"archive", "documents"}, StartExport(c, p, kind)
      PROVE  OfflineInv'
  <2> DEFINE m == Writing("export", p, Content(kind, db))
  <2>1. m \in Running /\ m.step = "read" /\ m.name = p
    BY <1>t, <1>1
  <2>2. /\ cmd' = [cmd EXCEPT ![c] = m] /\ open' = open \cup {c} /\ lock = Nothing
        /\ UNCHANGED <<db, lock, file, lasting, done>>
    BY <1>2 DEF StartExport, Go, MayConnect
  <2> HIDE DEF m
  <2> QED BY <1>t, <2>1, <2>2, MoveStep
<1>3. ASSUME NEW p \in Paths, NEW q \in Paths, StartConversion(c, q, p) PROVE OfflineInv'
  <2>1. /\ file[q].content \in Contents /\ [file[q].content EXCEPT !.version = "current"] \in Contents
    BY DEF Types, FileStates, Contents, Versions
  <2> DEFINE m == Writing("convert", p, [file[q].content EXCEPT !.version = "current"])
  <2>2. m \in Running /\ m.step = "read" /\ m.name = p
    BY <1>1, <2>1
  <2>3. /\ cmd' = [cmd EXCEPT ![c] = m] /\ cmd[c] = NoCommandRuns
        /\ UNCHANGED <<db, open, lock, file, lasting, done>>
    BY <1>3 DEF StartConversion, Go, Idling
  <2> HIDE DEF m
  <2>4. lock # c /\ (lock # Nothing => open = {})
    BY <2>3, Blanks DEF LockHolds
  <2> QED BY <1>t, <2>2, <2>3, <2>4, MoveStep
<1>4. ASSUME NEW p \in Paths, NEW op \in {"migrate", "identity"}, StartChange(c, p, op) PROVE OfflineInv'
  <2> DEFINE m == Writing(op, p, Content("copy", db))
  <2>1. m \in Running /\ m.step = "read" /\ m.name = p /\ m.held = Content("copy", db)
    BY <1>t, <1>1
  <2>2. /\ db.data < MaxData
        /\ cmd' = [cmd EXCEPT ![c] = m] /\ lock = Nothing /\ open = {} /\ lock' = c
        /\ UNCHANGED <<db, open, file, lasting, done>>
    BY <1>4 DEF StartChange, Go, Lock
  <2> HIDE DEF m
  <2>3. \A d \in Commands : cmd[d].step # "saved"
    BY <2>2 DEF OutputsHold
  <2> QED BY <1>t, <2>1, <2>2, <2>3, MoveStep
<1>5. CASE WriteOutput(c)
  <2> DEFINE m == [cmd[c] EXCEPT !.step = "written", !.synced = TRUE]
  <2>1. m \in Running /\ m.step = "written" /\ m.synced /\ m.name = cmd[c].name /\ m.held = cmd[c].held
    BY <1>t DEF Running
  <2>2. /\ cmd[c].step = "read" /\ cmd' = [cmd EXCEPT ![c] = m]
        /\ UNCHANGED <<db, open, lock, file, lasting, done>>
    BY <1>5 DEF WriteOutput, Runs, Go
  <2> HIDE DEF m
  <2>3. m.name \in Paths
    BY <2>1, <2>2 DEF OutputsHold
  <2>4. lock # Nothing => open = {} /\ (lock = c => m.held = Content("copy", db) /\ db.data < MaxData)
    BY <2>1 DEF LockHolds
  <2> QED BY <1>t, <2>1, <2>2, <2>3, <2>4, MoveStep
<1>6. CASE Publish(c)
  <2> DEFINE m == [cmd[c] EXCEPT !.step = "linked"]
             n == cmd[c].name
             f == [content |-> cmd[c].held, synced |-> cmd[c].synced, torn |-> FALSE]
  <2>1. m \in Running /\ m.step = "linked" /\ m.name = n /\ m.held = cmd[c].held
    BY <1>t DEF Running
  <2>2. /\ cmd[c].step = "written" /\ Free(n) /\ n \in Paths /\ cmd[c].synced
        /\ file' = [file EXCEPT ![n] = f] /\ cmd' = [cmd EXCEPT ![c] = m]
        /\ UNCHANGED <<db, open, lock, lasting, done>>
    BY <1>6 DEF Publish, Runs, Step, Go, OutputsHold
  <2>3. f \in FileStates /\ f.synced /\ ~f.torn /\ f.content = m.held /\ f # NoFile
    BY <1>t, <2>1, <2>2, Blanks DEF Running, FileStates
  <2> HIDE DEF m, f, n
  <2>4. /\ file' \in [Paths -> FileStates] /\ file'[n] = f
        /\ \A p \in Paths : p # n => file'[p] = file[p]
    BY <2>2, <2>3 DEF Types
  <2>5. /\ cmd' \in [Commands -> Running] /\ cmd'[c] = m
        /\ \A d \in Commands : d # c => cmd'[d] = cmd[d]
    BY <2>1, <2>2 DEF Types
  <2>6. Types'
    BY <2>2, <2>4, <2>5 DEF Types
  <2>7. FilesHold'
    BY <2>2, <2>3, <2>4 DEF FilesHold, Free, Types
  <2>8. OutputsHold'
    <3>1. ASSUME NEW d \in Commands, d # c, cmd[d].step \in {"linked", "saved"}
          PROVE  cmd[d].name # n
      BY <2>2, <3>1 DEF OutputsHold
    <3> QED BY <2>1, <2>2, <2>3, <2>4, <2>5, <3>1 DEF OutputsHold, Free
  <2>9. LockHolds'
    BY <2>1, <2>2, <2>5 DEF LockHolds, Types
  <2> QED BY <2>6, <2>7, <2>8, <2>9
<1>7. CASE Settle(c)
  <2> DEFINE n == cmd[c].name
             m == [cmd[c] EXCEPT !.step = "saved"]
  <2>1. /\ cmd[c].step = "linked" /\ n \in Paths /\ ~Free(n) /\ file[n].content = cmd[c].held
        /\ lasting' = lasting \cup {n} /\ done' = done \cup {n} /\ UNCHANGED <<db, file>>
        /\ IF lock = c THEN cmd' = [cmd EXCEPT ![c] = m] /\ UNCHANGED <<open, lock>> ELSE End(c)
    BY <1>7 DEF Settle, Runs, Step, Go, OutputsHold
  <2>2. /\ m \in Running /\ m.step = "saved" /\ m.name = n /\ m.held = cmd[c].held
    BY <1>t DEF Running
  <2> HIDE DEF m, n
  <2>3. FilesHold'
    BY <2>1 DEF FilesHold, Free
  <2>4. CASE lock = c
    <3>1. /\ cmd' \in [Commands -> Running] /\ cmd'[c] = m
          /\ \A d \in Commands : d # c => cmd'[d] = cmd[d]
      BY <2>1, <2>2, <2>4 DEF Types
    <3>2. Types'
      BY <2>1, <2>4, <3>1 DEF Types
    <3>3. OutputsHold'
      BY <2>1, <2>2, <2>4, <3>1 DEF OutputsHold, Free
    <3>4. LockHolds'
      BY <2>1, <2>2, <2>4, <3>1 DEF LockHolds
    <3> QED BY <2>3, <3>2, <3>3, <3>4
  <2>5. CASE lock # c
    <3>1. /\ cmd' = [cmd EXCEPT ![c] = NoCommandRuns] /\ open' = open \ {c} /\ lock' = lock
      BY <2>1, <2>5 DEF End, Go
    <3>2. /\ cmd' \in [Commands -> Running] /\ cmd'[c] = NoCommandRuns
          /\ \A d \in Commands : d # c => cmd'[d] = cmd[d]
      BY <3>1, Blanks DEF Types
    <3>3. Types'
      BY <2>1, <3>1, <3>2 DEF Types
    <3>4. OutputsHold'
      BY <2>1, <3>1, <3>2, Blanks DEF OutputsHold, Free
    <3>5. LockHolds'
      BY <2>1, <2>5, <3>1, <3>2 DEF LockHolds, Types
    <3> QED BY <2>3, <3>3, <3>4, <3>5
  <2> QED BY <2>4, <2>5
<1>8. CASE ChangeDatabase(c)
  <2>1. /\ cmd[c].step = "saved" /\ lock = c
        /\ db' = [version |-> "current", data |-> db.data + 1]
        /\ cmd' = [cmd EXCEPT ![c] = NoCommandRuns] /\ open' = open \ {c} /\ lock' = Nothing
        /\ UNCHANGED <<file, lasting, done>>
    BY <1>8 DEF ChangeDatabase, Runs, End, Go, OutputsHold
  <2>2. db.data < MaxData
    BY <2>1 DEF LockHolds
  <2>3. db' \in [version: Versions, data: 0..MaxData] /\ open' \subseteq open
    BY <1>t, <2>1, <2>2 DEF Versions
  <2> QED BY <2>1, <2>3, ChangeStep
<1> QED BY <1>2, <1>3, <1>4, <1>5, <1>6, <1>7, <1>8 DEF Output

LEMMA InputStep == ASSUME OfflineInv, NEW c \in Commands, Input(c) PROVE OfflineInv'
<1> USE DEF OfflineInv
<1>1. ASSUME NEW p \in Paths, StartImport(c, p) PROVE OfflineInv'
  <2> DEFINE m == [NoCommandRuns EXCEPT !.op = "import", !.step = "checked",
                                        !.held = [file[p].content EXCEPT !.version = "current"]]
  <2>1. [file[p].content EXCEPT !.version = "current"] \in Contents
    BY DEF Types, FileStates, Contents, Versions
  <2>2. m \in Running /\ m.step = "checked"
    BY <2>1, Blanks DEF Running
  <2>3. /\ cmd' = [cmd EXCEPT ![c] = m] /\ cmd[c] = NoCommandRuns
        /\ UNCHANGED <<db, open, lock, file, lasting, done>>
    BY <1>1 DEF StartImport, Go, Idling
  <2> HIDE DEF m
  <2>4. lock # c /\ (lock # Nothing => open = {})
    BY <2>3, Blanks DEF LockHolds
  <2>5. open \subseteq Commands \cup {Server} /\ lock \in Commands \cup {Nothing}
    BY DEF Types
  <2> QED BY <2>2, <2>3, <2>4, <2>5, MoveStep
<1>2. CASE Restore(c)
  <2>1. /\ cmd' = [cmd EXCEPT ![c] = NoCommandRuns] /\ lock = Nothing
        /\ db' = IF db.data = 0 THEN [db EXCEPT !.data = cmd[c].held.data] ELSE db
        /\ UNCHANGED <<open, lock, file, lasting, done>>
    BY <1>2 DEF Restore, Go, MayConnect
  <2>2. db \in [version: Versions, data: 0..MaxData] /\ cmd[c].held.data \in 0..MaxData
    BY DEF Types, Running, Contents
  <2>3. db' \in [version: Versions, data: 0..MaxData]
    BY <2>1, <2>2
  <2> QED BY <2>1, <2>3, ChangeStep
<1> QED BY <1>1, <1>2 DEF Input

LEMMA WorldStep == ASSUME OfflineInv, Serve \/ UseDatabase \/ Close \/ MachineStops PROVE OfflineInv'
<1> USE DEF OfflineInv
<1>1. CASE Serve \/ Close \/ UseDatabase
  <2>1. /\ lock = Nothing /\ UNCHANGED <<lock, file, lasting, cmd, done>>
        /\ open' \subseteq Commands \cup {Server}
    BY <1>1 DEF Serve, Close, UseDatabase, MayConnect, LockHolds, Types
  <2>2. db' \in [version: Versions, data: 0..MaxData]
    <3>1. db \in [version: Versions, data: 0..MaxData]
      BY DEF Types
    <3>2. db' = db \/ (db.data < MaxData /\ db' = [db EXCEPT !.data = @ + 1])
      BY <1>1 DEF Serve, Close, UseDatabase
    <3> QED BY <3>1, <3>2
  <2>3. Types' /\ LockHolds'
    BY <2>1, <2>2 DEF Types, LockHolds
  <2>4. FilesHold' /\ OutputsHold'
    BY <2>1 DEF FilesHold, OutputsHold, Free
  <2> QED BY <2>3, <2>4
<1>2. CASE MachineStops
  <2>1. PICK lost \in SUBSET (Paths \ lasting) :
          file' = [p \in Paths |-> IF p \in lost THEN NoFile
                                   ELSE [file[p] EXCEPT !.torn = ~Free(p) /\ ~file[p].synced]]
    BY <1>2 DEF MachineStops
  <2>2. ASSUME NEW p \in Paths
        PROVE  [file[p] EXCEPT !.torn = ~Free(p) /\ ~file[p].synced] = file[p]
    <3>1. file[p] \in FileStates /\ file[p].torn = FALSE /\ (~Free(p) /\ ~file[p].synced) = FALSE
      BY DEF Types, FilesHold, FileStates
    <3> QED BY <3>1 DEF FileStates
  <2>3. /\ \A p \in Paths : file'[p] = IF p \in lost THEN NoFile ELSE file[p]
        /\ file' \in [Paths -> FileStates]
    BY <2>1, <2>2, Blanks DEF Types
  <2>4. /\ open' = {} /\ lock' = Nothing /\ cmd' = [d \in Commands |-> NoCommandRuns]
        /\ lasting' = {p \in Paths : file'[p] # NoFile} /\ UNCHANGED <<db, done>>
    BY <1>2 DEF MachineStops
  <2>5. Types' /\ LockHolds' /\ OutputsHold'
    BY <2>3, <2>4, Blanks DEF Types, LockHolds, OutputsHold
  <2>6. lasting \subseteq lasting'
    BY <2>3, <2>4 DEF FilesHold, Free, Types
  <2>7. FilesHold'
    BY <2>3, <2>4, <2>6, Blanks DEF FilesHold, Free
  <2> QED BY <2>5, <2>7
<1> QED BY <1>1, <1>2

LEMMA OfflineStep == ASSUME OfflineInv, [OfflineNext]_offlineVars PROVE OfflineInv'
<1>1. ASSUME NEW c \in Commands, Output(c) \/ Input(c) \/ CommandEnds(c) PROVE OfflineInv'
  BY <1>1, OutputStep, InputStep, CommandEndsStep DEF CommandEnds
<1>2. CASE UNCHANGED offlineVars
  BY <1>2 DEF offlineVars, OfflineInv, Types, FilesHold, OutputsHold, LockHolds, Free
<1> QED BY <1>1, <1>2, WorldStep DEF OfflineNext

-------------------------------------------------------------------------------
\* The invariant of the database, its lock, the commands and their files.
THEOREM OfflineInvariant == OfflineSpec => []OfflineInv
BY OfflineBegin, OfflineStep, PTL DEF OfflineSpec

\* What stands under a final name is whole, and what was reported as written is
\* there: maintenance.rs syncs the temporary file before it links it, links without
\* replacing, and reports after the directory is synced.
THEOREM OfflineOutputsAreWhole == OfflineSpec => []OutputsAreWhole
<1>1. OfflineInv => OutputsAreWhole
  BY DEF OfflineInv, FilesHold, OutputsAreWhole
<1> QED BY <1>1, OfflineInvariant, PTL

\* A command changes the database only when a copy of just that state stands under a
\* synced name: migration.rs and the identity commands hold the lock from the copy to
\* the commit.
THEOREM OfflineChangesAreSaved == OfflineSpec => ChangesAreSaved
<1>1. ASSUME OfflineInv, [OfflineNext]_offlineVars, NEW c \in Commands, lock = c, db' # db
      PROVE  \E p \in lasting : file[p].content = Content("copy", db) /\ file[p].synced
  <2>1. lock # Nothing /\ open = {} /\ cmd[c].held = Content("copy", db)
    BY <1>1 DEF OfflineInv, LockHolds
  <2>2. cmd[c].step = "saved"
    <3>1. ASSUME NEW d \in Commands, Output(d) \/ Input(d) \/ CommandEnds(d) PROVE cmd[c].step = "saved"
      <4>1. ChangeDatabase(d) \/ db' = db
        BY <1>1, <2>1, <3>1 DEF Output, Input, CommandEnds, StartExport, StartChange, StartConversion,
             WriteOutput, Publish, Settle, StartImport, Restore, MayConnect
      <4>2. cmd[d].step = "saved" /\ lock = d
        BY <1>1, <4>1 DEF ChangeDatabase, Runs, OfflineInv, OutputsHold
      <4> QED BY SMTT(30), <1>1, <4>2
    <3>2. CASE Serve \/ UseDatabase \/ Close \/ MachineStops
      BY <1>1, <2>1, <3>2 DEF Serve, UseDatabase, Close, MachineStops
    <3> QED BY <1>1, <3>1, <3>2 DEF OfflineNext, offlineVars
  <2>3. cmd[c].name \in lasting /\ file[cmd[c].name].content = Content("copy", db)
    BY <1>1, <2>1, <2>2 DEF OfflineInv, OutputsHold
  <2> QED BY <1>1, <2>3 DEF OfflineInv, FilesHold, Types
<1>2. OfflineInv /\ [OfflineNext]_offlineVars =>
        [\A c \in Commands :
           lock = c /\ db' # db => \E p \in lasting : file[p].content = Content("copy", db)
                                                      /\ file[p].synced]_offlineVars
  BY <1>1
<1> QED BY <1>2, OfflineInvariant, PTL DEF ChangesAreSaved, OfflineSpec

-------------------------------------------------------------------------------
(* Backups and prunes.                                                     *)

Generations == [dir: BOOLEAN, archive: Entry, marker: Entry, settled: BOOLEAN]
Building    == {"made", "writing", "verified", "marking", "marked"}
JobRows     == [step: {"idle", "removing"} \cup Building, stamp: Stamps, list: SUBSET Stamps]

\* A marker comes after a whole archive.
MarkedIsWhole(g) ==
    /\ g.marker # "none" => g.archive \in {"none", "whole"}
    /\ ~g.dir => g = NoGeneration

\* What a backup under way has done with its generation.
BuiltBy(j, g) ==
    /\ j.step \in {"made", "writing"} => g.marker = "none"
    /\ j.step \in {"verified", "marking", "marked"} => g.archive \in {"none", "whole"}

Later(n) == {k \in Stamps : k > n /\ Successful(k)}
Spared(n) == Cardinality(Later(n)) >= KeepLatest

BackupsInv ==
    /\ ClockTypeOK /\ gens \in [Stamps -> Generations] /\ job \in [Jobs -> JobRows]
    /\ \A n \in Stamps : MarkedIsWhole(gens[n])
    /\ \A c \in Jobs : BuiltBy(job[c], gens[job[c].stamp])
    /\ \A c, d \in Jobs : c # d /\ job[c].step \in Building /\ job[d].step \in Building =>
         job[c].stamp # job[d].stamp
    /\ \A c \in Jobs : job[c].step = "removing" => \A n \in job[c].list : Spared(n)

\* What a step must not take away.
KeepsEnough ==
    \A n \in Stamps : Successful(n) /\ ~Successful(n)' /\ gens[n].settled => Spared(n)'

\* No other backup under way has the generation.
Alone(c, s) == \A d \in Jobs \ {c} : job[d].step \in Building => job[d].stamp # s

LEMMA FiniteLater ==
  ASSUME NEW S, NEW T, S \subseteq T, T \subseteq Stamps, Cardinality(S) >= KeepLatest
  PROVE  Cardinality(T) >= KeepLatest
<1>1. IsFiniteSet(Stamps)
  BY FS_Interval, ClockAssumption DEF Stamps
<1>2. IsFiniteSet(T) /\ IsFiniteSet(S)
  BY <1>1, FS_Subset
<1>3. Cardinality(S) <= Cardinality(T) /\ Cardinality(S) \in Nat /\ Cardinality(T) \in Nat
  BY <1>2, FS_Subset, FS_CardinalityType
<1> QED BY <1>3, BackupsAssumption

\* A step of one job: it goes on to j, and makes g of one generation.
LEMMA JobStep ==
  ASSUME BackupsInv, NEW c \in Jobs, NEW s \in Stamps, NEW g \in Generations, NEW j \in JobRows,
         gens' = [gens EXCEPT ![s] = g], job' = [job EXCEPT ![c] = j], UNCHANGED clockVars,
         MarkedIsWhole(g),
         j.step \in Building => j.stamp = s /\ Alone(c, s) /\ BuiltBy(j, g),
         \/ Alone(c, s)
         \/ g.marker \in {gens[s].marker, "none"} /\ g.archive \in {gens[s].archive, "none"},
         \/ Successful(s) => g.marker \in {"unsynced", "whole"} /\ g.archive # "none"
         \/ Spared(s),
         j.step = "removing" => \A n \in j.list : Spared(n)
  PROVE  BackupsInv' /\ KeepsEnough
<1>t. gens \in [Stamps -> Generations] /\ job \in [Jobs -> JobRows] /\ MaxTime \in Nat
  BY ClockAssumption DEF BackupsInv
<1>1. gens'[s] = g /\ \A n \in Stamps \ {s} : gens'[n] = gens[n]
  BY <1>t
<1>2. job'[c] = j /\ \A d \in Jobs \ {c} : job'[d] = job[d]
  BY <1>t
<1>3. /\ ClockTypeOK' /\ gens' \in [Stamps -> Generations] /\ job' \in [Jobs -> JobRows]
      /\ \A n \in Stamps : MarkedIsWhole(gens'[n])
  BY <1>t, <1>1 DEF BackupsInv, ClockTypeOK, clockVars
<1>4. ASSUME NEW d \in Jobs PROVE BuiltBy(job'[d], gens'[job'[d].stamp])
  <2>1. CASE d = c
    BY <1>1, <1>2, <2>1 DEF BuiltBy, Building
  <2>2. CASE d # c
    <3>1. job'[d] = job[d] /\ job[d].stamp \in Stamps /\ BuiltBy(job[d], gens[job[d].stamp])
      BY <1>t, <1>2, <2>2 DEF BackupsInv, JobRows
    <3>2. CASE job[d].stamp # s \/ job[d].step \notin Building
      BY <1>1, <3>1, <3>2 DEF BuiltBy, Building
    <3>3. CASE job[d].stamp = s /\ job[d].step \in Building
      BY <1>1, <2>2, <3>1, <3>3 DEF BuiltBy, Building, Alone
    <3> QED BY <3>2, <3>3
  <2> QED BY <2>1, <2>2
<1>5. \A d, e \in Jobs : d # e /\ job'[d].step \in Building /\ job'[e].step \in Building =>
         job'[d].stamp # job'[e].stamp
  BY <1>2 DEF BackupsInv, Alone
<1>6. \A k \in Stamps \ {s} : Successful(k)' <=> Successful(k)
  BY <1>1 DEF Successful
<1>7. (Successful(s) => Successful(s)') \/ Spared(s)
  BY <1>1 DEF Successful
<1>8. ASSUME NEW n \in Stamps, Spared(n) PROVE Spared(n)'
  <2>1. CASE Successful(s) => Successful(s)'
    <3>1. Later(n) \subseteq Later(n)'
      BY <1>6, <2>1 DEF Later
    <3> QED BY <1>8, <3>1, FiniteLater DEF Spared, Later
  <2>2. CASE Spared(s) /\ s > n
    <3>1. Later(s) \subseteq Later(n)'
      BY <1>6, <2>2 DEF Later, Stamps
    <3> QED BY <2>2, <3>1, FiniteLater DEF Spared, Later
  <2>3. CASE ~(s > n)
    <3>1. Later(n) \subseteq Later(n)'
      BY <1>6, <2>3 DEF Later
    <3> QED BY <1>8, <3>1, FiniteLater DEF Spared, Later
  <2> QED BY <1>7, <2>1, <2>2, <2>3
<1>9. \A d \in Jobs : job'[d].step = "removing" => \A n \in job'[d].list : Spared(n)'
  BY <1>t, <1>2, <1>8 DEF BackupsInv, JobRows
<1>10. KeepsEnough
  BY <1>6, <1>7, <1>8 DEF KeepsEnough
<1> QED BY <1>3, <1>4, <1>5, <1>9, <1>10 DEF BackupsInv

LEMMA JobGoesOn ==
  ASSUME NEW j \in JobRows, NEW to \in {"idle", "removing"} \cup Building
  PROVE  LET k == [j EXCEPT !.step = to] IN
         k \in JobRows /\ k.step = to /\ k.stamp = j.stamp /\ k.list = j.list
  BY DEF JobRows

LEMMA PopulateStep ==
  ASSUME BackupsInv, UNCHANGED clockVars, NEW c \in Jobs, NEW from \in Building, NEW to \in Building,
         NEW entry, NEW state \in Entry, Populate(c, from, to, entry, state),
         \/ entry = "archive" /\ from \in {"made", "writing"}
            /\ \/ to = "writing" /\ state = "torn"
               \/ to = "verified" /\ state = "whole"
         \/ entry = "marker" /\ from \in {"verified", "marking"} /\ to \in {"marking", "marked"}
            /\ state \in {"unsynced", "whole"}
  PROVE  BackupsInv' /\ KeepsEnough
<1> DEFINE s == job[c].stamp
           g == IF state = "whole" /\ gens[s][entry] = "none" THEN gens[s]
                ELSE [gens[s] EXCEPT ![entry] = state]
           j == [job[c] EXCEPT !.step = to]
<1>1. /\ job[c] \in JobRows /\ job[c].step = from /\ s \in Stamps /\ gens[s] \in Generations
      /\ gens[s].dir /\ MarkedIsWhole(gens[s]) /\ BuiltBy(job[c], gens[s])
  BY DEF Populate, BackupsInv, JobRows
<1>2. gens' = [gens EXCEPT ![s] = g] /\ job' = [job EXCEPT ![c] = j]
  BY DEF Populate
<1>3. j \in JobRows /\ j.step = to /\ j.stamp = s
  BY <1>1, JobGoesOn
<1>4. Alone(c, s)
  BY <1>1 DEF Alone, BackupsInv
<1>5. /\ g \in Generations /\ g.dir
      /\ \/ g = gens[s] /\ state = "whole" /\ entry = "archive" /\ gens[s].archive = "none"
         \/ g = gens[s] /\ state = "whole" /\ entry = "marker" /\ gens[s].marker = "none"
         \/ entry = "archive" /\ g.archive = state /\ g.marker = gens[s].marker
         \/ entry = "marker" /\ g.marker = state /\ g.archive = gens[s].archive
  <2>1. PICK h : h = [gens[s] EXCEPT ![entry] = state]
    OBVIOUS
  <2>2. /\ h \in Generations /\ h.dir = gens[s].dir
        /\ \/ entry = "archive" /\ h.archive = state /\ h.marker = gens[s].marker
           \/ entry = "marker" /\ h.marker = state /\ h.archive = gens[s].archive
    <3>1. PICK old \in Generations : old = gens[s]
      BY <1>1
    <3>2. CASE entry = "archive"
      BY <2>1, <3>1, <3>2 DEF Generations
    <3>3. CASE entry = "marker"
      BY <2>1, <3>1, <3>3 DEF Generations
    <3> QED BY <3>2, <3>3
  <2>3. g = h \/ (g = gens[s] /\ state = "whole" /\ gens[s][entry] = "none")
    BY <2>1
  <2>4. (entry = "archive" => gens[s][entry] = gens[s].archive)
        /\ (entry = "marker" => gens[s][entry] = gens[s].marker)
    OBVIOUS
  <2> HIDE DEF g
  <2> QED BY <1>1, <2>2, <2>3, <2>4
<1> HIDE DEF g, j, s
<1>6. MarkedIsWhole(g) /\ BuiltBy(j, g)
  BY <1>1, <1>3, <1>5 DEF MarkedIsWhole, BuiltBy
<1>7. Successful(s) => g.marker \in {"unsynced", "whole"} /\ g.archive # "none"
  BY <1>1, <1>5 DEF Successful, BuiltBy
<1>8. j.step # "removing"
  BY <1>3 DEF Building
<1> QED BY <1>1, <1>2, <1>3, <1>4, <1>5, <1>6, <1>7, <1>8, JobStep

\* A step of one job that makes nothing of a generation.
LEMMA QuietStep ==
  ASSUME BackupsInv, UNCHANGED <<gens, clockVars>>, NEW c \in Jobs, NEW j \in JobRows,
         job' = [job EXCEPT ![c] = j], j.step \notin Building,
         j.step = "removing" => \A n \in j.list : Spared(n)
  PROVE  BackupsInv' /\ KeepsEnough
<1> PICK s : s = job[c].stamp
  OBVIOUS
<1>1. s \in Stamps /\ gens[s] \in Generations /\ gens' = [gens EXCEPT ![s] = gens[s]]
      /\ MarkedIsWhole(gens[s])
  BY DEF BackupsInv, JobRows
<1>2. Successful(s) => gens[s].marker \in {"unsynced", "whole"} /\ gens[s].archive # "none"
  BY DEF Successful
<1> QED BY <1>1, <1>2, JobStep

LEMMA NoJobRow == NoJob \in JobRows /\ NoJob.step = "idle" /\ NoGeneration \in Generations
  BY ClockAssumption DEF NoJob, JobRows, NoGeneration, Generations, Entry, Stamps

LEMMA StartPruneStep ==
  ASSUME BackupsInv, UNCHANGED clockVars, NEW c \in Jobs, StartPrune(c)
  PROVE  BackupsInv' /\ KeepsEnough
<1> DEFINE successful == {n \in Stamps : Successful(n)}
           j == [NoJob EXCEPT !.step = "removing", !.list = Expired(successful)]
<1>1. job' = [job EXCEPT ![c] = j] /\ UNCHANGED gens
  BY DEF StartPrune
<1>2. Expired(successful) \subseteq Stamps
  BY DEF Expired
<1>3. j \in JobRows /\ j.step = "removing" /\ j.list = Expired(successful)
  BY <1>2, NoJobRow DEF JobRows
<1>4. ASSUME NEW n \in Expired(successful) PROVE Spared(n)
  <2>1. {k \in successful : k > n} = Later(n)
    BY DEF Later
  <2> QED BY <2>1 DEF Expired, Spared
<1> HIDE DEF j
<1> QED BY <1>1, <1>3, <1>4, QuietStep DEF Building

LEMMA RemoveStep ==
  ASSUME BackupsInv, UNCHANGED clockVars, NEW c \in Jobs, RemoveGeneration(c)
  PROVE  BackupsInv' /\ KeepsEnough
<1>1. PICK n \in job[c].list :
        /\ gens[n].dir
        /\ \/ /\ \E entry \in {"archive", "marker"} :
                  gens' = [gens EXCEPT ![n] = [gens[n] EXCEPT ![entry] = "none"]]
              /\ UNCHANGED job
           \/ /\ gens' = [gens EXCEPT ![n] = NoGeneration]
              /\ job' = [job EXCEPT ![c].list = @ \ {n}]
  BY DEF RemoveGeneration
<1>2. job[c] \in JobRows /\ job[c].step = "removing" /\ job[c].list \subseteq Stamps
      /\ \A k \in job[c].list : Spared(k)
  BY DEF RemoveGeneration, BackupsInv, JobRows
<1>4. n \in Stamps /\ Spared(n) /\ gens[n] \in Generations /\ MarkedIsWhole(gens[n]) /\ gens[n].dir
  BY <1>1, <1>2 DEF BackupsInv
<1>5. ASSUME NEW entry \in {"archive", "marker"}, UNCHANGED job,
             gens' = [gens EXCEPT ![n] = [gens[n] EXCEPT ![entry] = "none"]]
      PROVE  BackupsInv' /\ KeepsEnough
  <2> DEFINE g == [gens[n] EXCEPT ![entry] = "none"]
  <2>1. /\ g \in Generations /\ g.dir
        /\ \/ g.archive = "none" /\ g.marker = gens[n].marker
           \/ g.marker = "none" /\ g.archive = gens[n].archive
    <3>1. "none" \in Entry
      BY DEF Entry
    <3>2. PICK old \in Generations : old = gens[n] /\ old.dir
      BY <1>1, <1>4
    <3>3. CASE entry = "archive"
      BY <3>1, <3>2, <3>3 DEF Generations
    <3>4. CASE entry = "marker"
      BY <3>1, <3>2, <3>4 DEF Generations
    <3> QED BY <3>3, <3>4
  <2>2. job' = [job EXCEPT ![c] = job[c]]
    BY <1>5 DEF BackupsInv
  <2> HIDE DEF g
  <2>3. MarkedIsWhole(g)
    BY <1>4, <2>1 DEF MarkedIsWhole
  <2>4. gens' = [gens EXCEPT ![n] = g]
    BY <1>5 DEF g
  <2> QED BY <1>2, <1>4, <2>1, <2>2, <2>3, <2>4, JobStep DEF Building
<1>6. ASSUME gens' = [gens EXCEPT ![n] = NoGeneration],
             job' = [job EXCEPT ![c].list = @ \ {n}]
      PROVE  BackupsInv' /\ KeepsEnough
  <2> DEFINE j == [job[c] EXCEPT !.list = @ \ {n}]
  <2>1. j \in JobRows /\ j.step = "removing" /\ j.list \subseteq job[c].list
    BY <1>2 DEF JobRows
  <2>2. job' = [job EXCEPT ![c] = j]
    BY <1>6
  <2> HIDE DEF j
  <2>3. /\ MarkedIsWhole(NoGeneration) /\ NoGeneration.marker = "none"
        /\ NoGeneration.archive = "none" /\ NoGeneration \in Generations
    BY NoJobRow DEF MarkedIsWhole, NoGeneration
  <2> QED BY <1>2, <1>4, <1>6, <2>1, <2>2, <2>3, JobStep DEF Building
<1> QED BY <1>1, <1>5, <1>6

LEMMA StartBackupStep ==
  ASSUME BackupsInv, UNCHANGED clockVars, NEW c \in Jobs, StartBackup(c)
  PROVE  BackupsInv' /\ KeepsEnough
<1> DEFINE g == [gens[now] EXCEPT !.dir = TRUE]
           j == [NoJob EXCEPT !.step = "made", !.stamp = now]
<1>1. now \in Stamps /\ MarkedIsWhole(gens[now]) /\ ~gens[now].dir
  BY DEF BackupsInv, ClockTypeOK, Stamps, StartBackup
<1>2. gens[now] = NoGeneration
  BY <1>1 DEF MarkedIsWhole
<1>3. g \in Generations /\ g.dir /\ g.archive = "none" /\ g.marker = "none"
  <2> PICK old \in Generations : old = gens[now] /\ old.archive = "none" /\ old.marker = "none"
    BY <1>2, NoJobRow DEF NoGeneration
  <2>1. g = [old EXCEPT !.dir = TRUE]
    OBVIOUS
  <2> HIDE DEF g
  <2> QED BY <2>1 DEF Generations
<1>4. j \in JobRows /\ j.step = "made" /\ j.stamp = now
  BY <1>1, NoJobRow DEF NoJob, JobRows, Building
<1>5. gens' = [gens EXCEPT ![now] = g] /\ job' = [job EXCEPT ![c] = j]
  BY DEF StartBackup
<1>6. Alone(c, now)
  BY DEF StartBackup, Alone, Building
<1>7. ~Successful(now)
  BY <1>2 DEF Successful, NoGeneration
<1> HIDE DEF g, j
<1>8. MarkedIsWhole(g) /\ BuiltBy(j, g)
  BY <1>3, <1>4 DEF MarkedIsWhole, BuiltBy
<1> QED BY <1>1, <1>3, <1>4, <1>5, <1>6, <1>7, <1>8, JobStep

LEMMA FinishStep ==
  ASSUME BackupsInv, UNCHANGED clockVars, NEW c \in Jobs, FinishBackup(c)
  PROVE  BackupsInv' /\ KeepsEnough
<1> PICK s : s = job[c].stamp
  OBVIOUS
<1> DEFINE g == [gens[s] EXCEPT !.settled = TRUE]
<1>1. s \in Stamps /\ gens[s] \in Generations /\ MarkedIsWhole(gens[s]) /\ gens[s].dir
  BY DEF BackupsInv, JobRows, FinishBackup
<1>2. /\ g \in Generations /\ g.dir /\ g.archive = gens[s].archive /\ g.marker = gens[s].marker
  BY <1>1 DEF Generations
<1>3. gens' = [gens EXCEPT ![s] = g] /\ job' = [job EXCEPT ![c] = NoJob]
  BY DEF FinishBackup
<1> HIDE DEF g
<1>4. MarkedIsWhole(g)
  BY <1>1, <1>2 DEF MarkedIsWhole
<1>5. Successful(s) => g.marker \in {"unsynced", "whole"} /\ g.archive # "none"
  BY <1>2 DEF Successful
<1> QED BY <1>1, <1>2, <1>3, <1>4, <1>5, NoJobRow, JobStep DEF Building

\* What was not synced is gone, torn or whole, and no job is under way.
LEMMA PowerStep ==
  ASSUME BackupsInv, UNCHANGED clockVars, PowerFails
  PROVE  BackupsInv' /\ KeepsEnough
<1> DEFINE unsafe == {n \in Stamps : gens[n].dir /\ ~gens[n].settled}
<1>1. PICK a, m \in [unsafe -> {"none", "torn", "whole"}] :
         /\ \A n \in unsafe : a[n] \in Left(gens[n].archive) /\ m[n] \in Left(gens[n].marker)
         /\ gens' = [n \in Stamps |-> IF n \in unsafe
                                     THEN [gens[n] EXCEPT !.archive = a[n], !.marker = m[n]]
                                     ELSE gens[n]]
         /\ job' = [c \in Jobs |-> NoJob]
  BY DEF PowerFails
<1>2. ASSUME NEW n \in unsafe
      PROVE  /\ gens'[n] \in Generations /\ gens'[n].archive = a[n] /\ gens'[n].marker = m[n]
             /\ gens'[n].dir
  <2> PICK old \in Generations : old = gens[n] /\ old.dir
    BY DEF BackupsInv
  <2>1. gens'[n] = [old EXCEPT !.archive = a[n], !.marker = m[n]]
    BY <1>1
  <2>2. a[n] \in Entry /\ m[n] \in Entry
    BY <1>1 DEF Entry
  <2> QED BY <2>1, <2>2 DEF Generations
<1>3. \A n \in Stamps \ unsafe : gens'[n] = gens[n]
  BY <1>1
<1>4. \A n \in Stamps : gens'[n] \in Generations
  BY SMTT(30), <1>2, <1>3 DEF BackupsInv
<1>5. gens' \in [Stamps -> Generations]
  BY <1>1, <1>4
<1>6. ASSUME NEW n \in Stamps PROVE MarkedIsWhole(gens'[n])
  <2>1. CASE n \in unsafe
    <3>1. MarkedIsWhole(gens[n]) /\ gens[n] \in Generations
      BY DEF BackupsInv
    <3>2. m[n] # "none" => gens[n].marker # "none"
      BY <1>1, <2>1, <3>1 DEF Left, Generations, Entry
    <3>3. gens[n].archive \in {"none", "whole"} => a[n] \in {"none", "whole"}
      BY <1>1, <2>1 DEF Left
    <3> QED BY <1>2, <2>1, <3>1, <3>2, <3>3 DEF MarkedIsWhole
  <2>2. CASE n \notin unsafe
    BY <1>3, <2>2 DEF BackupsInv
  <2> QED BY <2>1, <2>2
<1>7. job' \in [Jobs -> JobRows] /\ \A c \in Jobs : job'[c].step = "idle"
  BY <1>1, NoJobRow
<1>8. KeepsEnough
  <2>1. ASSUME NEW n \in Stamps, gens[n].settled, Successful(n) PROVE Successful(n)'
    BY <1>3, <2>1 DEF Successful
  <2> QED BY <2>1 DEF KeepsEnough
<1>9. \A c \in Jobs : BuiltBy(job'[c], gens'[job'[c].stamp])
  BY <1>7 DEF BuiltBy
<1>10. ClockTypeOK'
  BY DEF BackupsInv, ClockTypeOK, clockVars
<1> QED BY SMTT(30), <1>5, <1>6, <1>7, <1>8, <1>9, <1>10 DEF BackupsInv, Building

LEMMA BackupsStep ==
  ASSUME BackupsInv,
         [(BackupsNext /\ UNCHANGED clockVars) \/ (Tick /\ UNCHANGED <<gens, job>>)]_backupVars
  PROVE  BackupsInv' /\ KeepsEnough
<1>1. ASSUME UNCHANGED clockVars, NEW c \in Jobs,
             \/ WriteArchive(c) \/ SyncArchive(c) \/ WriteMarker(c) \/ SyncMarker(c)
      PROVE  BackupsInv' /\ KeepsEnough
  <2>1. {"torn", "unsynced", "whole"} \subseteq Entry
        /\ {"made", "writing", "verified", "marking", "marked"} \subseteq Building
    BY DEF Entry, Building
  <2>2. CASE WriteArchive(c)
    BY <1>1, <2>1, <2>2, PopulateStep DEF WriteArchive
  <2>3. CASE SyncArchive(c)
    BY <1>1, <2>1, <2>3, PopulateStep DEF SyncArchive
  <2>4. CASE WriteMarker(c)
    BY <1>1, <2>1, <2>4, PopulateStep DEF WriteMarker
  <2>5. CASE SyncMarker(c)
    BY <1>1, <2>1, <2>5, PopulateStep DEF SyncMarker
  <2> QED BY <1>1, <2>2, <2>3, <2>4, <2>5
<1>2. ASSUME UNCHANGED clockVars, NEW c \in Jobs, JobEnds(c) PROVE BackupsInv' /\ KeepsEnough
  BY <1>2, NoJobRow, QuietStep DEF JobEnds, Building
<1>3. ASSUME UNCHANGED <<gens, job>>, ClockTypeOK' PROVE BackupsInv' /\ KeepsEnough
  <2>1. \A n \in Stamps : (Successful(n)' <=> Successful(n)) /\ Later(n)' = Later(n)
    BY <1>3 DEF Successful, Later
  <2>2. KeepsEnough
    BY <2>1 DEF KeepsEnough
  <2>3. \A c \in Jobs : job[c].step = "removing" => \A n \in job[c].list : Spared(n)'
    BY <2>1 DEF BackupsInv, JobRows, Spared
  <2>4. \A n \in Stamps : MarkedIsWhole(gens'[n])
    BY <1>3 DEF BackupsInv
  <2>5. \A c \in Jobs : BuiltBy(job'[c], gens'[job'[c].stamp])
    BY <1>3 DEF BackupsInv
  <2> QED BY <1>3, <2>2, <2>3, <2>4, <2>5 DEF BackupsInv
<1>4. CASE Tick /\ UNCHANGED <<gens, job>>
  <2>1. ClockTypeOK'
    BY <1>4, ClockAssumption DEF Tick, BackupsInv, ClockTypeOK
  <2> QED BY <1>3, <1>4, <2>1
<1>5. CASE UNCHANGED backupVars
  BY <1>3, <1>5 DEF backupVars, clockVars, BackupsInv, ClockTypeOK
<1>6. CASE BackupsNext /\ UNCHANGED clockVars
  BY <1>1, <1>2, <1>6, StartBackupStep, FinishStep, StartPruneStep, RemoveStep, PowerStep
     DEF BackupsNext
<1> QED BY <1>4, <1>5, <1>6

LEMMA BackupsBegin == BackupsInit => BackupsInv
<1> SUFFICES ASSUME BackupsInit PROVE BackupsInv
  OBVIOUS
<1>1. ClockTypeOK
  BY ClockAssumption DEF BackupsInit, ClockInit, ClockTypeOK
<1>2. MarkedIsWhole(NoGeneration)
  BY DEF MarkedIsWhole, NoGeneration
<1> QED BY <1>1, <1>2, NoJobRow DEF BackupsInit, BackupsInv, BuiltBy, Building

\* A generation that counts as successful has its whole archive, and one reported as
\* complete is pruned only while as many later ones are left as were to be kept: a prune
\* takes the oldest first, and the latest are on no list of another prune.
THEOREM OfflineBackupsAreKept == BackupsSpec => BackupsAreKept
<1> DEFINE Kept == \A n \in Stamps :
         /\ Successful(n)' => gens'[n].archive = "whole"
         /\ Successful(n) /\ ~Successful(n)' /\ gens[n].settled =>
              Cardinality({k \in Stamps : k > n /\ Successful(k)'}) >= KeepLatest
<1>1. ASSUME BackupsInv', KeepsEnough PROVE Kept
  <2>1. \A n \in Stamps : Successful(n)' => gens'[n].archive = "whole"
    BY <1>1 DEF BackupsInv, MarkedIsWhole, Successful
  <2>2. \A n \in Stamps : Later(n)' = {k \in Stamps : k > n /\ Successful(k)'}
    BY DEF Later, Stamps
  <2> QED BY <1>1, <2>1, <2>2 DEF KeepsEnough, Spared
<1> HIDE DEF Kept
<1>2. BackupsInv /\ [(BackupsNext /\ UNCHANGED clockVars) \/ (Tick /\ UNCHANGED <<gens, job>>)]_backupVars
        => BackupsInv' /\ [Kept]_backupVars
  BY <1>1, BackupsStep
<1>3. BackupsSpec => [][Kept]_backupVars
  BY <1>2, BackupsBegin, PTL DEF BackupsSpec
<1> QED BY <1>3, PTL DEF BackupsAreKept, Kept
-------------------------------------------------------------------------------
(* The types of the maintenance commands and the backups.                  *)

\* The variables of the maintenance commands keep their types, and whoever holds the
\* lock is alone.
THEOREM OfflineTypes == OfflineSpec => []OfflineTypeOK
<1>1. OfflineInv => OfflineTypeOK
  BY DEF OfflineInv, Types, FileStates, Contents, Versions, LockHolds, OfflineTypeOK
<1> QED BY <1>1, OfflineInvariant, PTL

\* The variables of backups and prunes keep their types.
THEOREM BackupsTypes == BackupsSpec => []BackupsTypeOK
<1>1. BackupsInv => BackupsTypeOK
  BY DEF BackupsInv, MarkedIsWhole, Generations, JobRows, BackupsTypeOK
<1>2. BackupsInv /\ [(BackupsNext /\ UNCHANGED clockVars) \/ (Tick /\ UNCHANGED <<gens, job>>)]_backupVars
        => BackupsInv'
  BY BackupsStep
<1> QED BY <1>1, <1>2, BackupsBegin, PTL DEF BackupsSpec

-------------------------------------------------------------------------------
(* All components together.                                                *)

\* The clock moves only with a tick, and nothing else moves then.
LEMMA AccountsBesideClock ==
  AccountsNext => UNCHANGED clockVars \/ (Tick /\ UNCHANGED AccountsRest)
BY DEF AccountsNext, AccountsClock, AccountsRest, Login, Browse, Maintain, BeginLogin, TakeAttempt,
       ProviderAnswers, CompleteLogin, IssueSession, LoginFails, Authenticate, FindActor, VerifyCsrf,
       Act, Logout, LinkIdentity, SetPrimary, PublishBackup, ApplyCommand, ShareWith, PurgeAccounts,
       StopsAccounts

LEMMA LibraryBesideClock == BibliographyNext => UNCHANGED clockVars
BY DEF BibliographyNext, EditLibrary, Import, Preview, Plan, ApplyImport, EndImport

\* To each component a step of the whole is a step of its own, a tick, or nothing.
LEMMA ServicesStep ==
  ASSUME [ServicesNext]_servicesVars
  PROVE  /\ [AccountsNext]_accountVars
         /\ [BibliographyNext \/ BibliographyClock]_bibVars
         /\ [OfflineNext]_offlineVars
         /\ [(BackupsNext /\ UNCHANGED clockVars) \/ (Tick /\ UNCHANGED <<gens, job>>)]_backupVars
         /\ [ToolsNext]_toolVars /\ [MacrosNext]_macroVars /\ [ViewNext]_tables
<1> USE DEF servicesVars, accountVars, AccountsRest, BackupsRest, Quiet, Others, bibVars, backupVars,
            BibliographyClock
<1>1. CASE AccountsMove
  BY <1>1, AccountsBesideClock DEF AccountsMove
<1>2. CASE LibraryMoves
  BY <1>2, LibraryBesideClock DEF LibraryMoves
<1>3. CASE OfflineMoves
  BY <1>3 DEF OfflineMoves
<1>4. CASE BackupsMove
  BY <1>4 DEF BackupsMove
<1>5. CASE ToolsMove
  BY <1>5 DEF ToolsMove
<1>6. CASE MacrosMove
  BY <1>6 DEF MacrosMove
<1>7. CASE ViewsMove
  BY <1>7 DEF ViewsMove
<1>8. CASE UNCHANGED servicesVars
  BY <1>8
<1> QED BY <1>1, <1>2, <1>3, <1>4, <1>5, <1>6, <1>7, <1>8 DEF ServicesNext

\* Every behaviour of the whole is a behaviour of each component, so whatever is proved
\* of one of them alone holds while all of them move, under one clock.
THEOREM ServicesComponents ==
  ServicesSpec => /\ AccountsSpec /\ BibliographySpec /\ OfflineSpec /\ BackupsSpec
                  /\ ToolsSpec /\ MacrosSpec /\ ViewSpec
<1>1. ServicesInit => /\ AccountsInit /\ BibliographyInit /\ OfflineInit /\ BackupsInit
                      /\ ToolsInit /\ MacrosInit /\ ViewInit
  BY DEF ServicesInit
<1> QED BY <1>1, ServicesStep, PTL
        DEF ServicesSpec, AccountsSpec, BibliographySpec, OfflineSpec, BackupsSpec, ToolsSpec,
            MacrosSpec, ViewSpec

\* The behaviours TLC explores, with one component that moves, are behaviours of the whole.
THEOREM FocusIsServices == FocusSpec => ServicesSpec
<1>1. FocusInit => ServicesInit
  BY DEF FocusInit
<1>2. ASSUME [FocusNext]_focusVars PROVE [ServicesNext]_servicesVars
  <2>1. CASE Tick /\ UNCHANGED <<AccountsRest, libraryVars, offlineVars, BackupsRest, Quiet>>
    BY <2>1 DEF ServicesNext, AccountsMove, AccountsNext, AccountsClock, AccountsRest
  <2> QED BY <1>2, <2>1 DEF FocusNext, focusVars, ServicesNext
<1> QED BY <1>1, <1>2, PTL DEF FocusSpec, ServicesSpec

\* Whichever components move, every variable of every component keeps its type.
THEOREM ServicesTypes == ServicesSpec => []ServicesTypeOK
<1>1. ServicesTypeOK <=>
        /\ AccountsTypeOK /\ BibliographyTypeOK /\ OfflineTypeOK /\ BackupsTypeOK
        /\ ToolsTypeOK /\ MacrosTypeOK /\ ViewTypeOK
  BY DEF ServicesTypeOK
<1> QED BY <1>1, ServicesComponents, AccountsTypes, LibraryTypes, OfflineTypes, BackupsTypes,
           ToolsTypesOK, MacrosTypes, ViewTypes, PTL

\* All that is promised of one component holds of the whole: no component can take from
\* another what was proved of it alone.
THEOREM ServicesKeepPromises ==
  ServicesSpec =>
    /\ [](/\ EndedStaysEnded /\ LoginIsOnce /\ PrincipalsRestore /\ AppliedOnce /\ LibraryRestores
          /\ OutputsAreWhole /\ PiecesAreOneRevision /\ DefinitionsClose /\ LinksAreTheText
          /\ NothingHiddenShows /\ WithinIsDistance)
    /\ ResolvesAsBefore /\ AppliedAsShown /\ ChangesAreSaved /\ BackupsAreKept
    /\ PatchLands /\ StepUpKeepsScopes
BY ServicesComponents, AccountsEndedStaysEnded, AccountsLoginIsOnce, AccountsPrincipalsRestore,
   AccountsResolvesAsBefore, LibraryAppliedOnce, LibraryRestoresProof, LibraryAppliedAsShown,
   OfflineOutputsAreWhole, OfflineChangesAreSaved, OfflineBackupsAreKept,
   ToolsPiecesAreOneRevision, ToolsPatchLands, ToolsStepUpKeepsScopes, MacrosDefinitionsClose,
   ViewLinksAreTheText, ViewNothingHiddenShows, ViewWithinIsDistance, PTL
===============================================================================
