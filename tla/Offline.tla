-------------------------------- MODULE Offline --------------------------------
(***************************************************************************)
(* The maintenance commands around one database: exports published under a *)
(* name of their own, imports into an empty database, commands that take   *)
(* the database for themselves and save it before they change it.  The     *)
(* server and several commands run side by side; any of them may fail at   *)
(* any step, and the machine may stop: what was not synced by then may be  *)
(* torn or gone.                                                           *)
(*                                                                         *)
(* The contents of the database are numbered by the changes made to it, 0  *)
(* is an empty one.  What an archive says of them is Portable's subject.   *)
(***************************************************************************)
EXTENDS Naturals, FiniteSets

CONSTANTS
    Commands,  \* commands that run at once
    Paths,     \* names of output files
    Server,    \* the connection of the service
    Nothing,   \* no command, no name
    MaxData    \* bound: changes of the database

ASSUME OfflineAssumption ==
    /\ Server \notin Commands /\ Nothing \notin Commands \cup Paths
    /\ MaxData \in Nat \ {0}

VARIABLES
    db,       \* the version of its schema, and its contents
    open,     \* who is connected
    lock,     \* who holds the exclusive lock
    file,     \* files under their final names
    lasting,  \* names whose directory was synced
    cmd,      \* commands under way
    done      \* history: what commands reported as written

offlineVars == <<db, open, lock, file, lasting, cmd, done>>

Content(kind, of) == [kind |-> kind, version |-> of.version, data |-> of.data]
NoContent == [kind |-> "none", version |-> "current", data |-> 0]
NoFile == [content |-> NoContent, synced |-> FALSE, torn |-> FALSE]
NoCommandRuns == [op |-> "none", step |-> "none", name |-> Nothing, held |-> NoContent,
                  synced |-> FALSE]

OfflineInit ==
    /\ db \in {[version |-> "old", data |-> 1], [version |-> "current", data |-> 0],
               [version |-> "current", data |-> 1]}
    /\ open = {} /\ lock = Nothing
    /\ \E left \in SUBSET Paths : Cardinality(left) <= 1 /\
         file = [p \in Paths |-> IF p \in left
                   THEN [NoFile EXCEPT !.content = Content("archive", [version |-> "old", data |-> 1]),
                                       !.synced = TRUE]
                   ELSE NoFile]
    /\ lasting = {p \in Paths : file[p] # NoFile}
    /\ cmd = [c \in Commands |-> NoCommandRuns]
    /\ done = lasting

-------------------------------------------------------------------------------
Free(p) == file[p] = NoFile
Runs(c, step) == cmd[c].step = step
Idling(c) == cmd[c] = NoCommandRuns

Go(c, m) == cmd' = [cmd EXCEPT ![c] = m]
Step(c, step) == Go(c, [cmd[c] EXCEPT !.step = step])

\* The command ends: its temporary file, connections and lock go with it.
End(c) ==
    /\ Go(c, NoCommandRuns)
    /\ open' = open \ {c}
    /\ lock' = IF lock = c THEN Nothing ELSE lock

\* A connection accepts the current schema only, and waits for nobody's lock for long.
MayConnect == lock = Nothing /\ db.version = "current"

Lock(c) == lock = Nothing /\ open = {} /\ lock' = c

-------------------------------------------------------------------------------
(* Commands that write one file. The name must be free when they start and *)
(* when they end.                                                          *)

Writing(op, p, held) ==
    [NoCommandRuns EXCEPT !.op = op, !.step = "read", !.name = p, !.held = held]

\* export-archive, export-documents: the snapshot is of one moment.
StartExport(c, p, kind) ==
    /\ Idling(c) /\ Free(p) /\ MayConnect
    /\ Go(c, Writing("export", p, Content(kind, db)))
    /\ open' = open \cup {c}
    /\ UNCHANGED <<db, lock, file, lasting, done>>

\* migrate-archive: from the contract before this one, and no other.
StartConversion(c, q, p) ==
    /\ Idling(c) /\ Free(p)
    /\ file[q].content.kind = "archive" /\ ~file[q].torn /\ file[q].content.version = "old"
    /\ Go(c, Writing("convert", p, [file[q].content EXCEPT !.version = "current"]))
    /\ UNCHANGED <<db, open, lock, file, lasting, done>>

\* migrate-database and the identity commands lock the database first. Without
\* anything to change they end here.
StartChange(c, p, op) ==
    /\ Idling(c) /\ Free(p) /\ Lock(c)
    /\ db.version = IF op = "migrate" THEN "old" ELSE "current"
    /\ db.data > 0 /\ db.data < MaxData
    /\ Go(c, Writing(op, p, Content("copy", db)))
    /\ UNCHANGED <<db, open, file, lasting, done>>

\* Mutant: the file is not synced before it gets its name.
WriteOutput_Unsynced(c) ==
    /\ Runs(c, "read")
    /\ Step(c, "written")
    /\ UNCHANGED <<db, open, lock, file, lasting, done>>

\* Into a private temporary file, synced, read again and compared.
WriteOutput(c) ==
    /\ Runs(c, "read")
    /\ Go(c, [cmd[c] EXCEPT !.step = "written", !.synced = TRUE])
    /\ UNCHANGED <<db, open, lock, file, lasting, done>>

\* The final name is a second link, and never replaces a file that is there by now.
Publish(c) ==
    /\ Runs(c, "written") /\ Free(cmd[c].name)
    /\ file' = [file EXCEPT ![cmd[c].name] =
         [content |-> cmd[c].held, synced |-> cmd[c].synced, torn |-> FALSE]]
    /\ Step(c, "linked")
    /\ UNCHANGED <<db, open, lock, lasting, done>>

\* The directory is synced: a copy is safe to go on from, an export is done.
Settle(c) ==
    /\ Runs(c, "linked")
    /\ lasting' = lasting \cup {cmd[c].name}
    /\ done' = done \cup {cmd[c].name}
    /\ IF lock = c THEN Step(c, "saved") /\ UNCHANGED <<open, lock>> ELSE End(c)
    /\ UNCHANGED <<db, file>>

\* Mutant: the change is made when the copy has its name.
ChangeDatabase_Linked(c) ==
    /\ cmd[c].step \in {"linked", "saved"} /\ lock = c
    /\ db' = [version |-> "current", data |-> db.data + 1]
    /\ End(c)
    /\ UNCHANGED <<file, lasting, done>>

\* One transaction, verified before it commits.
ChangeDatabase(c) ==
    /\ Runs(c, "saved")
    /\ db' = [version |-> "current", data |-> db.data + 1]
    /\ End(c)
    /\ UNCHANGED <<file, lasting, done>>

-------------------------------------------------------------------------------
(* Imports: import-archive, import-documents, and restore-archive, which   *)
(* converts as well. What was read is verified in a database of its own.   *)

StartImport(c, p) ==
    /\ Idling(c) /\ ~Free(p) /\ ~file[p].torn
    /\ file[p].content.kind \in {"archive", "documents"}
    /\ Go(c, [NoCommandRuns EXCEPT !.op = "import", !.step = "checked",
                                   !.held = [file[p].content EXCEPT !.version = "current"]])
    /\ UNCHANGED <<db, open, lock, file, lasting, done>>

\* One transaction, into a database that is empty at that moment.
Restore(c) ==
    /\ Runs(c, "checked") /\ MayConnect
    /\ db' = IF db.data = 0 THEN [db EXCEPT !.data = cmd[c].held.data] ELSE db
    /\ Go(c, NoCommandRuns)
    /\ UNCHANGED <<open, lock, file, lasting, done>>

-------------------------------------------------------------------------------
(* The server, failures and power.                                         *)

Serve ==
    /\ MayConnect /\ Server \notin open
    /\ open' = open \cup {Server}
    /\ UNCHANGED <<db, lock, file, lasting, cmd, done>>

UseDatabase ==
    /\ Server \in open /\ db.data < MaxData
    /\ db' = [db EXCEPT !.data = @ + 1]
    /\ UNCHANGED <<open, lock, file, lasting, cmd, done>>

Close ==
    /\ Server \in open /\ open' = open \ {Server}
    /\ UNCHANGED <<db, lock, file, lasting, cmd, done>>

\* A command fails or is refused, at any step; what it published stays.
CommandEnds(c) ==
    /\ ~Idling(c) /\ End(c)
    /\ UNCHANGED <<db, file, lasting, done>>

\* The machine stops. Transactions are whole, files only as far as they were synced.
MachineStops ==
    /\ \E lost \in SUBSET (Paths \ lasting) :
         file' = [p \in Paths |-> IF p \in lost THEN NoFile
                                  ELSE [file[p] EXCEPT !.torn = ~Free(p) /\ ~file[p].synced]]
    /\ open' = {} /\ lock' = Nothing
    /\ cmd' = [c \in Commands |-> NoCommandRuns]
    /\ lasting' = {p \in Paths : file'[p] # NoFile}
    /\ UNCHANGED <<db, done>>

-------------------------------------------------------------------------------
Output(c) ==
    \/ \E p \in Paths :
         \/ StartExport(c, p, "archive") \/ StartExport(c, p, "documents")
         \/ StartChange(c, p, "migrate") \/ StartChange(c, p, "identity")
         \/ \E q \in Paths : StartConversion(c, q, p)
    \/ WriteOutput(c) \/ Publish(c) \/ Settle(c) \/ ChangeDatabase(c)

Input(c) == Restore(c) \/ \E p \in Paths : StartImport(c, p)

OfflineNext ==
    \/ \E c \in Commands : Output(c) \/ Input(c) \/ CommandEnds(c)
    \/ Serve \/ UseDatabase \/ Close \/ MachineStops

OfflineSpec == OfflineInit /\ [][OfflineNext]_offlineVars

-------------------------------------------------------------------------------
\* Every variable keeps its type, and the lock excludes every connection.
OfflineTypeOK ==
    /\ db \in [version: {"old", "current"}, data: 0..MaxData]
    /\ open \subseteq Commands \cup {Server} /\ lock \in Commands \cup {Nothing}
    /\ lock # Nothing => open = {}
    /\ \A p \in Paths : file[p].content.kind \in {"none", "archive", "documents", "copy"}
    /\ lasting \subseteq Paths /\ done \subseteq Paths

\* What stands under a final name is whole, whoever raced for the name and whenever
\* the machine stopped; and what a command reported as written is there.
OutputsAreWhole ==
    /\ \A p \in Paths : ~file[p].torn
    /\ \A p \in done : ~Free(p)

\* Before a command changes the database there is a copy of just that state which a
\* power failure cannot take away.
ChangesAreSaved ==
    [][\A c \in Commands :
         lock = c /\ db' # db => \E p \in lasting : file[p].content = Content("copy", db)
                                                    /\ file[p].synced]_offlineVars
================================================================================
