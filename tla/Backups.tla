-------------------------------- MODULE Backups --------------------------------
(***************************************************************************)
(* The generations of the daily backup: a directory named by the time, an  *)
(* archive that is synced and verified, and a marker last.  prune-backups  *)
(* keeps the latest ones.  Backups and prunes may overlap and fail at any  *)
(* step, the clock may be set back, and the machine may stop: what was not *)
(* synced by then is whole, torn or gone.                                  *)
(***************************************************************************)
EXTENDS Clock, FiniteSets

CONSTANTS
    Jobs,       \* backup and prune-backups commands that run at once
    KeepLatest  \* --keep

ASSUME BackupsAssumption == KeepLatest \in Nat \ {0}

VARIABLES
    gens,  \* backup-<n>: the generations by the time in their names
    job    \* the commands under way

backupVars == <<gens, job, clockVars>>

Stamps == 0..MaxTime
Entry == {"none", "torn", "unsynced", "whole"}
NoGeneration == [dir |-> FALSE, archive |-> "none", marker |-> "none", settled |-> FALSE]
NoJob == [step |-> "idle", stamp |-> 0, list |-> {}]

BackupsInit ==
    /\ ClockInit
    /\ gens = [n \in Stamps |-> NoGeneration]
    /\ job = [c \in Jobs |-> NoJob]

-------------------------------------------------------------------------------
(* backup --directory.                                                     *)

\* The clock counts milliseconds: no two backups under way share a name.
StartBackup(c) ==
    /\ job[c] = NoJob /\ ~gens[now].dir
    /\ \A d \in Jobs : job[d].stamp # now \/ job[d].step \in {"idle", "removing"}
    /\ gens' = [gens EXCEPT ![now].dir = TRUE]
    /\ job' = [job EXCEPT ![c] = [NoJob EXCEPT !.step = "made", !.stamp = now]]

\* What a backup does next with its generation, if that is still there: a new entry,
\* or one it has open is synced.
Populate(c, from, to, entry, state) ==
    /\ job[c].step = from /\ gens[job[c].stamp].dir
    /\ gens' = [gens EXCEPT ![job[c].stamp] =
         IF state = "whole" /\ @[entry] = "none" THEN @ ELSE [@ EXCEPT ![entry] = state]]
    /\ job' = [job EXCEPT ![c].step = to]

WriteArchive(c) == Populate(c, "made", "writing", "archive", "torn")

\* Synced, read again, compared with the snapshot, restored in memory.
SyncArchive(c) == Populate(c, "writing", "verified", "archive", "whole")

\* Mutant: the marker is written while the archive is.
WriteMarker_Early(c) == Populate(c, "writing", "marking", "marker", "unsynced")

WriteMarker(c) == Populate(c, "verified", "marking", "marker", "unsynced")
SyncMarker(c)  == Populate(c, "marking", "marked", "marker", "whole")

\* The directory is synced, and the backup is reported as complete.
FinishBackup(c) ==
    /\ job[c].step = "marked" /\ gens[job[c].stamp].dir
    /\ gens' = [gens EXCEPT ![job[c].stamp].settled = TRUE]
    /\ job' = [job EXCEPT ![c] = NoJob]

-------------------------------------------------------------------------------
(* prune-backups --keep.                                                   *)

\* A generation with a readable marker and an archive; anything else is passed over.
Successful(n) == gens[n].marker \in {"unsynced", "whole"} /\ gens[n].archive # "none"

Expired(successful) == {n \in successful : Cardinality({k \in successful : k > n}) >= KeepLatest}

\* Every successful generation is validated first; one that cannot be read fails it all.
StartPrune(c) ==
    /\ job[c] = NoJob
    /\ LET successful == {n \in Stamps : Successful(n)} IN
       /\ \A n \in successful : gens[n].archive = "whole"
       /\ job' = [job EXCEPT ![c] = [NoJob EXCEPT !.step = "removing", !.list = Expired(successful)]]
    /\ UNCHANGED gens

\* The oldest first, its entries in any order and then the directory itself; the
\* next one waits until it is gone.
RemoveGeneration(c) ==
    /\ job[c].step = "removing"
    /\ \E n \in job[c].list :
       /\ (\A k \in job[c].list : n <= k) /\ gens[n].dir
       /\ \/ /\ \E entry \in {"archive", "marker"} :
                  gens[n][entry] # "none" /\ gens' = [gens EXCEPT ![n] = [@ EXCEPT ![entry] = "none"]]
             /\ UNCHANGED job
          \/ /\ gens[n].archive = "none" /\ gens[n].marker = "none"
             /\ gens' = [gens EXCEPT ![n] = NoGeneration]
             /\ job' = [job EXCEPT ![c].list = @ \ {n}]

\* Refused, failed or through, at any step.
JobEnds(c) ==
    /\ job[c] # NoJob /\ job' = [job EXCEPT ![c] = NoJob]
    /\ UNCHANGED gens

-------------------------------------------------------------------------------
\* What is found of an entry of a directory that was not synced: a torn or unsynced
\* file is whatever reached the disk, and none of them is sure to be there.
Left(entry) == {"none"} \cup (IF entry \in {"torn", "unsynced"} THEN {"torn", "whole"} ELSE {entry})

PowerFails ==
    /\ LET open == {n \in Stamps : gens[n].dir /\ ~gens[n].settled} IN
       \E a, m \in [open -> {"none", "torn", "whole"}] :
         /\ \A n \in open : a[n] \in Left(gens[n].archive) /\ m[n] \in Left(gens[n].marker)
         /\ gens' = [n \in Stamps |-> IF n \in open
                                     THEN [gens[n] EXCEPT !.archive = a[n], !.marker = m[n]]
                                     ELSE gens[n]]
    /\ job' = [c \in Jobs |-> NoJob]

BackupsNext ==
    \/ \E c \in Jobs :
         \/ StartBackup(c) \/ WriteArchive(c) \/ SyncArchive(c)
         \/ WriteMarker(c) \/ SyncMarker(c) \/ FinishBackup(c)
         \/ StartPrune(c) \/ RemoveGeneration(c) \/ JobEnds(c)
    \/ PowerFails

BackupsSpec ==
    BackupsInit /\ [][(BackupsNext /\ UNCHANGED clockVars) \/ (Tick /\ UNCHANGED <<gens, job>>)]_backupVars

-------------------------------------------------------------------------------
\* Every variable keeps its type, and a generation without a directory has no files.
BackupsTypeOK ==
    /\ ClockTypeOK
    /\ gens \in [Stamps -> [dir: BOOLEAN, archive: Entry, marker: Entry, settled: BOOLEAN]]
    /\ \A n \in Stamps : ~gens[n].dir => gens[n] = NoGeneration
    /\ \A c \in Jobs : job[c].stamp \in Stamps /\ job[c].list \subseteq Stamps

\* Whenever backups stopped or were interrupted while others pruned, a generation that
\* counts as successful has its whole archive, so the next prune or verification is not
\* refused; and a generation once reported as complete is taken away only while as many
\* later ones are left as the prune was told to keep.
BackupsAreKept ==
    [][\A n \in Stamps :
         /\ Successful(n)' => gens'[n].archive = "whole"
         /\ Successful(n) /\ ~Successful(n)' /\ gens[n].settled =>
              Cardinality({k \in Stamps : k > n /\ Successful(k)'}) >= KeepLatest]_backupVars
================================================================================
