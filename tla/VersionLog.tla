------------------------------- MODULE VersionLog -------------------------------
(***************************************************************************)
(* What a note promises its authors, whatever they do at once: its texts   *)
(* form a log that only grows, and whoever adds to it has looked at its    *)
(* end.                                                                    *)
(***************************************************************************)
EXTENDS Naturals

CONSTANTS
    Writers,   \* the principals who may open the note
    Texts      \* what a version may say

VARIABLES
    size,   \* number of versions, 0 before the creation and after the purge
    log,    \* log[r]: the text of version r
    hand,   \* hand[p]: the version writer p last looked at, 0 for none
    over    \* the note was purged

logVars == <<size, log, hand, over>>

LogInit ==
    /\ size = 0
    /\ log = [r \in 1..0 |-> 0]
    /\ hand = [p \in Writers |-> 0]
    /\ over = FALSE

Extend(t) ==
    /\ size' = size + 1
    /\ log' = [r \in 1..(size + 1) |-> IF r <= size THEN log[r] ELSE t]
    /\ UNCHANGED <<hand, over>>

Create(t) == size = 0 /\ ~over /\ Extend(t)

Look(p) ==
    /\ size > 0
    /\ hand' = [hand EXCEPT ![p] = size]
    /\ UNCHANGED <<size, log, over>>

\* A new text follows the version its author looked at.
Save(p, t) ==
    /\ size > 0 /\ hand[p] = size
    /\ \A r \in 1..size : log[r] # t
    /\ Extend(t)

\* An old text returns; so do the texts of changes that are not of the text.
Revert(p, r) ==
    /\ hand[p] = size
    /\ Extend(log[r])

Purge ==
    /\ size > 0
    /\ size' = 0
    /\ log' = [r \in 1..0 |-> 0]
    /\ over' = TRUE
    /\ UNCHANGED hand

LogNext ==
    \/ \E t \in Texts : Create(t) \/ \E p \in Writers : Save(p, t)
    \/ \E p \in Writers : Look(p) \/ \E r \in 1..size : Revert(p, r)
    \/ Purge

LogSpec == LogInit /\ [][LogNext]_logVars
================================================================================
