------------------------------- MODULE MCServices ------------------------------
(* The components of Services with small sets of names, and the library with   *)
(* its clock.                                                                  *)
EXTENDS Services, TLC

CONSTANTS a, b, nobody, m1, m2, n1, n2, o1, o2, f1, c1, none, connection, p1, p2, k1, k2

MCIdentities == {a, b}
MCAllowed    == {a}

\* The same names serve all components, so that symmetry stays cheap.
First  == {m1, m2}
Second == {n1, n2}
Third  == {o1, o2}

MCSources    == {f1}
MCImporters  == {c1}
MCEntries    == 1..2
MCLines      == {a, b, o1, o2}
MCDrafts     ==
    [lines: {<<a, o1>>, <<a, o2>>}, nl: BOOLEAN]
    \cup [lines: {<<a, o1, o2>>, <<a, o2, o1>>, <<a, b>>, <<o1>>, <<o2>>}, nl: {TRUE}]
MCTools      == {"get_note", "get_note_outline", "get_note_fragment", "get_note_profile",
                 "create_note", "apply_note_patch", "replace_note_source", "delete_note"}

Characters   == {"\\", "{", "}", "%", "#", "1", "x"}
MCBodies     == {<<>>} \cup [1..1 -> Characters] \cup [1..2 -> Characters]
                \cup [1..3 -> {"\\", "{", "}", "%"}]
MCOffered    == {<<>>}
                \cup {<<[name |-> "x", count |-> 1, body |-> r]>> : r \in MCBodies}

MCPeople     == {p1, p2}
MCOwner      == <<p1, p2>>
MCCited      == {k1, k2}
MCTexts      ==
    {NoBody, [refs |-> {1, 2}, cites |-> <<k2, k1, k2>>, word |-> TRUE],
     [refs |-> {2}, cites |-> <<k1>>, word |-> FALSE]}

\* The library with its clock.
LibraryClockSpec ==
    /\ FocusInit /\ focus = "library"
    /\ [][/\ BibliographyNext \/ BibliographyClock
          /\ UNCHANGED <<focus, AccountsRest, offlineVars, BackupsRest, Quiet>>]_focusVars

Symmetric == Permutations(First) \cup Permutations(Second) \cup Permutations(Third)
================================================================================
