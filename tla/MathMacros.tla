------------------------------- MODULE MathMacros ------------------------------
(***************************************************************************)
(* The math macros of one owner: a list that is replaced as a whole from   *)
(* the settings page, which may be loaded in several tabs, and that every    *)
(* formula of the owner's notes is shown under.  What is stored now must   *)
(* stand inside the definition that is made of it; what an older version   *)
(* stored need not, and is left out where formulas are shown.              *)
(*                                                                         *)
(* A macro is a name, a number of arguments and a replacement, a sequence  *)
(* of characters of which "x" and "1" stand for all that mean nothing.     *)
(***************************************************************************)
EXTENDS Integers, Sequences

CONSTANTS
    Tabs,           \* tabs of the settings page
    Offered,        \* lists a tab may try to save, valid or not
    MaxMacros,      \* MAX_MATH_MACROS
    MaxReplacement, \* MAX_MATH_MACRO_REPLACEMENT_CHARACTERS
    MaxArguments,   \* MAX_MATH_MACRO_ARGUMENTS
    MaxSettings     \* bound: revisions of the settings

ASSUME MacrosAssumption ==
    /\ {MaxMacros, MaxReplacement, MaxArguments} \subseteq Nat /\ MaxSettings \in Nat \ {0}
    /\ Offered \subseteq Seq([name: STRING, count: Nat, body: Seq(STRING)])

VARIABLES
    macros,  \* the row of math_macro_settings; revision 0: there is none
    loaded     \* loaded[t]: what tab t shows, revision -1 for nothing

macroVars == <<macros, loaded>>

-------------------------------------------------------------------------------
(* What may be stored.                                                     *)

\* "#" is followed by the number of an argument.
ArgumentsExist(body, count) ==
    \A i \in DOMAIN body : body[i] = "#" =>
        i < Len(body) /\ body[i + 1] = "1" /\ count >= 1

\* What a row may hold, also one of an older version.
StoredValid(list) ==
    /\ Len(list) <= MaxMacros
    /\ \A i \in DOMAIN list :
          /\ list[i].body # <<>> /\ Len(list[i].body) <= MaxReplacement
          /\ list[i].count <= MaxArguments
          /\ ArgumentsExist(list[i].body, list[i].count)
    /\ \A i, j \in DOMAIN list : list[i].name = list[j].name => i = j

Opening == "{"
Closing == "}"

\* One character after another: braces pair, none is commented out, and the count
\* of backslashes in front of a character tells whether it is escaped.
SafeCharacter(read, c) ==
    LET escaped == read.backslashes % 2 = 1 IN
    IF c = "\\" THEN [read EXCEPT !.backslashes = @ + 1]
    ELSE [backslashes |-> 0,
          depth |-> read.depth + (IF escaped THEN 0 ELSE IF c = Opening THEN 1
                                  ELSE IF c = Closing THEN -1 ELSE 0),
          ok |-> read.ok /\ (escaped \/ (c # "%" /\ ~(c = Closing /\ read.depth = 0)))]

\* What has been read of a replacement after so many characters.
SafeReads(body) ==
    LET read[i \in 0..Len(body)] ==
          IF i = 0 THEN [backslashes |-> 0, depth |-> 0, ok |-> TRUE]
          ELSE SafeCharacter(read[i - 1], body[i])
    IN read

\* Mutant: a backslash at the end escapes the brace that follows it.
SafeDefinition_OpenEnd(m) ==
    LET read == SafeReads(m.body)[Len(m.body)] IN
    m.name # "def" /\ read.ok /\ read.depth = 0

SafeDefinition(m) ==
    LET read == SafeReads(m.body)[Len(m.body)] IN
    m.name # "def" /\ read.ok /\ read.depth = 0 /\ read.backslashes % 2 = 0

\* What a tab may store, and the page shows formulas under.
MacrosValid(list) == StoredValid(list) /\ \A i \in DOMAIN list : SafeDefinition(list[i])
Shown(list) == {list[i] : i \in {i \in DOMAIN list : MacrosValid(<<list[i]>>)}}

-------------------------------------------------------------------------------
Default == [revision |-> 0, list |-> <<>>]
Unloaded == [revision |-> -1, list |-> <<>>]

\* A row that was restored from an archive may be of any version.
MacrosInit ==
    /\ macros \in {Default} \cup {[revision |-> 1, list |-> l] : l \in {l \in Offered : StoredValid(l)}}
    /\ loaded = [t \in Tabs |-> Unloaded]

OpenSettings(t) ==
    loaded' = [loaded EXCEPT ![t] = macros] /\ UNCHANGED macros

\* The insert needs that there is no row, the update that the row has the revision.
Replaces(expected) == macros.revision = expected

SaveSettings(t) ==
    /\ loaded[t] # Unloaded /\ Replaces(loaded[t].revision) /\ macros.revision < MaxSettings
    /\ \E list \in Offered :
         /\ MacrosValid(list)
         /\ macros' = [revision |-> loaded[t].revision + 1, list |-> list]
    /\ \/ loaded' = [loaded EXCEPT ![t] = macros']   \* the tab shows what was saved
       \/ UNCHANGED loaded                         \* the answer is lost

MacrosNext == \E t \in Tabs : OpenSettings(t) \/ SaveSettings(t)
MacrosSpec == MacrosInit /\ [][MacrosNext]_macroVars

-------------------------------------------------------------------------------
(* How TeX reads the definitions in front of a formula.                    *)

\* \def\name#1{replacement}, as characters; the name is one of them.
Definition(m) == <<"\\", "x", "\\", "x">> \o (IF m.count = 0 THEN <<>> ELSE <<"#", "1">>)
                 \o <<Opening>> \o m.body \o <<Closing>>

\* A character: escaped by the one before it, opening, closing or commenting out the
\* rest. at: where the text first came back to the depth it began at.
TexCharacter(read, c) ==
    IF read.comment THEN [read EXCEPT !.at = @ + IF read.closed THEN 0 ELSE 1]
    ELSE LET depth == IF read.escape THEN read.depth
                      ELSE IF c = Opening THEN read.depth + 1
                      ELSE IF c = Closing THEN read.depth - 1 ELSE read.depth IN
         [escape  |-> ~read.escape /\ c = "\\",
          comment |-> ~read.escape /\ c = "%",
          depth   |-> depth,
          closed  |-> read.closed \/ (depth = 0 /\ ~read.escape /\ c = Closing),
          at      |-> read.at + IF read.closed THEN 0 ELSE 1]

TexReads(text) ==
    LET read[i \in 0..Len(text)] ==
          IF i = 0 THEN [escape |-> FALSE, comment |-> FALSE, depth |-> 0, closed |-> FALSE, at |-> 0]
          ELSE TexCharacter(read[i - 1], text[i])
    IN read

\* The number of characters TeX takes for the first definition of a text.
Taken(text) ==
    LET read == TexReads(text)[Len(text)] IN
    IF read.closed THEN read.at ELSE -1

-------------------------------------------------------------------------------
\* The row and the tabs keep their type, and the row is readable.
MacrosTypeOK ==
    /\ macros.revision \in 0..MaxSettings /\ StoredValid(macros.list)
    /\ \A t \in Tabs : loaded[t].revision \in -1..MaxSettings

\* Whatever is shown, of this version or an older one, TeX ends each definition at
\* the brace that was put behind the replacement: no definition takes a part of the
\* formula, and no formula becomes part of a definition.
DefinitionsClose ==
    \A m \in Shown(macros.list) :
        LET d == Definition(m) IN Taken(d \o <<"x", Closing>>) = Len(d)

\* A tab replaces only the list it shows: two tabs, or an answer that was lost, do
\* not undo a save nobody has seen.
NoMacrosLost ==
    [][macros' # macros => \E t \in Tabs : loaded[t] = macros]_macroVars
================================================================================
