------------------------------- MODULE TextProofs ------------------------------
(***************************************************************************)
(* Theorems about texts and what is shown of them, for any people, notes,  *)
(* libraries, macros, settings and drafts: NoteView's tables and graphs,   *)
(* the definitions that MathMacros puts in front of a formula, and what    *)
(* McpTools makes of a note piece by piece and patch by patch.             *)
(*                                                                         *)
(* Graphs and texts of any size are handled by induction over the natural  *)
(* numbers, which the first two lemmas make available: both are stated of  *)
(* sets and functions, not of operators, so that they can be instantiated. *)
(***************************************************************************)
EXTENDS SequenceTheorems, WellFoundedInduction, NoteView, MathMacros, McpTools, TLAPS

\* A set of numbers with 0 and the successor of each of its members is all of Nat.
LEMMA Inductive ==
  ASSUME NEW S, 0 \in S, \A n \in Nat : n \in S => n + 1 \in S
  PROVE  Nat \subseteq S
<1> DEFINE R == OpToRel(<, Nat)
           T == Nat \ S
<1>1. IsWellFoundedOn(R, Nat)
  BY NatLessThanWellFounded
<1>2. \A x, y \in Nat : y < x => <<y, x>> \in R
  BY DEF OpToRel
<1> HIDE DEF R
<1>3. ASSUME T # {} PROVE FALSE
  <2>1. PICK x \in T : \A y \in T : ~ (<<y, x>> \in R)
    BY <1>1, <1>3, WFMin
  <2>2. x \in Nat /\ x # 0 /\ x - 1 \in Nat /\ x - 1 < x
    OBVIOUS
  <2>3. x - 1 \notin T
    BY <1>2, <2>1, <2>2
  <2>4. x - 1 \in S
    BY <2>2, <2>3
  <2>5. (x - 1) + 1 \in S /\ (x - 1) + 1 = x
    BY <2>2, <2>4
  <2> QED BY <2>5, <2>1
<1> QED BY <1>3

\* What N steps make of a beginning, step d by the function G[d], and that it exists.
Iterated(S, first, G, N) ==
    {f \in [0..N -> S] : f[0] = first /\ \A d \in 1..N : f[d] = G[d][f[d - 1]]}

LEMMA Iteration ==
  ASSUME NEW S, NEW first \in S, NEW G \in [Nat -> [S -> S]], NEW N \in Nat
  PROVE  Iterated(S, first, G, N) # {}
<1> DEFINE T == {n \in Nat : \E f \in [0..n -> S] : f[0] = first /\ \A d \in 1..n : f[d] = G[d][f[d - 1]]}
<1>1. 0 \in T
  <2>1. PICK f : f = [d \in 0..0 |-> first]
    OBVIOUS
  <2>2. f \in [0..0 -> S] /\ f[0] = first /\ 1..0 = {}
    BY <2>1
  <2> QED BY <2>2
<1>2. ASSUME NEW n \in Nat, n \in T PROVE n + 1 \in T
  <2>1. PICK f \in [0..n -> S] : f[0] = first /\ \A d \in 1..n : f[d] = G[d][f[d - 1]]
    BY <1>2
  <2>2. PICK h : h = [d \in 0..n + 1 |-> IF d = n + 1 THEN G[n + 1][f[n]] ELSE f[d]]
    OBVIOUS
  <2>3. h \in [0..n + 1 -> S] /\ h[0] = first
    <3>1. f[n] \in S /\ G[n + 1] \in [S -> S]
      BY <2>1
    <3>2. G[n + 1][f[n]] \in S
      BY <3>1
    <3> QED BY <2>1, <2>2, <3>2
  <2>4. ASSUME NEW d \in 1..n + 1 PROVE h[d] = G[d][h[d - 1]]
    <3>1. d - 1 \in 0..n /\ h[d - 1] = f[d - 1]
      BY <2>2
    <3>2. CASE d = n + 1
      <4>1. (n + 1) - 1 = n /\ h[n + 1] = G[n + 1][f[n]]
        BY <2>2
      <4> QED BY <4>1, <3>1, <3>2
    <3>3. CASE d # n + 1
      <4>1. d \in 1..n /\ h[d] = f[d]
        BY <3>3, <2>2
      <4>2. f[d] = G[d][f[d - 1]]
        BY <4>1, <2>1
      <4> QED BY <4>1, <4>2, <3>1
    <3> QED BY <3>2, <3>3
  <2> QED BY <2>3, <2>4
<1>3. Nat \subseteq T
  <2> HIDE DEF T
  <2> QED BY <1>1, <1>2, Inductive
<1> QED BY <1>3 DEF Iterated

-------------------------------------------------------------------------------
(* The rows beside the texts.                                              *)

BodyRows == [refs: SUBSET NoteIds, cites: Seq(CitedKeys), word: BOOLEAN]
NoteRows == [state: {"none", "live", "deleted", "gone"}, body: BodyRows]
Tables ==
    [note: [NoteIds -> NoteRows], acl: [NoteIds -> [People -> 0..2]],
     refs: SUBSET (NoteIds \X NoteIds), cites: SUBSET (NoteIds \X CitedKeys),
     library: [People -> SUBSET CitedKeys]]

\* What the rows of one note are.
LinksOfNote(n, t) ==
    /\ \A m : <<n, m>> \in t.refs <=> m \in t.note[n].body.refs
    /\ \A k : <<n, k>> \in t.cites <=> \E i \in DOMAIN t.note[n].body.cites : k = t.note[n].body.cites[i]

ViewInv ==
    /\ tables \in Tables
    /\ \A n \in NoteIds : LinksOfNote(n, tables)

LEMMA ViewBegin == ViewInit => ViewInv
<1> SUFFICES ASSUME ViewInit PROVE ViewInv
  OBVIOUS
<1>1. Unwritten \in NoteRows /\ NoBody.refs = {} /\ NoBody.cites = <<>>
  BY DEF Unwritten, NoBody, NoteRows, BodyRows
<1>2. tables = [note |-> [n \in NoteIds |-> Unwritten], acl |-> [n \in NoteIds |-> [p \in People |-> 0]],
                refs |-> {}, cites |-> {}, library |-> [p \in People |-> {}]]
  BY DEF ViewInit
<1>3. tables \in Tables
  BY <1>1, <1>2 DEF Tables
<1>4. \A n \in NoteIds : tables.note[n].body = NoBody /\ tables.refs = {} /\ tables.cites = {}
  BY <1>2 DEF Unwritten
<1> QED BY <1>1, <1>3, <1>4 DEF ViewInv, LinksOfNote

\* What a change of a text writes: the rows of the others stay.
LEMMA TextWritten ==
  ASSUME ViewInv, NEW n \in NoteIds, NEW body \in Bodies, tables' = WithBody(n, body, tables)
  PROVE  ViewInv'
<1>1. body \in BodyRows
  BY ViewAssumption DEF BodyRows
<1>2. tables \in Tables
  BY DEF ViewInv
<1>3. /\ tables' = [note |-> tables'.note, acl |-> tables.acl, refs |-> tables'.refs,
                    cites |-> tables'.cites, library |-> tables.library]
      /\ tables'.note = [tables.note EXCEPT ![n] = [state |-> "live", body |-> body]]
      /\ tables'.refs = {r \in tables.refs : r[1] # n} \cup {<<n, m>> : m \in body.refs}
      /\ tables'.cites = {c \in tables.cites : c[1] # n}
                         \cup {<<n, body.cites[i]>> : i \in DOMAIN body.cites}
  BY <1>2 DEF WithBody, Tables
<1>4. /\ tables.note \in [NoteIds -> NoteRows] /\ tables.acl \in [NoteIds -> [People -> 0..2]]
      /\ tables.refs \subseteq NoteIds \X NoteIds /\ tables.cites \subseteq NoteIds \X CitedKeys
      /\ tables.library \in [People -> SUBSET CitedKeys]
  BY <1>2 DEF Tables
<1>5. body.refs \subseteq NoteIds /\ \A i \in DOMAIN body.cites : body.cites[i] \in CitedKeys
  BY <1>1 DEF BodyRows
<1>6. tables' \in Tables
  <2>1. tables'.note \in [NoteIds -> NoteRows]
    BY <1>1, <1>3, <1>4 DEF NoteRows
  <2>2. tables'.refs \subseteq NoteIds \X NoteIds
    BY <1>3, <1>4, <1>5
  <2>3. tables'.cites \subseteq NoteIds \X CitedKeys
    BY <1>3, <1>4, <1>5
  <2> QED BY <1>3, <1>4, <2>1, <2>2, <2>3 DEF Tables
<1>7. ASSUME NEW q \in NoteIds PROVE LinksOfNote(q, tables')
  <2>1. LinksOfNote(q, tables)
    BY DEF ViewInv
  <2>2. CASE q = n
    <3>1. tables'.note[q].body = body
      BY <1>3, <1>4, <2>2
    <3>2. \A m : <<q, m>> \in tables'.refs <=> m \in body.refs
      BY <1>3, <2>2
    <3>3. \A k : <<q, k>> \in tables'.cites <=> \E i \in DOMAIN body.cites : k = body.cites[i]
      BY <1>3, <2>2
    <3> QED BY <3>1, <3>2, <3>3 DEF LinksOfNote
  <2>3. CASE q # n
    <3>1. tables'.note[q] = tables.note[q]
      BY <1>3, <1>4, <2>3
    <3>2. \A m : <<q, m>> \in tables'.refs <=> <<q, m>> \in tables.refs
      BY <1>3, <2>3
    <3>3. \A k : <<q, k>> \in tables'.cites <=> <<q, k>> \in tables.cites
      BY <1>3, <2>3
    <3> QED BY <2>1, <3>1, <3>2, <3>3 DEF LinksOfNote
  <2> QED BY <2>2, <2>3
<1> QED BY <1>6, <1>7 DEF ViewInv

\* The fields of the tables.
LEMMA TableFields ==
  ASSUME tables \in Tables
  PROVE  /\ tables.note \in [NoteIds -> NoteRows] /\ tables.acl \in [NoteIds -> [People -> 0..2]]
         /\ tables.refs \subseteq NoteIds \X NoteIds /\ tables.cites \subseteq NoteIds \X CitedKeys
         /\ tables.library \in [People -> SUBSET CitedKeys]
  BY DEF Tables

\* A change that leaves texts and rows alone.
LEMMA RowsStay ==
  ASSUME ViewInv, tables' \in Tables, tables'.refs = tables.refs, tables'.cites = tables.cites,
         \A n \in NoteIds : tables'.note[n].body = tables.note[n].body
  PROVE  ViewInv'
<1>1. ASSUME NEW n \in NoteIds PROVE LinksOfNote(n, tables')
  <2>1. LinksOfNote(n, tables)
    BY DEF ViewInv
  <2> QED BY <2>1 DEF LinksOfNote
<1> QED BY <1>1 DEF ViewInv

LEMMA DeletedStep ==
  ASSUME ViewInv, NEW n \in NoteIds, NEW from, NEW to \in {"live", "deleted"}, SetDeleted(n, from, to)
  PROVE  ViewInv'
<1>1. tables \in Tables
  BY DEF ViewInv
<1>2. PICK row \in NoteRows : row = tables.note[n]
  BY <1>1, TableFields
<1>3. PICK new : new = [row EXCEPT !.state = to]
  OBVIOUS
<1>4. new \in NoteRows /\ new.body = row.body
  BY <1>3 DEF NoteRows
<1>5. /\ tables'.note = [tables.note EXCEPT ![n] = new] /\ tables'.refs = tables.refs
      /\ tables'.cites = tables.cites /\ tables'.acl = tables.acl /\ tables'.library = tables.library
      /\ tables' = [note |-> tables'.note, acl |-> tables'.acl, refs |-> tables'.refs,
                    cites |-> tables'.cites, library |-> tables'.library]
  BY <1>1, <1>2, <1>3 DEF SetDeleted, Tables
<1>6. tables'.note \in [NoteIds -> NoteRows] /\ \A m \in NoteIds : tables'.note[m].body = tables.note[m].body
  BY <1>1, <1>2, <1>4, <1>5, TableFields
<1>7. tables' \in Tables
  BY <1>1, <1>5, <1>6, TableFields DEF Tables
<1> QED BY <1>5, <1>6, <1>7, RowsStay

LEMMA ShareStep ==
  ASSUME ViewInv, NEW n \in NoteIds, NEW p \in People, NEW level \in 0..2, ShareNote(n, p, level)
  PROVE  ViewInv'
<1>1. tables \in Tables
  BY DEF ViewInv
<1>2. PICK list \in [People -> 0..2] : list = tables.acl[n]
  BY <1>1, TableFields
<1>3. PICK new \in [People -> 0..2] : new = [list EXCEPT ![p] = level]
  OBVIOUS
<1>5. /\ tables'.acl = [tables.acl EXCEPT ![n] = new] /\ tables'.refs = tables.refs
      /\ tables'.cites = tables.cites /\ tables'.note = tables.note /\ tables'.library = tables.library
      /\ tables' = [note |-> tables'.note, acl |-> tables'.acl, refs |-> tables'.refs,
                    cites |-> tables'.cites, library |-> tables'.library]
  BY <1>1, <1>2, <1>3 DEF ShareNote, Tables
<1>6. tables'.acl \in [NoteIds -> [People -> 0..2]]
  BY <1>1, <1>3, <1>5, TableFields
<1>7. tables' \in Tables
  BY <1>1, <1>5, <1>6, TableFields DEF Tables
<1> QED BY <1>5, <1>7, RowsStay

LEMMA KeyStep ==
  ASSUME ViewInv, NEW p \in People, NEW k \in CitedKeys, EditKey(p, k)
  PROVE  ViewInv'
<1>1. tables \in Tables
  BY DEF ViewInv
<1>2. PICK keys \in SUBSET CitedKeys : keys = tables.library[p]
  BY <1>1, TableFields
<1>3. PICK new \in SUBSET CitedKeys : new = IF k \in keys THEN keys \ {k} ELSE keys \cup {k}
  OBVIOUS
<1>5. /\ tables'.library = [tables.library EXCEPT ![p] = new] /\ tables'.refs = tables.refs
      /\ tables'.cites = tables.cites /\ tables'.note = tables.note /\ tables'.acl = tables.acl
      /\ tables' = [note |-> tables'.note, acl |-> tables'.acl, refs |-> tables'.refs,
                    cites |-> tables'.cites, library |-> tables'.library]
  BY <1>1, <1>2, <1>3 DEF EditKey, Tables
<1>6. tables'.library \in [People -> SUBSET CitedKeys]
  BY <1>1, <1>3, <1>5, TableFields
<1>7. tables' \in Tables
  BY <1>1, <1>5, <1>6, TableFields DEF Tables
<1> QED BY <1>5, <1>7, RowsStay

\* By cascade the rows of an erased note go with it.
LEMMA EraseStep ==
  ASSUME ViewInv, NEW n \in NoteIds, Erase(n)
  PROVE  ViewInv'
<1>1. tables \in Tables
  BY DEF ViewInv
<1>2. PICK gone : gone = [state |-> "gone", body |-> NoBody]
  OBVIOUS
<1>3. /\ gone \in NoteRows /\ gone.body.refs = {} /\ DOMAIN gone.body.cites = {}
  BY <1>2 DEF NoteRows, BodyRows, NoBody
<1>4. PICK list : list = [p \in People |-> 0]
  OBVIOUS
<1>l. list \in [People -> 0..2]
  BY <1>4
<1>5. /\ tables'.note = [tables.note EXCEPT ![n] = gone] /\ tables'.acl = [tables.acl EXCEPT ![n] = list]
      /\ tables'.refs = {r \in tables.refs : r[1] # n} /\ tables'.cites = {c \in tables.cites : c[1] # n}
      /\ tables'.library = tables.library
      /\ tables' = [note |-> tables'.note, acl |-> tables'.acl, refs |-> tables'.refs,
                    cites |-> tables'.cites, library |-> tables'.library]
  BY <1>1, <1>2, <1>4 DEF Erase, Tables
<1>6. tables' \in Tables
  <2>1. tables'.note \in [NoteIds -> NoteRows] /\ tables'.acl \in [NoteIds -> [People -> 0..2]]
    BY <1>1, <1>3, <1>l, <1>5, TableFields
  <2>2. tables'.refs \subseteq NoteIds \X NoteIds /\ tables'.cites \subseteq NoteIds \X CitedKeys
    BY <1>1, <1>5, TableFields
  <2> QED BY <1>1, <1>5, <2>1, <2>2, TableFields DEF Tables
<1>7. ASSUME NEW q \in NoteIds PROVE LinksOfNote(q, tables')
  <2>1. LinksOfNote(q, tables)
    BY DEF ViewInv
  <2>2. /\ \A m : <<q, m>> \in tables'.refs <=> <<q, m>> \in tables.refs /\ q # n
        /\ \A k : <<q, k>> \in tables'.cites <=> <<q, k>> \in tables.cites /\ q # n
    BY <1>5
  <2>3. tables'.note[q] = IF q = n THEN gone ELSE tables.note[q]
    BY <1>1, <1>5, TableFields
  <2> QED BY <1>3, <2>1, <2>2, <2>3 DEF LinksOfNote
<1> QED BY <1>6, <1>7 DEF ViewInv

\* A note that was not written, or is erased, refers to nothing: so the rows an archive's
\* texts are stored with are the rows there were.
RestingEmpty ==
    \A n \in NoteIds : tables.note[n].state \notin {"live", "deleted"} =>
        tables.note[n].body.refs = {} /\ DOMAIN tables.note[n].body.cites = {}

LEMMA RestingStep ==
  ASSUME ViewInv, RestingEmpty, [ViewNext]_tables
  PROVE  RestingEmpty'
<1>1. /\ tables \in Tables /\ NoBody.refs = {} /\ DOMAIN NoBody.cites = {}
      /\ tables.note \in [NoteIds -> NoteRows]
  BY TableFields DEF ViewInv, NoBody
<1>2. ASSUME NEW n \in NoteIds, NEW row, tables'.note = [tables.note EXCEPT ![n] = row],
             row.state \notin {"live", "deleted"} => row.body = NoBody
      PROVE  RestingEmpty'
  <2>1. \A m \in NoteIds : tables'.note[m] = IF m = n THEN row ELSE tables.note[m]
    BY <1>1, <1>2
  <2> QED BY <1>1, <1>2, <2>1 DEF RestingEmpty
<1>3. ASSUME NEW n \in NoteIds, NEW body \in Bodies, WriteNew(n, body) \/ Rewrite(n, body)
      PROVE  RestingEmpty'
  <2>1. PICK row : row = [state |-> "live", body |-> body]
    OBVIOUS
  <2>2. tables'.note = [tables.note EXCEPT ![n] = row] /\ row.state = "live"
    BY <1>1, <1>3, <2>1 DEF WriteNew, Rewrite, WithBody, Tables
  <2> QED BY <1>2, <2>2
<1>4. ASSUME NEW n \in NoteIds, SetDeleted(n, "live", "deleted") \/ SetDeleted(n, "deleted", "live")
      PROVE  RestingEmpty'
  <2>1. PICK to \in {"live", "deleted"} : tables' = [tables EXCEPT !.note[n].state = to]
    BY <1>4 DEF SetDeleted
  <2>2. PICK old \in NoteRows : old = tables.note[n]
    BY <1>1
  <2>3. PICK row : row = [old EXCEPT !.state = to]
    OBVIOUS
  <2>4. row.state = to
    BY <2>3 DEF NoteRows
  <2>5. tables'.note = [tables.note EXCEPT ![n] = row]
    BY <1>1, <2>1, <2>2, <2>3 DEF Tables
  <2> QED BY <1>2, <2>4, <2>5
<1>5. ASSUME NEW n \in NoteIds, Erase(n)
      PROVE  RestingEmpty'
  <2>1. PICK row : row = [state |-> "gone", body |-> NoBody]
    OBVIOUS
  <2>2. tables'.note = [tables.note EXCEPT ![n] = row] /\ row.body = NoBody
    BY <1>1, <1>5, <2>1 DEF Erase, Tables
  <2> QED BY <1>2, <2>2
<1>6. ASSUME tables'.note = tables.note PROVE RestingEmpty'
  BY <1>6 DEF RestingEmpty
<1>7. ASSUME NEW n \in NoteIds, NEW p \in People, NEW level \in 0..2, ShareNote(n, p, level)
      PROVE  RestingEmpty'
  <2>1. tables'.note = tables.note
    BY <1>1, <1>7 DEF ShareNote, Tables
  <2> QED BY <2>1, <1>6
<1>8. ASSUME NEW p \in People, NEW k \in CitedKeys, EditKey(p, k)
      PROVE  RestingEmpty'
  <2>1. tables'.note = tables.note
    BY <1>1, <1>8 DEF EditKey, Tables
  <2> QED BY <2>1, <1>6
<1>9. CASE RestoreTables
  <2>1. tables'.note = tables.note
    BY <1>1, <1>9 DEF RestoreTables, Tables
  <2> QED BY <2>1, <1>6
<1>10. CASE UNCHANGED tables
  BY <1>6, <1>10
<1> QED BY <1>3, <1>4, <1>5, <1>7, <1>8, <1>9, <1>10 DEF ViewNext

\* A restore makes the rows anew, and they are what they were.
LEMMA RestoreStep ==
  ASSUME ViewInv, RestingEmpty, RestoreTables
  PROVE  ViewInv'
<1>1. tables \in Tables
  BY DEF ViewInv
<1>2. PICK stored : stored = {n \in NoteIds : tables.note[n].state \in {"live", "deleted"}}
  OBVIOUS
<1>3. PICK refs : refs = UNION {{<<n, m>> : m \in tables.note[n].body.refs} : n \in stored}
  OBVIOUS
<1>4. PICK cites : cites = UNION {{<<n, tables.note[n].body.cites[i]>> :
                                     i \in DOMAIN tables.note[n].body.cites} : n \in stored}
  OBVIOUS
<1>5. tables' = [tables EXCEPT !.refs = refs, !.cites = cites]
  BY <1>2, <1>3, <1>4 DEF RestoreTables
<1>6. /\ tables'.refs = refs /\ tables'.cites = cites /\ tables'.note = tables.note
      /\ tables'.acl = tables.acl /\ tables'.library = tables.library
      /\ tables' = [note |-> tables'.note, acl |-> tables'.acl, refs |-> tables'.refs,
                    cites |-> tables'.cites, library |-> tables'.library]
  BY <1>1, <1>5 DEF Tables
<1>7. refs = tables.refs
  <2>1. ASSUME NEW r \in refs PROVE r \in tables.refs
    <3>1. PICK n \in stored : \E m \in tables.note[n].body.refs : r = <<n, m>>
      BY <1>3
    <3>2. n \in NoteIds /\ LinksOfNote(n, tables)
      BY <1>2 DEF ViewInv
    <3> QED BY <3>1, <3>2 DEF LinksOfNote
  <2>2. ASSUME NEW r \in tables.refs PROVE r \in refs
    <3>1. PICK n \in NoteIds, m \in NoteIds : r = <<n, m>>
      BY <1>1, TableFields
    <3>2. m \in tables.note[n].body.refs
      BY <3>1 DEF ViewInv, LinksOfNote
    <3>3. n \in stored
      BY <1>2, <3>2 DEF RestingEmpty
    <3> QED BY <1>3, <3>1, <3>2, <3>3
  <2> QED BY <2>1, <2>2
<1>8. cites = tables.cites
  <2>1. ASSUME NEW c \in cites PROVE c \in tables.cites
    <3>1. PICK n \in stored : \E i \in DOMAIN tables.note[n].body.cites :
                                 c = <<n, tables.note[n].body.cites[i]>>
      BY <1>4
    <3>2. n \in NoteIds /\ LinksOfNote(n, tables)
      BY <1>2 DEF ViewInv
    <3> QED BY <3>1, <3>2 DEF LinksOfNote
  <2>2. ASSUME NEW c \in tables.cites PROVE c \in cites
    <3>1. PICK n \in NoteIds, k \in CitedKeys : c = <<n, k>>
      BY <1>1, TableFields
    <3>2. PICK i \in DOMAIN tables.note[n].body.cites : k = tables.note[n].body.cites[i]
      BY <3>1 DEF ViewInv, LinksOfNote
    <3>3. n \in stored
      BY <1>2, <3>2 DEF RestingEmpty
    <3> QED BY <1>4, <3>1, <3>2, <3>3
  <2> QED BY <2>1, <2>2
<1>9. tables' \in Tables
  BY <1>1, <1>6, <1>7, <1>8, TableFields DEF Tables
<1> QED BY <1>6, <1>7, <1>8, <1>9, RowsStay

LEMMA ViewStep ==
  ASSUME ViewInv, RestingEmpty, [ViewNext]_tables
  PROVE  ViewInv'
<1>1. ASSUME NEW n \in NoteIds, NEW body \in Bodies, WriteNew(n, body) \/ Rewrite(n, body)
      PROVE  ViewInv'
  BY <1>1, TextWritten DEF WriteNew, Rewrite
<1>2. CASE UNCHANGED tables
  BY <1>2 DEF ViewInv
<1> QED BY <1>1, <1>2, DeletedStep, EraseStep, ShareStep, KeyStep, RestoreStep DEF ViewNext

\* The invariant says of sets of pairs what the property says of their parts.
LEMMA LinksSaid == ViewInv => LinksAreTheText
<1> SUFFICES ASSUME ViewInv, NEW n \in NoteIds
             PROVE  /\ {r[2] : r \in {r \in tables.refs : r[1] = n}} = tables.note[n].body.refs
                    /\ {c[2] : c \in {c \in tables.cites : c[1] = n}} =
                         {tables.note[n].body.cites[i] : i \in DOMAIN tables.note[n].body.cites}
  BY DEF LinksAreTheText
<1>1. LinksOfNote(n, tables) /\ tables \in Tables
  BY DEF ViewInv
<1>2. {r[2] : r \in {r \in tables.refs : r[1] = n}} = tables.note[n].body.refs
  <2>1. ASSUME NEW r \in tables.refs, r[1] = n PROVE r[2] \in tables.note[n].body.refs
    <3>1. r = <<n, r[2]>>
      BY <1>1, <2>1, TableFields
    <3> QED BY <1>1, <3>1 DEF LinksOfNote
  <2>2. ASSUME NEW m \in tables.note[n].body.refs PROVE \E r \in tables.refs : r[1] = n /\ r[2] = m
    <3>1. <<n, m>> \in tables.refs /\ <<n, m>>[1] = n /\ <<n, m>>[2] = m
      BY <1>1 DEF LinksOfNote
    <3> QED BY <3>1
  <2> QED BY <2>1, <2>2
<1>3. {c[2] : c \in {c \in tables.cites : c[1] = n}} =
        {tables.note[n].body.cites[i] : i \in DOMAIN tables.note[n].body.cites}
  <2>1. ASSUME NEW c \in tables.cites, c[1] = n
        PROVE  \E i \in DOMAIN tables.note[n].body.cites : c[2] = tables.note[n].body.cites[i]
    <3>1. c = <<n, c[2]>>
      BY <1>1, <2>1, TableFields
    <3> QED BY <1>1, <3>1 DEF LinksOfNote
  <2>2. ASSUME NEW i \in DOMAIN tables.note[n].body.cites
        PROVE  \E c \in tables.cites : c[1] = n /\ c[2] = tables.note[n].body.cites[i]
    <3>1. PICK k : k = tables.note[n].body.cites[i]
      OBVIOUS
    <3>2. <<n, k>> \in tables.cites /\ <<n, k>>[1] = n /\ <<n, k>>[2] = k
      BY <1>1, <3>1 DEF LinksOfNote
    <3> QED BY <3>1, <3>2
  <2> QED BY <2>1, <2>2
<1> QED BY <1>2, <1>3

\* The rows beside the notes say what the texts say, after every change of a text, an
\* erasure and a restore (replace_link_rows, purge_deleted_before, restore_plan).
THEOREM ViewLinksAreTheText == ViewSpec => []LinksAreTheText
<1>1. ViewInit => RestingEmpty
  BY DEF ViewInit, RestingEmpty, Unwritten, NoBody
<1>2. ViewInv /\ RestingEmpty /\ [ViewNext]_tables => ViewInv' /\ RestingEmpty'
  BY ViewStep, RestingStep
<1> QED BY <1>1, <1>2, ViewBegin, LinksSaid, PTL DEF ViewSpec

\* The tables behind views and graphs keep their types.
THEOREM ViewTypes == ViewSpec => []ViewTypeOK
<1>1. ViewInit => RestingEmpty
  BY DEF ViewInit, RestingEmpty, Unwritten, NoBody
<1>2. ViewInv /\ RestingEmpty /\ [ViewNext]_tables => ViewInv' /\ RestingEmpty'
  BY ViewStep, RestingStep
<1>3. ViewInv => ViewTypeOK
  BY DEF ViewInv, Tables, NoteRows, ViewTypeOK
<1> QED BY <1>1, <1>2, <1>3, ViewBegin, PTL DEF ViewSpec

-------------------------------------------------------------------------------
(* What is hidden.                                                         *)

\* The tables with what p does not see taken away, field by field.
LEMMA LessFields ==
  ASSUME tables \in Tables, NEW p \in People, NEW less, less = SeenBy(p, tables)
  PROVE  /\ \A n \in NoteIds : less.note[n] = IF Sees(p, n, tables) THEN tables.note[n] ELSE Unwritten
         /\ less.acl = tables.acl
         /\ \A r : r \in less.refs <=> r \in tables.refs /\ Sees(p, r[1], tables)
         /\ \A c : c \in less.cites <=> c \in tables.cites /\ Sees(p, c[1], tables)
         /\ \A q \in People : less.library[q] = IF \E n \in Visible(p, tables) : OwnerOf[n] = q
                                                THEN tables.library[q] ELSE {}
<1>1. /\ less.note = [n \in NoteIds |-> IF Sees(p, n, tables) THEN tables.note[n] ELSE Unwritten]
      /\ less.acl = tables.acl
      /\ less.refs = {r \in tables.refs : Sees(p, r[1], tables)}
      /\ less.cites = {c \in tables.cites : Sees(p, c[1], tables)}
      /\ less.library = [q \in People |-> IF \E n \in Visible(p, tables) : OwnerOf[n] = q
                                          THEN tables.library[q] ELSE {}]
  BY DEF SeenBy, Tables
<1> QED BY <1>1

\* The same notes are seen, with the same access, and the libraries of their owners.
LEMMA SameSeen ==
  ASSUME tables \in Tables, NEW p \in People, NEW less, less = SeenBy(p, tables)
  PROVE  /\ Visible(p, less) = Visible(p, tables)
         /\ \A n \in Visible(p, tables) :
              /\ less.note[n] = tables.note[n] /\ LevelOf(p, n, less) = LevelOf(p, n, tables)
              /\ less.library[OwnerOf[n]] = tables.library[OwnerOf[n]]
  <1>1. \A n \in NoteIds : less.note[n] = IF Sees(p, n, tables) THEN tables.note[n] ELSE Unwritten
    BY LessFields
  <1>2. \A n \in NoteIds : Sees(p, n, less) <=> Sees(p, n, tables)
    <2> SUFFICES ASSUME NEW n \in NoteIds PROVE Sees(p, n, less) <=> Sees(p, n, tables)
      OBVIOUS
    <2>1. CASE Sees(p, n, tables)
      BY <1>1, <2>1, LessFields DEF Sees, LevelOf
    <2>2. CASE ~Sees(p, n, tables)
      BY <1>1, <2>2 DEF Sees, Unwritten
    <2> QED BY <2>1, <2>2
  <1>3. \A n \in Visible(p, tables) : OwnerOf[n] \in People
    BY ViewAssumption DEF Visible
  <1>4. \A n \in Visible(p, tables) : less.library[OwnerOf[n]] = tables.library[OwnerOf[n]]
    BY <1>3, LessFields
  <1>5. \A n \in Visible(p, tables) : less.note[n] = tables.note[n] /\ LevelOf(p, n, less) = LevelOf(p, n, tables)
    BY <1>1, LessFields DEF Visible, LevelOf
  <1> QED BY <1>2, <1>4, <1>5 DEF Visible

\* The same links of what is seen.
LEMMA SameLinks ==
  ASSUME tables \in Tables, NEW p \in People, NEW less, less = SeenBy(p, tables),
         NEW n \in Visible(p, tables)
  PROVE  /\ Outgoing(p, n, less) = Outgoing(p, n, tables)
         /\ Incoming(p, n, less) = Incoming(p, n, tables)
<1>1. \A m \in Visible(p, tables) : \A q : <<m, q>> \in less.refs <=> <<m, q>> \in tables.refs
  BY LessFields DEF Visible
<1> QED BY <1>1, SameSeen DEF Outgoing, Incoming

LEMMA SameView ==
  ASSUME tables \in Tables, NEW p \in People, NEW less, less = SeenBy(p, tables),
         NEW n \in Visible(p, tables)
  PROVE  /\ View(p, n, tables) = View(p, n, less)
         /\ \A body \in Bodies : DraftView(p, n, body, tables) = DraftView(p, n, body, less)
<1>1. /\ less.note[n] = tables.note[n] /\ less.library[OwnerOf[n]] = tables.library[OwnerOf[n]]
      /\ Visible(p, less) = Visible(p, tables)
      /\ Outgoing(p, n, less) = Outgoing(p, n, tables) /\ Incoming(p, n, less) = Incoming(p, n, tables)
  BY SameSeen, SameLinks
<1> QED BY <1>1 DEF View, DraftView

LEMMA SameGraph ==
  ASSUME tables \in Tables, NEW p \in People, NEW less, less = SeenBy(p, tables),
         NEW search \in BOOLEAN
  PROVE  Graph(p, search, tables) = Graph(p, search, less)
<1>1. PICK shown : shown = {n \in Visible(p, tables) : search => tables.note[n].body.word}
  OBVIOUS
<1>2. shown \subseteq Visible(p, tables)
      /\ shown = {n \in Visible(p, less) : search => less.note[n].body.word}
  BY <1>1, SameSeen
<1>3. PICK cites : cites = {c \in tables.cites : c[1] \in shown}
  OBVIOUS
<1>4. cites = {c \in less.cites : c[1] \in shown}
  BY <1>2, <1>3, LessFields DEF Visible
<1>5. {r \in tables.refs : r[1] \in shown /\ r[2] \in shown}
        = {r \in less.refs : r[1] \in shown /\ r[2] \in shown}
  BY <1>2, LessFields DEF Visible
<1>6. ASSUME NEW k PROVE WorkTitle(k, cites, tables) = WorkTitle(k, cites, less)
  <2>1. \A c \in cites : less.library[OwnerOf[c[1]]] = tables.library[OwnerOf[c[1]]]
    BY <1>2, <1>3, SameSeen
  <2>2. {c \in cites : c[2] = k /\ k \in tables.library[OwnerOf[c[1]]]}
          = {c \in cites : c[2] = k /\ k \in less.library[OwnerOf[c[1]]]}
    BY <2>1
  <2> QED BY <2>2 DEF WorkTitle
<1>7. {[key |-> c[2], title |-> WorkTitle(c[2], cites, tables)] : c \in cites}
        = {[key |-> c[2], title |-> WorkTitle(c[2], cites, less)] : c \in cites}
  BY <1>6
<1>8. Graph(p, search, tables) =
        [notes |-> shown, works |-> {[key |-> c[2], title |-> WorkTitle(c[2], cites, tables)] : c \in cites},
         refs |-> {r \in tables.refs : r[1] \in shown /\ r[2] \in shown}, cites |-> cites]
  BY <1>1, <1>3 DEF Graph
<1>9. Graph(p, search, less) =
        [notes |-> shown, works |-> {[key |-> c[2], title |-> WorkTitle(c[2], cites, less)] : c \in cites},
         refs |-> {r \in less.refs : r[1] \in shown /\ r[2] \in shown}, cites |-> cites]
  BY <1>2, <1>4 DEF Graph
<1> QED BY <1>5, <1>7, <1>8, <1>9

\* Nothing a person is shown tells of a note the person may not see: every view, preview
\* and graph is the same without it, whatever the tables hold (note_view_snapshot,
\* visible_notes_by_id, note_graph).
THEOREM ViewNothingHiddenShows == ViewSpec => []NothingHiddenShows
<1>1. ASSUME tables \in Tables PROVE NothingHiddenShows
  <2> SUFFICES ASSUME NEW p \in People
               PROVE  LET less == SeenBy(p, tables) IN
                      /\ \A search \in BOOLEAN : Graph(p, search, tables) = Graph(p, search, less)
                      /\ \A n \in Visible(p, tables) :
                            /\ View(p, n, tables) = View(p, n, less)
                            /\ LevelOf(p, n, tables) >= 2 =>
                                 \A body \in Bodies : DraftView(p, n, body, tables) = DraftView(p, n, body, less)
    BY DEF NothingHiddenShows
  <2>1. PICK less : less = SeenBy(p, tables)
    OBVIOUS
  <2>2. \A search \in BOOLEAN : Graph(p, search, tables) = Graph(p, search, less)
    BY <1>1, <2>1, SameGraph
  <2>3. \A n \in Visible(p, tables) :
          /\ View(p, n, tables) = View(p, n, less)
          /\ \A body \in Bodies : DraftView(p, n, body, tables) = DraftView(p, n, body, less)
    BY <1>1, <2>1, SameView
  <2> QED BY <2>1, <2>2, <2>3
<1>2. ViewInv => tables \in Tables
  BY DEF ViewInv
<1>3. ViewInit => RestingEmpty
  BY DEF ViewInit, RestingEmpty, Unwritten, NoBody
<1>4. ViewInv /\ RestingEmpty /\ [ViewNext]_tables => ViewInv' /\ RestingEmpty'
  BY ViewStep, RestingStep
<1> QED BY <1>1, <1>2, <1>3, <1>4, ViewBegin, PTL DEF ViewSpec

-------------------------------------------------------------------------------
(* The graph around a note.                                                *)

\* What is reached in one more step.
Further(g, reached) == reached \cup {y \in Points(g) : \E x \in reached : Joined2(g, x, y)}

\* The steps are taken as their definition says, at any depth.
LEMMA StepsTaken ==
  ASSUME NEW g, NEW origin
  PROVE  /\ Steps(g, origin)[0] = {<<"note", origin>>}
         /\ \A d \in 1..MaxDepth : Steps(g, origin)[d] = Further(g, Steps(g, origin)[d - 1])
<1>1. PICK first : first = {<<"note", origin>>}
  OBVIOUS
<1>2. PICK S : S = SUBSET (Points(g) \cup first)
  OBVIOUS
<1>3. PICK G : G = [d \in Nat |-> [s \in S |-> Further(g, s)]]
  OBVIOUS
<1>4. first \in S /\ G \in [Nat -> [S -> S]]
  <2>1. \A s \in S : Further(g, s) \in S
    BY <1>2 DEF Further
  <2> QED BY <1>2, <1>3, <2>1
<1>5. MaxDepth + 1 \in Nat
  BY ViewAssumption
<1>6. PICK f \in [0..MaxDepth + 1 -> S] :
          f[0] = first /\ \A d \in 1..MaxDepth + 1 : f[d] = G[d][f[d - 1]]
  <2>1. PICK N \in Nat : N = MaxDepth + 1
    BY <1>5
  <2>2. Iterated(S, first, G, N) # {}
    BY <1>4, Iteration
  <2> QED BY <2>1, <2>2 DEF Iterated
<1>7. f = [d \in 0..MaxDepth + 1 |->
             IF d = 0 THEN {<<"note", origin>>}
             ELSE f[d - 1] \cup {y \in Points(g) : \E x \in f[d - 1] : Joined2(g, x, y)}]
  <2>1. \A d \in 0..MaxDepth + 1 : d # 0 => d \in 1..MaxDepth + 1 /\ f[d - 1] \in S
    BY <1>5, <1>6
  <2>2. \A d \in 0..MaxDepth + 1 :
          f[d] = IF d = 0 THEN {<<"note", origin>>}
                 ELSE f[d - 1] \cup {y \in Points(g) : \E x \in f[d - 1] : Joined2(g, x, y)}
    <3>1. \A d \in 1..MaxDepth + 1, x \in S : G[d][x] = Further(g, x)
      BY <1>3
    <3> QED BY <1>1, <1>6, <2>1, <3>1 DEF Further
  <2> QED BY <1>6, <2>2
<1>8. Steps(g, origin) = CHOOSE reached : reached = [d \in 0..MaxDepth + 1 |->
             IF d = 0 THEN {<<"note", origin>>}
             ELSE reached[d - 1] \cup {y \in Points(g) : \E x \in reached[d - 1] : Joined2(g, x, y)}]
  BY DEF Steps
<1>9. Steps(g, origin) = [d \in 0..MaxDepth + 1 |->
             IF d = 0 THEN {<<"note", origin>>}
             ELSE Steps(g, origin)[d - 1]
                  \cup {y \in Points(g) : \E x \in Steps(g, origin)[d - 1] : Joined2(g, x, y)}]
  BY ZenonT(60), <1>7, <1>8
<1>10. PICK t : t = Steps(g, origin)
  OBVIOUS
<1>11. t = [d \in 0..MaxDepth + 1 |->
             IF d = 0 THEN {<<"note", origin>>}
             ELSE t[d - 1] \cup {y \in Points(g) : \E x \in t[d - 1] : Joined2(g, x, y)}]
  BY <1>9, <1>10
<1>12. t[0] = {<<"note", origin>>}
  BY <1>5, <1>11
<1>13. ASSUME NEW d \in 1..MaxDepth PROVE t[d] = Further(g, t[d - 1])
  <2>1. d \in 0..MaxDepth + 1 /\ d # 0
    BY ViewAssumption
  <2> QED BY <1>11, <2>1 DEF Further
<1> QED BY <1>10, <1>12, <1>13

\* A walk goes on over an edge, and a longer one comes from a shorter one.
LEMMA WalkOn ==
  ASSUME NEW g, NEW x \in Points(g), NEW y \in Points(g), NEW z, NEW d \in Nat,
         Walk(g, x, y, d), Joined2(g, y, z)
  PROVE  Walk(g, x, z, d + 1)
<1>1. CASE d = 0
  <2>1. x = y /\ 1..d + 1 - 1 = {} /\ 0..d + 1 - 1 = {0}
    BY <1>1 DEF Walk
  <2>2. PICK w : w = [i \in 1..d + 1 - 1 |-> x]
    OBVIOUS
  <2>3. w \in [1..d + 1 - 1 -> Points(g)]
    BY <2>1, <2>2
  <2>4. \A i \in 0..d + 1 - 1 :
          Joined2(g, IF i = 0 THEN x ELSE IF i = d + 1 THEN z ELSE w[i],
                  IF i + 1 = 0 THEN x ELSE IF i + 1 = d + 1 THEN z ELSE w[i + 1])
    BY <1>1, <2>1
  <2> QED BY <2>3, <2>4 DEF Walk
<1>2. CASE d # 0
  <2>1. PICK w \in [1..d - 1 -> Points(g)] :
          \A i \in 0..d - 1 : Joined2(g, IF i = 0 THEN x ELSE IF i = d THEN y ELSE w[i],
                                 IF i + 1 = 0 THEN x ELSE IF i + 1 = d THEN y ELSE w[i + 1])
    BY <1>2 DEF Walk
  <2>2. PICK v : v = [i \in 1..d + 1 - 1 |-> IF i = d THEN y ELSE w[i]]
    OBVIOUS
  <2>3. v \in [1..d + 1 - 1 -> Points(g)]
    BY <1>2, <2>1, <2>2
  <2>4. ASSUME NEW i \in 0..d + 1 - 1
        PROVE  Joined2(g, IF i = 0 THEN x ELSE IF i = d + 1 THEN z ELSE v[i],
                       IF i + 1 = 0 THEN x ELSE IF i + 1 = d + 1 THEN z ELSE v[i + 1])
    <3>1. CASE i = d
      BY <1>2, <2>2, <3>1
    <3>2. CASE i # d
      <4>1. i \in 0..d - 1 /\ i # d + 1 /\ i + 1 # d + 1 /\ i + 1 # 0
        BY <1>2, <3>2
      <4>2. (IF i = 0 THEN x ELSE IF i = d THEN y ELSE w[i]) = (IF i = 0 THEN x ELSE v[i])
        BY <2>2, <3>2, <4>1
      <4>3. (IF i + 1 = d THEN y ELSE w[i + 1]) = v[i + 1]
        BY <2>2, <4>1
      <4> QED BY <2>1, <4>1, <4>2, <4>3
    <3> QED BY <3>1, <3>2
  <2> QED BY <2>3, <2>4 DEF Walk
<1> QED BY <1>1, <1>2

LEMMA WalkBack ==
  ASSUME NEW g, NEW x \in Points(g), NEW z, NEW d \in Nat, Walk(g, x, z, d + 1)
  PROVE  \E y \in Points(g) : Walk(g, x, y, d) /\ Joined2(g, y, z)
<1>1. PICK w \in [1..d + 1 - 1 -> Points(g)] :
        \A i \in 0..d + 1 - 1 : Joined2(g, IF i = 0 THEN x ELSE IF i = d + 1 THEN z ELSE w[i],
                                   IF i + 1 = 0 THEN x ELSE IF i + 1 = d + 1 THEN z ELSE w[i + 1])
  BY DEF Walk
<1>2. PICK y : y = IF d = 0 THEN x ELSE w[d]
  OBVIOUS
<1>3. y \in Points(g)
  BY <1>1, <1>2
<1>4. Joined2(g, y, z)
  <2>1. d \in 0..d + 1 - 1 /\ d # d + 1 /\ d + 1 # 0
    OBVIOUS
  <2> QED BY <1>1, <1>2, <2>1
<1>5. Walk(g, x, y, d)
  <2>1. CASE d = 0
    BY <1>2, <2>1 DEF Walk
  <2>2. CASE d # 0
    <3>1. PICK v : v = [i \in 1..d - 1 |-> w[i]]
      OBVIOUS
    <3>2. v \in [1..d - 1 -> Points(g)]
      BY <1>1, <3>1
    <3>3. ASSUME NEW i \in 0..d - 1
          PROVE  Joined2(g, IF i = 0 THEN x ELSE IF i = d THEN y ELSE v[i],
                         IF i + 1 = 0 THEN x ELSE IF i + 1 = d THEN y ELSE v[i + 1])
      <4>1. i \in 0..d + 1 - 1 /\ i # d /\ i # d + 1 /\ i + 1 # 0 /\ i + 1 # d + 1
        OBVIOUS
      <4>2. (IF i = 0 THEN x ELSE w[i]) = (IF i = 0 THEN x ELSE v[i])
        BY <3>1, <4>1
      <4>3. w[i + 1] = IF i + 1 = d THEN y ELSE v[i + 1]
        BY <1>2, <2>2, <3>1, <4>1
      <4> QED BY <1>1, <4>1, <4>2, <4>3
    <3> QED BY <2>2, <3>2, <3>3 DEF Walk
  <2> QED BY <2>1, <2>2
<1> QED BY <1>3, <1>4, <1>5

\* The points of a graph that walks of at most d edges lead to.
Around(g, x, d) == {y \in Points(g) : \E e \in 0..d : Walk(g, x, y, e)}

\* One more step reaches what walks of one more edge lead to.
LEMMA AroundGrows ==
  ASSUME NEW g, NEW x \in Points(g), NEW d \in Nat
  PROVE  Around(g, x, d + 1) = Further(g, Around(g, x, d))
<1>1. ASSUME NEW y \in Around(g, x, d + 1) PROVE y \in Further(g, Around(g, x, d))
  <2>1. PICK e \in 0..d + 1 : Walk(g, x, y, e)
    BY <1>1 DEF Around
  <2>2. CASE e \in 0..d
    BY <1>1, <2>1, <2>2 DEF Around, Further
  <2>3. CASE e = d + 1
    <3>1. PICK z \in Points(g) : Walk(g, x, z, d) /\ Joined2(g, z, y)
      BY <2>1, <2>3, WalkBack
    <3>2. d \in 0..d /\ y \in Points(g)
      BY <1>1 DEF Around
    <3> QED BY <3>1, <3>2 DEF Around, Further
  <2> QED BY <2>2, <2>3
<1>2. ASSUME NEW y \in Further(g, Around(g, x, d)) PROVE y \in Around(g, x, d + 1)
  <2>1. CASE y \in Around(g, x, d)
    <3>1. 0..d \subseteq 0..d + 1
      OBVIOUS
    <3> QED BY <2>1, <3>1 DEF Around
  <2>2. CASE y \notin Around(g, x, d)
    <3>1. PICK z \in Around(g, x, d) : y \in Points(g) /\ Joined2(g, z, y)
      BY <1>2, <2>2 DEF Further
    <3>2. PICK e \in 0..d : Walk(g, x, z, e) /\ z \in Points(g)
      BY <3>1 DEF Around
    <3>3. e \in Nat /\ e + 1 \in 0..d + 1
      OBVIOUS
    <3>4. Walk(g, x, y, e + 1)
      BY <3>1, <3>2, <3>3, WalkOn
    <3> QED BY <3>1, <3>3, <3>4 DEF Around
  <2> QED BY <2>1, <2>2
<1> QED BY <1>1, <1>2

\* What is reached in d steps is what walks of at most d edges lead to, by induction on d.
LEMMA StepsAreWalks ==
  ASSUME NEW g, NEW n \in g.notes, NEW x, x = <<"note", n>>
  PROVE  \A d \in 0..MaxDepth : Steps(g, n)[d] = Around(g, x, d)
<1> DEFINE S == {d \in Nat : d <= MaxDepth => Steps(g, n)[d] = Around(g, x, d)}
<1>p. x \in Points(g)
  BY DEF Points
<1>1. 0 \in S
  <2>1. Around(g, x, 0) = {x}
    <3>1. \A y : Walk(g, x, y, 0) <=> x = y
      BY DEF Walk
    <3>2. 0..0 = {0}
      OBVIOUS
    <3> QED BY <1>p, <3>1, <3>2 DEF Around
  <2> QED BY <2>1, StepsTaken
<1>2. ASSUME NEW d \in Nat, d \in S PROVE d + 1 \in S
  <2> SUFFICES ASSUME d + 1 <= MaxDepth PROVE Steps(g, n)[d + 1] = Around(g, x, d + 1)
    OBVIOUS
  <2>1. MaxDepth \in Nat /\ d + 1 \in 1..MaxDepth /\ (d + 1) - 1 = d /\ d <= MaxDepth
    BY ViewAssumption
  <2>2. Steps(g, n)[d + 1] = Further(g, Steps(g, n)[(d + 1) - 1])
    BY <2>1, StepsTaken
  <2>3. Steps(g, n)[d] = Around(g, x, d)
    BY <1>2, <2>1
  <2> QED BY <1>p, <2>1, <2>2, <2>3, AroundGrows
<1>3. Nat \subseteq S
  <2> HIDE DEF S
  <2> QED BY <1>1, <1>2, Inductive
<1> QED BY <1>3, ViewAssumption

\* The part of any graph around a note has the points that walks lead to, and the edges
\* between them; a citation of the graph has a work.
LEMMA PartOfGraph ==
  ASSUME NEW g, NEW n, NEW depth \in 1..MaxDepth, NEW part, part = Within(g, n, depth),
         \A r \in g.refs : r[1] \in g.notes /\ r[2] \in g.notes,
         \A c \in g.cites : c[1] \in g.notes /\ \E w \in g.works : w.key = c[2]
  PROVE  /\ n \in g.notes =>
              Points(part) = {y \in Points(g) : \E d \in 0..depth : Walk(g, <<"note", n>>, y, d)}
         /\ \A r \in part.refs : {r[1], r[2]} \subseteq part.notes
         /\ \A c \in part.cites : c[1] \in part.notes /\ \E w \in part.works : w.key = c[2]
<1>1. CASE n \notin g.notes
  BY <1>1 DEF Within, NoGraph
<1>2. CASE n \in g.notes
  <2>1. PICK near : near = Reached(g, n, depth)
    OBVIOUS
  <2>2. /\ part.notes = {m \in g.notes : <<"note", m>> \in near}
        /\ part.works = {w \in g.works : <<"work", w.key>> \in near}
        /\ part.refs = {r \in g.refs : <<"note", r[1]>> \in near /\ <<"note", r[2]>> \in near}
        /\ part.cites = {c \in g.cites : <<"note", c[1]>> \in near /\ <<"work", c[2]>> \in near}
    BY <1>2, <2>1 DEF Within
  <2>3. near = Around(g, <<"note", n>>, depth)
    <3>1. AtMost(depth) = depth /\ depth \in 0..MaxDepth
      BY ViewAssumption DEF AtMost
    <3> QED BY <1>2, <2>1, <3>1, StepsAreWalks DEF Reached
  <2>4. Points(part) = near
    <3>1. near \subseteq Points(g)
      BY <2>3 DEF Around
    <3>2. \A y : y \in Points(part) <=> \/ \E m \in g.notes : y = <<"note", m>> /\ y \in near
                                       \/ \E w \in g.works : y = <<"work", w.key>> /\ y \in near
      BY <2>2 DEF Points
    <3>3. \A y : y \in Points(g) <=> \/ \E m \in g.notes : y = <<"note", m>>
                                    \/ \E w \in g.works : y = <<"work", w.key>>
      BY DEF Points
    <3> QED BY <3>1, <3>2, <3>3
  <2>5. \A r \in part.refs : {r[1], r[2]} \subseteq part.notes
    BY <2>2
  <2>6. \A c \in part.cites : c[1] \in part.notes /\ \E w \in part.works : w.key = c[2]
    BY <2>2
  <2> QED BY <2>3, <2>4, <2>5, <2>6 DEF Around
<1> QED BY <1>1, <1>2

\* The part of the graph that is shown around a note is what walks of at most that many
\* edges reach, and no edge of it lacks an end, whatever the notes and the limit are
\* (NoteGraph::within).
THEOREM ViewWithinIsDistance == ViewSpec => []WithinIsDistance
<1>1. WithinIsDistance
  <2> SUFFICES ASSUME NEW p \in People, NEW search \in BOOLEAN, NEW n \in NoteIds,
                      NEW depth \in 1..MaxDepth
               PROVE  LET g == Graph(p, search, tables)  part == Within(g, n, depth) IN
                      /\ n \in g.notes =>
                           Points(part) = {y \in Points(g) : \E d \in 0..depth : Walk(g, <<"note", n>>, y, d)}
                      /\ \A r \in part.refs : {r[1], r[2]} \subseteq part.notes
                      /\ \A c \in part.cites : c[1] \in part.notes /\ \E w \in part.works : w.key = c[2]
    BY DEF WithinIsDistance
  <2>1. PICK g : g = Graph(p, search, tables)
    OBVIOUS
  <2>2. PICK part : part = Within(g, n, depth)
    OBVIOUS
  <2>3. \A r \in g.refs : r[1] \in g.notes /\ r[2] \in g.notes
    BY <2>1 DEF Graph
  <2>4. \A c \in g.cites : c[1] \in g.notes /\ \E w \in g.works : w.key = c[2]
    <3>1. PICK cites : cites = g.cites
      OBVIOUS
    <3>2. /\ \A c \in cites : c[1] \in g.notes
          /\ g.works = {[key |-> c[2], title |-> WorkTitle(c[2], cites, tables)] : c \in cites}
      BY <2>1, <3>1 DEF Graph
    <3>3. ASSUME NEW c \in cites PROVE \E w \in g.works : w.key = c[2]
      <4>1. PICK w : w = [key |-> c[2], title |-> WorkTitle(c[2], cites, tables)]
        OBVIOUS
      <4>2. w \in g.works /\ w.key = c[2]
        BY <3>2, <4>1
      <4> QED BY <4>2
    <3> QED BY <3>1, <3>2, <3>3
  <2>5. /\ n \in g.notes =>
             Points(part) = {y \in Points(g) : \E d \in 0..depth : Walk(g, <<"note", n>>, y, d)}
        /\ \A r \in part.refs : {r[1], r[2]} \subseteq part.notes
        /\ \A c \in part.cites : c[1] \in part.notes /\ \E w \in part.works : w.key = c[2]
    BY <2>2, <2>3, <2>4, PartOfGraph
  <2> QED BY <2>1, <2>2, <2>5
<1> QED BY <1>1, PTL

-------------------------------------------------------------------------------
(* The macro settings.                                                     *)

Macros == [name: STRING, count: Nat, body: Seq(STRING)]

\* A revision tells the list: a tab that shows the current revision shows the list.
RevisionTells ==
    \A t \in Tabs : loaded[t] = Unloaded \/
        /\ loaded[t].revision \in Nat /\ loaded[t].revision <= macros.revision
        /\ loaded[t].revision = macros.revision => loaded[t] = macros

MacrosInv ==
    /\ macros.revision \in Nat /\ StoredValid(macros.list) /\ macros.list \in Seq(Macros)
    /\ DOMAIN loaded = Tabs /\ loaded = [t \in Tabs |-> loaded[t]]
    /\ RevisionTells

LEMMA MacrosBegin == MacrosInit => MacrosInv
<1> SUFFICES ASSUME MacrosInit PROVE MacrosInv
  OBVIOUS
<1>1. StoredValid(Default.list) /\ Default.revision = 0
  BY MacrosAssumption DEF StoredValid, Default
<1>2. CASE macros = Default
  <2>1. Default.list = <<>> /\ <<>> \in Seq(Macros)
    BY DEF Default
  <2> QED BY <1>1, <1>2, <2>1 DEF MacrosInit, MacrosInv, RevisionTells
<1>3. ASSUME NEW list \in Offered, StoredValid(list), macros = [revision |-> 1, list |-> list]
      PROVE  MacrosInv
  <2>1. list \in Seq(Macros)
    BY MacrosAssumption DEF Macros
  <2> QED BY <1>3, <2>1 DEF MacrosInit, MacrosInv, RevisionTells
<1> QED BY <1>2, <1>3 DEF MacrosInit

LEMMA SaveStep ==
  ASSUME MacrosInv, NEW t \in Tabs, SaveSettings(t)
  PROVE  MacrosInv' /\ loaded[t] = macros
<1>1. PICK list \in Offered :
        MacrosValid(list) /\ macros' = [revision |-> loaded[t].revision + 1, list |-> list]
  BY DEF SaveSettings
<1>2. loaded[t] # Unloaded /\ loaded[t].revision = macros.revision /\ macros.revision \in Nat
  BY DEF SaveSettings, Replaces, MacrosInv
<1>3. loaded[t] = macros
  BY <1>2 DEF MacrosInv, RevisionTells
<1>4. /\ macros'.revision = macros.revision + 1 /\ macros'.revision \in Nat
      /\ StoredValid(macros'.list) /\ macros'.list \in Seq(Macros)
  BY <1>1, <1>2, MacrosAssumption DEF MacrosValid, Macros
<1>5. loaded' = loaded \/ loaded' = [loaded EXCEPT ![t] = macros']
  BY DEF SaveSettings
<1>6. \A u \in Tabs : loaded'[u] = loaded[u] \/ loaded'[u] = macros'
  BY <1>5 DEF MacrosInv
<1>7. DOMAIN loaded' = Tabs /\ loaded' = [u \in Tabs |-> loaded'[u]]
  BY <1>5 DEF MacrosInv
<1>8. RevisionTells'
  BY <1>2, <1>4, <1>6 DEF MacrosInv, RevisionTells
<1> QED BY <1>3, <1>4, <1>7, <1>8 DEF MacrosInv

LEMMA MacrosStep == ASSUME MacrosInv, [MacrosNext]_macroVars PROVE MacrosInv'
<1>1. ASSUME NEW t \in Tabs, OpenSettings(t) PROVE MacrosInv'
  BY <1>1 DEF OpenSettings, MacrosInv, RevisionTells
<1>2. CASE UNCHANGED macroVars
  BY <1>2 DEF macroVars, MacrosInv, RevisionTells
<1> QED BY <1>1, <1>2, SaveStep DEF MacrosNext

\* The row of math_macro_settings can always be read: whatever is saved satisfies what
\* the reader checks, also where an older version stored it.
THEOREM MacrosReadable == MacrosSpec => [](StoredValid(macros.list))
<1>1. MacrosInv => StoredValid(macros.list)
  BY DEF MacrosInv
<1> QED BY <1>1, MacrosBegin, MacrosStep, PTL DEF MacrosSpec

\* The row and what the tabs show of it keep their types, within the bound.
THEOREM MacrosTypes == MacrosSpec => []MacrosTypeOK
<1> DEFINE Bounded == macros.revision <= MaxSettings
<1>1. MacrosInit => Bounded
  BY MacrosAssumption DEF MacrosInit, Default
<1>2. ASSUME MacrosInv, Bounded, [MacrosNext]_macroVars PROVE Bounded'
  <2>1. ASSUME NEW t \in Tabs, SaveSettings(t) PROVE macros'.revision <= MaxSettings
    BY <1>2, <2>1, MacrosAssumption DEF SaveSettings, Replaces, MacrosInv
  <2> QED BY <1>2, <2>1 DEF MacrosNext, OpenSettings, macroVars
<1>3. MacrosInv /\ Bounded => MacrosTypeOK
  BY MacrosAssumption DEF MacrosInv, RevisionTells, Unloaded, MacrosTypeOK
<1> HIDE DEF Bounded
<1> QED BY <1>1, <1>2, <1>3, MacrosBegin, MacrosStep, PTL DEF MacrosSpec

\* A tab replaces only the list it shows: two tabs, or an answer that was lost, do not
\* undo a save nobody has seen, because the update names the revision.
THEOREM MacrosNotLost == MacrosSpec => NoMacrosLost
<1>1. MacrosInv /\ [MacrosNext]_macroVars =>
        [macros' # macros => \E t \in Tabs : loaded[t] = macros]_macroVars
  BY SaveStep DEF MacrosNext, OpenSettings
<1> QED BY <1>1, MacrosBegin, MacrosStep, PTL DEF MacrosSpec, NoMacrosLost

-------------------------------------------------------------------------------
(* The definitions in front of a formula: what is stored is read, one      *)
(* character after another, as TeX reads the definition it is put into.    *)

\* The characters of a definition: those of the replacement and those around it.
Characters == STRING \cup {"\\", "x", "#", "1", Opening, Closing}

\* The braces are characters of their own.
LEMMA Braces ==
    /\ Opening # Closing /\ Opening # "\\" /\ Closing # "\\"
    /\ Opening # "%" /\ Closing # "%" /\ Opening \in Characters /\ Closing \in Characters
  BY Zenon DEF Opening, Closing, Characters

SafeStates == [backslashes: Nat, depth: Int, ok: BOOLEAN]
TexStates == [escape: BOOLEAN, comment: BOOLEAN, depth: Int, closed: BOOLEAN, at: Int]

SafeFirst == [backslashes |-> 0, depth |-> 0, ok |-> TRUE]
TexFirst == [escape |-> FALSE, comment |-> FALSE, depth |-> 0, closed |-> FALSE, at |-> 0]

LEMMA SafeMoves ==
  ASSUME NEW s \in SafeStates, NEW c \in Characters
  PROVE  /\ SafeCharacter(s, c) \in SafeStates /\ (SafeCharacter(s, c).ok => s.ok)
         /\ c = "\\" => /\ SafeCharacter(s, c).backslashes = s.backslashes + 1
                        /\ SafeCharacter(s, c).depth = s.depth
                        /\ SafeCharacter(s, c).ok = s.ok
         /\ c # "\\" => SafeCharacter(s, c).backslashes = 0
         /\ c # "\\" /\ s.backslashes % 2 = 1 => SafeCharacter(s, c).depth = s.depth
         /\ c # "\\" /\ s.backslashes % 2 # 1 =>
              /\ c = Opening => SafeCharacter(s, c).depth = s.depth + 1
              /\ c = Closing => SafeCharacter(s, c).depth = s.depth - 1
              /\ c # Opening /\ c # Closing => SafeCharacter(s, c).depth = s.depth
              /\ SafeCharacter(s, c).ok => c # "%" /\ ~(c = Closing /\ s.depth = 0)
<1>1. s.backslashes \in Nat /\ s.depth \in Int /\ s.ok \in BOOLEAN
  BY DEF SafeStates
<1>2. CASE c = "\\"
  <2>1. SafeCharacter(s, c) = [s EXCEPT !.backslashes = s.backslashes + 1]
    BY <1>2 DEF SafeCharacter
  <2> QED BY <1>1, <1>2, <2>1 DEF SafeStates
<1>3. CASE c # "\\"
  <2>1. PICK e : e = (s.ok /\ (s.backslashes % 2 = 1 \/ (c # "%" /\ ~(c = Closing /\ s.depth = 0))))
    OBVIOUS
  <2>2. PICK k : k = IF s.backslashes % 2 = 1 THEN 0 ELSE IF c = Opening THEN 1
                     ELSE IF c = Closing THEN -1 ELSE 0
    OBVIOUS
  <2>3. PICK d : d = s.depth + k
    OBVIOUS
  <2>4. SafeCharacter(s, c) = [backslashes |-> 0, depth |-> d, ok |-> e]
    BY <1>3, <2>1, <2>2, <2>3 DEF SafeCharacter
  <2>5. k \in {0, 1, -1}
    BY <2>2
  <2>6. e \in BOOLEAN
    BY <2>1
  <2>7. d \in Int
    BY <1>1, <2>3, <2>5
  <2>8. /\ SafeCharacter(s, c) \in SafeStates
        /\ SafeCharacter(s, c).backslashes = 0
        /\ SafeCharacter(s, c).depth = d /\ SafeCharacter(s, c).ok = e
    BY <2>4, <2>6, <2>7 DEF SafeStates
  <2>11. e => s.ok
    BY <2>1
  <2>9. CASE s.backslashes % 2 = 1
    <3>1. k = 0
      BY <2>2, <2>9
    <3>2. d = s.depth
      BY <1>1, <2>3, <3>1
    <3> QED BY <1>3, <2>8, <2>9, <2>11, <3>2
  <2>10. CASE s.backslashes % 2 # 1
    <3>1. /\ c = Opening => k = 1
          /\ c = Closing => k = -1
          /\ c # Opening /\ c # Closing => k = 0
      BY <2>2, <2>10, Braces
    <3>2. e => c # "%" /\ ~(c = Closing /\ s.depth = 0)
      BY <2>1, <2>10
    <3>3. /\ c = Opening => d = s.depth + 1
          /\ c = Closing => d = s.depth - 1
          /\ c # Opening /\ c # Closing => d = s.depth
      <4>1. CASE c = Opening
        <5>1. d = s.depth + 1
          BY <1>1, <2>3, <3>1, <4>1
        <5> QED BY <4>1, <5>1, Braces
      <4>2. CASE c = Closing
        <5>1. k = -1
          BY <3>1, <4>2
        <5>2. d = s.depth - 1
          BY <1>1, <2>3, <5>1
        <5> QED BY <4>2, <5>2, Braces
      <4>3. CASE c # Opening /\ c # Closing
        <5>2. k = 0
          BY <3>1, <4>3
        <5>1. d = s.depth
          BY <1>1, <2>3, <5>2
        <5> QED BY <4>3, <5>1
      <4> QED BY <4>1, <4>2, <4>3
    <3> QED BY <1>3, <2>8, <2>10, <2>11, <3>2, <3>3
  <2> QED BY <2>9, <2>10
<1> QED BY <1>2, <1>3

\* A character that does not comment out the rest.
LEMMA TexMoves ==
  ASSUME NEW r \in TexStates, NEW c \in Characters, ~ r.comment
  PROVE  /\ TexCharacter(r, c) \in TexStates
         /\ TexCharacter(r, c).escape <=> (~ r.escape /\ c = "\\")
         /\ TexCharacter(r, c).comment <=> (~ r.escape /\ c = "%")
         /\ TexCharacter(r, c).depth = IF r.escape THEN r.depth
                                       ELSE IF c = Opening THEN r.depth + 1
                                       ELSE IF c = Closing THEN r.depth - 1 ELSE r.depth
         /\ TexCharacter(r, c).closed <=>
              r.closed \/ (TexCharacter(r, c).depth = 0 /\ ~ r.escape /\ c = Closing)
         /\ TexCharacter(r, c).at = r.at + IF r.closed THEN 0 ELSE 1
<1>1. /\ r.escape \in BOOLEAN /\ r.depth \in Int /\ r.closed \in BOOLEAN /\ r.at \in Int
  BY DEF TexStates
<1>2. PICK d : d = IF r.escape THEN r.depth ELSE IF c = Opening THEN r.depth + 1
                   ELSE IF c = Closing THEN r.depth - 1 ELSE r.depth
  OBVIOUS
<1>3. PICK e : e = (~ r.escape /\ c = "\\")
  OBVIOUS
<1>4. PICK o : o = (~ r.escape /\ c = "%")
  OBVIOUS
<1>5. PICK l : l = (r.closed \/ (d = 0 /\ ~ r.escape /\ c = Closing))
  OBVIOUS
<1>6. PICK a : a = r.at + IF r.closed THEN 0 ELSE 1
  OBVIOUS
<1>7. TexCharacter(r, c) = [escape |-> e, comment |-> o, depth |-> d, closed |-> l, at |-> a]
  BY <1>2, <1>3, <1>4, <1>5, <1>6 DEF TexCharacter
<1>8. d \in Int /\ e \in BOOLEAN /\ o \in BOOLEAN /\ l \in BOOLEAN /\ a \in Int
  <2>1. d \in Int /\ a \in Int
    <3>1. d \in {r.depth, r.depth + 1, r.depth - 1}
      BY <1>2
    <3>4. d \in Int
      BY <1>1, <3>1
    <3>2. CASE r.closed
      BY <1>1, <1>6, <3>4, <3>2
    <3>3. CASE ~ r.closed
      BY <1>1, <1>6, <3>4, <3>3
    <3> QED BY <3>2, <3>3
  <2>2. e \in BOOLEAN
    BY <1>3
  <2>3. o \in BOOLEAN
    BY <1>4
  <2>4. l \in BOOLEAN
    BY <1>5
  <2> QED BY <2>1, <2>2, <2>3, <2>4
<1>9. /\ TexCharacter(r, c) \in TexStates
      /\ TexCharacter(r, c).escape = e /\ TexCharacter(r, c).comment = o
      /\ TexCharacter(r, c).depth = d /\ TexCharacter(r, c).closed = l
      /\ TexCharacter(r, c).at = a
  BY <1>7, <1>8 DEF TexStates
<1> QED BY <1>2, <1>3, <1>4, <1>5, <1>6, <1>9

LEMMA TexStaysTyped ==
  ASSUME NEW r \in TexStates, NEW c \in Characters
  PROVE  TexCharacter(r, c) \in TexStates
<1>1. CASE r.comment
  <2>1. TexCharacter(r, c) = [r EXCEPT !.at = r.at + IF r.closed THEN 0 ELSE 1]
    BY <1>1 DEF TexCharacter
  <2> QED BY <2>1 DEF TexStates
<1>2. CASE ~ r.comment
  BY <1>2, TexMoves
<1> QED BY <1>1, <1>2

\* The recursion of each reader, for texts of any length.
LEMMA SafeReadsMove ==
  ASSUME NEW body \in Seq(Characters)
  PROVE  /\ SafeReads(body)[0] = SafeFirst
         /\ \A i \in 1..Len(body) : SafeReads(body)[i] = SafeCharacter(SafeReads(body)[i - 1], body[i])
<1>1. PICK N : N = Len(body)
  OBVIOUS
<1>2. N \in Nat /\ \A i \in 1..N : body[i] \in Characters
  BY <1>1
<1>3. PICK G : G = [i \in Nat |-> [s \in SafeStates |->
                      IF i \in 1..N THEN SafeCharacter(s, body[i]) ELSE s]]
  OBVIOUS
<1>4. SafeFirst \in SafeStates
  BY DEF SafeFirst, SafeStates
<1>5. G \in [Nat -> [SafeStates -> SafeStates]]
  <2>1. \A i \in Nat, s \in SafeStates :
          (IF i \in 1..N THEN SafeCharacter(s, body[i]) ELSE s) \in SafeStates
    BY <1>2, SafeMoves
  <2> QED BY <1>3, <2>1
<1>6. PICK f \in [0..N -> SafeStates] :
             f[0] = SafeFirst /\ \A i \in 1..N : f[i] = G[i][f[i - 1]]
  <2>1. Iterated(SafeStates, SafeFirst, G, N) # {}
    BY <1>2, <1>4, <1>5, Iteration
  <2> QED BY <2>1 DEF Iterated
<1>7. f = [i \in 0..N |-> IF i = 0 THEN SafeFirst ELSE SafeCharacter(f[i - 1], body[i])]
  <2>1. \A i \in 0..N : i # 0 => i \in 1..N /\ f[i - 1] \in SafeStates
    BY <1>2, <1>6
  <2>2. \A i \in 1..N, s \in SafeStates : G[i][s] = SafeCharacter(s, body[i])
    BY <1>3
  <2>3. \A i \in 0..N : f[i] = IF i = 0 THEN SafeFirst ELSE SafeCharacter(f[i - 1], body[i])
    BY <1>6, <2>1, <2>2
  <2> QED BY <1>6, <2>3
<1>8. SafeReads(body) = CHOOSE read :
         read = [i \in 0..N |-> IF i = 0 THEN SafeFirst ELSE SafeCharacter(read[i - 1], body[i])]
  BY <1>1 DEF SafeReads, SafeFirst
<1>9. SafeReads(body) = [i \in 0..N |-> IF i = 0 THEN SafeFirst
                                        ELSE SafeCharacter(SafeReads(body)[i - 1], body[i])]
  BY ZenonT(60), <1>7, <1>8
<1>10. PICK t : t = SafeReads(body)
  OBVIOUS
<1>11. t = [i \in 0..N |-> IF i = 0 THEN SafeFirst ELSE SafeCharacter(t[i - 1], body[i])]
  BY <1>9, <1>10
<1>12. t[0] = SafeFirst /\ \A i \in 1..N : t[i] = SafeCharacter(t[i - 1], body[i])
  BY <1>2, <1>11
<1> QED BY <1>1, <1>10, <1>12

LEMMA TexReadsMove ==
  ASSUME NEW text \in Seq(Characters)
  PROVE  /\ TexReads(text)[0] = TexFirst
         /\ \A i \in 1..Len(text) : TexReads(text)[i] = TexCharacter(TexReads(text)[i - 1], text[i])
<1>1. PICK N : N = Len(text)
  OBVIOUS
<1>2. N \in Nat /\ \A i \in 1..N : text[i] \in Characters
  BY <1>1
<1>3. PICK G : G = [i \in Nat |-> [r \in TexStates |->
                      IF i \in 1..N THEN TexCharacter(r, text[i]) ELSE r]]
  OBVIOUS
<1>4. TexFirst \in TexStates
  BY DEF TexFirst, TexStates
<1>5. G \in [Nat -> [TexStates -> TexStates]]
  <2>1. \A i \in Nat, r \in TexStates :
          (IF i \in 1..N THEN TexCharacter(r, text[i]) ELSE r) \in TexStates
    BY <1>2, TexStaysTyped
  <2> QED BY <1>3, <2>1
<1>6. PICK f \in [0..N -> TexStates] :
             f[0] = TexFirst /\ \A i \in 1..N : f[i] = G[i][f[i - 1]]
  <2>1. Iterated(TexStates, TexFirst, G, N) # {}
    BY <1>2, <1>4, <1>5, Iteration
  <2> QED BY <2>1 DEF Iterated
<1>7. f = [i \in 0..N |-> IF i = 0 THEN TexFirst ELSE TexCharacter(f[i - 1], text[i])]
  <2>1. \A i \in 0..N : i # 0 => i \in 1..N /\ f[i - 1] \in TexStates
    BY <1>2, <1>6
  <2>2. \A i \in 1..N, r \in TexStates : G[i][r] = TexCharacter(r, text[i])
    BY <1>3
  <2>3. \A i \in 0..N : f[i] = IF i = 0 THEN TexFirst ELSE TexCharacter(f[i - 1], text[i])
    BY <1>6, <2>1, <2>2
  <2> QED BY <1>6, <2>3
<1>8. TexReads(text) = CHOOSE read :
         read = [i \in 0..N |-> IF i = 0 THEN TexFirst ELSE TexCharacter(read[i - 1], text[i])]
  BY <1>1 DEF TexReads, TexFirst
<1>9. TexReads(text) = [i \in 0..N |-> IF i = 0 THEN TexFirst
                                       ELSE TexCharacter(TexReads(text)[i - 1], text[i])]
  BY ZenonT(60), <1>7, <1>8
<1>10. PICK t : t = TexReads(text)
  OBVIOUS
<1>11. t = [i \in 0..N |-> IF i = 0 THEN TexFirst ELSE TexCharacter(t[i - 1], text[i])]
  BY <1>9, <1>10
<1>12. t[0] = TexFirst /\ \A i \in 1..N : t[i] = TexCharacter(t[i - 1], text[i])
  BY <1>2, <1>11
<1> QED BY <1>1, <1>10, <1>12

\* A replacement that is safe is read by TeX at a depth of one and more, and TeX escapes
\* a character where the number of backslashes before it is odd.
ReadAlike(s, r, at) ==
    /\ s \in SafeStates /\ s.ok /\ s.depth >= 0
    /\ r \in TexStates /\ ~ r.comment /\ ~ r.closed /\ r.depth = s.depth + 1 /\ r.at = at
    /\ r.escape <=> s.backslashes % 2 = 1

LEMMA AlikeStep ==
  ASSUME NEW s, NEW r, NEW at \in Int, NEW c \in Characters, ReadAlike(s, r, at), SafeCharacter(s, c).ok
  PROVE  ReadAlike(SafeCharacter(s, c), TexCharacter(r, c), at + 1)
<1>1. /\ s \in SafeStates /\ s.backslashes \in Nat /\ s.depth \in Int
      /\ r \in TexStates /\ r.depth \in Int /\ r.at \in Int
  BY DEF ReadAlike, SafeStates, TexStates
<1>2. PICK s2 : s2 = SafeCharacter(s, c)
  OBVIOUS
<1>3. PICK r2 : r2 = TexCharacter(r, c)
  OBVIOUS
<1>4. s2 \in SafeStates /\ s2.ok
  BY <1>1, <1>2, SafeMoves
<1>5. /\ r2 \in TexStates /\ r2.at = r.at + IF r.closed THEN 0 ELSE 1
      /\ r2.escape <=> (~ r.escape /\ c = "\\")
      /\ r2.comment <=> (~ r.escape /\ c = "%")
      /\ r2.depth = IF r.escape THEN r.depth ELSE IF c = Opening THEN r.depth + 1
                    ELSE IF c = Closing THEN r.depth - 1 ELSE r.depth
      /\ r2.closed <=> r.closed \/ (r2.depth = 0 /\ ~ r.escape /\ c = Closing)
  BY <1>1, <1>3, TexMoves DEF ReadAlike
<1>6. r2.at = at + 1
  BY <1>5 DEF ReadAlike
<1>7. CASE c = "\\"
  <2>1. s2.backslashes = s.backslashes + 1 /\ s2.depth = s.depth
    BY <1>1, <1>2, <1>7, SafeMoves
  <2>2. c # "%" /\ c # Opening /\ c # Closing
    BY <1>7, Braces
  <2>3. ~ r2.comment /\ ~ r2.closed /\ r2.depth = s2.depth + 1
    BY <1>5, <2>1, <2>2 DEF ReadAlike
  <2>4. (s.backslashes + 1) % 2 = 1 <=> ~ (s.backslashes % 2 = 1)
    BY <1>1
  <2>5. r2.escape <=> s2.backslashes % 2 = 1
    BY <1>5, <1>7, <2>1, <2>4 DEF ReadAlike
  <2> QED BY <1>2, <1>3, <1>4, <1>5, <1>6, <2>1, <2>3, <2>5 DEF ReadAlike
<1>8. CASE c # "\\"
  <2>1. /\ s2.backslashes = 0
        /\ s.backslashes % 2 = 1 => s2.depth = s.depth
        /\ s.backslashes % 2 # 1 =>
             /\ c = Opening => s2.depth = s.depth + 1
             /\ c = Closing => s2.depth = s.depth - 1
             /\ c # Opening /\ c # Closing => s2.depth = s.depth
             /\ s2.ok => c # "%" /\ ~(c = Closing /\ s.depth = 0)
    <3>1. /\ SafeCharacter(s, c).backslashes = 0
          /\ s.backslashes % 2 = 1 => SafeCharacter(s, c).depth = s.depth
          /\ s.backslashes % 2 # 1 =>
               /\ c = Opening => SafeCharacter(s, c).depth = s.depth + 1
               /\ c = Closing => SafeCharacter(s, c).depth = s.depth - 1
               /\ c # Opening /\ c # Closing => SafeCharacter(s, c).depth = s.depth
               /\ SafeCharacter(s, c).ok => c # "%" /\ ~(c = Closing /\ s.depth = 0)
      BY <1>1, <1>8, SafeMoves
    <3> QED BY <1>2, <3>1
  <2>2. ~ r2.escape
    BY <1>5, <1>8
  <2>3. s2.backslashes % 2 # 1
    <3>1. s2.backslashes = 0
      BY <2>1
    <3> QED BY <3>1
  <2>4. /\ ~ r.closed /\ r.depth = s.depth + 1 /\ s.depth >= 0
        /\ r.escape <=> s.backslashes % 2 = 1
    BY DEF ReadAlike
  <2>5. SUFFICES s2.depth >= 0 /\ r2.depth = s2.depth + 1 /\ ~ r2.comment /\ ~ r2.closed
    BY <1>2, <1>3, <1>4, <1>5, <1>6, <2>2, <2>3 DEF ReadAlike
  <2>6. CASE r.escape
    <3>1. ~ r2.comment /\ ~ r2.closed
      BY <1>5, <2>4, <2>6
    <3>2. r2.depth = r.depth
      BY <1>5, <2>6
    <3>3. s2.depth = s.depth
      BY <1>1, <2>1, <2>4, <2>6
    <3> QED BY <2>4, <3>1, <3>2, <3>3
  <2>7. CASE ~ r.escape
    <3>1. c # "%" /\ ~ (c = Closing /\ s.depth = 0)
      BY <1>4, <2>1, <2>4, <2>7
    <3>2. ~ r2.comment
      BY <1>5, <3>1
    <3>3. r2.closed => r2.depth = 0 /\ c = Closing
      BY <1>5, <2>4
    <3>4. CASE c = Opening
      <4>1. r2.depth = r.depth + 1
        BY <1>5, <2>7, <3>4
      <4>2. s2.depth = s.depth + 1
        BY <1>1, <2>1, <2>4, <2>7, <3>4
      <4>3. ~ r2.closed
        BY <3>3, <3>4, Braces
      <4> QED BY <1>1, <2>4, <3>2, <4>1, <4>2, <4>3
    <3>5. CASE c = Closing
      <4>1. r2.depth = r.depth - 1
        BY <1>5, <2>7, <3>5, Braces
      <4>2. s2.depth = s.depth - 1
        BY <1>1, <2>1, <2>4, <2>7, <3>5
      <4>3. s2.depth >= 0 /\ r2.depth = s2.depth + 1 /\ r2.depth # 0
        <5>1. s.depth # 0
          BY <3>1, <3>5
        <5>2. r.depth = s.depth + 1 /\ s.depth >= 0
          BY <2>4
        <5> QED BY <1>1, <4>1, <4>2, <5>1, <5>2
      <4> QED BY <3>2, <3>3, <4>3
    <3>6. CASE c # Opening /\ c # Closing
      <4>1. r2.depth = r.depth
        BY <1>5, <2>7, <3>6
      <4>2. s2.depth = s.depth
        BY <1>1, <2>1, <2>4, <2>7, <3>6
      <4> QED BY <2>4, <3>2, <3>3, <3>6, <4>1, <4>2
    <3> QED BY <3>4, <3>5, <3>6
  <2> QED BY <2>6, <2>7
<1> QED BY <1>7, <1>8

\* Two texts, one behind the other.
LEMMA Joins ==
  ASSUME NEW S, NEW a \in Seq(S), NEW b \in Seq(S)
  PROVE  /\ a \o b \in Seq(S) /\ Len(a \o b) = Len(a) + Len(b)
         /\ \A i \in 1..Len(a) : (a \o b)[i] = a[i]
         /\ \A i \in 1..Len(b) : (a \o b)[Len(a) + i] = b[i]
  OBVIOUS

\* The characters of a definition that a formula follows, p of them before the replacement.
Shows(m) == Definition(m) \o <<"x", Closing>>
Opens(m) == IF m.count = 0 THEN <<"\\", "x", "\\", "x", Opening>>
            ELSE <<"\\", "x", "\\", "x", "#", "1", Opening>>

LEMMA Widens ==
  ASSUME NEW S, NEW T, S \subseteq T, NEW a \in Seq(S)
  PROVE  a \in Seq(T)
  OBVIOUS

LEMMA DefinitionParts ==
  ASSUME NEW m \in Macros
  PROVE  /\ m.body \in Seq(Characters) /\ Opens(m) \in Seq(Characters)
         /\ Definition(m) = (Opens(m) \o m.body) \o <<Closing>>
<1>1. PICK bs : bs = "\\"
  OBVIOUS
<1>2. PICK x : x = "x"
  OBVIOUS
<1>3. PICK brace : brace = Opening
  OBVIOUS
<1>4. PICK hash : hash = "#"
  OBVIOUS
<1>5. PICK one : one = "1"
  OBVIOUS
<1>6. bs \in Characters /\ x \in Characters /\ brace \in Characters /\ hash \in Characters
      /\ one \in Characters
  BY <1>1, <1>2, <1>3, <1>4, <1>5 DEF Characters
<1>7. PICK body \in Seq(Characters) : body = m.body
  <2>1. m.body \in Seq(STRING)
    BY DEF Macros
  <2>2. STRING \subseteq Characters
    BY DEF Characters
  <2>3. m.body \in Seq(Characters)
    BY <2>1, <2>2, Widens
  <2> QED BY <2>3
<1>8. PICK four \in Seq(Characters) : four = <<bs, x, bs, x>>
  <2>1. <<bs, x, bs, x>> \in Seq(Characters)
    BY <1>6
  <2> QED BY <2>1
<1>9. CASE m.count = 0
  <2>1. Definition(m) = ((four \o <<>>) \o <<brace>>) \o body \o <<Closing>>
    BY <1>1, <1>2, <1>3, <1>7, <1>8, <1>9 DEF Definition
  <2>2. PICK t : t = (four \o <<>>) \o <<brace>>
    OBVIOUS
  <2>3. t \in Seq(Characters) /\ Len(t) = 5
        /\ t[1] = bs /\ t[2] = x /\ t[3] = bs /\ t[4] = x /\ t[5] = brace
    BY <1>6, <1>8, <2>2
  <2>4. t = <<bs, x, bs, x, brace>>
    BY <2>3
  <2>5. t = Opens(m)
    BY <1>1, <1>2, <1>3, <1>9, <2>4 DEF Opens
  <2> QED BY <1>7, <2>1, <2>2, <2>3, <2>5
<1>10. CASE m.count # 0
  <2>1. Definition(m) = ((four \o <<hash, one>>) \o <<brace>>) \o body \o <<Closing>>
    BY <1>1, <1>2, <1>3, <1>4, <1>5, <1>7, <1>8, <1>10 DEF Definition
  <2>2. PICK t : t = (four \o <<hash, one>>) \o <<brace>>
    OBVIOUS
  <2>3. t \in Seq(Characters) /\ Len(t) = 7
        /\ t[1] = bs /\ t[2] = x /\ t[3] = bs /\ t[4] = x /\ t[5] = hash /\ t[6] = one
        /\ t[7] = brace
    BY <1>6, <1>8, <2>2
  <2>4. t = <<bs, x, bs, x, hash, one, brace>>
    BY <2>3
  <2>5. t = Opens(m)
    BY <1>1, <1>2, <1>3, <1>4, <1>5, <1>10, <2>4 DEF Opens
  <2> QED BY <1>7, <2>1, <2>2, <2>3, <2>5
<1> QED BY <1>9, <1>10

LaidOut(m, p, n, text) ==
    /\ p \in Nat /\ n \in Nat /\ text \in Seq(Characters) /\ Len(text) = p + n + 3
    /\ Len(Definition(m)) = p + n + 1
    /\ \A i \in 1..p : text[i] = Opens(m)[i]
    /\ \A i \in 1..n : text[p + i] = m.body[i]
    /\ text[p + n + 1] = Closing /\ text[p + n + 2] = "x" /\ text[p + n + 3] = Closing

LEMMA DefinitionText ==
  ASSUME NEW m \in Macros, NEW p, p = Len(Opens(m)), NEW n, n = Len(m.body), NEW text, text = Shows(m)
  PROVE  LaidOut(m, p, n, text)
<1>1. PICK body \in Seq(Characters) : body = m.body
  BY DefinitionParts
<1>2. PICK head \in Seq(Characters) : head = Opens(m)
  BY DefinitionParts
<1>3. p \in Nat /\ p = Len(head) /\ n \in Nat /\ n = Len(body)
  BY <1>1, <1>2
<1>4. PICK one \in Seq(Characters) : one = head \o body
  BY Joins
<1>5. /\ Len(one) = p + n /\ \A i \in 1..p : one[i] = head[i]
      /\ \A i \in 1..n : one[p + i] = body[i]
  BY <1>3, <1>4, Joins
<1>6. PICK brace \in Characters : brace = Closing
  BY DEF Characters
<1>7. PICK x \in Characters : x = "x"
  BY DEF Characters
<1>8. PICK last \in Seq(Characters) : last = <<brace>>
  <2>1. <<brace>> \in Seq(Characters)
    OBVIOUS
  <2> QED BY <2>1
<1>9. Len(last) = 1 /\ last[1] = Closing
  BY <1>6, <1>8
<1>10. PICK two \in Seq(Characters) : two = one \o last
  BY Joins
<1>11. /\ Len(two) = p + n + 1 /\ \A i \in 1..p + n : two[i] = one[i]
       /\ two[p + n + 1] = Closing
  <2>1. /\ Len(two) = Len(one) + Len(last) /\ \A i \in 1..Len(one) : two[i] = one[i]
        /\ \A i \in 1..Len(last) : two[Len(one) + i] = last[i]
    BY SMTT(30), <1>10, Joins
  <2>2. 1 \in 1..Len(last)
    BY <1>9
  <2> QED BY <1>3, <1>5, <1>9, <2>1, <2>2
<1>12. PICK rest \in Seq(Characters) : rest = <<x, brace>>
  <2>1. <<x, brace>> \in Seq(Characters)
    OBVIOUS
  <2> QED BY <2>1
<1>13. Len(rest) = 2 /\ rest[1] = "x" /\ rest[2] = Closing
  BY <1>6, <1>7, <1>12
<1>14. Definition(m) = two /\ text = two \o rest
  BY <1>1, <1>2, <1>4, <1>6, <1>7, <1>8, <1>10, <1>12, DefinitionParts DEF Shows
<1>15. /\ text \in Seq(Characters) /\ Len(text) = p + n + 3
       /\ \A i \in 1..p + n + 1 : text[i] = two[i]
       /\ text[(p + n + 1) + 1] = "x" /\ text[(p + n + 1) + 2] = Closing
  <2>1. /\ text \in Seq(Characters) /\ Len(text) = Len(two) + Len(rest)
        /\ \A i \in 1..Len(two) : text[i] = two[i]
        /\ \A i \in 1..Len(rest) : text[Len(two) + i] = rest[i]
    BY <1>14, Joins
  <2>2. 1 \in 1..Len(rest) /\ 2 \in 1..Len(rest)
    BY <1>13
  <2> QED BY <1>3, <1>11, <1>13, <2>1, <2>2
<1>16. \A i \in 1..p : text[i] = Opens(m)[i]
  <2>1. \A i \in 1..p : i \in 1..p + n /\ i \in 1..p + n + 1
    BY <1>3
  <2> QED BY <1>2, <1>5, <1>11, <1>15, <2>1
<1>17. \A i \in 1..n : text[p + i] = m.body[i]
  <2>1. \A i \in 1..n : p + i \in 1..p + n /\ p + i \in 1..p + n + 1
    BY <1>3
  <2> QED BY <1>1, <1>5, <1>11, <1>15, <2>1
<1>18. text[p + n + 1] = Closing
  <2>1. p + n + 1 \in 1..p + n + 1
    BY <1>3
  <2> QED BY <1>11, <1>15, <2>1
<1>19. (p + n + 1) + 1 = p + n + 2 /\ (p + n + 1) + 2 = p + n + 3
  BY <1>3
<1>20. text[p + n + 2] = "x" /\ text[p + n + 3] = Closing
  BY <1>15, <1>19
<1>21. Len(Definition(m)) = p + n + 1
  BY <1>11, <1>14
<1> QED BY <1>3, <1>15, <1>16, <1>17, <1>18, <1>20, <1>21 DEF LaidOut

\* The command and the name in front of the first brace.
Heads(r, at) ==
    r \in TexStates /\ ~ r.comment /\ ~ r.closed /\ r.depth = 0 /\ r.at = at

LEMMA HeadStep ==
  ASSUME NEW r, NEW at \in Int, NEW c \in Characters, Heads(r, at),
         c # "%", c # Opening, c # Closing
  PROVE  /\ Heads(TexCharacter(r, c), at + 1)
         /\ TexCharacter(r, c).escape <=> (~ r.escape /\ c = "\\")
<1>1. r \in TexStates /\ ~ r.comment /\ ~ r.closed /\ r.depth = 0 /\ r.at = at
  BY DEF Heads
<1>2. /\ TexCharacter(r, c) \in TexStates
      /\ TexCharacter(r, c).escape <=> (~ r.escape /\ c = "\\")
      /\ TexCharacter(r, c).comment <=> (~ r.escape /\ c = "%")
      /\ TexCharacter(r, c).depth = IF r.escape THEN r.depth
                                    ELSE IF c = Opening THEN r.depth + 1
                                    ELSE IF c = Closing THEN r.depth - 1 ELSE r.depth
      /\ TexCharacter(r, c).closed <=>
           r.closed \/ (TexCharacter(r, c).depth = 0 /\ ~ r.escape /\ c = Closing)
      /\ TexCharacter(r, c).at = r.at + IF r.closed THEN 0 ELSE 1
  BY <1>1, TexMoves
<1>3. TexCharacter(r, c).depth = 0
  BY <1>1, <1>2
<1>4. ~ TexCharacter(r, c).comment /\ ~ TexCharacter(r, c).closed
  BY <1>1, <1>2
<1>5. TexCharacter(r, c).at = at + 1
  BY <1>1, <1>2
<1> QED BY <1>2, <1>3, <1>4, <1>5 DEF Heads

LEMMA OpenStep ==
  ASSUME NEW r, NEW at \in Int, Heads(r, at), ~ r.escape
  PROVE  ReadAlike(SafeFirst, TexCharacter(r, Opening), at + 1)
<1>1. r \in TexStates /\ ~ r.comment /\ ~ r.closed /\ r.depth = 0 /\ r.at = at
  BY DEF Heads
<1>2. PICK c \in Characters : c = Opening
  BY Braces
<1>3. PICK t : t = TexCharacter(r, c)
  OBVIOUS
<1>4. /\ t \in TexStates
      /\ t.escape <=> (~ r.escape /\ c = "\\")
      /\ t.comment <=> (~ r.escape /\ c = "%")
      /\ t.depth = IF r.escape THEN r.depth ELSE IF c = Opening THEN r.depth + 1
                   ELSE IF c = Closing THEN r.depth - 1 ELSE r.depth
      /\ t.closed <=> r.closed \/ (t.depth = 0 /\ ~ r.escape /\ c = Closing)
      /\ t.at = r.at + IF r.closed THEN 0 ELSE 1
  BY <1>1, <1>3, TexMoves
<1>5. ~ t.escape /\ ~ t.comment /\ ~ t.closed
  BY <1>1, <1>2, <1>4, Braces
<1>6. t.depth = r.depth + 1
  BY <1>2, <1>4
<1>7. t.depth = 1 /\ t.at = at + 1
  BY <1>1, <1>4, <1>6
<1>8. PICK s : s = SafeFirst
  OBVIOUS
<1>9. s \in SafeStates /\ s.ok /\ s.depth = 0 /\ s.backslashes = 0
  BY <1>8 DEF SafeFirst, SafeStates
<1>10. s.backslashes % 2 # 1
  <2>1. s.backslashes = 0
    BY <1>9
  <2> QED BY <2>1
<1>11. s.depth >= 0 /\ t.depth = s.depth + 1
  BY <1>7, <1>9
<1>12. ReadAlike(s, t, at + 1)
  BY <1>4, <1>5, <1>7, <1>9, <1>10, <1>11 DEF ReadAlike
<1> QED BY <1>2, <1>3, <1>8, <1>12

LEMMA HeadRead ==
  ASSUME NEW m \in Macros, NEW p, p = Len(Opens(m)), NEW text \in Seq(Characters),
         p <= Len(text), \A i \in 1..p : text[i] = Opens(m)[i]
  PROVE  ReadAlike(SafeFirst, TexReads(text)[p], p)
<1>1. PICK r : r = TexReads(text)
  OBVIOUS
<1>2. r[0] = TexFirst /\ \A i \in 1..Len(text) : r[i] = TexCharacter(r[i - 1], text[i])
  BY <1>1, TexReadsMove
<1>3. /\ p \in {5, 7}
      /\ Opens(m)[1] = "\\" /\ Opens(m)[2] = "x" /\ Opens(m)[3] = "\\" /\ Opens(m)[4] = "x"
      /\ p = 5 => Opens(m)[5] = Opening
      /\ p = 7 => Opens(m)[5] = "#" /\ Opens(m)[6] = "1" /\ Opens(m)[7] = Opening
  BY DEF Opens
<1>4. Len(text) \in Nat
  OBVIOUS
<1>5. /\ r[1] = TexCharacter(r[0], "\\") /\ r[2] = TexCharacter(r[1], "x")
      /\ r[3] = TexCharacter(r[2], "\\") /\ r[4] = TexCharacter(r[3], "x")
      /\ p = 5 => r[5] = TexCharacter(r[4], Opening)
      /\ p = 7 => r[5] = TexCharacter(r[4], "#") /\ r[6] = TexCharacter(r[5], "1")
                  /\ r[7] = TexCharacter(r[6], Opening)
  <2>1. \A i \in 1..p : i \in 1..Len(text) /\ r[i] = TexCharacter(r[i - 1], Opens(m)[i])
    BY <1>2, <1>3, <1>4
  <2>2. \A i \in 1..4 : i \in 1..p /\ r[i] = TexCharacter(r[i - 1], Opens(m)[i])
    BY <1>3, <2>1
  <2>3. ASSUME p = 7 PROVE \A i \in 5..7 : i \in 1..p /\ r[i] = TexCharacter(r[i - 1], Opens(m)[i])
    BY <2>1, <2>3
  <2>4. p = 5 => r[5] = TexCharacter(r[4], Opening)
    BY <1>3, <2>1
  <2> QED BY <1>3, <2>2, <2>3, <2>4
<1>6. /\ "\\" \in Characters /\ "x" \in Characters /\ "#" \in Characters /\ "1" \in Characters
      /\ \A c \in {"\\", "x", "#", "1"} : c # "%" /\ c # Opening /\ c # Closing
      /\ "x" # "\\" /\ "#" # "\\" /\ "1" # "\\"
  BY ZenonT(60) DEF Characters, Opening, Closing
<1>7. Heads(r[0], 0) /\ ~ r[0].escape
  BY <1>2 DEF Heads, TexFirst, TexStates
<1>8. Heads(r[1], 1) /\ r[1].escape
  BY <1>5, <1>6, <1>7, HeadStep, 0 + 1 = 1
<1>9. Heads(r[2], 2) /\ ~ r[2].escape
  BY <1>5, <1>6, <1>8, HeadStep, 1 + 1 = 2
<1>10. Heads(r[3], 3) /\ r[3].escape
  BY <1>5, <1>6, <1>9, HeadStep, 2 + 1 = 3
<1>11. Heads(r[4], 4) /\ ~ r[4].escape
  BY <1>5, <1>6, <1>10, HeadStep, 3 + 1 = 4
<1>12. CASE p = 5
  BY <1>1, <1>5, <1>11, <1>12, OpenStep, 4 + 1 = 5
<1>13. CASE p = 7
  <2>1. Heads(r[5], 5) /\ ~ r[5].escape
    BY <1>5, <1>6, <1>11, <1>13, HeadStep, 4 + 1 = 5
  <2>2. Heads(r[6], 6) /\ ~ r[6].escape
    BY <1>5, <1>6, <1>13, <2>1, HeadStep, 5 + 1 = 6
  <2> QED BY <1>1, <1>5, <1>13, <2>2, OpenStep, 6 + 1 = 7
<1> QED BY <1>3, <1>12, <1>13

\* The replacement, and the brace behind it.
LEMMA ReplacementRead ==
  ASSUME NEW m \in Macros, NEW p, p = Len(Opens(m)), NEW n, n = Len(m.body), NEW text, text = Shows(m),
         SafeReads(m.body)[n].ok
  PROVE  ReadAlike(SafeReads(m.body)[n], TexReads(text)[p + n], p + n)
<1>1. PICK body \in Seq(Characters) : body = m.body
  BY DefinitionParts
<1>2. /\ p \in Nat /\ n \in Nat /\ n = Len(body) /\ text \in Seq(Characters) /\ Len(text) = p + n + 3
      /\ \A i \in 1..p : text[i] = Opens(m)[i]
      /\ \A i \in 1..n : text[p + i] = body[i] /\ body[i] \in Characters
  <2>1. /\ p \in Nat /\ n \in Nat /\ text \in Seq(Characters) /\ Len(text) = p + n + 3
        /\ \A i \in 1..p : text[i] = Opens(m)[i]
        /\ \A i \in 1..n : text[p + i] = m.body[i]
    <3>1. LaidOut(m, p, n, text)
      BY DefinitionText
    <3> QED BY <3>1 DEF LaidOut
  <2>2. n = Len(body) /\ \A i \in 1..n : body[i] \in Characters
    BY <1>1
  <2> QED BY <1>1, <2>1, <2>2
<1>3. PICK s : s = SafeReads(body)
  OBVIOUS
<1>4. PICK r : r = TexReads(text)
  OBVIOUS
<1>5. s[0] = SafeFirst /\ \A i \in 1..n : s[i] = SafeCharacter(s[i - 1], body[i])
  BY <1>2, <1>3, SafeReadsMove
<1>6. \A i \in 1..Len(text) : r[i] = TexCharacter(r[i - 1], text[i])
  BY <1>2, <1>4, TexReadsMove
<1> DEFINE T == {i \in Nat : i <= n => s[i] \in SafeStates /\ (s[i].ok => ReadAlike(s[i], r[p + i], p + i))}
<1>7. 0 \in T
  <2>1. ReadAlike(SafeFirst, TexReads(text)[p], p)
    <3>1. p <= Len(text)
      BY <1>2
    <3> QED BY <1>2, <3>1, HeadRead
  <2>2. ReadAlike(s[0], r[p + 0], p + 0)
    <3>1. p + 0 = p
      BY <1>2
    <3> QED BY <1>4, <1>5, <2>1, <3>1
  <2> QED BY <2>2 DEF ReadAlike
<1>8. ASSUME NEW i \in Nat, i \in T PROVE i + 1 \in T
  <2> SUFFICES ASSUME i + 1 <= n
               PROVE  s[i + 1] \in SafeStates /\ (s[i + 1].ok => ReadAlike(s[i + 1], r[p + (i + 1)], p + (i + 1)))
    OBVIOUS
  <2>1. s[i] \in SafeStates /\ (s[i].ok => ReadAlike(s[i], r[p + i], p + i))
    BY <1>2, <1>8
  <2>2. i + 1 \in 1..n /\ (i + 1) - 1 = i /\ p + (i + 1) = (p + i) + 1 /\ p + (i + 1) \in 1..Len(text)
        /\ (p + (i + 1)) - 1 = p + i /\ p + i \in Int
    BY <1>2
  <2>3. PICK c \in Characters : c = body[i + 1]
    BY <1>2, <2>2
  <2>4. s[i + 1] = SafeCharacter(s[i], c)
    BY <1>5, <2>2, <2>3
  <2>5. r[p + (i + 1)] = TexCharacter(r[p + i], c)
    <3>1. text[p + (i + 1)] = c
      BY <1>2, <2>2, <2>3
    <3>2. r[p + (i + 1)] = TexCharacter(r[(p + (i + 1)) - 1], text[p + (i + 1)])
      BY <1>6, <2>2
    <3> QED BY <2>2, <3>1, <3>2
  <2>6. s[i + 1] \in SafeStates /\ (s[i + 1].ok => s[i].ok)
    BY <2>1, <2>4, SafeMoves
  <2>7. ASSUME s[i + 1].ok PROVE ReadAlike(s[i + 1], r[p + (i + 1)], p + (i + 1))
    <3>1. ReadAlike(s[i], r[p + i], p + i)
      BY <2>1, <2>6, <2>7
    <3>2. ReadAlike(SafeCharacter(s[i], c), TexCharacter(r[p + i], c), (p + i) + 1)
      BY <2>2, <2>4, <2>7, <3>1, AlikeStep
    <3> QED BY <2>2, <2>4, <2>5, <3>2
  <2> QED BY <2>6, <2>7
<1>9. Nat \subseteq T
  <2> HIDE DEF T
  <2> QED BY <1>7, <1>8, Inductive
<1>10. n \in T
  BY <1>2, <1>9
<1> QED BY <1>1, <1>2, <1>3, <1>4, <1>10

LEMMA CloseStep ==
  ASSUME NEW s, NEW r, NEW at \in Int, ReadAlike(s, r, at), s.depth = 0, s.backslashes % 2 = 0
  PROVE  /\ TexCharacter(r, Closing) \in TexStates /\ TexCharacter(r, Closing).closed
         /\ TexCharacter(r, Closing).at = at + 1
<1>1. /\ r \in TexStates /\ ~ r.comment /\ ~ r.closed /\ r.depth = 1 /\ r.at = at /\ ~ r.escape
  <2>1. s.backslashes % 2 # 1
    OBVIOUS
  <2>2. r.depth = s.depth + 1
    BY DEF ReadAlike
  <2>3. r.depth = 1
    BY <2>2
  <2> QED BY <2>1, <2>3 DEF ReadAlike
<1>2. PICK c \in Characters : c = Closing
  BY Braces
<1>3. PICK t : t = TexCharacter(r, c)
  OBVIOUS
<1>4. /\ t \in TexStates
      /\ t.depth = IF r.escape THEN r.depth ELSE IF c = Opening THEN r.depth + 1
                   ELSE IF c = Closing THEN r.depth - 1 ELSE r.depth
      /\ t.closed <=> r.closed \/ (t.depth = 0 /\ ~ r.escape /\ c = Closing)
      /\ t.at = r.at + IF r.closed THEN 0 ELSE 1
  BY <1>1, <1>3, TexMoves
<1>5. t.depth = r.depth - 1
  BY <1>1, <1>2, <1>4, Braces
<1>6. t.depth = 0 /\ t.at = at + 1
  BY <1>1, <1>4, <1>5
<1>7. t.closed
  BY <1>1, <1>2, <1>4, <1>6
<1> QED BY <1>2, <1>3, <1>4, <1>6, <1>7

LEMMA ClosedStep ==
  ASSUME NEW r \in TexStates, NEW c \in Characters, r.closed
  PROVE  /\ TexCharacter(r, c) \in TexStates /\ TexCharacter(r, c).closed
         /\ TexCharacter(r, c).at = r.at
<1>1. r.at \in Int /\ r.at + 0 = r.at
  BY DEF TexStates
<1>2. CASE r.comment
  <2>1. TexCharacter(r, c) = [r EXCEPT !.at = r.at]
    BY <1>1, <1>2 DEF TexCharacter
  <2> QED BY <1>1, <2>1 DEF TexStates
<1>3. CASE ~ r.comment
  <2>1. /\ TexCharacter(r, c) \in TexStates
        /\ TexCharacter(r, c).closed <=>
             r.closed \/ (TexCharacter(r, c).depth = 0 /\ ~ r.escape /\ c = Closing)
        /\ TexCharacter(r, c).at = r.at + IF r.closed THEN 0 ELSE 1
    BY <1>3, TexMoves
  <2> QED BY <1>1, <2>1
<1> QED BY <1>2, <1>3

LEMMA SafeCloses ==
  ASSUME NEW m \in Macros, SafeDefinition(m)
  PROVE  Taken(Shows(m)) = Len(Definition(m))
<1>1. PICK p : p = Len(Opens(m))
  OBVIOUS
<1>2. PICK n : n = Len(m.body)
  OBVIOUS
<1>3. PICK text : text = Shows(m)
  OBVIOUS
<1>4. /\ p \in Nat /\ n \in Nat /\ text \in Seq(Characters) /\ Len(text) = p + n + 3
      /\ Len(Definition(m)) = p + n + 1
      /\ text[p + n + 1] = Closing /\ text[p + n + 2] = "x" /\ text[p + n + 3] = Closing
  <2>1. LaidOut(m, p, n, text)
    BY <1>1, <1>2, <1>3, DefinitionText
  <2> QED BY <2>1 DEF LaidOut
<1>5. PICK r : r = TexReads(text)
  OBVIOUS
<1>6. PICK s : s = SafeReads(m.body)[n]
  OBVIOUS
<1>7. s.ok /\ s.depth = 0 /\ s.backslashes % 2 = 0
  BY <1>2, <1>6 DEF SafeDefinition
<1>8. ReadAlike(s, r[p + n], p + n)
  BY <1>1, <1>2, <1>3, <1>5, <1>6, <1>7, ReplacementRead
<1>9. \A i \in 1..Len(text) : r[i] = TexCharacter(r[i - 1], text[i])
  BY <1>4, <1>5, TexReadsMove
<1>10. /\ p + n + 1 \in 1..Len(text) /\ (p + n + 1) - 1 = p + n /\ p + n \in Int
       /\ p + n + 2 \in 1..Len(text) /\ (p + n + 2) - 1 = p + n + 1
       /\ p + n + 3 \in 1..Len(text) /\ (p + n + 3) - 1 = p + n + 2
  BY <1>4
<1>11. r[p + n + 1] \in TexStates /\ r[p + n + 1].closed /\ r[p + n + 1].at = p + n + 1
  <2>1. r[p + n + 1] = TexCharacter(r[p + n], Closing)
    BY <1>4, <1>9, <1>10
  <2> QED BY SMTT(30), <1>7, <1>8, <1>10, <2>1, CloseStep
<1>12. "x" \in Characters /\ Closing \in Characters
  BY ZenonT(60) DEF Characters
<1>13. r[p + n + 2] \in TexStates /\ r[p + n + 2].closed /\ r[p + n + 2].at = p + n + 1
  <2>1. r[p + n + 2] = TexCharacter(r[p + n + 1], "x")
    BY <1>4, <1>9, <1>10
  <2> QED BY <1>11, <1>12, <2>1, ClosedStep
<1>14. r[p + n + 3].closed /\ r[p + n + 3].at = p + n + 1
  <2>1. r[p + n + 3] = TexCharacter(r[p + n + 2], Closing)
    BY <1>4, <1>9, <1>10
  <2> QED BY <1>12, <1>13, <2>1, ClosedStep
<1> QED BY <1>3, <1>4, <1>5, <1>14 DEF Taken

\* Whatever is shown, of this version or an older one, TeX ends each definition at the
\* brace that was put behind the replacement, for lists and replacements of any length.
THEOREM MacrosDefinitionsClose == MacrosSpec => []DefinitionsClose
<1>1. ASSUME MacrosInv PROVE DefinitionsClose
  <2> SUFFICES ASSUME NEW m \in Shown(macros.list)
               PROVE  Taken(Definition(m) \o <<"x", Closing>>) = Len(Definition(m))
    BY DEF DefinitionsClose
  <2>1. PICK i \in DOMAIN macros.list : m = macros.list[i] /\ MacrosValid(<<macros.list[i]>>)
    BY DEF Shown
  <2>2. m \in Macros
    BY <1>1, <2>1 DEF MacrosInv
  <2>3. SafeDefinition(m)
    <3>1. PICK list : list = <<m>>
      OBVIOUS
    <3>2. 1 \in DOMAIN list /\ list[1] = m
      BY <3>1
    <3>3. MacrosValid(list)
      BY <2>1, <3>1
    <3> QED BY <3>2, <3>3 DEF MacrosValid
  <2> QED BY <2>2, <2>3, SafeCloses DEF Shows
<1> QED BY <1>1, MacrosBegin, MacrosStep, PTL DEF MacrosSpec

-------------------------------------------------------------------------------
(* Patches.  What the recursions compute, step by step, and that a text    *)
(* comes out as a text.                                                    *)

AllTexts == [lines: Seq(Lines), nl: BOOLEAN]
BodyLines == [sign: {"context", "removed", "added"}, line: Lines]
Hunks == [start: Nat, at: Nat, old: Nat, new: Nat, body: Seq(BodyLines),
          oldEnd: BOOLEAN, newEnd: BOOLEAN]
DoneStates == [ok: BOOLEAN, cursor: Nat, out: Seq(Lines), nl: BOOLEAN]

\* A property that the beginning has and every step keeps.
LEMMA Ranged ==
  ASSUME NEW S, NEW N \in Nat, NEW t, t[0] \in S,
         \A i \in 1..N : t[i - 1] \in S => t[i] \in S
  PROVE  \A i \in 0..N : t[i] \in S
<1> DEFINE T == {n \in Nat : n <= N => t[n] \in S}
<1>1. 0 \in T
  OBVIOUS
<1>2. ASSUME NEW n \in Nat, n \in T PROVE n + 1 \in T
  <2> SUFFICES ASSUME n + 1 <= N PROVE t[n + 1] \in S
    OBVIOUS
  <2>1. n + 1 \in 1..N /\ (n + 1) - 1 = n /\ t[n] \in S
    BY <1>2
  <2> QED BY <2>1
<1>3. Nat \subseteq T
  <2> HIDE DEF T
  <2> QED BY <1>1, <1>2, Inductive
<1> QED BY <1>3

LEMMA SideMoves ==
  ASSUME NEW body \in Seq(BodyLines), NEW other
  PROVE  /\ Side(body, other)[0] = <<>>
         /\ \A n \in 1..Len(body) :
              Side(body, other)[n] = IF body[n].sign = other THEN Side(body, other)[n - 1]
                                     ELSE Append(Side(body, other)[n - 1], body[n].line)
         /\ \A n \in 0..Len(body) : Side(body, other)[n] \in Seq(Lines)
<1>1. PICK N : N = Len(body)
  OBVIOUS
<1>2. N \in Nat /\ \A n \in 1..N : body[n].line \in Lines
  <2>1. N \in Nat /\ \A n \in 1..N : body[n] \in BodyLines
    BY <1>1
  <2>2. \A l \in BodyLines : l.line \in Lines
    BY DEF BodyLines
  <2> QED BY <2>1, <2>2
<1>3. PICK S : S = Seq(Lines)
  OBVIOUS
<1>4. <<>> \in S /\ \A s \in S, l \in Lines : Append(s, l) \in S
  BY <1>3
<1>5. PICK G : G = [n \in Nat |-> [s \in S |->
                      IF n \in 1..N THEN IF body[n].sign = other THEN s ELSE Append(s, body[n].line)
                      ELSE s]]
  OBVIOUS
<1>6. G \in [Nat -> [S -> S]]
  <2>1. \A n \in Nat, s \in S :
          (IF n \in 1..N THEN IF body[n].sign = other THEN s ELSE Append(s, body[n].line) ELSE s) \in S
    BY <1>2, <1>4
  <2> QED BY <1>5, <2>1
<1>7. PICK f \in [0..N -> S] : f[0] = <<>> /\ \A n \in 1..N : f[n] = G[n][f[n - 1]]
  <2>1. Iterated(S, <<>>, G, N) # {}
    BY <1>2, <1>4, <1>6, Iteration
  <2> QED BY <2>1 DEF Iterated
<1>8. f = [n \in 0..N |-> IF n = 0 THEN <<>> ELSE IF body[n].sign = other THEN f[n - 1]
                          ELSE Append(f[n - 1], body[n].line)]
  <2>1. \A n \in 0..N : n # 0 => n \in 1..N /\ f[n - 1] \in S
    BY <1>2, <1>7
  <2>2. \A n \in 1..N, s \in S : G[n][s] = IF body[n].sign = other THEN s ELSE Append(s, body[n].line)
    BY <1>5
  <2>3. \A n \in 0..N : f[n] = IF n = 0 THEN <<>> ELSE IF body[n].sign = other THEN f[n - 1]
                                ELSE Append(f[n - 1], body[n].line)
    BY <1>7, <2>1, <2>2
  <2> QED BY <1>7, <2>3
<1>9. Side(body, other) = CHOOSE side : side =
        [n \in 0..N |-> IF n = 0 THEN <<>> ELSE IF body[n].sign = other THEN side[n - 1]
                        ELSE Append(side[n - 1], body[n].line)]
  BY <1>1 DEF Side
<1>10. Side(body, other) =
        [n \in 0..N |-> IF n = 0 THEN <<>> ELSE IF body[n].sign = other THEN Side(body, other)[n - 1]
                        ELSE Append(Side(body, other)[n - 1], body[n].line)]
  BY ZenonT(60), <1>8, <1>9
<1>11. PICK t : t = Side(body, other)
  OBVIOUS
<1>12. t = [n \in 0..N |-> IF n = 0 THEN <<>> ELSE IF body[n].sign = other THEN t[n - 1]
                           ELSE Append(t[n - 1], body[n].line)]
  BY <1>10, <1>11
<1>13. /\ t[0] = <<>>
       /\ \A n \in 1..N : t[n] = IF body[n].sign = other THEN t[n - 1]
                                 ELSE Append(t[n - 1], body[n].line)
  <2>1. 0 \in 0..N /\ \A n \in 1..N : n \in 0..N /\ n # 0
    BY <1>2
  <2>2. t[0] = <<>>
    BY <1>12, <2>1
  <2>3. ASSUME NEW n \in 1..N
        PROVE  t[n] = IF body[n].sign = other THEN t[n - 1] ELSE Append(t[n - 1], body[n].line)
    <3>1. n \in 0..N /\ n # 0
      BY <2>1
    <3> QED BY <1>12, <3>1
  <2> QED BY <2>2, <2>3
<1>14. \A n \in 0..N : t[n] \in S
  <2>1. \A n \in 1..N : t[n - 1] \in S => t[n] \in S
    BY <1>2, <1>4, <1>13
  <2> QED BY <1>2, <1>4, <1>13, <2>1, Ranged
<1> QED BY <1>1, <1>3, <1>11, <1>13, <1>14

LEMMA SidesAreLines ==
  ASSUME NEW body \in Seq(BodyLines)
  PROVE  OldSide(body) \in Seq(Lines) /\ NewSide(body) \in Seq(Lines)
<1>1. Len(body) \in 0..Len(body)
  OBVIOUS
<1> QED BY <1>1, SideMoves DEF OldSide, NewSide

\* Parts of a sequence.
LEMMA Parts ==
  ASSUME NEW S, NEW s \in Seq(S), NEW m \in Int, NEW n \in Int, n < m \/ (1 <= m /\ n <= Len(s))
  PROVE  /\ SubSeq(s, m, n) \in Seq(S)
         /\ Len(SubSeq(s, m, n)) = IF m <= n THEN n - m + 1 ELSE 0
         /\ \A i \in 1..n - m + 1 : SubSeq(s, m, n)[i] = s[m + i - 1]
  OBVIOUS

LEMMA PartTyped ==
  ASSUME NEW S, NEW s \in Seq(S), NEW m \in Nat, NEW n \in Nat, n <= Len(s)
  PROVE  SubSeq(s, m + 1, n) \in Seq(S)
<1>1. m + 1 \in Int /\ n \in Int /\ (n < m + 1 \/ (1 <= m + 1 /\ n <= Len(s)))
  OBVIOUS
<1> QED BY <1>1, Parts

\* A hunk that fits lies within what comes after the cursor.
LEMMA FitsWhere ==
  ASSUME NEW src \in AllTexts, NEW cursor \in Nat, NEW h \in Hunks, Fits(src, cursor, h)
  PROVE  /\ FirstLine(h) \in Nat /\ cursor <= FirstLine(h) /\ FirstLine(h) <= Len(src.lines)
         /\ OldSide(h.body) \in Seq(Lines) /\ NewSide(h.body) \in Seq(Lines)
         /\ Len(src.lines) \in Nat /\ src.lines \in Seq(Lines)
         /\ FirstLine(h) + Len(OldSide(h.body)) <= Len(src.lines)
         /\ SubSeq(src.lines, FirstLine(h) + 1, FirstLine(h) + Len(OldSide(h.body))) = OldSide(h.body)
<1>1. /\ h.start \in Nat /\ h.old \in Nat /\ h.body \in Seq(BodyLines)
      /\ src.lines \in Seq(Lines)
  BY DEF Hunks, AllTexts
<1>2. PICK first : first = FirstLine(h)
  OBVIOUS
<1>3. first \in Int
  BY <1>1, <1>2 DEF FirstLine
<1>4. /\ cursor <= first /\ first + h.old <= Len(src.lines)
      /\ first + Len(OldSide(h.body)) <= Len(src.lines)
      /\ SubSeq(src.lines, first + 1, first + Len(OldSide(h.body))) = OldSide(h.body)
  BY <1>2 DEF Fits
<1>5. OldSide(h.body) \in Seq(Lines) /\ NewSide(h.body) \in Seq(Lines) /\ Len(src.lines) \in Nat
  BY <1>1, SidesAreLines
<1>6. first \in Nat /\ first <= Len(src.lines)
  BY <1>1, <1>3, <1>4, <1>5
<1> QED BY <1>1, <1>2, <1>4, <1>5, <1>6

\* What a hunk that fits makes of what has been done.
LEMMA HunkApplied ==
  ASSUME NEW src \in AllTexts, NEW done \in DoneStates, NEW h \in Hunks, ApplyHunk(src, done, h).ok
  PROVE  /\ done.ok /\ Fits(src, done.cursor, h)
         /\ ApplyHunk(src, done, h).cursor = FirstLine(h) + Len(OldSide(h.body))
         /\ ApplyHunk(src, done, h).out =
              done.out \o SubSeq(src.lines, done.cursor + 1, FirstLine(h)) \o NewSide(h.body)
         /\ ApplyHunk(src, done, h).nl =
              IF FirstLine(h) + Len(OldSide(h.body)) = Len(src.lines) THEN ~h.newEnd ELSE done.nl
<1>1. CASE ~done.ok \/ ~Fits(src, done.cursor, h)
  <2>1. ApplyHunk(src, done, h) = [done EXCEPT !.ok = FALSE]
    BY <1>1 DEF ApplyHunk
  <2>2. ~ ApplyHunk(src, done, h).ok
    BY <2>1 DEF DoneStates
  <2> QED BY <2>2
<1>2. CASE done.ok /\ Fits(src, done.cursor, h)
  BY <1>2 DEF ApplyHunk
<1> QED BY <1>1, <1>2

LEMMA HunkTyped ==
  ASSUME NEW src \in AllTexts, NEW done \in DoneStates, NEW h \in Hunks
  PROVE  ApplyHunk(src, done, h) \in DoneStates
<1>1. CASE ~done.ok \/ ~Fits(src, done.cursor, h)
  <2>1. ApplyHunk(src, done, h) = [done EXCEPT !.ok = FALSE]
    BY <1>1 DEF ApplyHunk
  <2> QED BY <2>1 DEF DoneStates
<1>2. CASE done.ok /\ Fits(src, done.cursor, h)
  <2>1. done.cursor \in Nat /\ done.out \in Seq(Lines) /\ done.nl \in BOOLEAN /\ h.newEnd \in BOOLEAN
    BY DEF DoneStates, Hunks
  <2>2. PICK first \in Nat : first = FirstLine(h)
    BY <1>2, <2>1, FitsWhere
  <2>3. /\ done.cursor <= first /\ first <= Len(src.lines) /\ src.lines \in Seq(Lines)
        /\ OldSide(h.body) \in Seq(Lines) /\ NewSide(h.body) \in Seq(Lines)
    BY <1>2, <2>1, <2>2, FitsWhere
  <2>4. PICK cursor \in Nat : cursor = first + Len(OldSide(h.body))
    BY <2>3
  <2>5. PICK out \in Seq(Lines) :
          out = done.out \o SubSeq(src.lines, done.cursor + 1, first) \o NewSide(h.body)
    <3>1. SubSeq(src.lines, done.cursor + 1, first) \in Seq(Lines)
      BY <2>1, <2>2, <2>3, PartTyped
    <3>2. PICK part \in Seq(Lines) : part = SubSeq(src.lines, done.cursor + 1, first)
      BY <3>1
    <3>3. (done.out \o part) \o NewSide(h.body) \in Seq(Lines)
      BY <2>1, <2>3
    <3> QED BY <3>2, <3>3
  <2>6. PICK nl : nl = IF cursor = Len(src.lines) THEN ~h.newEnd ELSE done.nl
    OBVIOUS
  <2>7. nl \in BOOLEAN
    BY <2>1, <2>6
  <2>8. ApplyHunk(src, done, h) = [ok |-> TRUE, cursor |-> cursor, out |-> out, nl |-> nl]
    BY <1>2, <2>2, <2>4, <2>5, <2>6 DEF ApplyHunk
  <2> QED BY <2>7, <2>8 DEF DoneStates
<1> QED BY <1>1, <1>2

Undone(src, patch) == [ok |-> Parses(patch), cursor |-> 0, out |-> <<>>, nl |-> src.nl]

LEMMA HunksMove ==
  ASSUME NEW src \in AllTexts, NEW patch \in Seq(Hunks)
  PROVE  /\ ApplyHunks(src, patch)[0] = Undone(src, patch)
         /\ \A k \in 1..Len(patch) :
              ApplyHunks(src, patch)[k] = ApplyHunk(src, ApplyHunks(src, patch)[k - 1], patch[k])
         /\ \A k \in 0..Len(patch) : ApplyHunks(src, patch)[k] \in DoneStates
<1>1. PICK N : N = Len(patch)
  OBVIOUS
<1>2. N \in Nat /\ \A k \in 1..N : patch[k] \in Hunks
  BY <1>1
<1>3. PICK first : first = Undone(src, patch)
  OBVIOUS
<1>4. first \in DoneStates
  <2>1. PICK ok : ok = Parses(patch)
    OBVIOUS
  <2>2. ok \in BOOLEAN
    BY <2>1 DEF Parses
  <2>3. src.nl \in BOOLEAN /\ <<>> \in Seq(Lines)
    BY DEF AllTexts
  <2> QED BY <1>3, <2>1, <2>2, <2>3 DEF Undone, DoneStates
<1>5. PICK G : G = [k \in Nat |-> [d \in DoneStates |->
                      IF k \in 1..N THEN ApplyHunk(src, d, patch[k]) ELSE d]]
  OBVIOUS
<1>6. G \in [Nat -> [DoneStates -> DoneStates]]
  <2>1. \A k \in Nat, d \in DoneStates :
          (IF k \in 1..N THEN ApplyHunk(src, d, patch[k]) ELSE d) \in DoneStates
    BY <1>2, HunkTyped
  <2> QED BY <1>5, <2>1
<1>7. PICK f \in [0..N -> DoneStates] : f[0] = first /\ \A k \in 1..N : f[k] = G[k][f[k - 1]]
  <2>1. Iterated(DoneStates, first, G, N) # {}
    BY <1>2, <1>4, <1>6, Iteration
  <2> QED BY <2>1 DEF Iterated
<1>8. f = [k \in 0..N |-> IF k = 0 THEN Undone(src, patch) ELSE ApplyHunk(src, f[k - 1], patch[k])]
  <2>1. \A k \in 0..N : k # 0 => k \in 1..N /\ f[k - 1] \in DoneStates
    BY <1>2, <1>7
  <2>2. \A k \in 1..N, d \in DoneStates : G[k][d] = ApplyHunk(src, d, patch[k])
    BY <1>5
  <2>3. \A k \in 0..N : f[k] = IF k = 0 THEN Undone(src, patch)
                                ELSE ApplyHunk(src, f[k - 1], patch[k])
    BY <1>3, <1>7, <2>1, <2>2
  <2> QED BY <1>7, <2>3
<1>9. ApplyHunks(src, patch) = CHOOSE done : done =
        [k \in 0..N |-> IF k = 0 THEN Undone(src, patch) ELSE ApplyHunk(src, done[k - 1], patch[k])]
  BY <1>1 DEF ApplyHunks, Undone
<1>10. ApplyHunks(src, patch) =
        [k \in 0..N |-> IF k = 0 THEN Undone(src, patch)
                        ELSE ApplyHunk(src, ApplyHunks(src, patch)[k - 1], patch[k])]
  BY ZenonT(60), <1>8, <1>9
<1>11. PICK t : t = ApplyHunks(src, patch)
  OBVIOUS
<1>12. t = [k \in 0..N |-> IF k = 0 THEN Undone(src, patch) ELSE ApplyHunk(src, t[k - 1], patch[k])]
  BY <1>10, <1>11
<1>13. t[0] = first /\ \A k \in 1..N : t[k] = ApplyHunk(src, t[k - 1], patch[k])
  BY <1>2, <1>3, <1>12
<1>14. \A k \in 0..N : t[k] \in DoneStates
  <2>1. \A k \in 1..N : t[k - 1] \in DoneStates => t[k] \in DoneStates
    BY <1>2, <1>13, HunkTyped
  <2> QED BY <1>2, <1>4, <1>13, <2>1, Ranged
<1> QED BY <1>1, <1>3, <1>11, <1>13, <1>14

LEMMA PatchedTyped ==
  ASSUME NEW src \in AllTexts, NEW patch \in Seq(Hunks)
  PROVE  ApplyPatch(src, patch) \in AllTexts
<1>1. PICK done \in DoneStates : done = ApplyHunks(src, patch)[Len(patch)]
  <2>1. Len(patch) \in 0..Len(patch)
    OBVIOUS
  <2> QED BY <2>1, HunksMove
<1>2. Empty \in AllTexts /\ Rejection \in AllTexts
  BY DEF Empty, Rejection, AllTexts
<1>3. done.cursor \in Nat /\ done.out \in Seq(Lines) /\ done.nl \in BOOLEAN /\ src.lines \in Seq(Lines)
  BY DEF DoneStates, AllTexts
<1>4. PICK rest \in Seq(Lines) : rest = SubSeq(src.lines, done.cursor + 1, Len(src.lines))
  <2>1. Len(src.lines) \in Nat
    BY <1>3
  <2>2. SubSeq(src.lines, done.cursor + 1, Len(src.lines)) \in Seq(Lines)
    BY <1>3, <2>1, PartTyped
  <2> QED BY <2>2
<1>5. PICK lines \in Seq(Lines) : lines = done.out \o rest
  <2>1. done.out \o rest \in Seq(Lines)
    BY <1>3, <1>4
  <2> QED BY <2>1
<1>6. Joined(lines, done.nl) \in AllTexts
  BY <1>2, <1>3 DEF Joined, AllTexts
<1> QED BY <1>1, <1>2, <1>4, <1>5, <1>6 DEF ApplyPatch

\* A stretch ends somewhere.
LEMMA Stretch ==
  ASSUME NEW P, NEW M \in Nat
  PROVE  \E n \in 0..M : (\A i \in 1..n : i \in P) /\ (n < M => n + 1 \notin P)
<1> DEFINE Ends == \E n \in 0..M : (\A i \in 1..n : i \in P) /\ (n < M => n + 1 \notin P)
           T == {m \in Nat : m <= M => Ends \/ \A i \in 1..m : i \in P}
<1>1. 0 \in T
  OBVIOUS
<1>2. ASSUME NEW m \in Nat, m \in T PROVE m + 1 \in T
  <2> SUFFICES ASSUME m + 1 <= M PROVE Ends \/ \A i \in 1..m + 1 : i \in P
    OBVIOUS
  <2>1. Ends \/ \A i \in 1..m : i \in P
    BY <1>2
  <2>2. CASE Ends
    BY <2>2
  <2>3. CASE \A i \in 1..m : i \in P
    <3>1. CASE m + 1 \in P
      BY <2>3, <3>1
    <3>2. CASE m + 1 \notin P
      <4>1. m \in 0..M
        OBVIOUS
      <4> QED BY <2>3, <3>2, <4>1
    <3> QED BY <3>1, <3>2
  <2> QED BY <2>1, <2>2, <2>3
<1>3. Nat \subseteq T
  <2> HIDE DEF T
  <2> QED BY <1>1, <1>2, Inductive
<1>4. Ends \/ \A i \in 1..M : i \in P
  BY <1>3
<1> QED BY <1>4

\* What two texts have in common in front of everything they differ in, and behind it.
FrontIs(x, y, n) ==
    /\ n \in Nat /\ n <= Len(x.lines) /\ n <= Len(y.lines)
    /\ \A i \in 1..n : WithEnd(x, i) = WithEnd(y, i)
    /\ n < Len(x.lines) /\ n < Len(y.lines) => WithEnd(x, n + 1) # WithEnd(y, n + 1)
BehindIs(x, y, p, n) ==
    /\ n \in Nat /\ p + n <= Len(x.lines) /\ p + n <= Len(y.lines)
    /\ \A i \in 0..n - 1 : WithEnd(x, Len(x.lines) - i) = WithEnd(y, Len(y.lines) - i)
    /\ p + n < Len(x.lines) /\ p + n < Len(y.lines) =>
         WithEnd(x, Len(x.lines) - n) # WithEnd(y, Len(y.lines) - n)

LEMMA Least ==
  ASSUME NEW m \in Int, NEW n \in Int
  PROVE  /\ Smaller(m, n) \in Int /\ Smaller(m, n) <= m /\ Smaller(m, n) <= n
         /\ Smaller(m, n) \in {m, n}
         /\ Larger(m, n) \in Int /\ m <= Larger(m, n) /\ n <= Larger(m, n)
         /\ Larger(m, n) \in {m, n}
  BY DEF Smaller, Larger

LEMMA FrontFound ==
  ASSUME NEW x \in AllTexts, NEW y \in AllTexts
  PROVE  FrontIs(x, y, InFront(x, y))
<1>1. Len(x.lines) \in Nat /\ Len(y.lines) \in Nat
  BY DEF AllTexts
<1>2. PICK M : M = Smaller(Len(x.lines), Len(y.lines))
  OBVIOUS
<1>3. M \in Nat /\ M <= Len(x.lines) /\ M <= Len(y.lines) /\ M \in {Len(x.lines), Len(y.lines)}
  BY <1>1, <1>2 DEF Smaller
<1>4. PICK P : P = {i \in 1..M : WithEnd(x, i) = WithEnd(y, i)}
  OBVIOUS
<1>5. PICK n \in 0..M : (\A i \in 1..n : i \in P) /\ (n < M => n + 1 \notin P)
  BY <1>3, Stretch
<1>6. /\ \A i \in 1..n : WithEnd(x, i) = WithEnd(y, i)
      /\ n < M => WithEnd(x, n + 1) # WithEnd(y, n + 1)
  <2>1. n < M => n + 1 \in 1..M
    BY <1>3
  <2> QED BY <1>4, <1>5, <2>1
<1>7. PICK f : f = InFront(x, y)
  OBVIOUS
<1>8. f = CHOOSE k \in 0..M :
            /\ \A i \in 1..k : WithEnd(x, i) = WithEnd(y, i)
            /\ k < M => WithEnd(x, k + 1) # WithEnd(y, k + 1)
  BY <1>2, <1>7 DEF InFront
<1>9. /\ f \in 0..M /\ \A i \in 1..f : WithEnd(x, i) = WithEnd(y, i)
      /\ f < M => WithEnd(x, f + 1) # WithEnd(y, f + 1)
  BY ZenonT(60), <1>6, <1>8
<1> QED BY <1>1, <1>3, <1>7, <1>9 DEF FrontIs

LEMMA BehindFound ==
  ASSUME NEW x \in AllTexts, NEW y \in AllTexts
  PROVE  BehindIs(x, y, InFront(x, y), Behind(x, y))
<1>1. Len(x.lines) \in Nat /\ Len(y.lines) \in Nat
  BY DEF AllTexts
<1>2. PICK p : p = InFront(x, y)
  OBVIOUS
<1>3. p \in Nat /\ p <= Len(x.lines) /\ p <= Len(y.lines)
  BY <1>2, FrontFound DEF FrontIs
<1>4. PICK M : M = Smaller(Len(x.lines), Len(y.lines)) - p
  OBVIOUS
<1>5. /\ M \in Nat /\ p + M <= Len(x.lines) /\ p + M <= Len(y.lines)
      /\ p + M \in {Len(x.lines), Len(y.lines)}
  BY <1>1, <1>3, <1>4 DEF Smaller
<1>6. PICK P : P = {i \in 1..M : WithEnd(x, Len(x.lines) - (i - 1)) = WithEnd(y, Len(y.lines) - (i - 1))}
  OBVIOUS
<1>7. PICK n \in 0..M : (\A i \in 1..n : i \in P) /\ (n < M => n + 1 \notin P)
  BY <1>5, Stretch
<1>8. /\ \A i \in 0..n - 1 : WithEnd(x, Len(x.lines) - i) = WithEnd(y, Len(y.lines) - i)
      /\ n < M => WithEnd(x, Len(x.lines) - n) # WithEnd(y, Len(y.lines) - n)
  <2>1. ASSUME NEW i \in 0..n - 1
        PROVE  WithEnd(x, Len(x.lines) - i) = WithEnd(y, Len(y.lines) - i)
    <3>1. i + 1 \in 1..n /\ (i + 1) - 1 = i
      OBVIOUS
    <3>2. i + 1 \in P
      BY <1>7, <3>1
    <3> QED BY <1>6, <3>1, <3>2
  <2>2. ASSUME n < M PROVE WithEnd(x, Len(x.lines) - n) # WithEnd(y, Len(y.lines) - n)
    <3>1. n + 1 \in 1..M /\ (n + 1) - 1 = n
      BY <2>2, <1>5
    <3>2. n + 1 \notin P
      BY <1>7, <2>2
    <3> QED BY <1>6, <3>1, <3>2
  <2> QED BY <2>1, <2>2
<1>9. PICK b : b = Behind(x, y)
  OBVIOUS
<1>10. b = CHOOSE k \in 0..M :
            /\ \A i \in 0..k - 1 : WithEnd(x, Len(x.lines) - i) = WithEnd(y, Len(y.lines) - i)
            /\ k < M => ~(WithEnd(x, Len(x.lines) - k) = WithEnd(y, Len(y.lines) - k))
  BY <1>2, <1>4, <1>9 DEF Behind
<1>11. /\ b \in 0..M
       /\ \A i \in 0..b - 1 : WithEnd(x, Len(x.lines) - i) = WithEnd(y, Len(y.lines) - i)
       /\ b < M => ~(WithEnd(x, Len(x.lines) - b) = WithEnd(y, Len(y.lines) - b))
  BY ZenonT(60), <1>8, <1>10
<1> QED BY <1>1, <1>2, <1>3, <1>5, <1>9, <1>11 DEF BehindIs

LEMMA SameRange ==
  ASSUME NEW m \in Nat, NEW n \in Nat, 1..m = 1..n
  PROVE  m = n
<1>1. (m = 0 \/ m \in 1..m) /\ (n = 0 \/ n \in 1..n)
  OBVIOUS
<1>2. m <= n
  BY <1>1
<1>3. n <= m
  BY <1>1
<1> QED BY <1>2, <1>3

LEMMA SignedTyped ==
  ASSUME NEW sign \in {"context", "removed", "added"}, NEW lines \in Seq(Lines)
  PROVE  /\ Signed(sign, lines) \in Seq(BodyLines) /\ Len(Signed(sign, lines)) = Len(lines)
         /\ \A k \in 1..Len(lines) :
              Signed(sign, lines)[k].sign = sign /\ Signed(sign, lines)[k].line = lines[k]
<1>1. DOMAIN lines = 1..Len(lines) /\ Len(lines) \in Nat /\ \A k \in 1..Len(lines) : lines[k] \in Lines
  BY LenProperties, ElementOfSeq
<1>2. PICK s : s = Signed(sign, lines)
  OBVIOUS
<1>3. s = [k \in 1..Len(lines) |-> [sign |-> sign, line |-> lines[k]]]
  BY Zenon, <1>1, <1>2 DEF Signed
<1>4. \A k \in 1..Len(lines) : s[k].sign = sign /\ s[k].line = lines[k]
  BY <1>3
<1>5. \A k \in 1..Len(lines) : s[k] \in BodyLines
  BY SMTT(30), <1>1, <1>3 DEF BodyLines
<1>6. s \in Seq(BodyLines) /\ Len(s) = Len(lines)
  <2>1. s \in [1..Len(lines) -> BodyLines]
    BY <1>3, <1>5
  <2>2. s \in Seq(BodyLines)
    BY <1>1, <2>1, SeqDef
  <2>3. DOMAIN s = 1..Len(s) /\ DOMAIN s = 1..Len(lines) /\ Len(s) \in Nat
    BY <1>3, <2>2, LenProperties
  <2> QED BY <1>1, <2>2, <2>3, SameRange
<1> QED BY <1>2, <1>4, <1>6

\* The lines a hunk replaces by others.
Exchanges(x, y, p, m, n) ==
    /\ p \in Nat /\ m \in Nat /\ n \in Nat
    /\ p <= m /\ m <= Len(x.lines) /\ p <= n /\ n <= Len(y.lines)

\* The four parts of the body of a hunk.
Parted(x, y, p, m, n, from, after, body) ==
    body = Signed("context", SubSeq(x.lines, from + 1, p))
           \o Signed("removed", SubSeq(x.lines, p + 1, m))
           \o Signed("added", SubSeq(y.lines, p + 1, n))
           \o Signed("context", SubSeq(x.lines, m + 1, m + after))

LEMMA HunkForTyped ==
  ASSUME NEW x \in AllTexts, NEW y \in AllTexts, NEW p, NEW m, NEW n, NEW context \in Nat,
         Exchanges(x, y, p, m, n)
  PROVE  HunkFor(x, y, p, m, n, context) \in Hunks
<1>1. /\ x.lines \in Seq(Lines) /\ y.lines \in Seq(Lines) /\ x.nl \in BOOLEAN /\ y.nl \in BOOLEAN
      /\ p \in Nat /\ m \in Nat /\ n \in Nat /\ Len(x.lines) \in Nat /\ Len(y.lines) \in Nat
      /\ p <= m /\ m <= Len(x.lines) /\ p <= n /\ n <= Len(y.lines)
  BY DEF Exchanges, AllTexts
<1>2. PICK from : from = Larger(p - context, 0)
  OBVIOUS
<1>3. from \in Nat /\ from <= p
  BY <1>1, <1>2 DEF Larger
<1>4. PICK after : after = Smaller(context, Len(x.lines) - m)
  OBVIOUS
<1>5. after \in Nat /\ m + after \in Nat /\ m + after <= Len(x.lines)
  BY <1>1, <1>4 DEF Smaller
<1>6. PICK old : old = m + after - from
  OBVIOUS
<1>7. PICK new : new = n + after - from
  OBVIOUS
<1>8. old \in Nat /\ new \in Nat
  BY <1>1, <1>3, <1>5, <1>6, <1>7
<1>9. PICK body : Parted(x, y, p, m, n, from, after, body)
  BY DEF Parted
<1>10. body \in Seq(BodyLines)
  <2>1. /\ SubSeq(x.lines, from + 1, p) \in Seq(Lines) /\ SubSeq(x.lines, p + 1, m) \in Seq(Lines)
        /\ SubSeq(y.lines, p + 1, n) \in Seq(Lines)
        /\ SubSeq(x.lines, m + 1, m + after) \in Seq(Lines)
    <3>1. p <= Len(x.lines)
      BY <1>1
    <3> QED BY <1>1, <1>3, <1>5, <3>1, PartTyped
  <2>2. /\ Signed("context", SubSeq(x.lines, from + 1, p)) \in Seq(BodyLines)
        /\ Signed("removed", SubSeq(x.lines, p + 1, m)) \in Seq(BodyLines)
        /\ Signed("added", SubSeq(y.lines, p + 1, n)) \in Seq(BodyLines)
        /\ Signed("context", SubSeq(x.lines, m + 1, m + after)) \in Seq(BodyLines)
    BY <2>1, SignedTyped
  <2>3. \A s, t \in Seq(BodyLines) : s \o t \in Seq(BodyLines)
    OBVIOUS
  <2> QED BY <1>9, <2>2, <2>3 DEF Parted
<1>11. PICK start \in Nat : start = IF old = 0 THEN from ELSE from + 1
  BY <1>3
<1>12. PICK at \in Nat : at = IF new = 0 THEN from ELSE from + 1
  BY <1>3
<1>13. PICK oldEnd \in BOOLEAN : oldEnd = (old > 0 /\ m + after = Len(x.lines) /\ ~x.nl)
  OBVIOUS
<1>14. PICK newEnd \in BOOLEAN : newEnd = (new > 0 /\ n + after = Len(y.lines) /\ ~y.nl)
  OBVIOUS
<1>15. HunkFor(x, y, p, m, n, context) =
         [start |-> start, at |-> at, old |-> old, new |-> new, body |-> body,
          oldEnd |-> oldEnd, newEnd |-> newEnd]
  BY <1>2, <1>4, <1>6, <1>7, <1>9, <1>11, <1>12, <1>13, <1>14 DEF HunkFor, Parted
<1> QED BY <1>8, <1>10, <1>15 DEF Hunks

LEMMA LineHunksMove ==
  ASSUME NEW x \in AllTexts, NEW y \in AllTexts, Len(x.lines) = Len(y.lines)
  PROVE  /\ LineHunks(x, y)[0] = <<>>
         /\ \A n \in 1..Len(x.lines) :
              LineHunks(x, y)[n] = IF WithEnd(x, n) = WithEnd(y, n) THEN LineHunks(x, y)[n - 1]
                                   ELSE Append(LineHunks(x, y)[n - 1], HunkFor(x, y, n - 1, n, n, 0))
         /\ \A n \in 0..Len(x.lines) : LineHunks(x, y)[n] \in Seq(Hunks)
<1>1. PICK N \in Nat : N = Len(x.lines)
  BY DEF AllTexts
<1>2. \A n \in 1..N : HunkFor(x, y, n - 1, n, n, 0) \in Hunks
  <2> SUFFICES ASSUME NEW n \in 1..N PROVE HunkFor(x, y, n - 1, n, n, 0) \in Hunks
    OBVIOUS
  <2>1. Exchanges(x, y, n - 1, n, n)
    BY <1>1 DEF Exchanges
  <2> QED BY <2>1, HunkForTyped
<1>3. PICK S : S = Seq(Hunks)
  OBVIOUS
<1>4. <<>> \in S /\ \A s \in S, h \in Hunks : Append(s, h) \in S
  BY <1>3
<1>5. PICK G : G = [n \in Nat |-> [s \in S |->
                      IF n \in 1..N
                      THEN IF WithEnd(x, n) = WithEnd(y, n) THEN s
                           ELSE Append(s, HunkFor(x, y, n - 1, n, n, 0))
                      ELSE s]]
  OBVIOUS
<1>6. G \in [Nat -> [S -> S]]
  <2>1. \A n \in Nat, s \in S :
          (IF n \in 1..N
           THEN IF WithEnd(x, n) = WithEnd(y, n) THEN s
                ELSE Append(s, HunkFor(x, y, n - 1, n, n, 0))
           ELSE s) \in S
    BY <1>2, <1>4
  <2> QED BY <1>5, <2>1
<1>7. PICK f \in [0..N -> S] : f[0] = <<>> /\ \A n \in 1..N : f[n] = G[n][f[n - 1]]
  <2>1. Iterated(S, <<>>, G, N) # {}
    BY <1>4, <1>6, Iteration
  <2> QED BY <2>1 DEF Iterated
<1>8. f = [n \in 0..N |-> IF n = 0 THEN <<>> ELSE IF WithEnd(x, n) = WithEnd(y, n) THEN f[n - 1]
                          ELSE Append(f[n - 1], HunkFor(x, y, n - 1, n, n, 0))]
  <2>1. \A n \in 0..N : n # 0 => n \in 1..N /\ f[n - 1] \in S
    BY <1>7
  <2>2. \A n \in 1..N, s \in S : G[n][s] = IF WithEnd(x, n) = WithEnd(y, n) THEN s
                                          ELSE Append(s, HunkFor(x, y, n - 1, n, n, 0))
    BY <1>5
  <2>3. \A n \in 0..N : f[n] = IF n = 0 THEN <<>> ELSE IF WithEnd(x, n) = WithEnd(y, n) THEN f[n - 1]
                                ELSE Append(f[n - 1], HunkFor(x, y, n - 1, n, n, 0))
    BY <1>7, <2>1, <2>2
  <2> QED BY <1>7, <2>3
<1>9. LineHunks(x, y) = CHOOSE hunks : hunks =
        [n \in 0..N |-> IF n = 0 THEN <<>> ELSE IF WithEnd(x, n) = WithEnd(y, n) THEN hunks[n - 1]
                        ELSE Append(hunks[n - 1], HunkFor(x, y, n - 1, n, n, 0))]
  BY <1>1 DEF LineHunks
<1>10. LineHunks(x, y) =
        [n \in 0..N |-> IF n = 0 THEN <<>>
                        ELSE IF WithEnd(x, n) = WithEnd(y, n) THEN LineHunks(x, y)[n - 1]
                        ELSE Append(LineHunks(x, y)[n - 1], HunkFor(x, y, n - 1, n, n, 0))]
  BY ZenonT(60), <1>8, <1>9
<1>11. PICK t : t = LineHunks(x, y)
  OBVIOUS
<1>12. t = [n \in 0..N |-> IF n = 0 THEN <<>> ELSE IF WithEnd(x, n) = WithEnd(y, n) THEN t[n - 1]
                           ELSE Append(t[n - 1], HunkFor(x, y, n - 1, n, n, 0))]
  BY <1>10, <1>11
<1>13. /\ t[0] = <<>>
       /\ \A n \in 1..N : t[n] = IF WithEnd(x, n) = WithEnd(y, n) THEN t[n - 1]
                                 ELSE Append(t[n - 1], HunkFor(x, y, n - 1, n, n, 0))
  <2>1. 0 \in 0..N /\ \A n \in 1..N : n \in 0..N /\ n # 0
    OBVIOUS
  <2>2. t[0] = <<>>
    BY <1>12, <2>1
  <2>3. ASSUME NEW n \in 1..N
        PROVE  t[n] = IF WithEnd(x, n) = WithEnd(y, n) THEN t[n - 1]
                      ELSE Append(t[n - 1], HunkFor(x, y, n - 1, n, n, 0))
    <3>1. n \in 0..N /\ n # 0
      BY <2>1
    <3> QED BY <1>12, <3>1
  <2> QED BY <2>2, <2>3
<1>14. \A n \in 0..N : t[n] \in S
  <2>1. \A n \in 1..N : t[n - 1] \in S => t[n] \in S
    BY <1>2, <1>4, <1>13
  <2> QED BY <1>4, <1>13, <2>1, Ranged
<1> QED BY <1>1, <1>3, <1>11, <1>13, <1>14

LEMMA DiffTyped ==
  ASSUME NEW x \in AllTexts, NEW y \in AllTexts, NEW context \in Nat
  PROVE  Diff(x, y, context) \in Seq(Hunks)
<1>1. CASE context = 0 /\ Len(x.lines) = Len(y.lines)
  <2>1. Len(x.lines) \in 0..Len(x.lines)
    BY DEF AllTexts
  <2>2. LineHunks(x, y)[Len(x.lines)] \in Seq(Hunks)
    BY <1>1, <2>1, LineHunksMove
  <2> QED BY <1>1, <2>2 DEF Diff
<1>2. CASE ~(context = 0 /\ Len(x.lines) = Len(y.lines)) /\ x = y
  <2>1. <<>> \in Seq(Hunks)
    OBVIOUS
  <2> QED BY <1>2, <2>1 DEF Diff
<1>3. CASE ~(context = 0 /\ Len(x.lines) = Len(y.lines)) /\ x # y
  <2>1. PICK p : p = InFront(x, y)
    OBVIOUS
  <2>2. PICK m : m = Len(x.lines) - Behind(x, y)
    OBVIOUS
  <2>3. PICK n : n = Len(y.lines) - Behind(x, y)
    OBVIOUS
  <2>4. Len(x.lines) \in Nat /\ Len(y.lines) \in Nat
    BY DEF AllTexts
  <2>5. p \in Nat
    BY <2>1, FrontFound DEF FrontIs
  <2>6. /\ Behind(x, y) \in Nat
        /\ p + Behind(x, y) <= Len(x.lines) /\ p + Behind(x, y) <= Len(y.lines)
    BY <2>1, BehindFound DEF BehindIs
  <2>7. Exchanges(x, y, p, m, n)
    BY SMTT(30), <2>2, <2>3, <2>4, <2>5, <2>6 DEF Exchanges
  <2>8. PICK h \in Hunks : h = HunkFor(x, y, p, m, n, context)
    BY <2>7, HunkForTyped
  <2>9. Diff(x, y, context) = <<h>>
    BY <1>3, <2>1, <2>2, <2>3, <2>8 DEF Diff
  <2> QED BY <2>9
<1> QED BY <1>1, <1>2, <1>3

-------------------------------------------------------------------------------
(* Pieces.  Whatever is stored or on its way is a text, a change of the    *)
(* note is a new revision, and what an agent has pieced together so far is *)
(* the beginning of the revision its outline is of.                        *)

NoteStates == [row: {"none", "live", "gone"}, text: AllTexts, rev: Nat]
Readings == [step: {"outlined", "pieced"}, rev: Nat, count: Nat, copy: AllTexts, of: AllTexts]

TextsKept ==
    /\ kept \in NoteStates
    /\ agent.step # "idle" => agent.rev \in Nat /\ agent.copy \in AllTexts
    /\ agent.step = "running" => agent.draft \in AllTexts
    /\ agent.step \in {"outlined", "pieced"} => agent \in Readings
PiecesSoFar ==
    agent.step \in {"outlined", "pieced"} =>
        /\ agent.rev <= kept.rev
        /\ NoteHere /\ kept.rev = agent.rev => kept.text = agent.of
        /\ agent.count = Len(agent.of.lines) /\ Len(agent.copy.lines) <= agent.count
        /\ agent.copy.lines = SubSeq(agent.of.lines, 1, Len(agent.copy.lines))
        /\ agent.step = "pieced" => agent.copy = agent.of
ToolsInv == TextsKept /\ PiecesSoFar

LEMMA ToolsBegin == ToolsInit => ToolsInv
<1> SUFFICES ASSUME ToolsInit PROVE ToolsInv
  OBVIOUS
<1>1. kept = [row |-> "none", text |-> Empty, rev |-> 0] /\ agent.step = "idle"
  BY DEF ToolsInit, NoNote, Resting
<1>2. Empty \in AllTexts
  BY DEF Empty, AllTexts
<1> QED BY <1>1, <1>2 DEF ToolsInv, TextsKept, PiecesSoFar, NoteStates

LEMMA DraftsAreTexts == \A text \in Drafts : text \in AllTexts
  BY ToolsAssumption DEF AllTexts

\* A change of the note is a new revision of it.
LEMMA NoteMoves ==
  ASSUME TextsKept, [ToolsNext]_toolVars
  PROVE  kept' = kept \/ (kept' \in NoteStates /\ kept'.rev = kept.rev + 1)
<1> DEFINE Moves == kept' = kept \/ (kept' \in NoteStates /\ kept'.rev = kept.rev + 1)
<1>1. ASSUME NEW text \in AllTexts, kept' = Version(text) PROVE Moves
  <2>1. kept.rev \in Nat
    BY DEF TextsKept, NoteStates
  <2> QED BY <1>1, <2>1 DEF Version, NoteStates
<1>2. ASSUME kept' = [kept EXCEPT !.row = "gone", !.rev = @ + 1] PROVE Moves
  <2>1. kept \in NoteStates /\ kept.rev \in Nat /\ kept.rev + 1 \in Nat
    BY DEF TextsKept, NoteStates
  <2>2. kept' \in NoteStates
    BY <1>2, <2>1 DEF NoteStates
  <2>3. kept'.rev = kept.rev + 1
    BY <1>2, <2>1 DEF NoteStates
  <2> QED BY <2>2, <2>3
<1>3. CASE WebWrites
  BY <1>1, <1>3, DraftsAreTexts DEF WebWrites
<1>4. CASE WebDeletes
  BY <1>2, <1>4 DEF WebDeletes
<1>5. CASE Commit
  <2>1. CASE agent.tool = "delete_note"
    BY <1>2, <1>5, <2>1 DEF Commit
  <2>2. CASE agent.tool # "delete_note"
    <3>1. agent.draft \in AllTexts
      BY <1>5 DEF Commit, TextsKept
    <3>2. kept' = kept \/ kept' = Version(agent.draft)
      BY <1>5, <2>2 DEF Commit
    <3> QED BY <1>1, <3>1, <3>2
  <2> QED BY <2>1, <2>2
<1>6. CASE CreateByAgent
  BY <1>1, <1>6, DraftsAreTexts DEF CreateByAgent
<1>7. kept' = kept \/ WebWrites \/ WebDeletes \/ Commit \/ CreateByAgent
  BY DEF ToolsNext, toolVars, GetNote, GetOutline, GetFragment, PiecesTogether, Post, StepUp,
     TokenExpires, SendAgain, SendForLatest, AgentEnds
<1> QED BY <1>3, <1>4, <1>5, <1>6, <1>7

\* A call leaves the agent with the copy it had, and works on a text.
Called ==
    /\ agent'.step \in {"running", "answered"}
    /\ agent'.rev = agent.rev /\ agent'.copy = agent.copy
    /\ agent'.step = "running" => agent'.draft \in AllTexts

LEMMA CallsKeepTheCopy ==
  ASSUME TextsKept, NEW q, Post(q)
  PROVE  Called
<1>1. \A why : Refused(why) => Called
  BY DEF Refused, Told, Called
<1>2. \A answer : Told(answer) => Called
  BY DEF Told, Called
<1>3. \A goal, draft : draft \in AllTexts /\ Working(q, goal, draft) => Called
  BY DEF Working, Called
<1>4. agent.step = "holding" /\ agent.copy \in AllTexts /\ kept.text \in AllTexts
  BY DEF Post, TextsKept, NoteStates
<1>5. ASSUME NEW goal \in Drafts, NEW context \in 0..1, NEW dry \in BOOLEAN,
             PatchArrives(q, goal, context, dry)
      PROVE  Called
  <2>1. PICK draft : draft = ApplyPatch(kept.text, Diff(agent.copy, goal, context))
    OBVIOUS
  <2>2. draft \in AllTexts
    <3>1. goal \in AllTexts /\ context \in Nat
      BY DraftsAreTexts
    <3>2. PICK patch \in Seq(Hunks) : patch = Diff(agent.copy, goal, context)
      BY <1>4, <3>1, DiffTyped
    <3> QED BY <1>4, <2>1, <3>2, PatchedTyped
  <2>3. \/ \E why : Refused(why)
        \/ \E answer : Told(answer)
        \/ Working(q, goal, draft)
    BY <1>5, <2>1 DEF PatchArrives
  <2> QED BY <1>1, <1>2, <1>3, <2>2, <2>3
<1>6. ASSUME NEW goal \in Drafts, ReplaceArrives(q, goal) PROVE Called
  BY <1>1, <1>3, <1>6, DraftsAreTexts DEF ReplaceArrives
<1>7. Empty \in AllTexts
  BY DEF Empty, AllTexts
<1> QED BY <1>1, <1>3, <1>5, <1>6, <1>7 DEF Post

\* An outline begins with no piece at all.
LEMMA OutlineStep ==
  ASSUME TextsKept, GetOutline
  PROVE  TextsKept' /\ PiecesSoFar'
<1>1. /\ kept.text \in AllTexts /\ kept.rev \in Nat /\ kept' = kept
      /\ kept.text.lines \in Seq(Lines)
  BY DEF GetOutline, TextsKept, NoteStates, AllTexts
<1>2. agent' = [step |-> "outlined", rev |-> kept.rev, count |-> Len(kept.text.lines),
                copy |-> Empty, of |-> kept.text]
  BY DEF GetOutline
<1>3. Empty \in AllTexts /\ Empty.lines = <<>> /\ Len(kept.text.lines) \in Nat
  BY <1>1 DEF Empty, AllTexts
<1>4. agent' \in Readings
  BY <1>1, <1>2, <1>3 DEF Readings
<1>5. TextsKept'
  BY <1>1, <1>2, <1>3, <1>4 DEF TextsKept
<1>6. SubSeq(kept.text.lines, 1, 0) = <<>>
  BY <1>1
<1>7. /\ agent'.rev = kept'.rev /\ agent'.of = kept'.text /\ agent'.count = Len(agent'.of.lines)
      /\ agent'.copy.lines = <<>> /\ agent'.step = "outlined"
  BY <1>1, <1>2, <1>3
<1>8. /\ Len(agent'.copy.lines) = 0 /\ agent'.rev <= kept'.rev /\ 0 <= agent'.count
      /\ agent'.copy.lines = SubSeq(agent'.of.lines, 1, 0)
  <2>1. agent'.rev = kept.rev /\ kept'.rev = kept.rev /\ agent'.count = Len(kept.text.lines)
    BY <1>1, <1>2
  <2>2. agent'.rev <= kept'.rev /\ 0 <= agent'.count
    BY <1>1, <1>3, <2>1
  <2>3. agent'.of.lines = kept.text.lines
    BY <1>2
  <2>4. Len(agent'.copy.lines) = 0
    BY <1>7
  <2> QED BY <1>6, <1>7, <2>2, <2>3, <2>4
<1> QED BY <1>5, <1>7, <1>8 DEF PiecesSoFar

\* Another piece of the revision continues the ones before it.
LEMMA PiecesGoOn ==
  ASSUME NEW S, NEW s \in Seq(S), NEW k \in Nat, NEW j \in Nat, k < j, j <= Len(s)
  PROVE  SubSeq(s, 1, k) \o SubSeq(s, k + 1, j) = SubSeq(s, 1, j)
  OBVIOUS

LEMMA FragmentStep ==
  ASSUME ToolsInv, GetFragment
  PROVE  TextsKept' /\ PiecesSoFar'
<1>1. /\ agent \in Readings /\ agent.step = "outlined" /\ kept' = kept
      /\ NoteHere /\ kept.rev = agent.rev /\ kept.rev \in Nat
  BY DEF GetFragment, ToolsInv, TextsKept, NoteStates
<1>2. /\ agent.rev \in Nat /\ agent.count \in Nat /\ agent.copy \in AllTexts /\ agent.of \in AllTexts
      /\ agent.of.lines \in Seq(Lines) /\ agent.of.nl \in BOOLEAN /\ agent.copy.lines \in Seq(Lines)
  BY <1>1 DEF Readings, AllTexts
<1>3. PICK of \in AllTexts : of = agent.of
  BY <1>2
<1>4. /\ of.lines \in Seq(Lines) /\ of.nl \in BOOLEAN /\ of = [lines |-> of.lines, nl |-> of.nl]
      /\ Len(of.lines) \in Nat
  BY DEF AllTexts
<1>5. PICK k \in Nat : k = Len(agent.copy.lines)
  BY <1>2
<1>6. /\ kept.text = of /\ agent.count = Len(of.lines) /\ k <= agent.count
      /\ agent.copy.lines = SubSeq(of.lines, 1, k)
  BY <1>1, <1>3, <1>5 DEF ToolsInv, PiecesSoFar
<1>7. PICK j \in 1..agent.count :
        /\ Fragment(of, k + 1, j) # Rejection
        /\ agent' = [agent EXCEPT !.step = IF j = agent.count THEN "pieced" ELSE @,
                                  !.copy = [lines |-> @.lines \o Fragment(of, k + 1, j).lines,
                                            nl |-> Fragment(of, k + 1, j).nl]]
  BY <1>5, <1>6 DEF GetFragment
<1>8. k + 1 <= j /\ j <= Len(of.lines) /\ j \in Nat
  BY <1>2, <1>6, <1>7 DEF Fragment
<1>9. PICK piece : piece = SubSeq(of.lines, k + 1, j)
  OBVIOUS
<1>10. PICK nl \in BOOLEAN : nl = (j < Len(of.lines) \/ of.nl)
  OBVIOUS
<1>11. PICK fragment : fragment = Fragment(of, k + 1, j)
  OBVIOUS
<1>12. fragment = [lines |-> piece, nl |-> nl]
  BY <1>5, <1>8, <1>9, <1>10, <1>11 DEF Fragment
<1>13. fragment.lines = piece /\ fragment.nl = nl
  BY <1>12
<1>14. PICK lines : lines = SubSeq(of.lines, 1, j)
  OBVIOUS
<1>15. lines \in Seq(Lines) /\ Len(lines) = j
  BY <1>4, <1>8, <1>14
<1>16. agent.copy.lines \o piece = lines
  <2>1. k < j
    BY <1>8
  <2>2. SubSeq(of.lines, 1, k) \o SubSeq(of.lines, k + 1, j) = lines
    BY <1>4, <1>8, <1>14, <2>1, PiecesGoOn
  <2> QED BY <1>6, <1>9, <2>2
<1>17. PICK copy \in AllTexts : copy = [lines |-> lines, nl |-> nl]
  BY <1>15 DEF AllTexts
<1>18. PICK step \in {"outlined", "pieced"} : step = IF j = agent.count THEN "pieced" ELSE agent.step
  BY <1>1
<1>19. agent' = [agent EXCEPT !.step = step, !.copy = copy]
  <2>1. copy = [lines |-> agent.copy.lines \o fragment.lines, nl |-> fragment.nl]
    BY <1>16, <1>17, <1>13
  <2>2. agent' = [agent EXCEPT !.step = IF j = agent.count THEN "pieced" ELSE agent.step,
                               !.copy = [lines |-> agent.copy.lines \o fragment.lines,
                                         nl |-> fragment.nl]]
    BY <1>7, <1>11
  <2> QED BY <1>18, <2>1, <2>2
<1>20. /\ agent' \in Readings /\ agent'.step = step /\ agent'.copy = copy /\ agent'.rev = agent.rev
       /\ agent'.count = agent.count /\ agent'.of = of
  BY <1>1, <1>3, <1>19 DEF Readings
<1>21. TextsKept'
  BY <1>1, <1>2, <1>17, <1>18, <1>20 DEF ToolsInv, TextsKept
<1>22. step = "pieced" => copy = of
  <2> SUFFICES ASSUME step = "pieced" PROVE copy = of
    OBVIOUS
  <2>1. j = Len(of.lines)
    BY <1>1, <1>6, <1>18
  <2>2. lines = of.lines
    BY <1>4, <1>14, <2>1
  <2>3. nl = of.nl
    BY <1>4, <1>10, <2>1
  <2> QED BY <1>4, <1>17, <2>2, <2>3
<1>23. copy.lines = lines /\ Len(copy.lines) = j /\ j <= agent.count
  BY <1>15, <1>6, <1>8, <1>17
<1>24. kept.text = of /\ agent.rev <= kept.rev
  BY <1>1, <1>2, <1>6
<1>25. PiecesSoFar'
  BY <1>1, <1>6, <1>14, <1>20, <1>22, <1>23, <1>24 DEF PiecesSoFar
<1> QED BY <1>21, <1>25

LEMMA ToolsStep ==
  ASSUME ToolsInv, [ToolsNext]_toolVars
  PROVE  ToolsInv'
<1>1. TextsKept /\ PiecesSoFar
  BY DEF ToolsInv
<1>2. kept' = kept \/ (kept' \in NoteStates /\ kept'.rev = kept.rev + 1)
  BY <1>1, NoteMoves
<1>3. kept' \in NoteStates /\ kept.rev \in Nat /\ kept'.rev \in Nat
  BY <1>1, <1>2 DEF TextsKept, NoteStates
<1>4. CASE GetOutline
  BY <1>1, <1>4, OutlineStep DEF ToolsInv
<1>5. CASE GetFragment
  BY <1>5, FragmentStep DEF ToolsInv
<1>6. CASE agent' = agent
  <2>1. TextsKept'
    BY <1>1, <1>3, <1>6 DEF TextsKept
  <2>2. ASSUME agent.step \in {"outlined", "pieced"} PROVE PiecesSoFar'
    <3>1. agent.rev \in Nat /\ agent.rev <= kept.rev
      BY <1>1, <2>2 DEF TextsKept, PiecesSoFar
    <3>2. agent.rev <= kept'.rev /\ (kept'.rev = agent.rev => kept' = kept)
      BY <1>2, <1>3, <3>1
    <3> QED BY <1>1, <1>6, <2>2, <3>2 DEF PiecesSoFar, NoteHere
  <2>3. agent.step \notin {"outlined", "pieced"} => PiecesSoFar'
    BY <1>6 DEF PiecesSoFar
  <2> QED BY <2>1, <2>2, <2>3 DEF ToolsInv
<1>7. ASSUME agent'.step \notin {"outlined", "pieced"},
             agent'.step # "idle" => agent'.rev \in Nat /\ agent'.copy \in AllTexts,
             agent'.step = "running" => agent'.draft \in AllTexts
      PROVE  ToolsInv'
  BY <1>3, <1>7 DEF ToolsInv, TextsKept, PiecesSoFar
<1>8. ASSUME NEW q, Post(q) PROVE ToolsInv'
  <2>1. Called
    BY <1>1, <1>8, CallsKeepTheCopy
  <2>2. agent.step = "holding"
    BY <1>8 DEF Post
  <2> QED BY <1>1, <1>7, <2>1, <2>2 DEF Called, TextsKept
<1>9. CASE GetNote
  BY <1>1, <1>7, <1>9 DEF GetNote, TextsKept, NoteStates
<1>10. CASE PiecesTogether \/ SendAgain \/ SendForLatest
  BY <1>1, <1>7, <1>10 DEF PiecesTogether, SendAgain, SendForLatest, TextsKept, NoteStates
<1>11. CASE Commit
  <2>1. \E answer : Told(answer)
    BY <1>11 DEF Commit, Refused
  <2> QED BY <1>1, <1>7, <1>11, <2>1 DEF Commit, Told, TextsKept
<1>12. CASE CreateByAgent
  BY <1>7, <1>12, DraftsAreTexts DEF CreateByAgent
<1>13. CASE AgentEnds
  BY <1>7, <1>13 DEF AgentEnds, Resting
<1>14. \/ agent' = agent \/ GetOutline \/ GetFragment \/ GetNote
       \/ PiecesTogether \/ SendAgain \/ SendForLatest
       \/ (\E q : Post(q)) \/ Commit \/ CreateByAgent \/ AgentEnds
  BY DEF ToolsNext, toolVars, WebWrites, WebDeletes, TokenExpires, StepUp
<1> QED BY <1>4, <1>5, <1>6, <1>8, <1>9, <1>10, <1>11, <1>12, <1>13, <1>14

\* What an agent has read piece by piece is the note at one revision, however long
\* the note, wherever the pieces end, and whatever is stored while it reads.
THEOREM ToolsPiecesAreOneRevision == ToolsSpec => []PiecesAreOneRevision
<1>1. ToolsInv => PiecesAreOneRevision
  BY DEF ToolsInv, PiecesSoFar, PiecesAreOneRevision
<1> QED BY <1>1, ToolsBegin, ToolsStep, PTL DEF ToolsSpec

-------------------------------------------------------------------------------
(* What a patch does.  The sides of the body of a hunk.                    *)

LEMMA Counted ==
  ASSUME NEW P, NEW N \in Nat, 0 \in P, \A i \in 1..N : i - 1 \in P => i \in P
  PROVE  \A i \in 0..N : i \in P
<1> DEFINE T == {n \in Nat : n <= N => n \in P}
<1>1. 0 \in T
  OBVIOUS
<1>2. ASSUME NEW n \in Nat, n \in T PROVE n + 1 \in T
  <2> SUFFICES ASSUME n + 1 <= N PROVE n + 1 \in P
    OBVIOUS
  <2>1. n + 1 \in 1..N /\ (n + 1) - 1 = n /\ n \in P
    BY <1>2
  <2> QED BY <2>1
<1>3. Nat \subseteq T
  <2> HIDE DEF T
  <2> QED BY <1>1, <1>2, Inductive
<1> QED BY <1>3

LEMMA SideOfFront ==
  ASSUME NEW u \in Seq(BodyLines), NEW v \in Seq(BodyLines), NEW other
  PROVE  \A i \in 0..Len(u) : Side(u \o v, other)[i] = Side(u, other)[i]
<1>1. PICK w \in Seq(BodyLines) : w = u \o v
  <2>1. u \o v \in Seq(BodyLines)
    OBVIOUS
  <2> QED BY <2>1
<1>2. Len(u) \in Nat /\ Len(w) >= Len(u) /\ \A i \in 1..Len(u) : w[i] = u[i]
  BY <1>1
<1>3. PICK a : a = Side(w, other)
  OBVIOUS
<1>4. PICK b : b = Side(u, other)
  OBVIOUS
<1>5. /\ a[0] = <<>> /\ b[0] = <<>>
      /\ \A i \in 1..Len(w) : a[i] = IF w[i].sign = other THEN a[i - 1] ELSE Append(a[i - 1], w[i].line)
      /\ \A i \in 1..Len(u) : b[i] = IF u[i].sign = other THEN b[i - 1] ELSE Append(b[i - 1], u[i].line)
  BY <1>3, <1>4, SideMoves
<1>6. PICK P : \A i : i \in P <=> i \in 0..Len(u) /\ a[i] = b[i]
  <2>1. \A i : i \in {j \in 0..Len(u) : a[j] = b[j]} <=> i \in 0..Len(u) /\ a[i] = b[i]
    OBVIOUS
  <2> QED BY <2>1
<1>7. 0 \in P
  BY <1>2, <1>5, <1>6
<1>8. \A i \in 1..Len(u) : i - 1 \in P => i \in P
  <2> SUFFICES ASSUME NEW i \in 1..Len(u), a[i - 1] = b[i - 1] PROVE a[i] = b[i]
    BY <1>2, <1>6
  <2>1. i \in 1..Len(w) /\ w[i] = u[i]
    BY <1>2
  <2> QED BY <1>5, <2>1
<1>9. \A i \in 0..Len(u) : i \in P
  BY <1>2, <1>7, <1>8, Counted
<1> QED BY <1>1, <1>3, <1>4, <1>6, <1>9

\* What one side of a body says.
Says(body, other) == Side(body, other)[Len(body)]

LEMMA AppendsTogether ==
  \A s, u \in Seq(Lines), l \in Lines : Append(s \o u, l) = s \o Append(u, l)
<1> SUFFICES ASSUME NEW s \in Seq(Lines), NEW u \in Seq(Lines), NEW l \in Lines
             PROVE  Append(s \o u, l) = s \o Append(u, l)
  OBVIOUS
<1>1. <<l>> \in Seq(Lines) /\ s \o u \in Seq(Lines)
  OBVIOUS
<1>2. Append(s \o u, l) = (s \o u) \o <<l>> /\ Append(u, l) = u \o <<l>>
  BY <1>1, AppendIsConcat
<1>3. (s \o u) \o <<l>> = s \o (u \o <<l>>)
  BY <1>1, ConcatAssociative
<1> QED BY <1>2, <1>3

LEMMA SideOfBoth ==
  \A u, v \in Seq(BodyLines) : \A other : Says(u \o v, other) = Says(u, other) \o Says(v, other)
<1> SUFFICES ASSUME NEW u \in Seq(BodyLines), NEW v \in Seq(BodyLines), NEW other
             PROVE  Says(u \o v, other) = Says(u, other) \o Says(v, other)
  OBVIOUS
<1>1. PICK w \in Seq(BodyLines) : w = u \o v
  <2>1. u \o v \in Seq(BodyLines)
    OBVIOUS
  <2> QED BY <2>1
<1>2. PICK m \in Nat : m = Len(u)
  OBVIOUS
<1>3. PICK n \in Nat : n = Len(v)
  OBVIOUS
<1>4. Len(w) = m + n /\ \A i \in 1..n : w[m + i] = v[i]
  BY <1>1, <1>2, <1>3
<1>5. PICK a : a = Side(w, other)
  OBVIOUS
<1>6. PICK b : b = Side(v, other)
  OBVIOUS
<1>7. PICK s \in Seq(Lines) : s = Side(u, other)[m]
  BY <1>2, SideMoves
<1>8. a[m] = s
  BY <1>1, <1>2, <1>5, <1>7, SideOfFront
<1>9. /\ b[0] = <<>>
      /\ \A i \in 1..Len(w) : a[i] = IF w[i].sign = other THEN a[i - 1] ELSE Append(a[i - 1], w[i].line)
      /\ \A i \in 1..n : b[i] = IF v[i].sign = other THEN b[i - 1] ELSE Append(b[i - 1], v[i].line)
      /\ \A i \in 0..n : b[i] \in Seq(Lines)
  BY SMTT(30), <1>3, <1>5, <1>6, SideMoves
<1>10. PICK P : \A i : i \in P <=> i \in 0..n /\ a[m + i] = s \o b[i]
  <2>1. \A i : i \in {j \in 0..n : a[m + j] = s \o b[j]} <=> i \in 0..n /\ a[m + i] = s \o b[i]
    OBVIOUS
  <2> QED BY <2>1
<1>11. 0 \in P
  <2>1. m + 0 = m /\ 0 \in 0..n
    BY <1>2, <1>3
  <2>2. s \o <<>> = s
    BY <1>7, ConcatEmptySeq
  <2>3. a[m + 0] = s \o b[0]
    BY <1>8, <1>9, <2>1, <2>2
  <2> QED BY <1>10, <2>1, <2>3
<1>12. \A i \in 1..n : i - 1 \in P => i \in P
  <2> SUFFICES ASSUME NEW i \in 1..n, a[m + (i - 1)] = s \o b[i - 1] PROVE a[m + i] = s \o b[i]
    <3>1. \A i \in 1..n : i - 1 \in 0..n /\ i \in 0..n
      BY <1>3
    <3> QED BY <1>10, <3>1
  <2>1. m + i \in 1..Len(w) /\ (m + i) - 1 = m + (i - 1) /\ w[m + i] = v[i]
    BY <1>2, <1>3, <1>4
  <2>2. a[m + i] = IF v[i].sign = other THEN s \o b[i - 1] ELSE Append(s \o b[i - 1], v[i].line)
    BY <1>9, <2>1
  <2>3. b[i] = IF v[i].sign = other THEN b[i - 1] ELSE Append(b[i - 1], v[i].line)
    BY <1>9
  <2>4. Append(s \o b[i - 1], v[i].line) = s \o Append(b[i - 1], v[i].line)
    <3>1. PICK r \in Seq(Lines) : r = b[i - 1]
      <4>1. i - 1 \in 0..n
        BY <1>3
      <4> QED BY <1>9, <4>1
    <3>2. v[i] \in BodyLines
      BY <1>3
    <3>3. PICK l \in Lines : l = v[i].line
      BY <3>2 DEF BodyLines
    <3>4. Append(s \o r, l) = s \o Append(r, l)
      BY AppendsTogether
    <3> QED BY <3>1, <3>3, <3>4
  <2> QED BY <2>2, <2>3, <2>4
<1>13. n \in P
  <2>1. \A i \in 0..n : i \in P
    BY <1>3, <1>11, <1>12, Counted
  <2>2. n \in 0..n
    BY <1>3
  <2> QED BY <2>1, <2>2
<1> QED BY <1>1, <1>2, <1>3, <1>4, <1>5, <1>6, <1>7, <1>10, <1>13 DEF Says

\* The same said of names, so that no prover looks into the sequences.
IsJoin(w, s, t) == w = s \o t

LEMMA SideOfJoined ==
  \A u, v \in Seq(BodyLines) : \A w : IsJoin(w, u, v) =>
    w \in Seq(BodyLines) /\ \A other : IsJoin(Says(w, other), Says(u, other), Says(v, other))
<1> SUFFICES ASSUME NEW u \in Seq(BodyLines), NEW v \in Seq(BodyLines), NEW w, IsJoin(w, u, v),
                    NEW other
             PROVE  w \in Seq(BodyLines) /\ IsJoin(Says(w, other), Says(u, other), Says(v, other))
  OBVIOUS
<1>1. u \o v \in Seq(BodyLines)
  OBVIOUS
<1> QED BY <1>1, SideOfBoth DEF IsJoin

LEMMA SideOfSigned ==
  ASSUME NEW sign \in {"context", "removed", "added"}, NEW lines \in Seq(Lines), NEW other
  PROVE  Says(Signed(sign, lines), other) = IF sign = other THEN <<>> ELSE lines
<1>1. PICK w \in Seq(BodyLines) : w = Signed(sign, lines)
  BY SignedTyped
<1>2. PICK n \in Nat : n = Len(lines)
  OBVIOUS
<1>3. Len(w) = n /\ \A i \in 1..n : w[i].sign = sign /\ w[i].line = lines[i]
  BY <1>1, <1>2, SignedTyped
<1>4. PICK a : a = Side(w, other)
  OBVIOUS
<1>5. /\ a[0] = <<>>
      /\ \A i \in 1..n : a[i] = IF w[i].sign = other THEN a[i - 1] ELSE Append(a[i - 1], w[i].line)
  BY SMTT(30), <1>3, <1>4, SideMoves
<1>6. CASE sign = other
  <2>1. PICK P : \A i : i \in P <=> i \in 0..n /\ a[i] = <<>>
    <3>1. \A i : i \in {j \in 0..n : a[j] = <<>>} <=> i \in 0..n /\ a[i] = <<>>
      OBVIOUS
    <3> QED BY <3>1
  <2>2. 0 \in P
    <3>1. 0 \in 0..n
      BY <1>2
    <3> QED BY <1>5, <2>1, <3>1
  <2>3. \A i \in 1..n : i - 1 \in P => i \in P
    <3> SUFFICES ASSUME NEW i \in 1..n, a[i - 1] = <<>> PROVE a[i] = <<>>
      <4>1. \A i \in 1..n : i \in 0..n
        BY <1>2
      <4> QED BY <2>1, <4>1
    <3> QED BY <1>3, <1>5, <1>6
  <2>4. n \in P
    <3>1. \A i \in 0..n : i \in P
      BY <1>2, <2>2, <2>3, Counted
    <3>2. n \in 0..n
      BY <1>2
    <3> QED BY <3>1, <3>2
  <2> QED BY <1>1, <1>3, <1>4, <1>6, <2>1, <2>4 DEF Says
<1>7. CASE sign # other
  <2>1. PICK P : \A i : i \in P <=> i \in 0..n /\ a[i] = SubSeq(lines, 1, i)
    <3>1. \A i : i \in {j \in 0..n : a[j] = SubSeq(lines, 1, j)} <=>
                 i \in 0..n /\ a[i] = SubSeq(lines, 1, i)
      OBVIOUS
    <3> QED BY <3>1
  <2>2. 0 \in P
    <3>1. SubSeq(lines, 1, 0) = <<>>
      OBVIOUS
    <3>2. 0 \in 0..n
      BY <1>2
    <3> QED BY <1>5, <2>1, <3>1, <3>2
  <2>3. \A i \in 1..n : i - 1 \in P => i \in P
    <3> SUFFICES ASSUME NEW i \in 1..n, a[i - 1] = SubSeq(lines, 1, i - 1)
                 PROVE  a[i] = SubSeq(lines, 1, i)
      <4>1. \A i \in 1..n : i \in 0..n
        BY <1>2
      <4> QED BY <2>1, <4>1
    <3>1. a[i] = Append(SubSeq(lines, 1, i - 1), lines[i])
      BY <1>3, <1>5, <1>7
    <3>2. Append(SubSeq(lines, 1, i - 1), lines[i]) = SubSeq(lines, 1, i)
      BY <1>2
    <3> QED BY <3>1, <3>2
  <2>4. n \in P
    <3>1. \A i \in 0..n : i \in P
      BY <1>2, <2>2, <2>3, Counted
    <3>2. n \in 0..n
      BY <1>2
    <3> QED BY <3>1, <3>2
  <2>5. SubSeq(lines, 1, n) = lines
    BY <1>2
  <2> QED BY <1>1, <1>3, <1>4, <1>7, <2>1, <2>4, <2>5 DEF Says
<1> QED BY <1>6, <1>7

\* Adjacent parts of a sequence of lines.
LEMMA Adjacent ==
  ASSUME NEW s \in Seq(Lines), NEW a \in Nat, NEW b \in Nat, NEW c \in Nat,
         a <= b, b <= c, c <= Len(s)
  PROVE  SubSeq(s, a + 1, b) \o SubSeq(s, b + 1, c) = SubSeq(s, a + 1, c)
<1>1. a + 1 \in 1..Len(s) + 1 /\ b \in (a + 1) - 1..Len(s) /\ c \in b..Len(s)
  OBVIOUS
<1> QED BY <1>1, ConcatAdjacentSubSeq

\* What a hunk of a diff says: where it begins, what both sides of it are, and
\* whether it takes the newline from the end.
HunkSays(x, y, p, m, n, from, after, h) ==
    /\ from \in Nat /\ after \in Nat /\ from <= p /\ m + after <= Len(x.lines)
    /\ FirstLine(h) = from
    /\ OldSide(h.body) = SubSeq(x.lines, from + 1, m + after)
    /\ NewSide(h.body) = SubSeq(x.lines, from + 1, p) \o SubSeq(y.lines, p + 1, n)
                         \o SubSeq(x.lines, m + 1, m + after)
    /\ h.newEnd <=> n + after - from > 0 /\ n + after = Len(y.lines) /\ ~y.nl

\* The body of a hunk, in its four parts.
Parts4(u, gone, come, v, body) ==
    body = Signed("context", u) \o Signed("removed", gone) \o Signed("added", come)
           \o Signed("context", v)

LEMMA BodySays ==
  \A u, gone, come, v \in Seq(Lines) : \A body : Parts4(u, gone, come, v, body) =>
      /\ Says(body, "added") = u \o gone \o <<>> \o v
      /\ Says(body, "removed") = u \o <<>> \o come \o v
<1> SUFFICES ASSUME NEW u \in Seq(Lines), NEW gone \in Seq(Lines), NEW come \in Seq(Lines),
                    NEW v \in Seq(Lines), NEW body, Parts4(u, gone, come, v, body)
             PROVE  /\ Says(body, "added") = u \o gone \o <<>> \o v
                    /\ Says(body, "removed") = u \o <<>> \o come \o v
  OBVIOUS
<1>1. PICK a \in Seq(BodyLines) : a = Signed("context", u)
  BY SignedTyped
<1>2. PICK b \in Seq(BodyLines) : b = Signed("removed", gone)
  BY SignedTyped
<1>3. PICK c \in Seq(BodyLines) : c = Signed("added", come)
  BY SignedTyped
<1>4. PICK d \in Seq(BodyLines) : d = Signed("context", v)
  BY SignedTyped
<1>5. PICK ab : IsJoin(ab, a, b)
  BY DEF IsJoin
<1>6. ab \in Seq(BodyLines) /\ \A other : IsJoin(Says(ab, other), Says(a, other), Says(b, other))
  BY <1>5, SideOfJoined
<1>7. PICK abc : IsJoin(abc, ab, c)
  BY DEF IsJoin
<1>8. abc \in Seq(BodyLines) /\ \A other : IsJoin(Says(abc, other), Says(ab, other), Says(c, other))
  BY <1>6, <1>7, SideOfJoined
<1>9. IsJoin(body, abc, d)
  BY Zenon, <1>1, <1>2, <1>3, <1>4, <1>5, <1>7 DEF IsJoin, Parts4
<1>10. \A other : IsJoin(Says(body, other), Says(abc, other), Says(d, other))
  BY <1>8, <1>9, SideOfJoined
<1>11. \A other :
         Says(body, other) = ((Says(a, other) \o Says(b, other)) \o Says(c, other)) \o Says(d, other)
  BY Zenon, <1>6, <1>8, <1>10 DEF IsJoin
<1>12. /\ Says(a, "added") = u /\ Says(b, "added") = gone
       /\ Says(c, "added") = <<>> /\ Says(d, "added") = v
  BY <1>1, <1>2, <1>3, <1>4, SideOfSigned
<1>13. /\ Says(a, "removed") = u /\ Says(b, "removed") = <<>>
       /\ Says(c, "removed") = come /\ Says(d, "removed") = v
  BY SMTT(30), <1>1, <1>2, <1>3, <1>4, SideOfSigned
<1> QED BY Zenon, <1>11, <1>12, <1>13

LEMMA HunkMade ==
  ASSUME NEW x \in AllTexts, NEW y \in AllTexts, NEW p, NEW m, NEW n, NEW context \in Nat,
         Exchanges(x, y, p, m, n)
  PROVE  HunkSays(x, y, p, m, n, Larger(p - context, 0), Smaller(context, Len(x.lines) - m),
                  HunkFor(x, y, p, m, n, context))
<1>1. /\ x.lines \in Seq(Lines) /\ y.lines \in Seq(Lines) /\ x.nl \in BOOLEAN /\ y.nl \in BOOLEAN
      /\ p \in Nat /\ m \in Nat /\ n \in Nat /\ Len(x.lines) \in Nat /\ Len(y.lines) \in Nat
      /\ p <= m /\ m <= Len(x.lines) /\ p <= n /\ n <= Len(y.lines) /\ p <= Len(x.lines)
  BY DEF Exchanges, AllTexts
<1>2. PICK from : from = Larger(p - context, 0)
  OBVIOUS
<1>3. from \in Nat /\ from <= p
  BY <1>1, <1>2 DEF Larger
<1>4. PICK after : after = Smaller(context, Len(x.lines) - m)
  OBVIOUS
<1>5. after \in Nat /\ m + after \in Nat /\ m + after <= Len(x.lines)
  BY <1>1, <1>4 DEF Smaller
<1>6. PICK u \in Seq(Lines) : u = SubSeq(x.lines, from + 1, p)
  <2>1. SubSeq(x.lines, from + 1, p) \in Seq(Lines)
    BY <1>1, <1>3, PartTyped
  <2> QED BY <2>1
<1>7. PICK gone \in Seq(Lines) : gone = SubSeq(x.lines, p + 1, m)
  <2>1. SubSeq(x.lines, p + 1, m) \in Seq(Lines)
    BY <1>1, PartTyped
  <2> QED BY <2>1
<1>8. PICK come \in Seq(Lines) : come = SubSeq(y.lines, p + 1, n)
  <2>1. SubSeq(y.lines, p + 1, n) \in Seq(Lines)
    BY <1>1, PartTyped
  <2> QED BY <2>1
<1>9. PICK v \in Seq(Lines) : v = SubSeq(x.lines, m + 1, m + after)
  <2>1. SubSeq(x.lines, m + 1, m + after) \in Seq(Lines)
    BY SMTT(30), <1>1, <1>5, PartTyped
  <2> QED BY <2>1
<1>10. PICK h : h = HunkFor(x, y, p, m, n, context)
  OBVIOUS
<1>11. /\ h.start = IF m + after - from = 0 THEN from ELSE from + 1
       /\ h.old = m + after - from
       /\ h.body = Signed("context", u) \o Signed("removed", gone) \o Signed("added", come)
                   \o Signed("context", v)
       /\ h.newEnd = (n + after - from > 0 /\ n + after = Len(y.lines) /\ ~y.nl)
  BY <1>2, <1>4, <1>6, <1>7, <1>8, <1>9, <1>10 DEF HunkFor
<1>12. FirstLine(h) = from
  BY <1>1, <1>3, <1>5, <1>11 DEF FirstLine
<1>13. Says(h.body, "added") = u \o gone \o <<>> \o v /\ Says(h.body, "removed") = u \o <<>> \o come \o v
  <2>1. Parts4(u, gone, come, v, h.body)
    BY Zenon, <1>11 DEF Parts4
  <2> QED BY SMTT(30), <2>1, BodySays
<1>14. NewSide(h.body) = u \o come \o v
  <2>1. u \o <<>> = u
    BY ConcatEmptySeq
  <2> QED BY <1>13, <2>1 DEF NewSide, Says
<1>15. OldSide(h.body) = SubSeq(x.lines, from + 1, m + after)
  <2>1. (u \o gone) \o <<>> = u \o gone
    <3>1. u \o gone \in Seq(Lines)
      OBVIOUS
    <3> QED BY <3>1, ConcatEmptySeq
  <2>2. u \o gone = SubSeq(x.lines, from + 1, m)
    BY SMTT(30), <1>1, <1>3, <1>6, <1>7, Adjacent
  <2>3. SubSeq(x.lines, from + 1, m) \o v = SubSeq(x.lines, from + 1, m + after)
    <3>1. from <= m /\ m <= m + after
      BY <1>1, <1>3, <1>5
    <3> QED BY SMTT(30), <1>1, <1>3, <1>5, <1>9, <3>1, Adjacent
  <2> QED BY <1>13, <2>1, <2>2, <2>3 DEF OldSide, Says
<1> QED BY <1>2, <1>3, <1>4, <1>5, <1>6, <1>8, <1>9, <1>10, <1>11, <1>12, <1>14, <1>15 DEF HunkSays

\* A patch that is taken has been applied to its last hunk.
LEMMA PatchTaken ==
  ASSUME NEW src \in AllTexts, NEW patch \in Seq(Hunks), ApplyPatch(src, patch).lines # <<>>
  PROVE  /\ Parses(patch) /\ ApplyHunks(src, patch)[Len(patch)].ok
         /\ ApplyPatch(src, patch).lines =
              ApplyHunks(src, patch)[Len(patch)].out
              \o SubSeq(src.lines, ApplyHunks(src, patch)[Len(patch)].cursor + 1, Len(src.lines))
         /\ ApplyPatch(src, patch).nl = ApplyHunks(src, patch)[Len(patch)].nl
<1>1. PICK t : t = ApplyHunks(src, patch)
  OBVIOUS
<1>2. PICK N \in Nat : N = Len(patch)
  OBVIOUS
<1>3. /\ t[0] = Undone(src, patch)
      /\ \A k \in 1..N : t[k] = ApplyHunk(src, t[k - 1], patch[k])
      /\ \A k \in 0..N : t[k] \in DoneStates
  BY <1>1, <1>2, HunksMove
<1>4. PICK rest : rest = SubSeq(src.lines, t[N].cursor + 1, Len(src.lines))
  OBVIOUS
<1>5. PICK whole : whole = t[N].out \o rest
  OBVIOUS
<1>6. ApplyPatch(src, patch) = IF t[N].ok THEN Joined(whole, t[N].nl) ELSE Rejection
  BY Zenon, <1>1, <1>2, <1>4, <1>5 DEF ApplyPatch
<1>7. t[N].ok
  BY <1>6 DEF Rejection
<1>8. whole # <<>>
  BY <1>6, <1>7 DEF Joined, Empty
<1>9. ApplyPatch(src, patch) = [lines |-> whole, nl |-> t[N].nl]
  BY Zenon, <1>6, <1>7, <1>8 DEF Joined
<1>10. t[0].ok
  <2> DEFINE P == {k \in 0..N : t[k].ok => t[0].ok}
  <2>1. 0 \in P
    BY <1>2
  <2>2. ASSUME NEW k \in 1..N, k - 1 \in P PROVE k \in P
    <3>1. k \in 0..N /\ k - 1 \in 0..N /\ patch[k] \in Hunks
      BY <1>2
    <3>2. t[k].ok => t[k - 1].ok
      BY <1>3, <3>1, HunkApplied
    <3> QED BY <2>2, <3>1, <3>2
  <2>3. \A k \in 0..N : k \in P
    <3> HIDE DEF P
    <3> QED BY <1>2, <2>1, <2>2, Counted
  <2>4. N \in P
    BY <1>2, <2>3
  <2> QED BY <1>7, <2>4
<1>11. Parses(patch)
  BY <1>3, <1>10 DEF Undone
<1>12. ApplyPatch(src, patch).lines = whole /\ ApplyPatch(src, patch).nl = t[N].nl
  BY <1>9
<1> QED BY Zenon, <1>1, <1>2, <1>4, <1>5, <1>7, <1>11, <1>12

\* The lines from from+1 to to replaced by others.
Replaced(lines, from, to, new) == SubSeq(lines, 1, from) \o new \o SubSeq(lines, to + 1, Len(lines))

LEMMA OneHunkTaken ==
  ASSUME NEW src \in AllTexts, NEW h \in Hunks, ApplyPatch(src, <<h>>).lines # <<>>
  PROVE  /\ Fits(src, 0, h)
         /\ ApplyPatch(src, <<h>>).lines =
              Replaced(src.lines, FirstLine(h), FirstLine(h) + Len(OldSide(h.body)), NewSide(h.body))
         /\ ApplyPatch(src, <<h>>).nl =
              IF FirstLine(h) + Len(OldSide(h.body)) = Len(src.lines) THEN ~h.newEnd ELSE src.nl
<1>1. PICK patch \in Seq(Hunks) : patch = <<h>>
  <2>1. <<h>> \in Seq(Hunks)
    OBVIOUS
  <2> QED BY <2>1
<1>2. Len(patch) = 1 /\ patch[1] = h
  BY <1>1
<1>3. PICK t : t = ApplyHunks(src, patch)
  OBVIOUS
<1>4. t[0] = Undone(src, patch) /\ t[1] = ApplyHunk(src, t[0], h) /\ t[0] \in DoneStates
  <2>1. 1 \in 1..Len(patch) /\ 1 - 1 = 0 /\ 0 \in 0..Len(patch)
    BY <1>2
  <2> QED BY <1>2, <1>3, <2>1, HunksMove
<1>5. t[0].cursor = 0 /\ t[0].out = <<>> /\ t[0].nl = src.nl
  BY <1>4 DEF Undone
<1>6. /\ t[1].ok
      /\ ApplyPatch(src, patch).lines = t[1].out \o SubSeq(src.lines, t[1].cursor + 1, Len(src.lines))
      /\ ApplyPatch(src, patch).nl = t[1].nl
  BY ZenonT(60), <1>1, <1>2, <1>3, PatchTaken
<1>7. PICK first : first = FirstLine(h)
  OBVIOUS
<1>8. PICK cursor : cursor = first + Len(OldSide(h.body))
  OBVIOUS
<1>9. PICK new : new = NewSide(h.body)
  OBVIOUS
<1>10. /\ Fits(src, 0, h) /\ t[1].cursor = cursor
       /\ t[1].out = <<>> \o SubSeq(src.lines, 0 + 1, first) \o new
       /\ t[1].nl = IF cursor = Len(src.lines) THEN ~h.newEnd ELSE src.nl
  <2>1. PICK before \in DoneStates : before = t[0]
    BY <1>4
  <2>2. t[1] = ApplyHunk(src, before, h) /\ ApplyHunk(src, before, h).ok
    BY Zenon, <1>4, <1>6, <2>1
  <2>3. /\ Fits(src, before.cursor, h)
        /\ ApplyHunk(src, before, h).cursor = FirstLine(h) + Len(OldSide(h.body))
        /\ ApplyHunk(src, before, h).out =
             before.out \o SubSeq(src.lines, before.cursor + 1, FirstLine(h)) \o NewSide(h.body)
        /\ ApplyHunk(src, before, h).nl =
             IF FirstLine(h) + Len(OldSide(h.body)) = Len(src.lines) THEN ~h.newEnd ELSE before.nl
    BY ZenonT(120), <2>1, <2>2, HunkApplied
  <2> QED BY Zenon, <1>5, <1>7, <1>8, <1>9, <2>1, <2>2, <2>3
<1>11. t[1].out = SubSeq(src.lines, 1, first) \o new
  <2>1. first \in Nat /\ first <= Len(src.lines) /\ src.lines \in Seq(Lines) /\ new \in Seq(Lines)
    BY <1>7, <1>9, <1>10, FitsWhere
  <2>2. PICK u \in Seq(Lines) : u = SubSeq(src.lines, 0 + 1, first)
    <3>1. SubSeq(src.lines, 0 + 1, first) \in Seq(Lines)
      BY <2>1, PartTyped
    <3> QED BY <3>1
  <2>3. <<>> \o u = u
    BY <2>2, ConcatEmptySeq
  <2>4. 0 + 1 = 1
    OBVIOUS
  <2> QED BY <1>10, <2>2, <2>3, <2>4
<1> QED BY <1>1, <1>6, <1>7, <1>8, <1>9, <1>10, <1>11 DEF Replaced

\* Concatenation by a name, for the same reason.
Cat(s, t) == s \o t

LEMMA CatTyped == \A s, t \in Seq(Lines) : Cat(s, t) \in Seq(Lines)
  BY DEF Cat

LEMMA CatAssociative == \A s, t, u \in Seq(Lines) : Cat(Cat(s, t), u) = Cat(s, Cat(t, u))
<1> SUFFICES ASSUME NEW s \in Seq(Lines), NEW t \in Seq(Lines), NEW u \in Seq(Lines)
             PROVE  (s \o t) \o u = s \o (t \o u)
  BY DEF Cat
<1> QED BY SMTT(30), ConcatAssociative

LEMMA CatAdjacent ==
  \A s \in Seq(Lines) : \A a, b, c \in Nat : a <= b /\ b <= c /\ c <= Len(s) =>
    Cat(SubSeq(s, a + 1, b), SubSeq(s, b + 1, c)) = SubSeq(s, a + 1, c)
  BY Adjacent DEF Cat

LEMMA Regroup ==
  \A a, b, c, d, e \in Seq(Lines) :
    Cat(Cat(a, Cat(Cat(b, c), d)), e) = Cat(Cat(Cat(a, b), c), Cat(d, e))
<1> SUFFICES ASSUME NEW a \in Seq(Lines), NEW b \in Seq(Lines), NEW c \in Seq(Lines),
                    NEW d \in Seq(Lines), NEW e \in Seq(Lines)
             PROVE  Cat(Cat(a, Cat(Cat(b, c), d)), e) = Cat(Cat(Cat(a, b), c), Cat(d, e))
  OBVIOUS
<1>1. Cat(b, c) \in Seq(Lines) /\ Cat(a, b) \in Seq(Lines) /\ Cat(Cat(a, b), c) \in Seq(Lines)
  BY CatTyped
<1>2. Cat(a, Cat(Cat(b, c), d)) = Cat(Cat(a, Cat(b, c)), d)
  BY <1>1, CatAssociative
<1>3. Cat(a, Cat(b, c)) = Cat(Cat(a, b), c)
  BY CatAssociative
<1>4. Cat(Cat(Cat(Cat(a, b), c), d), e) = Cat(Cat(Cat(a, b), c), Cat(d, e))
  BY <1>1, CatAssociative
<1> QED BY <1>2, <1>3, <1>4

\* Sequences that agree in a part agree in every part of it.
LEMMA AgreePoints ==
  ASSUME NEW s \in Seq(Lines), NEW x \in Seq(Lines), NEW a \in Nat, NEW d \in Nat,
         a <= d, d <= Len(s), d <= Len(x), SubSeq(s, a + 1, d) = SubSeq(x, a + 1, d)
  PROVE  \A i \in a + 1..d : s[i] = x[i]
<1> SUFFICES ASSUME NEW i \in a + 1..d PROVE s[i] = x[i]
  OBVIOUS
<1>1. i - a \in 1..d - (a + 1) + 1 /\ (a + 1) + (i - a) - 1 = i
  OBVIOUS
<1>2. \A j \in 1..d - (a + 1) + 1 : SubSeq(s, a + 1, d)[j] = s[(a + 1) + j - 1]
  BY Parts
<1>3. \A j \in 1..d - (a + 1) + 1 : SubSeq(x, a + 1, d)[j] = x[(a + 1) + j - 1]
  BY Parts
<1> QED BY <1>1, <1>2, <1>3

LEMMA PointsAgree ==
  ASSUME NEW s \in Seq(Lines), NEW x \in Seq(Lines), NEW b \in Nat, NEW c \in Nat,
         c <= Len(s), c <= Len(x), \A i \in b + 1..c : s[i] = x[i]
  PROVE  SubSeq(s, b + 1, c) = SubSeq(x, b + 1, c)
<1>1. PICK u \in Seq(Lines) : u = SubSeq(s, b + 1, c)
  <2>1. SubSeq(s, b + 1, c) \in Seq(Lines)
    BY PartTyped
  <2> QED BY <2>1
<1>2. PICK v \in Seq(Lines) : v = SubSeq(x, b + 1, c)
  <2>1. SubSeq(x, b + 1, c) \in Seq(Lines)
    BY PartTyped
  <2> QED BY <2>1
<1>3. /\ Len(u) = IF b + 1 <= c THEN c - (b + 1) + 1 ELSE 0
      /\ \A j \in 1..c - (b + 1) + 1 : u[j] = s[(b + 1) + j - 1]
  BY <1>1, Parts
<1>4. /\ Len(v) = IF b + 1 <= c THEN c - (b + 1) + 1 ELSE 0
      /\ \A j \in 1..c - (b + 1) + 1 : v[j] = x[(b + 1) + j - 1]
  BY <1>2, Parts
<1>5. \A j \in 1..Len(u) : u[j] = v[j]
  <2> SUFFICES ASSUME NEW j \in 1..Len(u) PROVE u[j] = v[j]
    OBVIOUS
  <2>1. j \in 1..c - (b + 1) + 1 /\ (b + 1) + j - 1 \in b + 1..c
    BY <1>3
  <2> QED BY <1>3, <1>4, <2>1
<1>6. u = v
  BY <1>3, <1>4, <1>5, SeqEqual
<1> QED BY <1>1, <1>2, <1>6

\* A splice with context around it is the splice without.
LEMMA ContextStays ==
  \A s, x, come \in Seq(Lines) : \A from, p, m, to \in Nat :
    /\ from <= p /\ p <= m /\ m <= to /\ to <= Len(s) /\ to <= Len(x)
    /\ \A i \in from + 1..to : s[i] = x[i]
    => Replaced(s, from, to, SubSeq(x, from + 1, p) \o come \o SubSeq(x, m + 1, to)) =
         Replaced(s, p, m, come)
<1> SUFFICES ASSUME NEW s \in Seq(Lines), NEW x \in Seq(Lines), NEW come \in Seq(Lines),
                    NEW from \in Nat, NEW p \in Nat, NEW m \in Nat, NEW to \in Nat,
                    from <= p, p <= m, m <= to, to <= Len(s), to <= Len(x),
                    \A i \in from + 1..to : s[i] = x[i]
             PROVE  Replaced(s, from, to, SubSeq(x, from + 1, p) \o come \o SubSeq(x, m + 1, to)) =
                      Replaced(s, p, m, come)
  BY SMTT(60)
<1>1. PICK N \in Nat : N = Len(s)
  OBVIOUS
<1>2. PICK a \in Seq(Lines) : a = SubSeq(s, 0 + 1, from)
  <2>1. SubSeq(s, 0 + 1, from) \in Seq(Lines)
    BY PartTyped
  <2> QED BY <2>1
<1>3. PICK b \in Seq(Lines) : b = SubSeq(s, from + 1, p)
  <2>1. SubSeq(s, from + 1, p) \in Seq(Lines)
    BY PartTyped
  <2> QED BY <2>1
<1>4. PICK d \in Seq(Lines) : d = SubSeq(s, m + 1, to)
  <2>1. SubSeq(s, m + 1, to) \in Seq(Lines)
    BY PartTyped
  <2> QED BY <2>1
<1>5. PICK e \in Seq(Lines) : e = SubSeq(s, to + 1, N)
  <2>1. SubSeq(s, to + 1, N) \in Seq(Lines)
    BY <1>1, PartTyped
  <2> QED BY <2>1
<1>6. SubSeq(x, from + 1, p) = b
  <2>1. \A i \in from + 1..p : i \in from + 1..to
    OBVIOUS
  <2> QED BY <1>3, <2>1, PointsAgree
<1>7. SubSeq(x, m + 1, to) = d
  <2>1. \A i \in m + 1..to : i \in from + 1..to
    OBVIOUS
  <2> QED BY <1>4, <2>1, PointsAgree
<1>8. Cat(a, b) = SubSeq(s, 0 + 1, p)
  <2>1. PICK zero \in Nat : zero = 0
    OBVIOUS
  <2>2. zero <= from /\ p <= Len(s)
    BY <2>1
  <2>3. Cat(SubSeq(s, zero + 1, from), SubSeq(s, from + 1, p)) = SubSeq(s, zero + 1, p)
    BY SMTT(30), <2>2, CatAdjacent
  <2> QED BY Zenon, <1>2, <1>3, <2>1, <2>3
<1>9. Cat(d, e) = SubSeq(s, m + 1, N)
  <2>1. to <= N /\ N <= Len(s)
    BY <1>1
  <2>2. Cat(SubSeq(s, m + 1, to), SubSeq(s, to + 1, N)) = SubSeq(s, m + 1, N)
    BY SMTT(30), <2>1, CatAdjacent
  <2> QED BY Zenon, <1>4, <1>5, <2>2
<1>10. Cat(Cat(a, Cat(Cat(b, come), d)), e) = Cat(Cat(Cat(a, b), come), Cat(d, e))
  BY Regroup
<1>11. 0 + 1 = 1
  OBVIOUS
<1> QED BY Zenon, <1>1, <1>2, <1>5, <1>6, <1>7, <1>8, <1>9, <1>10, <1>11 DEF Cat, Replaced

\* What the patch of one hunk does: the lines it replaces are there, at their place,
\* and it replaces them, whatever the context it came with.
HunkDoes(x, y, p, m, n, from, after, s, t) ==
    /\ m + after <= Len(s.lines)
    /\ \A i \in from + 1..m + after : s.lines[i] = x.lines[i]
    /\ t.lines = Replaced(s.lines, p, m, SubSeq(y.lines, p + 1, n))
    /\ t.nl = IF m + after = Len(s.lines)
              THEN ~(n + after - from > 0 /\ n + after = Len(y.lines) /\ ~y.nl) ELSE s.nl

LEMMA OneHunkDoes ==
  ASSUME NEW x \in AllTexts, NEW y \in AllTexts, NEW s \in AllTexts, NEW h \in Hunks,
         NEW p, NEW m, NEW n, Exchanges(x, y, p, m, n),
         NEW from, NEW after, HunkSays(x, y, p, m, n, from, after, h),
         ApplyPatch(s, <<h>>).lines # <<>>
  PROVE  HunkDoes(x, y, p, m, n, from, after, s, ApplyPatch(s, <<h>>))
<1>1. /\ x.lines \in Seq(Lines) /\ y.lines \in Seq(Lines) /\ s.lines \in Seq(Lines)
      /\ Len(x.lines) \in Nat /\ Len(y.lines) \in Nat /\ Len(s.lines) \in Nat
      /\ p \in Nat /\ m \in Nat /\ n \in Nat /\ p <= m /\ m <= Len(x.lines) /\ p <= n
      /\ n <= Len(y.lines) /\ p <= Len(x.lines)
  BY DEF Exchanges, AllTexts
<1>2. /\ from \in Nat /\ after \in Nat /\ from <= p /\ m + after <= Len(x.lines)
      /\ FirstLine(h) = from
  BY DEF HunkSays
<1>3. PICK old : old = OldSide(h.body)
  OBVIOUS
<1>4. old = SubSeq(x.lines, from + 1, m + after)
  BY <1>3 DEF HunkSays
<1>5. Len(old) = m + after - from
  <2>1. PICK xs \in Seq(Lines) : xs = x.lines
    BY <1>1
  <2>2. PICK to \in Int : to = m + after
    BY <1>1, <1>2
  <2>3. /\ from + 1 \in Int /\ 1 <= from + 1 /\ to <= Len(xs)
    BY <1>1, <1>2, <2>1, <2>2
  <2>4. Len(SubSeq(xs, from + 1, to)) = IF from + 1 <= to THEN to - (from + 1) + 1 ELSE 0
    BY <2>3, Parts
  <2>5. Len(SubSeq(xs, from + 1, to)) = to - from
    BY <1>1, <1>2, <2>2, <2>4
  <2>6. Len(old) = to - from
    BY Zenon, <1>4, <2>1, <2>2, <2>5
  <2> QED BY <1>1, <1>2, <2>2, <2>6
<1>6. from + Len(old) = m + after
  BY <1>1, <1>2, <1>5
<1>7. /\ Fits(s, 0, h)
      /\ ApplyPatch(s, <<h>>).lines =
           Replaced(s.lines, FirstLine(h), FirstLine(h) + Len(OldSide(h.body)), NewSide(h.body))
      /\ ApplyPatch(s, <<h>>).nl =
           IF FirstLine(h) + Len(OldSide(h.body)) = Len(s.lines) THEN ~h.newEnd ELSE s.nl
  BY OneHunkTaken
<1>8. m + after <= Len(s.lines) /\ SubSeq(s.lines, from + 1, m + after) = SubSeq(x.lines, from + 1, m + after)
  BY <1>2, <1>3, <1>4, <1>6, <1>7 DEF Fits
<1>9. \A i \in from + 1..m + after : s.lines[i] = x.lines[i]
  <2>1. from <= m + after /\ m + after \in Nat
    BY <1>1, <1>2
  <2> QED BY <1>1, <1>2, <1>8, <2>1, AgreePoints
<1>10. PICK come \in Seq(Lines) : come = SubSeq(y.lines, p + 1, n)
  <2>1. SubSeq(y.lines, p + 1, n) \in Seq(Lines)
    BY <1>1, PartTyped
  <2> QED BY <2>1
<1>11. PICK to \in Nat : to = m + after
  BY <1>1, <1>2
<1>12. ApplyPatch(s, <<h>>).lines = Replaced(s.lines, from, to,
         SubSeq(x.lines, from + 1, p) \o come \o SubSeq(x.lines, m + 1, to))
  BY Zenon, <1>2, <1>3, <1>6, <1>7, <1>10, <1>11 DEF HunkSays
<1>13. Replaced(s.lines, from, to, SubSeq(x.lines, from + 1, p) \o come \o SubSeq(x.lines, m + 1, to)) =
         Replaced(s.lines, p, m, come)
  <2>1. PICK ss \in Seq(Lines) : ss = s.lines
    BY <1>1
  <2>2. PICK xs \in Seq(Lines) : xs = x.lines
    BY <1>1
  <2>3. from <= p /\ p <= m /\ m <= to /\ to <= Len(ss) /\ to <= Len(xs)
    BY <1>1, <1>2, <1>8, <1>11, <2>1, <2>2
  <2>4. \A i \in from + 1..to : ss[i] = xs[i]
    BY <1>9, <1>11, <2>1, <2>2
  <2>5. from \in Nat /\ p \in Nat /\ m \in Nat
    BY <1>1, <1>2
  <2>6. Replaced(ss, from, to, SubSeq(xs, from + 1, p) \o come \o SubSeq(xs, m + 1, to)) =
          Replaced(ss, p, m, come)
    BY SMTT(30), <2>3, <2>4, <2>5, ContextStays
  <2> QED BY Zenon, <2>1, <2>2, <2>6
<1>14. ApplyPatch(s, <<h>>).lines = Replaced(s.lines, p, m, SubSeq(y.lines, p + 1, n))
  BY Zenon, <1>10, <1>12, <1>13
<1>15. ApplyPatch(s, <<h>>).nl = IF m + after = Len(s.lines)
         THEN ~(n + after - from > 0 /\ n + after = Len(y.lines) /\ ~y.nl) ELSE s.nl
  <2>1. h.newEnd <=> n + after - from > 0 /\ n + after = Len(y.lines) /\ ~y.nl
    BY DEF HunkSays
  <2>2. FirstLine(h) + Len(OldSide(h.body)) = m + after
    BY <1>2, <1>3, <1>6
  <2> QED BY Zenon, <1>7, <2>1, <2>2
<1> QED BY <1>8, <1>9, <1>14, <1>15 DEF HunkDoes

LEMMA EndsAlike ==
  ASSUME NEW x \in AllTexts, NEW y \in AllTexts, NEW i, NEW j, WithEnd(x, i) = WithEnd(y, j)
  PROVE  /\ x.lines[i] = y.lines[j]
         /\ (i < Len(x.lines) \/ x.nl) = (j < Len(y.lines) \/ y.nl)
<1>1. PICK e : e = (i < Len(x.lines) \/ x.nl)
  OBVIOUS
<1>2. PICK f : f = (j < Len(y.lines) \/ y.nl)
  OBVIOUS
<1>3. PICK k : k = x.lines[i]
  OBVIOUS
<1>4. PICK l : l = y.lines[j]
  OBVIOUS
<1>5. <<k, e>> = <<l, f>>
  BY Zenon, <1>1, <1>2, <1>3, <1>4 DEF WithEnd
<1>6. k = l /\ e = f
  BY <1>5
<1> QED BY Zenon, <1>1, <1>2, <1>3, <1>4, <1>6

\* Two texts with so much in common in front and behind.
InCommon(x, y, p, q, m, n) ==
    /\ p \in Nat /\ q \in Nat /\ m \in Nat /\ n \in Nat
    /\ m + q = Len(x.lines) /\ n + q = Len(y.lines) /\ p <= m /\ p <= n
    /\ \A i \in 1..p : x.lines[i] = y.lines[i]
    /\ \A i \in 1..q : x.lines[m + i] = y.lines[n + i]
    /\ q > 0 => x.nl = y.nl
    /\ q = 0 /\ p > 0 /\ n = p =>
         IF m = p THEN x.nl = y.nl ELSE y.nl

LEMMA InCommonFound ==
  ASSUME NEW x \in AllTexts, NEW y \in AllTexts
  PROVE  InCommon(x, y, InFront(x, y), Behind(x, y),
                Len(x.lines) - Behind(x, y), Len(y.lines) - Behind(x, y))
<1>1. PICK p : p = InFront(x, y)
  OBVIOUS
<1>2. PICK q : q = Behind(x, y)
  OBVIOUS
<1>3. PICK mx \in Nat : mx = Len(x.lines)
  BY DEF AllTexts
<1>4. PICK my \in Nat : my = Len(y.lines)
  BY DEF AllTexts
<1>5. p \in Nat /\ p <= mx /\ p <= my /\ \A i \in 1..p : WithEnd(x, i) = WithEnd(y, i)
  BY <1>1, <1>3, <1>4, FrontFound DEF FrontIs
<1>6. /\ q \in Nat /\ p + q <= mx /\ p + q <= my
      /\ \A i \in 0..q - 1 : WithEnd(x, mx - i) = WithEnd(y, my - i)
  BY <1>1, <1>2, <1>3, <1>4, BehindFound DEF BehindIs
<1>7. PICK m \in Nat : m = mx - q
  BY <1>3, <1>5, <1>6
<1>8. PICK n \in Nat : n = my - q
  BY <1>4, <1>5, <1>6
<1>9. \A i \in 1..p : x.lines[i] = y.lines[i]
  BY <1>5, EndsAlike
<1>10. \A i \in 1..q : x.lines[m + i] = y.lines[n + i]
  <2> SUFFICES ASSUME NEW i \in 1..q PROVE x.lines[m + i] = y.lines[n + i]
    OBVIOUS
  <2>1. q - i \in 0..q - 1 /\ mx - (q - i) = m + i /\ my - (q - i) = n + i
    BY <1>6, <1>7, <1>8
  <2>2. WithEnd(x, m + i) = WithEnd(y, n + i)
    BY <1>6, <2>1
  <2> QED BY <2>2, EndsAlike
<1>11. x.nl \in BOOLEAN /\ y.nl \in BOOLEAN
  BY DEF AllTexts
<1>12. q > 0 => x.nl = y.nl
  <2> SUFFICES ASSUME q > 0 PROVE x.nl = y.nl
    OBVIOUS
  <2>1. 0 \in 0..q - 1 /\ mx - 0 = mx /\ my - 0 = my
    BY <1>6
  <2>2. WithEnd(x, mx) = WithEnd(y, my)
    BY <1>6, <2>1
  <2>3. (mx < Len(x.lines) \/ x.nl) = (my < Len(y.lines) \/ y.nl)
    BY Zenon, <2>2, EndsAlike
  <2>4. ~(mx < Len(x.lines)) /\ ~(my < Len(y.lines))
    BY <1>3, <1>4
  <2>5. x.nl <=> y.nl
    BY Zenon, <2>3, <2>4
  <2>6. PICK e \in BOOLEAN : e = x.nl
    BY <1>11
  <2>7. PICK f \in BOOLEAN : f = y.nl
    BY <1>11
  <2>8. e = f
    <3>1. e <=> f
      BY Zenon, <2>5, <2>6, <2>7
    <3> QED BY SMT, <3>1
  <2> QED BY Zenon, <2>6, <2>7, <2>8
<1>13. q = 0 /\ p > 0 /\ n = p => IF m = p THEN x.nl = y.nl ELSE y.nl
  <2> SUFFICES ASSUME q = 0, p > 0, n = p PROVE IF m = p THEN x.nl = y.nl ELSE y.nl
    OBVIOUS
  <2>1. p \in 1..p /\ ~(p < Len(y.lines)) /\ (m # p => p < Len(x.lines))
        /\ (m = p => ~(p < Len(x.lines)))
    BY <1>3, <1>4, <1>5, <1>7, <1>8
  <2>2. WithEnd(x, p) = WithEnd(y, p)
    BY <1>5, <2>1
  <2>3. (p < Len(x.lines) \/ x.nl) = (p < Len(y.lines) \/ y.nl)
    BY Zenon, <2>2, EndsAlike
  <2> QED BY Zenon, <1>11, <2>1, <2>3
<1>14. m + q = mx /\ n + q = my /\ p <= m /\ p <= n
  BY <1>3, <1>4, <1>5, <1>6, <1>7, <1>8
<1> QED BY <1>1, <1>2, <1>3, <1>4, <1>5, <1>6, <1>7, <1>8, <1>9, <1>10, <1>12, <1>13, <1>14 DEF InCommon

\* Lines put in the place of as many.
LEMMA ReplacedPoints ==
  ASSUME NEW s \in Seq(Lines), NEW new \in Seq(Lines), NEW p \in Nat, NEW m \in Nat,
         p <= m, m <= Len(s), Len(new) = m - p
  PROVE  /\ Len(Replaced(s, p, m, new)) = Len(s)
         /\ \A i \in 1..Len(s) : Replaced(s, p, m, new)[i] =
              IF p < i /\ i <= m THEN new[i - p] ELSE s[i]
<1>1. PICK N \in Nat : N = Len(s)
  OBVIOUS
<1>2. PICK a \in Seq(Lines) : a = SubSeq(s, 1, p)
  <2>1. SubSeq(s, 0 + 1, p) \in Seq(Lines)
    BY PartTyped
  <2>2. 0 + 1 = 1
    OBVIOUS
  <2> QED BY <2>1, <2>2
<1>3. PICK e \in Seq(Lines) : e = SubSeq(s, m + 1, N)
  <2>1. SubSeq(s, m + 1, N) \in Seq(Lines)
    BY <1>1, PartTyped
  <2> QED BY <2>1
<1>4. Len(a) = p /\ \A i \in 1..p : a[i] = s[i]
  BY <1>1, <1>2
<1>5. Len(e) = N - m /\ \A i \in 1..N - m : e[i] = s[m + i]
  <2>1. m + 1 \in Int /\ N \in Int /\ 1 <= m + 1 /\ N <= Len(s)
    BY <1>1
  <2>2. /\ Len(e) = IF m + 1 <= N THEN N - (m + 1) + 1 ELSE 0
        /\ \A i \in 1..N - (m + 1) + 1 : e[i] = s[(m + 1) + i - 1]
    BY <1>3, <2>1, Parts
  <2>3. Len(e) = N - m
    BY <1>1, <2>2
  <2>4. ASSUME NEW i \in 1..N - m PROVE e[i] = s[m + i]
    <3>1. i \in 1..N - (m + 1) + 1 /\ (m + 1) + i - 1 = m + i
      BY <1>1
    <3> QED BY <2>2, <3>1
  <2> QED BY <2>3, <2>4
<1>6. PICK b \in Seq(Lines) : b = a \o new
  <2>1. a \o new \in Seq(Lines)
    OBVIOUS
  <2> QED BY <2>1
<1>7. Len(b) = m /\ \A i \in 1..m : b[i] = IF i <= p THEN s[i] ELSE new[i - p]
  <2>1. Len(b) = Len(a) + Len(new) /\ \A i \in 1..Len(a) + Len(new) :
          b[i] = IF i <= Len(a) THEN a[i] ELSE new[i - Len(a)]
    BY <1>6, ConcatProperties
  <2>2. Len(a) + Len(new) = m
    BY <1>4
  <2>3. \A i \in 1..m : b[i] = IF i <= p THEN a[i] ELSE new[i - p]
    BY <1>4, <2>1, <2>2
  <2>4. \A i \in 1..m : i <= p => a[i] = s[i]
    BY <1>4
  <2> QED BY <2>1, <2>2, <2>3, <2>4
<1>8. PICK c \in Seq(Lines) : c = b \o e
  <2>1. b \o e \in Seq(Lines)
    OBVIOUS
  <2> QED BY <2>1
<1>9. Len(c) = N /\ \A i \in 1..N : c[i] = IF i <= m THEN b[i] ELSE e[i - m]
  <2>1. Len(c) = Len(b) + Len(e) /\ \A i \in 1..Len(b) + Len(e) :
          c[i] = IF i <= Len(b) THEN b[i] ELSE e[i - Len(b)]
    BY <1>8, ConcatProperties
  <2>2. Len(b) + Len(e) = N
    BY <1>1, <1>5, <1>7
  <2> QED BY <1>7, <2>1, <2>2
<1>10. ASSUME NEW i \in 1..N PROVE c[i] = IF p < i /\ i <= m THEN new[i - p] ELSE s[i]
  <2>1. CASE i <= m
    <3>1. i \in 1..m
      BY <2>1
    <3> QED BY <1>7, <1>9, <2>1, <3>1
  <2>2. CASE i > m
    <3>1. i - m \in 1..N - m /\ m + (i - m) = i
      BY <1>1, <2>2
    <3>2. c[i] = e[i - m]
      BY <1>9, <2>2
    <3> QED BY SMTT(30), <1>5, <2>2, <3>1, <3>2
  <2> QED BY <2>1, <2>2
<1>11. c = Replaced(s, p, m, new)
  BY Zenon, <1>1, <1>2, <1>3, <1>6, <1>8 DEF Replaced
<1> QED BY <1>1, <1>9, <1>10, <1>11

\* Two texts with the same lines and the same end are one.
LEMMA SameText ==
  ASSUME NEW x \in AllTexts, NEW y \in AllTexts, x.lines = y.lines, x.nl <=> y.nl
  PROVE  x = y
<1>1. PICK l \in Seq(Lines) : l = x.lines
  BY DEF AllTexts
<1>2. PICK e \in BOOLEAN : e = x.nl
  BY DEF AllTexts
<1>3. PICK f \in BOOLEAN : f = y.nl
  BY DEF AllTexts
<1>4. e = f
  <2>1. e <=> f
    BY Zenon, <1>2, <1>3
  <2> QED BY SMT, <2>1
<1>5. x = [lines |-> l, nl |-> e] /\ y = [lines |-> l, nl |-> f]
  BY <1>1, <1>2, <1>3 DEF AllTexts
<1> QED BY <1>4, <1>5

\* The edit on a source of another length.
StretchEdited(x, y, p, m, n, s, t) ==
    /\ SubSeq(s.lines, p + 1, m) = SubSeq(x.lines, p + 1, m)
    /\ t.lines = SubSeq(s.lines, 1, p) \o SubSeq(y.lines, p + 1, n)
                 \o SubSeq(s.lines, m + 1, Len(s.lines))

LEMMA EditElsewhere ==
  ASSUME NEW x \in AllTexts, NEW y \in AllTexts, NEW s \in AllTexts, NEW t \in AllTexts,
         NEW p, NEW q, NEW m, NEW n, NEW from \in Nat, NEW after \in Nat, from <= p,
         InCommon(x, y, p, q, m, n), HunkDoes(x, y, p, m, n, from, after, s, t)
  PROVE  StretchEdited(x, y, p, m, n, s, t)
<1>1. /\ p \in Nat /\ m \in Nat /\ m + q = Len(x.lines) /\ q \in Nat /\ p <= m
  BY DEF InCommon
<1>2. /\ m + after <= Len(s.lines) /\ \A i \in from + 1..m + after : s.lines[i] = x.lines[i]
      /\ t.lines = Replaced(s.lines, p, m, SubSeq(y.lines, p + 1, n))
  BY DEF HunkDoes
<1>3. s.lines \in Seq(Lines) /\ x.lines \in Seq(Lines) /\ Len(s.lines) \in Nat
  BY DEF AllTexts
<1>4. SubSeq(s.lines, p + 1, m) = SubSeq(x.lines, p + 1, m)
  <2>1. \A i \in p + 1..m : i \in from + 1..m + after
    BY <1>1
  <2>2. m <= Len(s.lines) /\ m <= Len(x.lines)
    BY SMTT(30), <1>1, <1>2, <1>3
  <2> QED BY SMTT(30), <1>1, <1>2, <1>3, <2>1, <2>2, PointsAgree
<1> QED BY Zenon, <1>2, <1>4 DEF Replaced, StretchEdited

\* The edit on a source of the same length, line by line.
LinesEdited(x, y, s, t) ==
    /\ Len(t.lines) = Len(s.lines)
    /\ \A i \in DOMAIN s.lines :
          IF i \in DOMAIN x.lines /\ x.lines[i] # y.lines[i]
          THEN s.lines[i] = x.lines[i] /\ t.lines[i] = y.lines[i]
          ELSE t.lines[i] = s.lines[i]

LEMMA EditInLines ==
  ASSUME NEW x \in AllTexts, NEW y \in AllTexts, NEW s \in AllTexts, NEW t \in AllTexts,
         Len(x.lines) = Len(y.lines),
         NEW p, NEW q, NEW m, NEW n, NEW from \in Nat, NEW after \in Nat, from <= p,
         InCommon(x, y, p, q, m, n), HunkDoes(x, y, p, m, n, from, after, s, t)
  PROVE  LinesEdited(x, y, s, t)
<1>1. PICK sl \in Seq(Lines) : sl = s.lines
  BY DEF AllTexts
<1>2. PICK xl \in Seq(Lines) : xl = x.lines
  BY DEF AllTexts
<1>3. PICK yl \in Seq(Lines) : yl = y.lines
  BY DEF AllTexts
<1>4. PICK tl \in Seq(Lines) : tl = t.lines
  BY DEF AllTexts
<1>5. PICK N \in Nat : N = Len(xl)
  OBVIOUS
<1>6. Len(yl) = N
  BY <1>2, <1>3, <1>5
<1>7. /\ p \in Nat /\ q \in Nat /\ m \in Nat /\ n \in Nat
      /\ m + q = N /\ n + q = N /\ p <= m /\ p <= n
      /\ \A i \in 1..p : xl[i] = yl[i]
      /\ \A i \in 1..q : xl[m + i] = yl[n + i]
  BY <1>2, <1>3, <1>5, <1>6 DEF InCommon
<1>8. m = n
  BY <1>7
<1>9. /\ m + after <= Len(sl) /\ \A i \in from + 1..m + after : sl[i] = xl[i]
      /\ tl = Replaced(sl, p, m, SubSeq(yl, p + 1, n))
  BY <1>1, <1>2, <1>3, <1>4 DEF HunkDoes
<1>10. PICK new \in Seq(Lines) : new = SubSeq(yl, p + 1, m)
  <2>1. m <= Len(yl)
    BY SMTT(30), <1>6, <1>7
  <2>2. SubSeq(yl, p + 1, m) \in Seq(Lines)
    BY <1>7, <2>1, PartTyped
  <2> QED BY <2>2
<1>11. Len(new) = m - p /\ \A i \in 1..m - p : new[i] = yl[p + i]
  <2>1. p + 1 \in Int /\ m \in Int /\ 1 <= p + 1 /\ m <= Len(yl)
    BY <1>6, <1>7
  <2>2. /\ Len(new) = IF p + 1 <= m THEN m - (p + 1) + 1 ELSE 0
        /\ \A i \in 1..m - (p + 1) + 1 : new[i] = yl[(p + 1) + i - 1]
    BY SMTT(30), <1>10, <2>1, Parts
  <2>3. Len(new) = m - p
    BY <1>7, <2>2
  <2>4. ASSUME NEW i \in 1..m - p PROVE new[i] = yl[p + i]
    <3>1. i \in 1..m - (p + 1) + 1 /\ (p + 1) + i - 1 = p + i
      BY <1>7
    <3> QED BY <2>2, <3>1
  <2> QED BY <2>3, <2>4
<1>12. Len(tl) = Len(sl) /\ \A i \in 1..Len(sl) : tl[i] = IF p < i /\ i <= m THEN new[i - p] ELSE sl[i]
  <2>1. m <= Len(sl) /\ p \in Nat /\ m \in Nat /\ p <= m
    BY <1>7, <1>9
  <2>2. tl = Replaced(sl, p, m, new)
    BY Zenon, <1>8, <1>9, <1>10
  <2>3. /\ Len(Replaced(sl, p, m, new)) = Len(sl)
        /\ \A i \in 1..Len(sl) : Replaced(sl, p, m, new)[i] =
              IF p < i /\ i <= m THEN new[i - p] ELSE sl[i]
    BY SMTT(30), <1>11, <2>1, ReplacedPoints
  <2> QED BY Zenon, <2>2, <2>3
<1>13. ASSUME NEW i \in 1..Len(sl), p < i, i <= m
       PROVE  i \in 1..N /\ sl[i] = xl[i] /\ tl[i] = yl[i]
  <2>1. i - p \in 1..m - p /\ p + (i - p) = i /\ i \in from + 1..m + after /\ i \in 1..N
    BY SMTT(60), <1>7, <1>13
  <2> QED BY <1>9, <1>11, <1>12, <1>13, <2>1
<1>14. ASSUME NEW i \in 1..Len(sl), ~(p < i /\ i <= m)
       PROVE  tl[i] = sl[i] /\ (i \in 1..N => xl[i] = yl[i])
  <2>1. tl[i] = sl[i]
    BY <1>12, <1>14
  <2>2. CASE i <= p
    <3>1. i \in 1..p
      BY <1>7, <2>2
    <3> QED BY <1>7, <2>1, <3>1
  <2>3. CASE i > m
    <3> SUFFICES ASSUME i \in 1..N PROVE xl[i] = yl[i]
      BY <2>1
    <3>1. i - m \in 1..q /\ m + (i - m) = i
      BY <1>7, <2>3
    <3> QED BY <1>7, <1>8, <3>1
  <2> QED BY <1>7, <1>14, <2>2, <2>3
<1>15. DOMAIN sl = 1..Len(sl) /\ DOMAIN xl = 1..N
  BY <1>5, LenProperties
<1>16. ASSUME NEW i \in DOMAIN sl
       PROVE  IF i \in DOMAIN xl /\ xl[i] # yl[i] THEN sl[i] = xl[i] /\ tl[i] = yl[i]
              ELSE tl[i] = sl[i]
  <2>1. i \in 1..Len(sl)
    BY <1>15
  <2>2. CASE p < i /\ i <= m
    <3>1. i \in DOMAIN xl /\ sl[i] = xl[i] /\ tl[i] = yl[i]
      BY <1>13, <1>15, <2>1, <2>2
    <3> QED BY Zenon, <3>1
  <2>3. CASE ~(p < i /\ i <= m)
    <3>1. tl[i] = sl[i] /\ (i \in DOMAIN xl => xl[i] = yl[i])
      BY <1>14, <1>15, <2>1, <2>3
    <3> QED BY Zenon, <3>1
  <2> QED BY <2>2, <2>3
<1> QED BY Zenon, <1>1, <1>2, <1>3, <1>4, <1>12, <1>16 DEF LinesEdited

\* The edit on what it was made of.
LEMMA EditItself ==
  ASSUME NEW x \in AllTexts, NEW y \in AllTexts, NEW t \in AllTexts, x # y, t.lines # <<>>,
         NEW p, NEW q, NEW m, NEW n, NEW from \in Nat, NEW after \in Nat, from <= p, after <= q,
         InCommon(x, y, p, q, m, n), HunkDoes(x, y, p, m, n, from, after, x, t)
  PROVE  t = y
<1>1. PICK xl \in Seq(Lines) : xl = x.lines
  BY DEF AllTexts
<1>2. PICK yl \in Seq(Lines) : yl = y.lines
  BY DEF AllTexts
<1>3. PICK tl \in Seq(Lines) : tl = t.lines
  BY DEF AllTexts
<1>4. PICK mx \in Nat : mx = Len(xl)
  OBVIOUS
<1>5. PICK my \in Nat : my = Len(yl)
  OBVIOUS
<1>6. /\ p \in Nat /\ q \in Nat /\ m \in Nat /\ n \in Nat
      /\ m + q = mx /\ n + q = my /\ p <= m /\ p <= n
      /\ \A i \in 1..p : xl[i] = yl[i]
      /\ \A i \in 1..q : xl[m + i] = yl[n + i]
  BY <1>1, <1>2, <1>4, <1>5 DEF InCommon
<1>7. tl = Replaced(xl, p, m, SubSeq(yl, p + 1, n))
  BY <1>1, <1>2, <1>3 DEF HunkDoes
<1>8. SubSeq(xl, 0 + 1, p) = SubSeq(yl, 0 + 1, p)
  <2>1. p <= Len(xl) /\ p <= Len(yl) /\ \A i \in 0 + 1..p : xl[i] = yl[i]
    BY SMTT(30), <1>4, <1>5, <1>6
  <2> QED BY SMTT(30), <1>6, <2>1, PointsAgree
<1>9. SubSeq(xl, m + 1, mx) = SubSeq(yl, n + 1, my)
  <2>1. PICK u \in Seq(Lines) : u = SubSeq(xl, m + 1, mx)
    <3>1. SubSeq(xl, m + 1, mx) \in Seq(Lines)
      BY SMTT(30), <1>4, <1>6, PartTyped
    <3> QED BY <3>1
  <2>2. PICK v \in Seq(Lines) : v = SubSeq(yl, n + 1, my)
    <3>1. SubSeq(yl, n + 1, my) \in Seq(Lines)
      BY <1>5, <1>6, PartTyped
    <3> QED BY <3>1
  <2>3. Len(u) = q /\ \A i \in 1..q : u[i] = xl[m + i]
    <3>1. m + 1 \in Int /\ mx \in Int /\ 1 <= m + 1 /\ mx <= Len(xl)
      BY <1>4, <1>6
    <3>2. /\ Len(u) = IF m + 1 <= mx THEN mx - (m + 1) + 1 ELSE 0
          /\ \A i \in 1..mx - (m + 1) + 1 : u[i] = xl[(m + 1) + i - 1]
      BY SMTT(30), <2>1, <3>1, Parts
    <3>3. Len(u) = q
      BY <1>6, <3>2
    <3>4. ASSUME NEW i \in 1..q PROVE u[i] = xl[m + i]
      <4>1. i \in 1..mx - (m + 1) + 1 /\ (m + 1) + i - 1 = m + i
        BY <1>6
      <4> QED BY <3>2, <4>1
    <3> QED BY <3>3, <3>4
  <2>4. Len(v) = q /\ \A i \in 1..q : v[i] = yl[n + i]
    <3>1. n + 1 \in Int /\ my \in Int /\ 1 <= n + 1 /\ my <= Len(yl)
      BY <1>5, <1>6
    <3>2. /\ Len(v) = IF n + 1 <= my THEN my - (n + 1) + 1 ELSE 0
          /\ \A i \in 1..my - (n + 1) + 1 : v[i] = yl[(n + 1) + i - 1]
      BY SMTT(30), <2>2, <3>1, Parts
    <3>3. Len(v) = q
      BY <1>6, <3>2
    <3>4. ASSUME NEW i \in 1..q PROVE v[i] = yl[n + i]
      <4>1. i \in 1..my - (n + 1) + 1 /\ (n + 1) + i - 1 = n + i
        BY <1>6
      <4> QED BY <3>2, <4>1
    <3> QED BY <3>3, <3>4
  <2>5. u = v
    <3>1. Len(u) = Len(v) /\ \A i \in 1..Len(u) : u[i] = v[i]
      BY <1>6, <2>3, <2>4
    <3> QED BY <3>1, SeqEqual
  <2> QED BY <2>1, <2>2, <2>5
<1>10. tl = yl
  <2>1. PICK zero \in Nat : zero = 0
    OBVIOUS
  <2>2. zero <= p /\ n <= Len(yl) /\ n <= my /\ my <= Len(yl) /\ zero <= n
    BY <1>5, <1>6, <2>1
  <2>3. Cat(SubSeq(yl, zero + 1, p), SubSeq(yl, p + 1, n)) = SubSeq(yl, zero + 1, n)
    BY SMTT(30), <1>6, <2>2, CatAdjacent
  <2>4. Cat(SubSeq(yl, zero + 1, n), SubSeq(yl, n + 1, my)) = SubSeq(yl, zero + 1, my)
    BY SMTT(30), <1>6, <2>2, CatAdjacent
  <2>5. 0 + 1 = 1
    OBVIOUS
  <2>6. SubSeq(yl, 1, my) = yl
    BY <1>5, SubSeqFull
  <2>7. tl = Cat(Cat(SubSeq(yl, 1, p), SubSeq(yl, p + 1, n)), SubSeq(yl, n + 1, my))
    BY Zenon, <1>4, <1>7, <1>8, <1>9, <2>5 DEF Replaced, Cat
  <2> QED BY Zenon, <2>1, <2>3, <2>4, <2>5, <2>6, <2>7
<1>11. x.nl \in BOOLEAN /\ y.nl \in BOOLEAN
  BY DEF AllTexts
<1>12. q > 0 => x.nl = y.nl
  BY DEF InCommon
<1>13. t.nl = IF m + after = mx THEN ~(n + after - from > 0 /\ n + after = my /\ ~y.nl) ELSE x.nl
  BY Zenon, <1>1, <1>2, <1>4, <1>5 DEF HunkDoes
<1>14. t.nl <=> y.nl
  <2>1. CASE m + after # mx
    <3>1. q > 0
      BY <1>6, <2>1
    <3> QED BY Zenon, <1>12, <1>13, <2>1, <3>1
  <2>2. CASE m + after = mx /\ my > from
    <3>1. n + after = my /\ n + after - from > 0
      BY <1>6, <2>2
    <3> QED BY Zenon, <1>13, <2>2, <3>1
  <2>3. CASE m + after = mx /\ my <= from
    <3>1. q = 0 /\ n = p /\ my = p /\ n + after - from = 0
      BY <1>6, <2>3
    <3>2. p > 0
      <4>1. my # 0
        <5> SUFFICES ASSUME my = 0 PROVE FALSE
          OBVIOUS
        <5>1. yl = <<>>
          BY <1>5
        <5> QED BY <1>3, <1>10, <5>1
      <4> QED BY <1>6, <3>1, <4>1
    <3>3. y.nl
      <4>1. CASE m = p
        <5>1. x.nl = y.nl
          BY Zenon, <3>1, <3>2, <4>1 DEF InCommon
        <5>2. mx = my /\ Len(xl) = Len(yl) /\ \A i \in 1..Len(xl) : xl[i] = yl[i]
          BY <1>4, <1>5, <1>6, <3>1, <4>1
        <5>3. xl = yl
          BY <5>2, SeqEqual
        <5>4. x = y
          BY Zenon, <1>1, <1>2, <5>1, <5>3, SameText
        <5> QED BY <5>4
      <4>2. CASE m # p
        BY Zenon, <3>1, <3>2, <4>2 DEF InCommon
      <4> QED BY <4>1, <4>2
    <3>4. ~(n + after - from > 0)
      BY <3>1
    <3> QED BY Zenon, <1>13, <2>3, <3>3, <3>4
  <2>4. my > from \/ my <= from
    BY <1>5
  <2> QED BY Zenon, <2>1, <2>2, <2>3, <2>4
<1> QED BY Zenon, <1>2, <1>3, <1>10, <1>14, SameText

-------------------------------------------------------------------------------
(* A hunk for every line that changed.                                     *)

LineHunk(x, y, n) == HunkFor(x, y, n - 1, n, n, 0)

LEMMA OneLine == \A s \in Seq(Lines) : \A n \in 1..Len(s) : SubSeq(s, n, n) = <<s[n]>>
<1> SUFFICES ASSUME NEW s \in Seq(Lines), NEW n \in 1..Len(s) PROVE SubSeq(s, n, n) = <<s[n]>>
  OBVIOUS
<1>1. n \in n..Len(s) /\ n \in Int /\ n + 1 \in Int /\ n < n + 1
  OBVIOUS
<1>2. SubSeq(s, n, n) = <<s[n]>> \o SubSeq(s, n + 1, n)
  BY <1>1, SubSeqRecursiveFirst
<1>3. SubSeq(s, n + 1, n) = <<>>
  BY <1>1, SubSeqEmpty
<1>4. s[n] \in Lines
  BY ElementOfSeq
<1>5. <<s[n]>> \in Seq(Lines)
  BY <1>4
<1>6. <<s[n]>> \o <<>> = <<s[n]>>
  BY <1>5, ConcatEmptySeq
<1> QED BY Zenon, <1>2, <1>3, <1>6

LEMMA LineHunkSays ==
  ASSUME NEW x \in AllTexts, NEW y \in AllTexts, Len(x.lines) = Len(y.lines),
         NEW n \in 1..Len(x.lines)
  PROVE  /\ LineHunk(x, y, n) \in Hunks /\ FirstLine(LineHunk(x, y, n)) = n - 1
         /\ OldSide(LineHunk(x, y, n).body) = <<x.lines[n]>>
         /\ NewSide(LineHunk(x, y, n).body) = <<y.lines[n]>>
         /\ LineHunk(x, y, n).newEnd <=> n = Len(y.lines) /\ ~y.nl
<1>1. PICK h : h = LineHunk(x, y, n)
  OBVIOUS
<1>2. PICK xl \in Seq(Lines) : xl = x.lines
  BY DEF AllTexts
<1>3. PICK yl \in Seq(Lines) : yl = y.lines
  BY DEF AllTexts
<1>4. PICK N \in Nat : N = Len(xl)
  OBVIOUS
<1>5. Len(yl) = N /\ n \in 1..N /\ n \in Nat /\ n - 1 \in Nat
  BY <1>2, <1>3, <1>4
<1>6. Exchanges(x, y, n - 1, n, n)
  BY <1>2, <1>3, <1>4, <1>5 DEF Exchanges
<1>7. h \in Hunks
  BY <1>1, <1>6, HunkForTyped DEF LineHunk
<1>8. PICK from \in Nat : from = Larger((n - 1) - 0, 0) /\ from = n - 1
  BY <1>5 DEF Larger
<1>9. PICK after \in Nat : after = Smaller(0, Len(x.lines) - n) /\ after = 0
  BY <1>2, <1>4, <1>5 DEF Smaller
<1>10. HunkSays(x, y, n - 1, n, n, from, after, h)
  <2>1. PICK zero \in Nat : zero = 0
    OBVIOUS
  <2>2. HunkSays(x, y, n - 1, n, n, Larger((n - 1) - zero, 0), Smaller(zero, Len(x.lines) - n),
                 HunkFor(x, y, n - 1, n, n, zero))
    BY <1>6, HunkMade
  <2> QED BY Zenon, <1>1, <1>8, <1>9, <2>1, <2>2 DEF LineHunk
<1>11. /\ FirstLine(h) = from
       /\ OldSide(h.body) = SubSeq(xl, from + 1, n + after)
       /\ NewSide(h.body) = SubSeq(xl, from + 1, n - 1) \o SubSeq(yl, (n - 1) + 1, n)
                            \o SubSeq(xl, n + 1, n + after)
       /\ h.newEnd <=> n + after - from > 0 /\ n + after = Len(y.lines) /\ ~y.nl
  BY Zenon, <1>2, <1>3, <1>10 DEF HunkSays
<1>12. from + 1 = n /\ n + after = n /\ (n - 1) + 1 = n /\ n + after - from > 0
  BY <1>5, <1>8, <1>9
<1>13. OldSide(h.body) = <<xl[n]>>
  <2>1. SubSeq(xl, n, n) = <<xl[n]>>
    BY <1>4, <1>5, OneLine
  <2> QED BY Zenon, <1>11, <1>12, <2>1
<1>14. NewSide(h.body) = <<yl[n]>>
  <2>1. SubSeq(yl, n, n) = <<yl[n]>>
    BY <1>5, OneLine
  <2>2. SubSeq(xl, n, n - 1) = <<>> /\ SubSeq(xl, n + 1, n) = <<>>
    <3>1. n \in Int /\ n - 1 \in Int /\ n + 1 \in Int /\ n - 1 < n /\ n < n + 1
      BY <1>5
    <3> QED BY <3>1, SubSeqEmpty
  <2>3. yl[n] \in Lines
    BY <1>5, ElementOfSeq
  <2>4. <<yl[n]>> \in Seq(Lines)
    BY <2>3
  <2>5. <<>> \o <<yl[n]>> = <<yl[n]>> /\ <<yl[n]>> \o <<>> = <<yl[n]>>
    BY <2>4, ConcatEmptySeq
  <2> QED BY Zenon, <1>11, <1>12, <2>1, <2>2, <2>5
<1>15. h.newEnd <=> n = Len(y.lines) /\ ~y.nl
  BY Zenon, <1>11, <1>12
<1>16. FirstLine(h) = n - 1
  BY Zenon, <1>8, <1>11
<1> QED BY Zenon, <1>1, <1>2, <1>3, <1>7, <1>13, <1>14, <1>15, <1>16

\* The hunks for the first lines begin the hunks for more.
Begins(l, m) == Len(l) <= Len(m) /\ \A i \in 1..Len(l) : m[i] = l[i]

LEMMA LineHunksBegin ==
  ASSUME NEW x \in AllTexts, NEW y \in AllTexts, Len(x.lines) = Len(y.lines)
  PROVE  \A n \in 0..Len(x.lines) : \A j \in 0..n : Begins(LineHunks(x, y)[j], LineHunks(x, y)[n])
<1>1. PICK N \in Nat : N = Len(x.lines)
  BY DEF AllTexts
<1>2. PICK l : l = LineHunks(x, y)
  OBVIOUS
<1>3. /\ \A n \in 1..N : l[n] = IF WithEnd(x, n) = WithEnd(y, n) THEN l[n - 1]
                                ELSE Append(l[n - 1], LineHunk(x, y, n))
      /\ \A n \in 0..N : l[n] \in Seq(Hunks)
  BY <1>1, <1>2, LineHunksMove DEF LineHunk
<1>4. PICK P : \A n : n \in P <=> n \in 0..N /\ \A j \in 0..n : Begins(l[j], l[n])
  <2>1. \A n : n \in {k \in 0..N : \A j \in 0..k : Begins(l[j], l[k])} <=>
               n \in 0..N /\ \A j \in 0..n : Begins(l[j], l[n])
    OBVIOUS
  <2> QED BY <2>1
<1>5. ASSUME NEW n \in 0..N PROVE Begins(l[n], l[n])
  <2>1. Len(l[n]) \in Nat
    BY <1>3
  <2> QED BY <2>1 DEF Begins
<1>6. 0 \in P
  <2>1. 0 \in 0..N /\ \A j \in 0..0 : j = 0
    BY <1>1
  <2> QED BY <1>4, <1>5, <2>1
<1>7. \A n \in 1..N : n - 1 \in P => n \in P
  <2> SUFFICES ASSUME NEW n \in 1..N, n - 1 \in P, NEW j \in 0..n PROVE Begins(l[j], l[n])
    <3>1. \A n \in 1..N : n \in 0..N
      BY <1>1
    <3> QED BY <1>4, <3>1
  <2>1. n \in 0..N /\ n - 1 \in 0..N
    BY <1>1
  <2>2. CASE j = n
    BY <1>5, <2>1, <2>2
  <2>3. CASE j # n
    <3>1. j \in 0..n - 1 /\ j \in 0..N
      BY <1>1, <2>3
    <3>2. Begins(l[j], l[n - 1])
      BY <1>4, <3>1
    <3>3. PICK before \in Seq(Hunks) : before = l[n - 1]
      BY <1>3, <2>1
    <3>4. PICK h \in Hunks : h = LineHunk(x, y, n)
      BY <1>1, LineHunkSays
    <3>5. l[n] = before \/ l[n] = Append(before, h)
      BY <1>3, <3>3, <3>4
    <3>6. PICK first \in Seq(Hunks) : first = l[j]
      BY <1>3, <3>1
    <3>7. Len(first) <= Len(before) /\ \A i \in 1..Len(first) : before[i] = first[i]
      BY <3>2, <3>3, <3>6 DEF Begins
    <3>8. CASE l[n] = before
      BY <3>6, <3>7, <3>8 DEF Begins
    <3>9. CASE l[n] = Append(before, h)
      <4>1. PICK more : more = Append(before, h)
        OBVIOUS
      <4>2. Len(more) = Len(before) + 1 /\ \A i \in 1..Len(before) : more[i] = before[i]
        BY <4>1, AppendProperties
      <4>3. Len(first) <= Len(more) /\ \A i \in 1..Len(first) : more[i] = first[i]
        BY <3>7, <4>2
      <4> QED BY Zenon, <3>6, <3>9, <4>1, <4>3 DEF Begins
    <3> QED BY <3>5, <3>8, <3>9
  <2> QED BY <2>2, <2>3
<1>8. \A n \in 0..N : n \in P
  BY <1>1, <1>6, <1>7, Counted
<1> QED BY <1>1, <1>2, <1>4, <1>8

\* What has been done after the hunks for the first n lines: every line up to the
\* cursor is edited, and no line behind it, up to the n-th, changes.
LinesDone(x, y, s, n, d) ==
    /\ d.cursor \in 0..n /\ d.cursor <= Len(s.lines) /\ Len(d.out) = d.cursor
    /\ \A i \in 1..d.cursor :
          IF x.lines[i] # y.lines[i] THEN s.lines[i] = x.lines[i] /\ d.out[i] = y.lines[i]
          ELSE d.out[i] = s.lines[i]
    /\ \A i \in d.cursor + 1..n : WithEnd(x, i) = WithEnd(y, i)
    /\ s = x => IF d.cursor = Len(x.lines) /\ d.cursor > 0 THEN d.nl <=> y.nl ELSE d.nl = x.nl

LineTaken(x, y, s, n, before, h, d) ==
    /\ before.cursor <= n - 1 /\ n <= Len(s.lines) /\ s.lines[n] = x.lines[n] /\ d.cursor = n
    /\ d.out = before.out \o SubSeq(s.lines, before.cursor + 1, n - 1) \o <<y.lines[n]>>
    /\ d.nl = IF n = Len(s.lines) THEN ~h.newEnd ELSE before.nl

\* A hunk for a line copies what is in front of it and puts the new line in its place.
LEMMA LineHunkTaken ==
  ASSUME NEW x \in AllTexts, NEW y \in AllTexts, NEW s \in AllTexts, Len(x.lines) = Len(y.lines),
         NEW n \in 1..Len(x.lines), NEW before \in DoneStates,
         ApplyHunk(s, before, LineHunk(x, y, n)).ok
  PROVE  /\ before.ok
         /\ LineTaken(x, y, s, n, before, LineHunk(x, y, n), ApplyHunk(s, before, LineHunk(x, y, n)))
<1>1. PICK h \in Hunks : h = LineHunk(x, y, n)
  BY LineHunkSays
<1>2. /\ FirstLine(h) = n - 1 /\ OldSide(h.body) = <<x.lines[n]>> /\ NewSide(h.body) = <<y.lines[n]>>
  <2>1. /\ FirstLine(LineHunk(x, y, n)) = n - 1
        /\ OldSide(LineHunk(x, y, n).body) = <<x.lines[n]>>
        /\ NewSide(LineHunk(x, y, n).body) = <<y.lines[n]>>
    BY LineHunkSays
  <2> QED BY Zenon, <1>1, <2>1
<1>3. PICK d : d = ApplyHunk(s, before, h)
  OBVIOUS
<1>4. /\ before.ok /\ Fits(s, before.cursor, h)
      /\ ApplyHunk(s, before, h).cursor = FirstLine(h) + Len(OldSide(h.body))
      /\ ApplyHunk(s, before, h).out =
           before.out \o SubSeq(s.lines, before.cursor + 1, FirstLine(h)) \o NewSide(h.body)
      /\ ApplyHunk(s, before, h).nl =
           IF FirstLine(h) + Len(OldSide(h.body)) = Len(s.lines) THEN ~h.newEnd ELSE before.nl
  <2>1. ApplyHunk(s, before, h).ok
    BY Zenon, <1>1
  <2> QED BY ZenonT(60), <2>1, HunkApplied
<1>5. Len(OldSide(h.body)) = 1
  BY <1>2
<1>6. n \in Nat /\ Len(x.lines) \in Nat
  BY DEF AllTexts
<1>7. PICK last : last = FirstLine(h) + Len(OldSide(h.body))
  OBVIOUS
<1>8. last = n
  BY <1>2, <1>5, <1>6, <1>7
<1>9. /\ before.cursor <= n - 1 /\ last <= Len(s.lines)
      /\ SubSeq(s.lines, (n - 1) + 1, last) = <<x.lines[n]>>
  BY <1>2, <1>4, <1>7 DEF Fits
<1>10. n <= Len(s.lines)
  BY <1>8, <1>9
<1>11. s.lines[n] = x.lines[n]
  <2>1. PICK sl \in Seq(Lines) : sl = s.lines
    BY DEF AllTexts
  <2>2. n \in 1..Len(sl) /\ (n - 1) + 1 = n
    BY <1>6, <1>10, <2>1
  <2>3. SubSeq(sl, n, n) = <<sl[n]>>
    BY <2>2, OneLine
  <2>4. <<sl[n]>> = <<x.lines[n]>>
    BY Zenon, <1>8, <1>9, <2>1, <2>2, <2>3
  <2>5. sl[n] = x.lines[n]
    BY <2>4
  <2> QED BY Zenon, <2>1, <2>5
<1> QED BY Zenon, <1>1, <1>2, <1>4, <1>7, <1>8, <1>9, <1>10, <1>11 DEF LineTaken

LEMMA LinesDoneStep ==
  ASSUME NEW x \in AllTexts, NEW y \in AllTexts, NEW s \in AllTexts, Len(x.lines) = Len(y.lines),
         NEW n \in 1..Len(x.lines), NEW before \in DoneStates, LinesDone(x, y, s, n - 1, before),
         ApplyHunk(s, before, LineHunk(x, y, n)).ok
  PROVE  LinesDone(x, y, s, n, ApplyHunk(s, before, LineHunk(x, y, n)))
<1>1. PICK d \in DoneStates : d = ApplyHunk(s, before, LineHunk(x, y, n))
  <2>1. PICK h \in Hunks : h = LineHunk(x, y, n)
    BY LineHunkSays
  <2>2. ApplyHunk(s, before, h) \in DoneStates
    BY HunkTyped
  <2> QED BY Zenon, <2>1, <2>2
<1>2. PICK xl \in Seq(Lines) : xl = x.lines
  BY DEF AllTexts
<1>3. PICK yl \in Seq(Lines) : yl = y.lines
  BY DEF AllTexts
<1>4. PICK sl \in Seq(Lines) : sl = s.lines
  BY DEF AllTexts
<1>5. PICK out \in Seq(Lines) : out = before.out
  BY DEF DoneStates
<1>6. PICK c \in Nat : c = before.cursor
  BY DEF DoneStates
<1>7. PICK N \in Nat : N = Len(xl)
  OBVIOUS
<1>8. Len(yl) = N /\ n \in 1..N /\ n \in Nat /\ n - 1 \in Nat
  BY <1>2, <1>3, <1>7
<1>9. /\ c <= n - 1 /\ n <= Len(sl) /\ sl[n] = xl[n] /\ d.cursor = n
      /\ d.out = out \o SubSeq(sl, c + 1, n - 1) \o <<yl[n]>>
      /\ d.nl = IF n = Len(sl) THEN ~LineHunk(x, y, n).newEnd ELSE before.nl
  <2>1. LineTaken(x, y, s, n, before, LineHunk(x, y, n), ApplyHunk(s, before, LineHunk(x, y, n)))
    BY LineHunkTaken
  <2> QED BY ZenonT(60), <1>1, <1>2, <1>3, <1>4, <1>5, <1>6, <2>1 DEF LineTaken
<1>10. /\ Len(out) = c
       /\ \A i \in 1..c : IF xl[i] # yl[i] THEN sl[i] = xl[i] /\ out[i] = yl[i] ELSE out[i] = sl[i]
       /\ \A i \in c + 1..n - 1 : WithEnd(x, i) = WithEnd(y, i)
       /\ s = x => IF c = N /\ c > 0 THEN before.nl <=> y.nl ELSE before.nl = x.nl
  BY Zenon, <1>2, <1>3, <1>4, <1>5, <1>6, <1>7 DEF LinesDone
<1>11. PICK part \in Seq(Lines) : part = SubSeq(sl, c + 1, n - 1)
  <2>1. n - 1 <= Len(sl)
    BY <1>8, <1>9
  <2>2. SubSeq(sl, c + 1, n - 1) \in Seq(Lines)
    BY <1>8, <2>1, PartTyped
  <2> QED BY <2>2
<1>12. Len(part) = n - 1 - c /\ \A i \in 1..n - 1 - c : part[i] = sl[c + i]
  <2>1. c + 1 \in Int /\ n - 1 \in Int /\ 1 <= c + 1 /\ n - 1 <= Len(sl)
    BY <1>8, <1>9
  <2>2. /\ Len(part) = IF c + 1 <= n - 1 THEN (n - 1) - (c + 1) + 1 ELSE 0
        /\ \A i \in 1..(n - 1) - (c + 1) + 1 : part[i] = sl[(c + 1) + i - 1]
    BY <1>11, <2>1, Parts
  <2>3. Len(part) = n - 1 - c
    BY <1>8, <1>9, <2>2
  <2>4. ASSUME NEW i \in 1..n - 1 - c PROVE part[i] = sl[c + i]
    <3>1. i \in 1..(n - 1) - (c + 1) + 1 /\ (c + 1) + i - 1 = c + i
      BY <1>8
    <3> QED BY <2>2, <3>1
  <2> QED BY <2>3, <2>4
<1>13. PICK l \in Lines : l = yl[n]
  BY <1>8, ElementOfSeq
<1>14. PICK a \in Seq(Lines) : a = out \o part
  <2>1. out \o part \in Seq(Lines)
    OBVIOUS
  <2> QED BY <2>1
<1>15. Len(a) = n - 1 /\ \A i \in 1..n - 1 : a[i] = IF i <= c THEN out[i] ELSE sl[i]
  <2>1. Len(a) = Len(out) + Len(part) /\ \A i \in 1..Len(out) + Len(part) :
          a[i] = IF i <= Len(out) THEN out[i] ELSE part[i - Len(out)]
    BY <1>14, ConcatProperties
  <2>2. Len(out) + Len(part) = n - 1
    BY <1>8, <1>9, <1>10, <1>12
  <2>3. ASSUME NEW i \in 1..n - 1 PROVE a[i] = IF i <= c THEN out[i] ELSE sl[i]
    <3>1. a[i] = IF i <= c THEN out[i] ELSE part[i - c]
      BY <1>10, <2>1, <2>2
    <3>2. i > c => i - c \in 1..n - 1 - c /\ c + (i - c) = i
      BY <1>8
    <3> QED BY SMTT(30), <1>12, <3>1, <3>2
  <2> QED BY <2>1, <2>2, <2>3
<1>16. d.out = a \o <<l>>
  BY Zenon, <1>9, <1>11, <1>13, <1>14
<1>17. PICK b \in Seq(Lines) : b = d.out
  BY DEF DoneStates
<1>18. Len(b) = n /\ b[n] = l /\ \A i \in 1..n - 1 : b[i] = a[i]
  <2>1. <<l>> \in Seq(Lines) /\ Len(<<l>>) = 1 /\ <<l>>[1] = l
    OBVIOUS
  <2>2. PICK u \in Seq(Lines) : u = <<l>>
    BY <2>1
  <2>3. Len(u) = 1 /\ u[1] = l
    BY <2>2
  <2>4. b = a \o u
    BY Zenon, <1>16, <1>17, <2>2
  <2>5. Len(b) = Len(a) + Len(u) /\ \A i \in 1..Len(a) + Len(u) :
          b[i] = IF i <= Len(a) THEN a[i] ELSE u[i - Len(a)]
    BY <2>4, ConcatProperties
  <2>6. Len(a) + Len(u) = n /\ n - Len(a) = 1 /\ ~(n <= Len(a)) /\ n \in 1..n
    BY <1>8, <1>15, <2>3
  <2>7. b[n] = l
    BY <2>3, <2>5, <2>6
  <2>8. \A i \in 1..n - 1 : i \in 1..n /\ i <= Len(a)
    BY <1>8, <1>15
  <2> QED BY <2>5, <2>6, <2>7, <2>8
<1>19. ASSUME NEW i \in 1..n
       PROVE  IF xl[i] # yl[i] THEN sl[i] = xl[i] /\ b[i] = yl[i] ELSE b[i] = sl[i]
  <2>1. CASE i = n
    <3>1. sl[i] = xl[i] /\ b[i] = yl[i]
      BY <1>9, <1>13, <1>18, <2>1
    <3> QED BY Zenon, <3>1
  <2>2. CASE i # n /\ i <= c
    <3>1. i \in 1..c /\ i \in 1..n - 1
      BY <1>8, <2>2
    <3>2. b[i] = out[i]
      BY <1>15, <1>18, <2>2, <3>1
    <3> QED BY Zenon, <1>10, <3>1, <3>2
  <2>3. CASE i # n /\ i > c
    <3>1. i \in c + 1..n - 1 /\ i \in 1..n - 1 /\ ~(i <= c)
      BY <1>8, <2>3
    <3>2. b[i] = sl[i]
      BY <1>15, <1>18, <3>1
    <3>3. xl[i] = yl[i]
      <4>1. WithEnd(x, i) = WithEnd(y, i)
        BY <1>10, <3>1
      <4>2. x.lines[i] = y.lines[i]
        BY SMTT(30), <4>1, EndsAlike
      <4> QED BY Zenon, <1>2, <1>3, <4>2
    <3> QED BY Zenon, <3>2, <3>3
  <2>4. i <= c \/ i > c
    BY <1>8
  <2> QED BY Zenon, <2>1, <2>2, <2>3, <2>4
<1>20. s = x => IF n = N /\ n > 0 THEN d.nl <=> y.nl ELSE d.nl = x.nl
  <2> SUFFICES ASSUME s = x PROVE IF n = N /\ n > 0 THEN d.nl <=> y.nl ELSE d.nl = x.nl
    OBVIOUS
  <2>1. Len(sl) = N
    BY Zenon, <1>2, <1>4, <1>7
  <2>2. LineHunk(x, y, n).newEnd <=> n = N /\ ~y.nl
    BY Zenon, <1>3, <1>8, LineHunkSays
  <2>3. CASE n = N
    <3>1. n > 0
      BY <1>8
    <3>2. d.nl <=> y.nl
      BY Zenon, <1>9, <2>1, <2>2, <2>3
    <3> QED BY Zenon, <2>3, <3>1, <3>2
  <2>4. CASE n # N
    <3>1. c # N
      BY <1>8, <1>9
    <3>2. before.nl = x.nl
      BY Zenon, <1>10, <3>1
    <3> QED BY Zenon, <1>9, <2>1, <2>4, <3>2
  <2> QED BY <2>3, <2>4
<1>21. d.cursor \in 0..n /\ d.cursor = n /\ d.cursor <= Len(sl) /\ Len(b) = d.cursor
  BY <1>8, <1>9, <1>18
<1>22. \A i \in d.cursor + 1..n : WithEnd(x, i) = WithEnd(y, i)
  BY <1>8, <1>21
<1> QED BY ZenonT(60), <1>1, <1>2, <1>3, <1>4, <1>7, <1>17, <1>19, <1>20, <1>21, <1>22 DEF LinesDone

LEMMA LinesDoneWell ==
  ASSUME NEW x \in AllTexts, NEW y \in AllTexts, NEW s \in AllTexts, Len(x.lines) = Len(y.lines),
         NEW N \in Nat, N = Len(x.lines), NEW patch \in Seq(Hunks), patch = LineHunks(x, y)[N]
  PROVE  \A n \in 0..N :
           /\ Len(LineHunks(x, y)[n]) \in 0..Len(patch)
           /\ ApplyHunks(s, patch)[Len(LineHunks(x, y)[n])].ok =>
                LinesDone(x, y, s, n, ApplyHunks(s, patch)[Len(LineHunks(x, y)[n])])
<1>1. PICK l : l = LineHunks(x, y)
  OBVIOUS
<1>2. PICK t : t = ApplyHunks(s, patch)
  OBVIOUS
<1>3. /\ l[0] = <<>>
      /\ \A n \in 1..N : l[n] = IF WithEnd(x, n) = WithEnd(y, n) THEN l[n - 1]
                                ELSE Append(l[n - 1], LineHunk(x, y, n))
      /\ \A n \in 0..N : l[n] \in Seq(Hunks)
  BY <1>1, LineHunksMove DEF LineHunk
<1>4. /\ t[0] = Undone(s, patch)
      /\ \A k \in 1..Len(patch) : t[k] = ApplyHunk(s, t[k - 1], patch[k])
      /\ \A k \in 0..Len(patch) : t[k] \in DoneStates
  BY <1>2, HunksMove
<1>5. \A n \in 0..N : Begins(l[n], patch)
  <2>1. N \in 0..N
    OBVIOUS
  <2> QED BY <1>1, <2>1, LineHunksBegin
<1>6. \A n \in 0..N : Len(l[n]) \in 0..Len(patch)
  <2> SUFFICES ASSUME NEW n \in 0..N PROVE Len(l[n]) \in 0..Len(patch)
    OBVIOUS
  <2>1. l[n] \in Seq(Hunks) /\ Len(l[n]) <= Len(patch)
    BY <1>3, <1>5 DEF Begins
  <2> QED BY <2>1
<1>7. PICK P : \A n : n \in P <=> n \in 0..N /\ (t[Len(l[n])].ok => LinesDone(x, y, s, n, t[Len(l[n])]))
  <2>1. \A n : n \in {k \in 0..N : t[Len(l[k])].ok => LinesDone(x, y, s, k, t[Len(l[k])])} <=>
               n \in 0..N /\ (t[Len(l[n])].ok => LinesDone(x, y, s, n, t[Len(l[n])]))
    OBVIOUS
  <2> QED BY <2>1
<1>8. 0 \in P
  <2>1. Len(l[0]) = 0 /\ 0 \in 0..N
    BY <1>3
  <2>2. PICK d : d = t[0]
    OBVIOUS
  <2>3. d.cursor = 0 /\ d.out = <<>> /\ d.nl = s.nl
    BY <1>4, <2>2 DEF Undone
  <2>4. /\ d.cursor \in 0..0 /\ d.cursor <= Len(s.lines) /\ Len(d.out) = d.cursor
        /\ \A i \in 1..d.cursor :
              IF x.lines[i] # y.lines[i] THEN s.lines[i] = x.lines[i] /\ d.out[i] = y.lines[i]
              ELSE d.out[i] = s.lines[i]
        /\ \A i \in d.cursor + 1..0 : WithEnd(x, i) = WithEnd(y, i)
        /\ ~(d.cursor > 0)
    <3>1. Len(s.lines) \in Nat
      BY DEF AllTexts
    <3>2. 1..0 = {} /\ 0 + 1..0 = {}
      OBVIOUS
    <3> QED BY <2>3, <3>1, <3>2
  <2>5. s = x => d.nl = x.nl
    BY <2>3
  <2>6. LinesDone(x, y, s, 0, d)
    BY Zenon, <2>4, <2>5 DEF LinesDone
  <2> QED BY <1>7, <2>1, <2>2, <2>6
<1>9. ASSUME NEW n \in 1..N, n - 1 \in P PROVE n \in P
  <2>1. n \in 0..N /\ n - 1 \in 0..N
    OBVIOUS
  <2>2. PICK k \in 0..Len(patch) : k = Len(l[n])
    BY <1>6, <2>1
  <2> SUFFICES ASSUME t[k].ok PROVE LinesDone(x, y, s, n, t[k])
    BY <1>7, <2>1, <2>2
  <2>3. CASE WithEnd(x, n) = WithEnd(y, n)
    <3>1. l[n] = l[n - 1]
      BY <1>3, <2>3
    <3>2. LinesDone(x, y, s, n - 1, t[k])
      BY <1>7, <1>9, <2>2, <3>1
    <3>3. PICK d \in DoneStates : d = t[k]
      BY <1>4
    <3>4. /\ d.cursor \in 0..n - 1 /\ d.cursor <= Len(s.lines) /\ Len(d.out) = d.cursor
          /\ \A i \in 1..d.cursor :
                IF x.lines[i] # y.lines[i] THEN s.lines[i] = x.lines[i] /\ d.out[i] = y.lines[i]
                ELSE d.out[i] = s.lines[i]
          /\ \A i \in d.cursor + 1..n - 1 : WithEnd(x, i) = WithEnd(y, i)
          /\ s = x => IF d.cursor = Len(x.lines) /\ d.cursor > 0 THEN d.nl <=> y.nl ELSE d.nl = x.nl
      BY Zenon, <3>2, <3>3 DEF LinesDone
    <3>5. d.cursor \in 0..n
      BY <3>4
    <3>6. ASSUME NEW i \in d.cursor + 1..n PROVE WithEnd(x, i) = WithEnd(y, i)
      <4>1. i = n \/ i \in d.cursor + 1..n - 1
        BY <3>5
      <4> QED BY Zenon, <2>3, <3>4, <4>1
    <3> QED BY Zenon, <3>3, <3>4, <3>5, <3>6 DEF LinesDone
  <2>4. CASE WithEnd(x, n) # WithEnd(y, n)
    <3>1. PICK h \in Hunks : h = LineHunk(x, y, n)
      BY LineHunkSays
    <3>2. PICK before \in Seq(Hunks) : before = l[n - 1]
      BY <1>3, <2>1
    <3>3. PICK now \in Seq(Hunks) : now = l[n]
      BY <1>3, <2>1
    <3>4. now = Append(before, h)
      BY <1>3, <2>4, <3>1, <3>2, <3>3
    <3>5. k = Len(before) + 1 /\ now[k] = h /\ k = Len(now)
      BY <2>2, <3>3, <3>4
    <3>6. k \in 1..Len(patch) /\ k \in 1..Len(now) /\ k - 1 = Len(before)
      BY <3>5
    <3>7. patch[k] = h
      <4>1. Begins(now, patch)
        BY <1>5, <2>1, <3>3
      <4> QED BY <3>5, <3>6, <4>1 DEF Begins
    <3>8. PICK prior \in DoneStates : prior = t[k - 1]
      <4>1. k - 1 \in 0..Len(patch)
        BY <3>6
      <4> QED BY <1>4, <4>1
    <3>9. t[k] = ApplyHunk(s, prior, h) /\ ApplyHunk(s, prior, h).ok
      BY Zenon, <1>4, <3>6, <3>7, <3>8
    <3>10. prior.ok
      BY <3>9, HunkApplied
    <3>11. LinesDone(x, y, s, n - 1, prior)
      BY Zenon, <1>7, <1>9, <3>2, <3>6, <3>8, <3>10
    <3>12. LinesDone(x, y, s, n, ApplyHunk(s, prior, LineHunk(x, y, n)))
      <4>1. ApplyHunk(s, prior, LineHunk(x, y, n)).ok
        BY Zenon, <3>1, <3>9
      <4> QED BY <3>11, <4>1, LinesDoneStep
    <3> QED BY Zenon, <3>1, <3>9, <3>12
  <2> QED BY <2>3, <2>4
<1>10. \A n \in 0..N : n \in P
  BY <1>8, <1>9, Counted
<1> QED BY Zenon, <1>1, <1>2, <1>6, <1>7, <1>10

\* A patch of such hunks, taken, makes the edit line by line.
LEMMA ManyHunksDo ==
  ASSUME NEW x \in AllTexts, NEW y \in AllTexts, NEW s \in AllTexts, NEW t \in AllTexts,
         Len(x.lines) = Len(y.lines), NEW patch \in Seq(Hunks),
         patch = LineHunks(x, y)[Len(x.lines)], t = ApplyPatch(s, patch), t.lines # <<>>
  PROVE  SameEdit(x, y, s, t)
<1>1. PICK xl \in Seq(Lines) : xl = x.lines
  BY DEF AllTexts
<1>2. PICK yl \in Seq(Lines) : yl = y.lines
  BY DEF AllTexts
<1>3. PICK sl \in Seq(Lines) : sl = s.lines
  BY DEF AllTexts
<1>4. PICK tl \in Seq(Lines) : tl = t.lines
  BY DEF AllTexts
<1>5. PICK N \in Nat : N = Len(xl)
  OBVIOUS
<1>6. Len(yl) = N /\ N = Len(x.lines)
  BY <1>1, <1>2, <1>5
<1>7. PICK d \in DoneStates : d = ApplyHunks(s, patch)[Len(patch)]
  <2>1. Len(patch) \in 0..Len(patch)
    OBVIOUS
  <2> QED BY <2>1, HunksMove
<1>8. /\ d.ok /\ tl = d.out \o SubSeq(sl, d.cursor + 1, Len(sl)) /\ t.nl = d.nl
  <2>1. ApplyPatch(s, patch).lines # <<>>
    OBVIOUS
  <2>2. /\ ApplyHunks(s, patch)[Len(patch)].ok
        /\ ApplyPatch(s, patch).lines =
             ApplyHunks(s, patch)[Len(patch)].out
             \o SubSeq(s.lines, ApplyHunks(s, patch)[Len(patch)].cursor + 1, Len(s.lines))
        /\ ApplyPatch(s, patch).nl = ApplyHunks(s, patch)[Len(patch)].nl
    BY ZenonT(60), <2>1, PatchTaken
  <2> QED BY Zenon, <1>3, <1>4, <1>7, <2>2
<1>9. LinesDone(x, y, s, N, d)
  <2>1. patch = LineHunks(x, y)[N] /\ N \in 0..N
    BY <1>6
  <2>2. ApplyHunks(s, patch)[Len(LineHunks(x, y)[N])].ok =>
          LinesDone(x, y, s, N, ApplyHunks(s, patch)[Len(LineHunks(x, y)[N])])
    BY <1>6, <2>1, LinesDoneWell
  <2> QED BY Zenon, <1>7, <1>8, <2>1, <2>2
<1>10. PICK c \in Nat : c = d.cursor
  BY DEF DoneStates
<1>11. PICK out \in Seq(Lines) : out = d.out
  BY DEF DoneStates
<1>12. /\ c \in 0..N /\ c <= Len(sl) /\ Len(out) = c
       /\ \A i \in 1..c : IF xl[i] # yl[i] THEN sl[i] = xl[i] /\ out[i] = yl[i] ELSE out[i] = sl[i]
       /\ \A i \in c + 1..N : WithEnd(x, i) = WithEnd(y, i)
       /\ s = x => IF c = N /\ c > 0 THEN d.nl <=> y.nl ELSE d.nl = x.nl
  BY Zenon, <1>1, <1>2, <1>3, <1>5, <1>9, <1>10, <1>11 DEF LinesDone
<1>13. PICK rest \in Seq(Lines) : rest = SubSeq(sl, c + 1, Len(sl))
  <2>1. Len(sl) \in Nat /\ Len(sl) <= Len(sl)
    OBVIOUS
  <2>2. SubSeq(sl, c + 1, Len(sl)) \in Seq(Lines)
    BY <2>1, PartTyped
  <2> QED BY <2>2
<1>14. Len(rest) = Len(sl) - c /\ \A i \in 1..Len(sl) - c : rest[i] = sl[c + i]
  <2>1. PICK L \in Nat : L = Len(sl)
    OBVIOUS
  <2>2. c + 1 \in Int /\ L \in Int /\ 1 <= c + 1 /\ L <= Len(sl)
    BY <2>1
  <2>3. /\ Len(rest) = IF c + 1 <= L THEN L - (c + 1) + 1 ELSE 0
        /\ \A i \in 1..L - (c + 1) + 1 : rest[i] = sl[(c + 1) + i - 1]
    BY <1>13, <2>1, <2>2, Parts
  <2>4. Len(rest) = L - c
    BY <1>12, <2>1, <2>3
  <2>5. ASSUME NEW i \in 1..L - c PROVE rest[i] = sl[c + i]
    <3>1. i \in 1..L - (c + 1) + 1 /\ (c + 1) + i - 1 = c + i
      OBVIOUS
    <3> QED BY <2>3, <3>1
  <2> QED BY <2>1, <2>4, <2>5
<1>15. Len(tl) = Len(sl) /\ \A i \in 1..Len(sl) : tl[i] = IF i <= c THEN out[i] ELSE sl[i]
  <2>1. tl = out \o rest
    BY Zenon, <1>8, <1>10, <1>11, <1>13
  <2>2. Len(tl) = Len(out) + Len(rest) /\ \A i \in 1..Len(out) + Len(rest) :
          tl[i] = IF i <= Len(out) THEN out[i] ELSE rest[i - Len(out)]
    BY <2>1, ConcatProperties
  <2>3. Len(out) + Len(rest) = Len(sl)
    BY <1>12, <1>14
  <2>4. ASSUME NEW i \in 1..Len(sl) PROVE tl[i] = IF i <= c THEN out[i] ELSE sl[i]
    <3>1. tl[i] = IF i <= c THEN out[i] ELSE rest[i - c]
      BY <1>12, <2>2, <2>3
    <3>2. i > c => i - c \in 1..Len(sl) - c /\ c + (i - c) = i
      OBVIOUS
    <3> QED BY <1>14, <3>1, <3>2
  <2> QED BY <2>2, <2>3, <2>4
<1>16. \A i \in c + 1..N : xl[i] = yl[i]
  <2> SUFFICES ASSUME NEW i \in c + 1..N PROVE xl[i] = yl[i]
    OBVIOUS
  <2>1. WithEnd(x, i) = WithEnd(y, i)
    BY <1>12
  <2>2. x.lines[i] = y.lines[i]
    BY <2>1, EndsAlike
  <2> QED BY Zenon, <1>1, <1>2, <2>2
<1>17. ASSUME NEW i \in 1..Len(sl)
       PROVE  IF i \in 1..N /\ xl[i] # yl[i] THEN sl[i] = xl[i] /\ tl[i] = yl[i] ELSE tl[i] = sl[i]
  <2>1. CASE i <= c
    <3>1. i \in 1..c /\ i \in 1..N
      BY <1>12, <2>1
    <3>2. tl[i] = out[i]
      BY <1>15, <2>1
    <3> QED BY Zenon, <1>12, <3>1, <3>2
  <2>2. CASE i > c
    <3>1. tl[i] = sl[i]
      BY <1>15, <2>2
    <3>2. i \in 1..N => i \in c + 1..N
      BY <2>2
    <3> QED BY Zenon, <1>16, <3>1, <3>2
  <2> QED BY <2>1, <2>2
<1>18. LinesEdited(x, y, s, t)
  <2>1. DOMAIN sl = 1..Len(sl) /\ DOMAIN xl = 1..N
    BY <1>5, LenProperties
  <2> QED BY Zenon, <1>1, <1>2, <1>3, <1>4, <1>15, <1>17, <2>1 DEF LinesEdited
<1>19. ASSUME s = x PROVE t = y
  <2>1. sl = xl /\ Len(sl) = N
    BY Zenon, <1>1, <1>3, <1>5, <1>19
  <2>2. \A i \in 1..N : tl[i] = yl[i]
    BY Zenon, <1>17, <2>1
  <2>3. tl = yl
    <3>1. Len(tl) = Len(yl) /\ \A i \in 1..Len(tl) : tl[i] = yl[i]
      BY Zenon, <1>6, <1>15, <2>1, <2>2
    <3> QED BY <3>1, SeqEqual
  <2>4. t.nl <=> y.nl
    <3>1. CASE c = N /\ c > 0
      BY Zenon, <1>8, <1>12, <1>19, <3>1
    <3>2. CASE ~(c = N /\ c > 0)
      <4>1. t.nl = x.nl
        BY Zenon, <1>8, <1>12, <1>19, <3>2
      <4>2. N # 0
        <5>1. Len(tl) = N /\ tl # <<>>
          BY Zenon, <1>4, <1>15, <2>1
        <5> QED BY <5>1, EmptySeq
      <4>3. N \in c + 1..N /\ ~(N < N)
        BY <1>12, <3>2, <4>2
      <4>4. WithEnd(x, N) = WithEnd(y, N)
        BY <1>12, <4>3
      <4>5. (N < Len(x.lines) \/ x.nl) = (N < Len(y.lines) \/ y.nl)
        BY <4>4, EndsAlike
      <4>6. Len(y.lines) = N
        BY <1>2, <1>6
      <4>7. x.nl <=> y.nl
        BY Zenon, <1>6, <4>3, <4>5, <4>6
      <4> QED BY Zenon, <4>1, <4>7
    <3> QED BY <3>1, <3>2
  <2> QED BY Zenon, <1>2, <1>4, <2>3, <2>4, SameText
<1> QED BY Zenon, <1>18, <1>19 DEF SameEdit, LinesEdited

\* A patch made of two texts, where it is taken, makes the edit between them.
LEMMA PatchIsEdit ==
  ASSUME NEW x \in AllTexts, NEW y \in AllTexts, NEW s \in AllTexts, NEW context \in Nat,
         ApplyPatch(s, Diff(x, y, context)).lines # <<>>
  PROVE  SameEdit(x, y, s, ApplyPatch(s, Diff(x, y, context)))
<1>1. PICK patch \in Seq(Hunks) : patch = Diff(x, y, context)
  BY DiffTyped
<1>2. PICK t \in AllTexts : t = ApplyPatch(s, patch)
  BY PatchedTyped
<1>3. t.lines # <<>> /\ ApplyPatch(s, patch).lines # <<>>
  BY Zenon, <1>1, <1>2
<1>4. Parses(patch)
  BY <1>3, PatchTaken
<1>5. CASE context = 0 /\ Len(x.lines) = Len(y.lines)
  <2>1. patch = LineHunks(x, y)[Len(x.lines)]
    BY <1>1, <1>5 DEF Diff
  <2> QED BY <1>1, <1>2, <1>3, <1>5, <2>1, ManyHunksDo
<1>6. CASE ~(context = 0 /\ Len(x.lines) = Len(y.lines))
  <2>1. x # y
    <3>1. patch # <<>>
      BY <1>4 DEF Parses
    <3> QED BY <1>1, <1>6, <3>1 DEF Diff
  <2>2. PICK p : p = InFront(x, y)
    OBVIOUS
  <2>3. PICK q : q = Behind(x, y)
    OBVIOUS
  <2>4. PICK m : m = Len(x.lines) - q
    OBVIOUS
  <2>5. PICK n : n = Len(y.lines) - q
    OBVIOUS
  <2>6. InCommon(x, y, p, q, m, n)
    BY Zenon, <2>2, <2>3, <2>4, <2>5, InCommonFound
  <2>7. /\ p \in Nat /\ q \in Nat /\ m \in Nat /\ n \in Nat
        /\ m + q = Len(x.lines) /\ n + q = Len(y.lines) /\ p <= m /\ p <= n
    BY <2>6 DEF InCommon
  <2>8. Exchanges(x, y, p, m, n)
    BY <2>7 DEF Exchanges
  <2>9. PICK h \in Hunks : h = HunkFor(x, y, p, m, n, context)
    BY <2>8, HunkForTyped
  <2>10. patch = <<h>>
    BY Zenon, <1>1, <1>6, <2>1, <2>2, <2>3, <2>4, <2>5, <2>9 DEF Diff
  <2>11. PICK from : from = Larger(p - context, 0)
    OBVIOUS
  <2>12. PICK after : after = Smaller(context, Len(x.lines) - m)
    OBVIOUS
  <2>13. /\ from \in Nat /\ after \in Nat /\ from <= p /\ after <= q
    BY <2>7, <2>11, <2>12 DEF Larger, Smaller
  <2>14. HunkSays(x, y, p, m, n, from, after, h)
    <3>1. HunkSays(x, y, p, m, n, Larger(p - context, 0), Smaller(context, Len(x.lines) - m),
                   HunkFor(x, y, p, m, n, context))
      BY <2>8, HunkMade
    <3> QED BY Zenon, <2>9, <2>11, <2>12, <3>1
  <2>15. HunkDoes(x, y, p, m, n, from, after, s, t)
    <3>1. ApplyPatch(s, <<h>>).lines # <<>>
      BY Zenon, <1>3, <2>10
    <3>2. HunkDoes(x, y, p, m, n, from, after, s, ApplyPatch(s, <<h>>))
      BY <2>8, <2>14, <3>1, OneHunkDoes
    <3> QED BY Zenon, <1>2, <2>10, <3>2
  <2>16. CASE s = x
    <3>1. HunkDoes(x, y, p, m, n, from, after, x, t)
      BY <2>15, <2>16
    <3>2. t = y
      BY <1>3, <2>1, <2>6, <2>13, <3>1, EditItself
    <3> QED BY Zenon, <1>1, <1>2, <2>16, <3>2 DEF SameEdit
  <2>17. CASE s # x /\ Len(x.lines) = Len(y.lines)
    <3>1. LinesEdited(x, y, s, t)
      BY <2>6, <2>13, <2>15, <2>17, EditInLines
    <3> QED BY Zenon, <1>1, <1>2, <2>17, <3>1 DEF SameEdit, LinesEdited
  <2>18. CASE s # x /\ Len(x.lines) # Len(y.lines)
    <3>1. StretchEdited(x, y, p, m, n, s, t)
      BY <2>6, <2>13, <2>15, EditElsewhere
    <3> QED BY Zenon, <1>1, <1>2, <2>2, <2>3, <2>4, <2>5, <2>18, <3>1 DEF SameEdit, StretchEdited
  <2> QED BY <2>16, <2>17, <2>18
<1> QED BY <1>5, <1>6

-------------------------------------------------------------------------------
(* A patch made of the text the note has is taken.                         *)

\* A header that says how long the sides of its body are.
WellMade(h) == h.old = Len(OldSide(h.body)) /\ h.new = Len(NewSide(h.body))

\* Every line of a body is a line of one side at least, so that the sides do not both
\* have their length before the body ends.
LEMMA BodyIsReadToItsEnd ==
  ASSUME NEW h \in Hunks, WellMade(h)
  PROVE  Complete(h, Len(h.body)) /\ \A n \in 0..Len(h.body) - 1 : ~Complete(h, n)
<1>1. PICK body \in Seq(BodyLines) : body = h.body
  BY DEF Hunks
<1>2. PICK N \in Nat : N = Len(body)
  OBVIOUS
<1>3. PICK a : a = Side(body, "added")
  OBVIOUS
<1>4. PICK r : r = Side(body, "removed")
  OBVIOUS
<1>5. /\ \A i \in 1..N : a[i] = IF body[i].sign = "added" THEN a[i - 1] ELSE Append(a[i - 1], body[i].line)
      /\ \A i \in 0..N : a[i] \in Seq(Lines)
  BY SMTT(30), <1>2, <1>3, SideMoves
<1>6. /\ \A i \in 1..N : r[i] = IF body[i].sign = "removed" THEN r[i - 1] ELSE Append(r[i - 1], body[i].line)
      /\ \A i \in 0..N : r[i] \in Seq(Lines)
  BY SMTT(30), <1>2, <1>4, SideMoves
<1>7. \A n : Complete(h, n) <=> Len(a[n]) >= Len(a[N]) /\ Len(r[n]) >= Len(r[N])
  BY <1>1, <1>2, <1>3, <1>4 DEF Complete, WellMade, OldSide, NewSide
<1>8. ASSUME NEW i \in 1..N
      PROVE  /\ Len(a[i - 1]) \in Nat /\ Len(r[i - 1]) \in Nat /\ Len(a[i]) \in Nat /\ Len(r[i]) \in Nat
             /\ Len(a[i - 1]) + Len(r[i - 1]) < Len(a[i]) + Len(r[i])
  <2>1. i \in 0..N /\ i - 1 \in 0..N
    BY <1>2
  <2>2. PICK u \in Seq(Lines) : u = a[i - 1]
    BY <1>5, <2>1
  <2>3. PICK v \in Seq(Lines) : v = r[i - 1]
    BY <1>6, <2>1
  <2>4. PICK l \in Lines : l = body[i].line
    <3>1. body[i] \in BodyLines
      BY <1>2
    <3> QED BY <3>1 DEF BodyLines
  <2>5. Len(Append(u, l)) = Len(u) + 1 /\ Len(Append(v, l)) = Len(v) + 1
    OBVIOUS
  <2>6. \/ a[i] = Append(u, l) /\ r[i] = v
        \/ a[i] = u /\ r[i] = Append(v, l)
        \/ a[i] = Append(u, l) /\ r[i] = Append(v, l)
    BY ZenonT(60), <1>5, <1>6, <2>2, <2>3, <2>4
  <2>7. Len(u) \in Nat /\ Len(v) \in Nat
    OBVIOUS
  <2>8. \/ Len(a[i]) = Len(u) + 1 /\ Len(r[i]) = Len(v)
        \/ Len(a[i]) = Len(u) /\ Len(r[i]) = Len(v) + 1
        \/ Len(a[i]) = Len(u) + 1 /\ Len(r[i]) = Len(v) + 1
    BY Zenon, <2>5, <2>6
  <2>9. Len(a[i - 1]) = Len(u) /\ Len(r[i - 1]) = Len(v)
    BY Zenon, <2>2, <2>3
  <2>10. PICK k \in Nat : k = Len(u)
    BY <2>7
  <2>11. PICK m \in Nat : m = Len(v)
    BY <2>7
  <2>12. PICK d \in Nat : d = Len(a[i])
    BY <2>8, <2>10
  <2>13. PICK e \in Nat : e = Len(r[i])
    BY <2>8, <2>11
  <2>14. k + m < d + e
    <3>1. (d = k + 1 /\ e = m) \/ (d = k /\ e = m + 1) \/ (d = k + 1 /\ e = m + 1)
      BY Zenon, <2>8, <2>10, <2>11, <2>12, <2>13
    <3> QED BY <3>1
  <2> QED BY Zenon, <2>9, <2>10, <2>11, <2>12, <2>13, <2>14
<1>9. PICK P : \A i : i \in P <=> /\ i \in 0..N
                                  /\ \A j \in 0..i : j < i => Len(a[j]) + Len(r[j]) < Len(a[i]) + Len(r[i])
  <2>1. \A i : i \in {k \in 0..N : \A j \in 0..k : j < k => Len(a[j]) + Len(r[j]) < Len(a[k]) + Len(r[k])}
               <=> /\ i \in 0..N
                   /\ \A j \in 0..i : j < i => Len(a[j]) + Len(r[j]) < Len(a[i]) + Len(r[i])
    OBVIOUS
  <2> QED BY <2>1
<1>10. 0 \in P
  <2>1. 0 \in 0..N /\ \A j \in 0..0 : ~(j < 0)
    BY <1>2
  <2> QED BY <1>9, <2>1
<1>11. \A i \in 0..N : Len(a[i]) \in Nat /\ Len(r[i]) \in Nat
  BY <1>5, <1>6
<1>12. ASSUME NEW i \in 1..N, i - 1 \in P PROVE i \in P
  <2>1. i \in 0..N
    BY <1>2
  <2> SUFFICES ASSUME NEW j \in 0..i, j < i PROVE Len(a[j]) + Len(r[j]) < Len(a[i]) + Len(r[i])
    BY <1>9, <2>1
  <2>2. j \in 0..i - 1 /\ j \in 0..N /\ (j = i - 1 \/ j < i - 1)
    BY <1>2
  <2>3. j < i - 1 => Len(a[j]) + Len(r[j]) < Len(a[i - 1]) + Len(r[i - 1])
    BY <1>9, <1>12, <2>2
  <2>4. Len(a[j]) \in Nat /\ Len(r[j]) \in Nat
    BY <1>11, <2>2
  <2>5. /\ Len(a[i - 1]) \in Nat /\ Len(r[i - 1]) \in Nat /\ Len(a[i]) \in Nat /\ Len(r[i]) \in Nat
        /\ Len(a[i - 1]) + Len(r[i - 1]) < Len(a[i]) + Len(r[i])
    BY <1>8
  <2>6. CASE j = i - 1
    BY <2>5, <2>6
  <2>7. CASE j < i - 1
    <3>1. \A m, n \in Nat : m + n \in Nat
      OBVIOUS
    <3>2. PICK b \in Nat : b = Len(a[j]) + Len(r[j])
      BY Zenon, <2>4, <3>1
    <3>3. PICK c \in Nat : c = Len(a[i - 1]) + Len(r[i - 1])
      BY Zenon, <2>5, <3>1
    <3>4. PICK d \in Nat : d = Len(a[i]) + Len(r[i])
      BY Zenon, <2>5, <3>1
    <3>5. b < c /\ c < d
      BY Zenon, <2>3, <2>5, <2>7, <3>2, <3>3, <3>4
    <3>6. b < d
      BY <3>5
    <3> QED BY Zenon, <3>2, <3>4, <3>6
  <2> QED BY <2>2, <2>6, <2>7
<1>13. N \in P
  <2>1. \A i \in 0..N : i \in P
    BY <1>2, <1>10, <1>12, Counted
  <2>2. N \in 0..N
    BY <1>2
  <2> QED BY <2>1, <2>2
<1>14. ASSUME NEW n \in 0..N - 1 PROVE ~(Len(a[n]) >= Len(a[N]) /\ Len(r[n]) >= Len(r[N]))
  <2>1. n \in 0..N /\ n < N /\ N \in 0..N
    BY <1>2
  <2>2. Len(a[n]) + Len(r[n]) < Len(a[N]) + Len(r[N])
    BY <1>9, <1>13, <2>1
  <2>3. Len(a[n]) \in Nat /\ Len(r[n]) \in Nat /\ Len(a[N]) \in Nat /\ Len(r[N]) \in Nat
    BY <1>11, <2>1
  <2>4. PICK b \in Nat : b = Len(a[n])
    BY <2>3
  <2>5. PICK c \in Nat : c = Len(r[n])
    BY <2>3
  <2>6. PICK d \in Nat : d = Len(a[N])
    BY <2>3
  <2>7. PICK e \in Nat : e = Len(r[N])
    BY <2>3
  <2>8. b + c < d + e
    BY Zenon, <2>2, <2>4, <2>5, <2>6, <2>7
  <2>9. ~(b >= d /\ c >= e)
    BY <2>8
  <2> QED BY Zenon, <2>4, <2>5, <2>6, <2>7, <2>9
<1>15. Len(a[N]) >= Len(a[N]) /\ Len(r[N]) >= Len(r[N])
  <2>1. N \in 0..N
    BY <1>2
  <2> QED BY <1>11, <2>1
<1> QED BY Zenon, <1>1, <1>2, <1>7, <1>14, <1>15

LEMMA WellMadeParses ==
  ASSUME NEW patch \in Seq(Hunks), patch # <<>>, Len(patch) <= MaxHunks,
         \A k \in 1..Len(patch) : WellMade(patch[k])
  PROVE  Parses(patch)
<1>1. ASSUME NEW k \in DOMAIN patch
      PROVE  /\ Complete(patch[k], Len(patch[k].body))
             /\ \A n \in 0..Len(patch[k].body) - 1 : ~Complete(patch[k], n)
  <2>1. k \in 1..Len(patch)
    BY LenProperties
  <2>2. PICK h \in Hunks : h = patch[k]
    BY <2>1, ElementOfSeq
  <2>3. WellMade(h)
    BY <2>1, <2>2
  <2> QED BY Zenon, <2>2, <2>3, BodyIsReadToItsEnd
<1> QED BY Zenon, <1>1 DEF Parses

LEMMA BackAgain == \A a, b, c \in Nat : a + (b + c - a) = b + c
  OBVIOUS

LEMMA HunkCounted ==
  \A p, m, n, from, after, to \in Nat : to = m + after =>
     to - from = m + after - from /\ (p - from) + (n - p) + (to - m) = n + after - from
OBVIOUS

\* The header of a hunk of a diff tells what its body has, and its place in the text it was
\* made of is where its old lines are.
AtHome(x, p, m, n, from, after, h) ==
    /\ h \in Hunks /\ WellMade(h) /\ FirstLine(h) = from /\ from \in Nat /\ from <= p
    /\ Len(OldSide(h.body)) = m + after - from /\ Len(NewSide(h.body)) = n + after - from
    /\ after \in Nat /\ m + after <= Len(x.lines)
    /\ \A cursor \in 0..from : Fits(x, cursor, h)

LEMMA HunkIsAtHome ==
  ASSUME NEW x \in AllTexts, NEW y \in AllTexts, NEW p, NEW m, NEW n, NEW context \in Nat,
         Exchanges(x, y, p, m, n)
  PROVE  AtHome(x, p, m, n, Larger(p - context, 0), Smaller(context, Len(x.lines) - m),
                HunkFor(x, y, p, m, n, context))
<1>1. PICK from : from = Larger(p - context, 0)
  OBVIOUS
<1>2. PICK after : after = Smaller(context, Len(x.lines) - m)
  OBVIOUS
<1>3. PICK h : h = HunkFor(x, y, p, m, n, context)
  OBVIOUS
<1>4. PICK xl \in Seq(Lines) : xl = x.lines
  BY DEF AllTexts
<1>5. PICK yl \in Seq(Lines) : yl = y.lines
  BY DEF AllTexts
<1>6. /\ p \in Nat /\ m \in Nat /\ n \in Nat /\ Len(xl) \in Nat /\ Len(yl) \in Nat
      /\ p <= m /\ m <= Len(xl) /\ p <= n /\ n <= Len(yl) /\ p <= Len(xl)
  BY <1>4, <1>5 DEF Exchanges
<1>7. HunkSays(x, y, p, m, n, from, after, h)
  <2>1. HunkSays(x, y, p, m, n, Larger(p - context, 0), Smaller(context, Len(x.lines) - m),
                 HunkFor(x, y, p, m, n, context))
    BY HunkMade
  <2> QED BY Zenon, <1>1, <1>2, <1>3, <2>1
<1>8. /\ from \in Nat /\ after \in Nat /\ from <= p /\ m + after <= Len(xl) /\ FirstLine(h) = from
      /\ OldSide(h.body) = SubSeq(xl, from + 1, m + after)
      /\ NewSide(h.body) = SubSeq(xl, from + 1, p) \o SubSeq(yl, p + 1, n) \o SubSeq(xl, m + 1, m + after)
  BY Zenon, <1>4, <1>5, <1>7 DEF HunkSays
<1>9. h \in Hunks
  BY <1>3, HunkForTyped
<1>10. from \in Nat /\ after \in Nat /\ from <= p /\ m + after <= Len(xl)
  BY Zenon, <1>8
<1>11. /\ h.old = m + after - from /\ h.new = n + after - from
       /\ h.oldEnd = (m + after - from > 0 /\ m + after = Len(x.lines) /\ ~x.nl)
  BY <1>1, <1>2, <1>3 DEF HunkFor
<1>12. \A s \in Seq(Lines) : \A i, j \in Nat : i <= j /\ j <= Len(s) => Len(SubSeq(s, i + 1, j)) = j - i
  <2> SUFFICES ASSUME NEW s \in Seq(Lines), NEW i \in Nat, NEW j \in Nat, i <= j, j <= Len(s)
               PROVE  Len(SubSeq(s, i + 1, j)) = j - i
    OBVIOUS
  <2>1. i + 1 \in Int /\ j \in Int /\ 1 <= i + 1
    OBVIOUS
  <2>2. Len(SubSeq(s, i + 1, j)) = IF i + 1 <= j THEN j - (i + 1) + 1 ELSE 0
    BY <2>1, Parts
  <2> QED BY <2>2
<1>13. PICK to \in Nat : to = m + after
  BY <1>6, <1>10
<1>14. to - from = m + after - from /\ (p - from) + (n - p) + (to - m) = n + after - from
  BY <1>6, <1>13, <1>10, HunkCounted
<1>15. from <= to /\ m <= to /\ to <= Len(xl)
  BY <1>6, <1>13, <1>10
<1>16. Len(OldSide(h.body)) = to - from
  <2>1. Len(SubSeq(xl, from + 1, to)) = to - from
    BY <1>8, <1>12, <1>15
  <2> QED BY Zenon, <1>8, <1>13, <2>1
<1>17. Len(NewSide(h.body)) = n + after - from
  <2>1. PICK u \in Seq(Lines) : u = SubSeq(xl, from + 1, p)
    <3>1. SubSeq(xl, from + 1, p) \in Seq(Lines)
      BY <1>6, <1>8, PartTyped
    <3> QED BY <3>1
  <2>2. PICK v \in Seq(Lines) : v = SubSeq(yl, p + 1, n)
    <3>1. SubSeq(yl, p + 1, n) \in Seq(Lines)
      BY <1>6, PartTyped
    <3> QED BY <3>1
  <2>3. PICK w \in Seq(Lines) : w = SubSeq(xl, m + 1, to)
    <3>1. SubSeq(xl, m + 1, to) \in Seq(Lines)
      BY <1>6, <1>15, PartTyped
    <3> QED BY <3>1
  <2>4. Len(u) = p - from /\ Len(v) = n - p /\ Len(w) = to - m
    <3>1. Len(SubSeq(xl, from + 1, p)) = p - from
      BY <1>6, <1>8, <1>12
    <3>2. Len(SubSeq(yl, p + 1, n)) = n - p
      BY <1>6, <1>12
    <3>3. Len(SubSeq(xl, m + 1, to)) = to - m
      BY <1>6, <1>12, <1>15
    <3> QED BY Zenon, <2>1, <2>2, <2>3, <3>1, <3>2, <3>3
  <2>5. NewSide(h.body) = (u \o v) \o w
    BY Zenon, <1>8, <1>13, <2>1, <2>2, <2>3
  <2>6. Len((u \o v) \o w) = Len(u) + Len(v) + Len(w)
    OBVIOUS
  <2> QED BY Zenon, <1>14, <2>4, <2>5, <2>6
<1>18. WellMade(h)
  <2>1. h.old = Len(OldSide(h.body))
    BY Zenon, <1>11, <1>16, <1>14
  <2>2. h.new = Len(NewSide(h.body))
    BY Zenon, <1>11, <1>17
  <2> QED BY <2>1, <2>2 DEF WellMade
<1>19. ASSUME NEW cursor \in 0..from PROVE Fits(x, cursor, h)
  <2>1. cursor <= from /\ from + (to - from) = to
    BY <1>13, <1>10
  <2>2. FirstLine(h) + h.old = to /\ FirstLine(h) + Len(OldSide(h.body)) = to
    BY Zenon, <1>8, <1>11, <1>16, <1>14, <2>1
  <2>3. h.oldEnd = ((h.old > 0 /\ FirstLine(h) + h.old = Len(x.lines)) /\ ~x.nl)
    BY Zenon, <1>11, <1>13, <2>2
  <2>4. SubSeq(x.lines, FirstLine(h) + 1, FirstLine(h) + Len(OldSide(h.body))) = OldSide(h.body)
    BY Zenon, <1>4, <1>8, <1>13, <2>2
  <2> QED BY Zenon, <1>4, <1>8, <1>15, <2>1, <2>2, <2>3, <2>4 DEF Fits
<1>20. AtHome(x, p, m, n, from, after, h)
  BY Zenon, <1>4, <1>8, <1>9, <1>16, <1>17, <1>18, <1>19, <1>14 DEF AtHome
<1> QED BY Zenon, <1>1, <1>2, <1>3, <1>20

\* A patch whose hunks were all applied, and that leaves something, is taken.
LEMMA PatchIsTaken ==
  ASSUME NEW src \in AllTexts, NEW patch \in Seq(Hunks), NEW d \in DoneStates,
         d = ApplyHunks(src, patch)[Len(patch)], d.ok, d.cursor <= Len(src.lines),
         Len(d.out) + (Len(src.lines) - d.cursor) > 0
  PROVE  ApplyPatch(src, patch).lines # <<>>
<1>1. PICK sl \in Seq(Lines) : sl = src.lines
  BY DEF AllTexts
<1>2. PICK c \in Nat : c = d.cursor
  BY DEF DoneStates
<1>3. PICK out \in Seq(Lines) : out = d.out
  BY DEF DoneStates
<1>4. PICK L \in Nat : L = Len(sl)
  OBVIOUS
<1>5. c <= L /\ Len(out) + (L - c) > 0 /\ Len(out) \in Nat
  BY <1>1, <1>2, <1>3, <1>4
<1>6. PICK rest \in Seq(Lines) : rest = SubSeq(sl, c + 1, L)
  <2>1. SubSeq(sl, c + 1, L) \in Seq(Lines)
    BY <1>4, PartTyped
  <2> QED BY <2>1
<1>7. Len(rest) = L - c
  <2>1. c + 1 \in Int /\ L \in Int /\ 1 <= c + 1 /\ L <= Len(sl)
    BY <1>4
  <2>2. Len(rest) = IF c + 1 <= L THEN L - (c + 1) + 1 ELSE 0
    BY <1>6, <2>1, Parts
  <2> QED BY <1>5, <2>2
<1>8. PICK whole \in Seq(Lines) : whole = out \o rest
  <2>1. out \o rest \in Seq(Lines)
    OBVIOUS
  <2> QED BY <2>1
<1>9. whole # <<>>
  <2>1. Len(whole) = Len(out) + Len(rest)
    BY <1>8
  <2>2. Len(whole) > 0
    BY Zenon, <1>5, <1>7, <2>1
  <2> QED BY <2>2
<1>10. ApplyPatch(src, patch) = [lines |-> whole, nl |-> d.nl]
  BY Zenon, <1>1, <1>2, <1>3, <1>4, <1>6, <1>8, <1>9 DEF ApplyPatch, Joined
<1> QED BY <1>9, <1>10

LEMMA HunkThatFits ==
  ASSUME NEW src \in AllTexts, NEW done \in DoneStates, NEW h \in Hunks,
         done.ok, Fits(src, done.cursor, h)
  PROVE  ApplyHunk(src, done, h).ok
BY DEF ApplyHunk

\* One hunk, on the text it was made of.
LEMMA OneHunkAtHome ==
  ASSUME NEW x \in AllTexts, NEW y \in AllTexts, NEW p, NEW q, NEW m, NEW n, NEW context \in Nat,
         InCommon(x, y, p, q, m, n), y.lines # <<>>, 1 <= MaxHunks,
         NEW h, h = HunkFor(x, y, p, m, n, context)
  PROVE  ApplyPatch(x, <<h>>).lines # <<>>
<1>1. PICK xl \in Seq(Lines) : xl = x.lines
  BY DEF AllTexts
<1>2. PICK yl \in Seq(Lines) : yl = y.lines
  BY DEF AllTexts
<1>3. /\ p \in Nat /\ q \in Nat /\ m \in Nat /\ n \in Nat
      /\ m + q = Len(xl) /\ n + q = Len(yl) /\ p <= m /\ p <= n
  BY <1>1, <1>2 DEF InCommon
<1>4. Exchanges(x, y, p, m, n)
  BY <1>1, <1>2, <1>3 DEF Exchanges
<1>5. PICK from : from = Larger(p - context, 0)
  OBVIOUS
<1>6. PICK after : after = Smaller(context, Len(x.lines) - m)
  OBVIOUS
<1>7. /\ h \in Hunks /\ WellMade(h) /\ FirstLine(h) = from /\ from \in Nat /\ from <= p
      /\ Len(OldSide(h.body)) = m + after - from /\ Len(NewSide(h.body)) = n + after - from
      /\ after \in Nat /\ m + after <= Len(x.lines)
      /\ \A cursor \in 0..from : Fits(x, cursor, h)
  <2>1. AtHome(x, p, m, n, Larger(p - context, 0), Smaller(context, Len(x.lines) - m),
               HunkFor(x, y, p, m, n, context))
    BY <1>4, HunkIsAtHome
  <2>2. AtHome(x, p, m, n, from, after, h)
    BY Zenon, <1>5, <1>6, <2>1
  <2> QED BY Zenon, <2>2 DEF AtHome
<1>8. from \in Nat /\ after \in Nat
  BY Zenon, <1>7
<1>9. PICK patch \in Seq(Hunks) : patch = <<h>>
  <2>1. <<h>> \in Seq(Hunks)
    BY <1>7
  <2> QED BY <2>1
<1>10. Len(patch) = 1 /\ patch[1] = h /\ patch # <<>>
  BY <1>9
<1>11. Parses(patch)
  <2>1. \A k \in 1..1 : k = 1
    OBVIOUS
  <2>2. \A k \in 1..Len(patch) : WellMade(patch[k])
    BY Zenon, <1>7, <1>10, <2>1
  <2>3. Len(patch) <= MaxHunks
    BY Zenon, <1>10
  <2> QED BY Zenon, <1>10, <2>2, <2>3, WellMadeParses
<1>12. PICK t : t = ApplyHunks(x, patch)
  OBVIOUS
<1>13. t[0] = Undone(x, patch) /\ t[1] = ApplyHunk(x, t[0], h) /\ t[0] \in DoneStates /\ t[1] \in DoneStates
  <2>1. 1 \in 1..Len(patch) /\ 1 - 1 = 0 /\ 0 \in 0..Len(patch) /\ 1 \in 0..Len(patch)
    BY <1>10
  <2> QED BY <1>10, <1>12, <2>1, HunksMove
<1>14. PICK before \in DoneStates : before = t[0]
  BY <1>13
<1>15. before.ok /\ before.cursor = 0 /\ before.out = <<>>
  BY <1>11, <1>13, <1>14 DEF Undone
<1>16. PICK d \in DoneStates : d = ApplyHunk(x, before, h)
  BY <1>13, <1>14
<1>17. d.ok
  <2>1. 0 \in 0..from
    BY <1>7
  <2>2. Fits(x, before.cursor, h)
    BY Zenon, <1>7, <1>15, <2>1
  <2> QED BY Zenon, <1>7, <1>15, <1>16, <2>2, HunkThatFits
<1>18. /\ d.cursor = FirstLine(h) + Len(OldSide(h.body))
       /\ d.out = before.out \o SubSeq(x.lines, before.cursor + 1, FirstLine(h)) \o NewSide(h.body)
  <2>1. /\ ApplyHunk(x, before, h).cursor = FirstLine(h) + Len(OldSide(h.body))
        /\ ApplyHunk(x, before, h).out =
             before.out \o SubSeq(x.lines, before.cursor + 1, FirstLine(h)) \o NewSide(h.body)
    BY ZenonT(60), <1>7, <1>16, <1>17, HunkApplied
  <2> QED BY Zenon, <1>16, <2>1
<1>19. d.cursor = m + after
  <2>1. from + (m + after - from) = m + after
    BY <1>3, <1>8, BackAgain
  <2> QED BY Zenon, <1>7, <1>18, <2>1
<1>20. Len(d.out) = n + after
  <2>1. PICK u \in Seq(Lines) : u = SubSeq(xl, 0 + 1, from)
    <3>1. from <= Len(xl) /\ 0 \in Nat /\ from \in Nat
      BY SMTT(30), <1>3, <1>7
    <3>2. SubSeq(xl, 0 + 1, from) \in Seq(Lines)
      BY <3>1, PartTyped
    <3> QED BY <3>2
  <2>2. Len(u) = from
    <3>1. 0 + 1 \in Int /\ from \in Int /\ 1 <= 0 + 1 /\ from <= Len(xl)
      BY <1>3, <1>7
    <3>2. Len(u) = IF 0 + 1 <= from THEN from - (0 + 1) + 1 ELSE 0
      BY <2>1, <3>1, Parts
    <3> QED BY <1>7, <3>2
  <2>3. PICK new \in Seq(Lines) : new = NewSide(h.body)
    <3>1. Fits(x, 0, h)
      BY <1>7
    <3>2. NewSide(h.body) \in Seq(Lines)
      BY <1>7, <3>1, FitsWhere
    <3> QED BY <3>2
  <2>4. d.out = (<<>> \o u) \o new
    BY Zenon, <1>1, <1>7, <1>15, <1>18, <2>1, <2>3
  <2>5. Len((<<>> \o u) \o new) = Len(u) + Len(new)
    OBVIOUS
  <2>6. from + (n + after - from) = n + after
    BY <1>3, <1>8, BackAgain
  <2> QED BY Zenon, <1>7, <2>2, <2>3, <2>4, <2>5, <2>6
<1>21. Len(d.out) + (Len(x.lines) - d.cursor) > 0 /\ d.cursor <= Len(x.lines)
  <2>1. Len(yl) > 0
    BY <1>2
  <2>2. PICK e \in Nat : e = after
    BY <1>7
  <2>3. (n + e) + ((m + q) - (m + e)) > 0
    BY <1>3, <2>1, <2>2
  <2> QED BY Zenon, <1>1, <1>3, <1>7, <1>19, <1>20, <2>2, <2>3
<1>22. d = ApplyHunks(x, patch)[Len(patch)]
  BY Zenon, <1>10, <1>12, <1>13, <1>14, <1>16
<1>23. ApplyPatch(x, patch).lines # <<>>
  BY <1>17, <1>21, <1>22, PatchIsTaken
<1> QED BY <1>9, <1>23

\* A hunk for every line that differs, on the text they were made of.
LEMMA LineHunkAtHome ==
  ASSUME NEW x \in AllTexts, NEW y \in AllTexts, Len(x.lines) = Len(y.lines),
         NEW n \in 1..Len(x.lines)
  PROVE  /\ WellMade(LineHunk(x, y, n))
         /\ \A cursor \in 0..n - 1 : Fits(x, cursor, LineHunk(x, y, n))
<1>1. PICK h : h = LineHunk(x, y, n)
  OBVIOUS
<1>2. PICK N \in Nat : N = Len(x.lines)
  BY DEF AllTexts
<1>3. n \in 1..N /\ n \in Nat /\ n - 1 \in Nat /\ Len(y.lines) = N
  BY <1>2
<1>4. Exchanges(x, y, n - 1, n, n)
  BY <1>2, <1>3 DEF Exchanges
<1>5. PICK zero \in Nat : zero = 0
  OBVIOUS
<1>6. PICK from : from = Larger((n - 1) - zero, 0)
  OBVIOUS
<1>7. PICK after : after = Smaller(zero, Len(x.lines) - n)
  OBVIOUS
<1>8. from = n - 1
  BY <1>3, <1>5, <1>6 DEF Larger
<1>9. AtHome(x, n - 1, n, n, from, after, h)
  <2>1. AtHome(x, n - 1, n, n, Larger((n - 1) - zero, 0), Smaller(zero, Len(x.lines) - n),
               HunkFor(x, y, n - 1, n, n, zero))
    BY <1>4, HunkIsAtHome
  <2> QED BY Zenon, <1>1, <1>5, <1>6, <1>7, <2>1 DEF LineHunk
<1>10. WellMade(h) /\ \A cursor \in 0..from : Fits(x, cursor, h)
  BY Zenon, <1>9 DEF AtHome
<1> QED BY Zenon, <1>1, <1>8, <1>10

LEMMA LineHunksWellMade ==
  ASSUME NEW x \in AllTexts, NEW y \in AllTexts, Len(x.lines) = Len(y.lines)
  PROVE  \A n \in 0..Len(x.lines) :
           \A k \in 1..Len(LineHunks(x, y)[n]) : WellMade(LineHunks(x, y)[n][k])
<1>1. PICK N \in Nat : N = Len(x.lines)
  BY DEF AllTexts
<1>2. PICK l : l = LineHunks(x, y)
  OBVIOUS
<1>3. /\ l[0] = <<>>
      /\ \A n \in 1..N : l[n] = IF WithEnd(x, n) = WithEnd(y, n) THEN l[n - 1]
                                ELSE Append(l[n - 1], LineHunk(x, y, n))
      /\ \A n \in 0..N : l[n] \in Seq(Hunks)
  BY <1>1, <1>2, LineHunksMove DEF LineHunk
<1>4. PICK P : \A n : n \in P <=> n \in 0..N /\ \A k \in 1..Len(l[n]) : WellMade(l[n][k])
  <2>1. \A n : n \in {j \in 0..N : \A k \in 1..Len(l[j]) : WellMade(l[j][k])} <=>
               n \in 0..N /\ \A k \in 1..Len(l[n]) : WellMade(l[n][k])
    OBVIOUS
  <2> QED BY <2>1
<1>5. 0 \in P
  <2>1. 0 \in 0..N /\ Len(l[0]) = 0 /\ 1..0 = {}
    BY <1>1, <1>3
  <2> QED BY Zenon, <1>4, <2>1
<1>6. ASSUME NEW n \in 1..N, n - 1 \in P PROVE n \in P
  <2>1. n \in 0..N /\ n - 1 \in 0..N
    BY <1>1
  <2>2. PICK before \in Seq(Hunks) : before = l[n - 1]
    BY <1>3, <2>1
  <2>3. PICK h \in Hunks : h = LineHunk(x, y, n)
    BY <1>1, LineHunkSays
  <2>4. WellMade(h)
    BY <1>1, <2>3, LineHunkAtHome
  <2>5. \A k \in 1..Len(before) : WellMade(before[k])
    BY Zenon, <1>4, <1>6, <2>2
  <2>6. CASE l[n] = before
    BY Zenon, <1>4, <2>1, <2>5, <2>6
  <2>7. CASE l[n] = Append(before, h)
    <3>1. PICK more : more = Append(before, h)
      OBVIOUS
    <3>2. /\ Len(more) = Len(before) + 1 /\ more[Len(before) + 1] = h
          /\ \A i \in 1..Len(before) : more[i] = before[i]
      BY <3>1, AppendProperties
    <3>3. \A k \in 1..Len(more) : k \in 1..Len(before) \/ k = Len(before) + 1
      BY <3>2
    <3>4. \A k \in 1..Len(more) : WellMade(more[k])
      BY Zenon, <2>4, <2>5, <3>2, <3>3
    <3> QED BY Zenon, <1>4, <2>1, <2>7, <3>1, <3>4
  <2> QED BY Zenon, <1>3, <2>2, <2>3, <2>6, <2>7
<1>7. \A n \in 0..N : n \in P
  BY <1>1, <1>5, <1>6, Counted
<1> QED BY Zenon, <1>1, <1>2, <1>4, <1>7

\* Two texts of as many lines differ in a line or in how the last one ends.
LEMMA SomeLineDiffers ==
  ASSUME NEW x \in AllTexts, NEW y \in AllTexts, Len(x.lines) = Len(y.lines), x # y, y.lines # <<>>
  PROVE  \E n \in 1..Len(x.lines) : WithEnd(x, n) # WithEnd(y, n)
<1> SUFFICES ASSUME \A n \in 1..Len(x.lines) : WithEnd(x, n) = WithEnd(y, n) PROVE FALSE
  OBVIOUS
<1>1. PICK xl \in Seq(Lines) : xl = x.lines
  BY DEF AllTexts
<1>2. PICK yl \in Seq(Lines) : yl = y.lines
  BY DEF AllTexts
<1>3. PICK N \in Nat : N = Len(xl)
  OBVIOUS
<1>4. Len(yl) = N /\ N > 0
  <2>1. Len(yl) = N
    BY <1>1, <1>2, <1>3
  <2>2. yl # <<>>
    BY <1>2
  <2> QED BY <2>1, <2>2, EmptySeq
<1>5. \A n \in 1..N : /\ xl[n] = yl[n]
                      /\ (n < Len(x.lines) \/ x.nl) = (n < Len(y.lines) \/ y.nl)
  <2> SUFFICES ASSUME NEW n \in 1..N
               PROVE  /\ xl[n] = yl[n]
                      /\ (n < Len(x.lines) \/ x.nl) = (n < Len(y.lines) \/ y.nl)
    OBVIOUS
  <2>1. WithEnd(x, n) = WithEnd(y, n)
    BY <1>1, <1>3
  <2>2. /\ x.lines[n] = y.lines[n]
        /\ (n < Len(x.lines) \/ x.nl) = (n < Len(y.lines) \/ y.nl)
    BY <2>1, EndsAlike
  <2> QED BY Zenon, <1>1, <1>2, <2>2
<1>6. xl = yl
  <2>1. Len(xl) = Len(yl) /\ \A i \in 1..Len(xl) : xl[i] = yl[i]
    BY <1>3, <1>4, <1>5
  <2> QED BY <2>1, SeqEqual
<1>7. x.nl <=> y.nl
  <2>1. N \in 1..N /\ ~(N < N)
    BY <1>4
  <2>2. Len(x.lines) = N /\ Len(y.lines) = N
    BY <1>1, <1>2, <1>3, <1>4
  <2> QED BY Zenon, <1>5, <2>1, <2>2
<1>8. x = y
  BY Zenon, <1>1, <1>2, <1>6, <1>7, SameText
<1> QED BY <1>8

LEMMA LineHunksAtHome ==
  ASSUME NEW x \in AllTexts, NEW y \in AllTexts, Len(x.lines) = Len(y.lines), x # y,
         y.lines # <<>>, NEW patch \in Seq(Hunks), patch = LineHunks(x, y)[Len(x.lines)],
         Len(patch) <= MaxHunks
  PROVE  ApplyPatch(x, patch).lines # <<>>
<1>1. PICK N \in Nat : N = Len(x.lines)
  BY DEF AllTexts
<1>2. PICK l : l = LineHunks(x, y)
  OBVIOUS
<1>3. /\ l[0] = <<>> /\ l[N] = patch
      /\ \A n \in 1..N : l[n] = IF WithEnd(x, n) = WithEnd(y, n) THEN l[n - 1]
                                ELSE Append(l[n - 1], LineHunk(x, y, n))
      /\ \A n \in 0..N : l[n] \in Seq(Hunks)
  BY <1>1, <1>2, LineHunksMove DEF LineHunk
<1>4. \A n \in 0..N : Begins(l[n], patch)
  <2>1. N \in 0..N
    BY <1>1
  <2>2. \A n \in 0..Len(x.lines) : \A j \in 0..n : Begins(LineHunks(x, y)[j], LineHunks(x, y)[n])
    BY LineHunksBegin
  <2> QED BY Zenon, <1>1, <1>2, <1>3, <2>1, <2>2
<1>5. Parses(patch)
  <2>1. PICK n \in 1..N : WithEnd(x, n) # WithEnd(y, n)
    BY <1>1, SomeLineDiffers
  <2>2. n \in 0..N /\ n - 1 \in 0..N
    BY <1>1
  <2>3. PICK before \in Seq(Hunks) : before = l[n - 1]
    BY <1>3, <2>2
  <2>4. PICK h \in Hunks : h = LineHunk(x, y, n)
    BY <1>1, LineHunkSays
  <2>5. l[n] = Append(before, h)
    BY Zenon, <1>3, <2>1, <2>3, <2>4
  <2>6. Len(Append(before, h)) = Len(before) + 1 /\ Len(before) \in Nat
    OBVIOUS
  <2>7. Len(l[n]) <= Len(patch)
    BY <1>4, <2>2 DEF Begins
  <2>8. patch # <<>>
    BY <2>5, <2>6, <2>7
  <2>9. \A k \in 1..Len(patch) : WellMade(patch[k])
    <3>1. N \in 0..N
      BY <1>1
    <3>2. \A k \in 1..Len(LineHunks(x, y)[N]) : WellMade(LineHunks(x, y)[N][k])
      BY <1>1, <3>1, LineHunksWellMade
    <3> QED BY Zenon, <1>1, <3>2
  <2> QED BY Zenon, <2>8, <2>9, WellMadeParses
<1>6. PICK t : t = ApplyHunks(x, patch)
  OBVIOUS
<1>7. /\ t[0] = Undone(x, patch)
      /\ \A k \in 1..Len(patch) : t[k] = ApplyHunk(x, t[k - 1], patch[k])
      /\ \A k \in 0..Len(patch) : t[k] \in DoneStates
  BY <1>6, HunksMove
<1>8. \A n \in 0..N : /\ Len(l[n]) \in 0..Len(patch)
                      /\ t[Len(l[n])].ok => LinesDone(x, y, x, n, t[Len(l[n])])
  <2>1. patch = LineHunks(x, y)[N]
    BY <1>1
  <2>2. \A n \in 0..N :
          /\ Len(LineHunks(x, y)[n]) \in 0..Len(patch)
          /\ ApplyHunks(x, patch)[Len(LineHunks(x, y)[n])].ok =>
               LinesDone(x, y, x, n, ApplyHunks(x, patch)[Len(LineHunks(x, y)[n])])
    BY <1>1, <2>1, LinesDoneWell
  <2> QED BY Zenon, <1>2, <1>6, <2>2
<1>9. PICK P : \A n : n \in P <=> n \in 0..N /\ t[Len(l[n])].ok
  <2>1. \A n : n \in {j \in 0..N : t[Len(l[j])].ok} <=> n \in 0..N /\ t[Len(l[n])].ok
    OBVIOUS
  <2> QED BY <2>1
<1>10. 0 \in P
  <2>1. 0 \in 0..N /\ Len(l[0]) = 0
    BY <1>1, <1>3
  <2>2. t[0].ok
    BY <1>5, <1>7 DEF Undone
  <2> QED BY Zenon, <1>9, <2>1, <2>2
<1>11. ASSUME NEW n \in 1..N, n - 1 \in P PROVE n \in P
  <2>1. n \in 0..N /\ n - 1 \in 0..N
    BY <1>1
  <2>2. CASE WithEnd(x, n) = WithEnd(y, n)
    BY Zenon, <1>3, <1>9, <1>11, <2>1, <2>2
  <2>3. CASE WithEnd(x, n) # WithEnd(y, n)
    <3>1. PICK h \in Hunks : h = LineHunk(x, y, n)
      BY <1>1, LineHunkSays
    <3>2. PICK before \in Seq(Hunks) : before = l[n - 1]
      BY <1>3, <2>1
    <3>3. PICK upto \in Seq(Hunks) : upto = l[n]
      BY <1>3, <2>1
    <3>4. upto = Append(before, h)
      BY Zenon, <1>3, <2>3, <3>1, <3>2, <3>3
    <3>5. PICK k \in Nat : k = Len(upto)
      OBVIOUS
    <3>6. k = Len(before) + 1 /\ upto[k] = h /\ k - 1 = Len(before)
      BY <3>4, <3>5
    <3>7. k \in 0..Len(patch) /\ k - 1 \in 0..Len(patch)
      BY Zenon, <1>8, <2>1, <3>2, <3>3, <3>5, <3>6
    <3>8. k \in 1..Len(patch) /\ k \in 1..Len(upto)
      BY <3>5, <3>7
    <3>9. patch[k] = h
      <4>1. Begins(upto, patch)
        BY <1>4, <2>1, <3>3
      <4> QED BY <3>6, <3>8, <4>1 DEF Begins
    <3>10. PICK prior \in DoneStates : prior = t[k - 1]
      BY <1>7, <3>7
    <3>11. prior.ok
      BY Zenon, <1>9, <1>11, <3>2, <3>6, <3>10
    <3>12. prior.cursor \in 0..n - 1
      <4>1. LinesDone(x, y, x, n - 1, prior)
        BY Zenon, <1>8, <2>1, <3>2, <3>6, <3>10, <3>11
      <4> QED BY Zenon, <4>1 DEF LinesDone
    <3>13. Fits(x, prior.cursor, h)
      <4>1. \A cursor \in 0..n - 1 : Fits(x, cursor, LineHunk(x, y, n))
        BY <1>1, LineHunkAtHome
      <4> QED BY Zenon, <3>1, <3>12, <4>1
    <3>14. ApplyHunk(x, prior, h).ok
      BY <3>11, <3>13, HunkThatFits
    <3>15. t[k].ok
      BY Zenon, <1>7, <3>8, <3>9, <3>10, <3>14
    <3> QED BY Zenon, <1>9, <2>1, <3>3, <3>5, <3>15
  <2> QED BY <2>2, <2>3
<1>12. N \in P
  <2>1. \A n \in 0..N : n \in P
    BY <1>1, <1>10, <1>11, Counted
  <2>2. N \in 0..N
    BY <1>1
  <2> QED BY <2>1, <2>2
<1>13. PICK d \in DoneStates : d = t[Len(patch)]
  <2>1. Len(patch) \in 0..Len(patch)
    OBVIOUS
  <2> QED BY <1>7, <2>1
<1>14. d.ok /\ LinesDone(x, y, x, N, d)
  <2>1. N \in 0..N
    BY <1>1
  <2> QED BY Zenon, <1>3, <1>8, <1>9, <1>12, <1>13, <2>1
<1>15. d.cursor \in 0..N /\ Len(d.out) = d.cursor
  BY Zenon, <1>14 DEF LinesDone
<1>16. Len(d.out) + (Len(x.lines) - d.cursor) > 0 /\ d.cursor <= Len(x.lines)
  <2>1. N > 0
    <3>1. PICK yl \in Seq(Lines) : yl = y.lines
      BY DEF AllTexts
    <3>2. Len(yl) = N /\ yl # <<>>
      BY <1>1, <3>1
    <3> QED BY <3>2, EmptySeq
  <2>2. PICK c \in Nat : c = d.cursor
    BY <1>15
  <2>3. c + (N - c) > 0 /\ c <= N
    BY <1>15, <2>1, <2>2
  <2> QED BY Zenon, <1>1, <1>15, <2>2, <2>3
<1> QED BY Zenon, <1>6, <1>13, <1>14, <1>16, PatchIsTaken

\* A patch made of the text the note has is taken and makes just the text that was wanted,
\* whatever the context, for texts of any length: an agent that is up to date is never told
\* that its patch does not apply.
THEOREM PatchOfCurrentApplies ==
  \A x, y \in AllTexts : \A context \in Nat :
    x # y /\ y.lines # <<>> /\ Len(Diff(x, y, context)) <= MaxHunks =>
      ApplyPatch(x, Diff(x, y, context)) = y
<1> SUFFICES ASSUME NEW x \in AllTexts, NEW y \in AllTexts, NEW context \in Nat, x # y,
                    y.lines # <<>>, Len(Diff(x, y, context)) <= MaxHunks
             PROVE  ApplyPatch(x, Diff(x, y, context)) = y
  OBVIOUS
<1>1. PICK patch \in Seq(Hunks) : patch = Diff(x, y, context)
  BY DiffTyped
<1>2. ApplyPatch(x, patch).lines # <<>>
  <2>1. CASE context = 0 /\ Len(x.lines) = Len(y.lines)
    <3>1. patch = LineHunks(x, y)[Len(x.lines)]
      BY <1>1, <2>1 DEF Diff
    <3>2. Len(patch) <= MaxHunks
      BY Zenon, <1>1
    <3> QED BY <2>1, <3>1, <3>2, LineHunksAtHome
  <2>2. CASE ~(context = 0 /\ Len(x.lines) = Len(y.lines))
    <3>1. PICK p : p = InFront(x, y)
      OBVIOUS
    <3>2. PICK q : q = Behind(x, y)
      OBVIOUS
    <3>3. PICK m : m = Len(x.lines) - q
      OBVIOUS
    <3>4. PICK n : n = Len(y.lines) - q
      OBVIOUS
    <3>5. PICK h : h = HunkFor(x, y, p, m, n, context)
      OBVIOUS
    <3>6. patch = <<h>>
      BY Zenon, <1>1, <2>2, <3>1, <3>2, <3>3, <3>4, <3>5 DEF Diff
    <3>7. InCommon(x, y, p, q, m, n)
      BY Zenon, <3>1, <3>2, <3>3, <3>4, InCommonFound
    <3>8. 1 <= MaxHunks
      <4>1. Len(<<h>>) = 1
        OBVIOUS
      <4> QED BY Zenon, <1>1, <3>6, <4>1
    <3>9. ApplyPatch(x, <<h>>).lines # <<>>
      BY <3>5, <3>7, <3>8, OneHunkAtHome
    <3> QED BY <3>6, <3>9
  <2> QED BY <2>1, <2>2
<1>3. SameEdit(x, y, x, ApplyPatch(x, Diff(x, y, context)))
  <2>1. ApplyPatch(x, Diff(x, y, context)).lines # <<>>
    BY Zenon, <1>1, <1>2
  <2> QED BY <2>1, PatchIsEdit
<1> QED BY Zenon, <1>3 DEF SameEdit

-------------------------------------------------------------------------------
(* What is on its way to be stored, as long as the note stays at the       *)
(* revision it was made for, is the edit of that revision.                 *)

PatchOnItsWay ==
    agent.step = "running" =>
        /\ agent.tool = "replace_note_source" => agent.draft = agent.goal
        /\ agent.tool = "apply_note_patch" =>
             /\ agent.rev <= kept.rev
             /\ NoteHere /\ kept.rev = agent.rev =>
                  SameEdit(agent.copy, agent.goal, kept.text, agent.draft)
WritesInv == ToolsInv /\ PatchOnItsWay

LEMMA CallsBeginAnEdit ==
  ASSUME TextsKept, NEW q, Post(q)
  PROVE  PatchOnItsWay'
<1>1. \A answer : Told(answer) => PatchOnItsWay'
  BY DEF Told, PatchOnItsWay
<1>2. \A why : Refused(why) => PatchOnItsWay'
  BY <1>1 DEF Refused
<1>3. /\ kept' = kept /\ agent.rev \in Nat /\ kept.rev \in Nat /\ agent.copy \in AllTexts
      /\ kept.text \in AllTexts
  BY DEF Post, TextsKept, NoteStates
<1>4. ASSUME q.tool = "apply_note_patch", NEW goal \in Drafts, NEW context \in 0..1,
             NEW dry \in BOOLEAN, PatchArrives(q, goal, context, dry)
      PROVE  PatchOnItsWay'
  <2>1. PICK draft : draft = ApplyPatch(kept.text, Diff(agent.copy, goal, context))
    OBVIOUS
  <2>2. \/ \E why : Refused(why)
        \/ \E answer : Told(answer)
        \/ kept.rev = agent.rev /\ Validates(draft) /\ Working(q, goal, draft)
    BY <1>4, <2>1 DEF PatchArrives
  <2>3. ASSUME kept.rev = agent.rev, Validates(draft), Working(q, goal, draft)
        PROVE  PatchOnItsWay'
    <3>1. SameEdit(agent.copy, goal, kept.text, draft)
      <4>1. ApplyPatch(kept.text, Diff(agent.copy, goal, context)).lines # <<>>
        BY Zenon, <2>1, <2>3 DEF Validates
      <4>2. goal \in AllTexts /\ context \in Nat
        BY <1>4, DraftsAreTexts
      <4>3. PICK x \in AllTexts : x = agent.copy
        BY <1>3
      <4>4. PICK s \in AllTexts : s = kept.text
        BY <1>3
      <4>5. SameEdit(x, goal, s, ApplyPatch(s, Diff(x, goal, context)))
        BY <4>1, <4>2, <4>3, <4>4, PatchIsEdit
      <4> QED BY Zenon, <2>1, <4>3, <4>4, <4>5
    <3>2. /\ agent'.tool = "apply_note_patch" /\ agent'.rev = agent.rev /\ agent'.copy = agent.copy
          /\ agent'.goal = goal /\ agent'.draft = draft
      BY <1>4, <2>3 DEF Working
    <3>3. agent'.rev <= kept'.rev
      BY <1>3, <2>3, <3>2
    <3> QED BY <1>3, <3>1, <3>2, <3>3 DEF PatchOnItsWay
  <2> QED BY <1>1, <1>2, <2>2, <2>3
<1>5. ASSUME q.tool = "replace_note_source", NEW goal \in Drafts, ReplaceArrives(q, goal)
      PROVE  PatchOnItsWay'
  <2>1. Working(q, goal, goal) => PatchOnItsWay'
    BY <1>5 DEF Working, PatchOnItsWay
  <2> QED BY <1>2, <1>5, <2>1 DEF ReplaceArrives
<1>6. q.tool = "delete_note" /\ Working(q, Empty, Empty) => PatchOnItsWay'
  BY DEF Working, PatchOnItsWay
<1> QED BY <1>2, <1>4, <1>5, <1>6 DEF Post

LEMMA WritesStep ==
  ASSUME WritesInv, [ToolsNext]_toolVars
  PROVE  WritesInv'
<1>1. ToolsInv /\ TextsKept /\ ToolsInv' /\ PatchOnItsWay
  BY ToolsStep DEF WritesInv, ToolsInv
<1>2. kept' = kept \/ (kept' \in NoteStates /\ kept'.rev = kept.rev + 1)
  BY <1>1, NoteMoves
<1>3. CASE agent' = agent /\ agent.step = "running"
  <2>1. kept.rev \in Nat /\ agent.rev \in Nat
    BY <1>1, <1>3 DEF TextsKept, NoteStates
  <2>2. agent.rev <= kept.rev => agent.rev <= kept'.rev /\ (kept'.rev = agent.rev => kept' = kept)
    BY <1>2, <2>1
  <2>3. PatchOnItsWay'
    BY <1>1, <1>3, <2>2 DEF PatchOnItsWay, NoteHere
  <2> QED BY <1>1, <2>3 DEF WritesInv
<1>4. CASE agent'.step # "running"
  BY <1>1, <1>4 DEF WritesInv, PatchOnItsWay
<1>5. ASSUME NEW q, Post(q) PROVE WritesInv'
  BY <1>1, <1>5, CallsBeginAnEdit DEF WritesInv
<1>6. CASE Commit
  <2>1. \E answer : Told(answer)
    BY <1>6 DEF Commit, Refused
  <2> QED BY <1>4, <2>1 DEF Told
<1>7. CASE GetFragment
  <2>1. agent'.step # "running"
    BY <1>1, <1>7 DEF GetFragment, TextsKept, Readings
  <2> QED BY <1>4, <2>1
<1>8. CASE \/ GetOutline \/ GetNote \/ PiecesTogether \/ SendAgain \/ SendForLatest
           \/ CreateByAgent \/ AgentEnds
  BY <1>4, <1>8 DEF GetOutline, GetNote, PiecesTogether, SendAgain, SendForLatest, CreateByAgent,
                    AgentEnds, Resting
<1>9. \/ agent' = agent \/ GetOutline \/ GetFragment \/ GetNote
      \/ PiecesTogether \/ SendAgain \/ SendForLatest
      \/ (\E q : Post(q)) \/ Commit \/ CreateByAgent \/ AgentEnds
  BY DEF ToolsNext, toolVars, WebWrites, WebDeletes, TokenExpires, StepUp
<1> QED BY <1>3, <1>4, <1>5, <1>6, <1>7, <1>8, <1>9

\* A step that stores what the agent has sent.
StoresTheEdit ==
    Stores /\ agent.tool # "delete_note" =>
        /\ agent.tool = "apply_note_patch" => SameEdit(agent.copy, agent.goal, kept.text, kept'.text)
        /\ agent.tool = "replace_note_source" => kept'.text = agent.goal
        /\ kept'.rev = agent.rev + 1

LEMMA StoresStep ==
  ASSUME WritesInv, [ToolsNext]_toolVars
  PROVE  StoresTheEdit
<1> SUFFICES ASSUME Stores, agent.tool # "delete_note"
             PROVE  /\ agent.tool = "apply_note_patch" =>
                         SameEdit(agent.copy, agent.goal, kept.text, kept'.text)
                    /\ agent.tool = "replace_note_source" => kept'.text = agent.goal
                    /\ kept'.rev = agent.rev + 1
  BY DEF StoresTheEdit
<1>1. agent.step = "running" /\ agent'.step = "answered" /\ kept' # kept
  BY DEF Stores
<1>2. agent' # agent
  BY <1>1
<1>3. Commit
  BY <1>1, <1>2 DEF ToolsNext, toolVars, WebWrites, WebDeletes, TokenExpires, GetNote, GetOutline,
     GetFragment, PiecesTogether, Post, StepUp, CreateByAgent, SendAgain, SendForLatest, AgentEnds,
     Resting
<1>4. NoteHere /\ kept.rev = agent.rev /\ kept' = Version(agent.draft)
  BY <1>1, <1>3 DEF Commit, Unmoved
<1>5. kept'.text = agent.draft /\ kept'.rev = agent.rev + 1
  BY <1>4 DEF Version
<1> QED BY <1>1, <1>4, <1>5 DEF WritesInv, PatchOnItsWay

\* A stored patch makes in the note the edit the agent made in its copy, at the place
\* the agent made it, for every source, draft and number of lines: the patch fits
\* nothing but the lines it was made for, and what it was checked against is what is
\* there when it is stored.
THEOREM ToolsPatchLands == ToolsSpec => PatchLands
<1>1. ToolsInit => WritesInv
  BY ToolsBegin DEF ToolsInit, Resting, WritesInv, PatchOnItsWay
<1>2. WritesInv /\ [ToolsNext]_toolVars => WritesInv' /\ StoresTheEdit
  BY WritesStep, StoresStep
<1>3. ToolsSpec => [][StoresTheEdit]_toolVars
  BY <1>1, <1>2, PTL DEF ToolsSpec
<1> QED BY <1>3 DEF PatchLands, StoresTheEdit
-------------------------------------------------------------------------------
(* Step-up.                                                                *)

\* A token has scopes the server knows.
ScopesKnown == token.state \in {"none", "valid", "expired"} /\ token.scopes \subseteq Supported

\* A well-formed call of a token that works is challenged for a scope only.
LEMMA OnlyScopesAreMissing ==
  ASSUME token.state = "valid", NEW tool,
         Admitted(Plain(tool)) \in {"no_token", "invalid_token", "insufficient_scope"}
  PROVE  Admitted(Plain(tool)) = "insufficient_scope"
<1> PICK q : q = Plain(tool)
  OBVIOUS
<1>1. /\ q.origin = "none" /\ q.bearer = "token" /\ q.media = "json" /\ q.body = "request"
      /\ q.header = "legacy" /\ q.meta = "none" /\ q.method = "tools/call"
  BY DEF Plain
<1>2. OriginAllowed(q) /\ EraFault(q) = "none"
  BY <1>1 DEF OriginAllowed, EraFault, IsModern
<1>3. Dispatch(q) \notin {"no_token", "invalid_token"}
  BY <1>1 DEF Dispatch
<1>4. Admitted(q) =
        IF ~Satisfied(token.scopes, Wanted(q)) THEN "insufficient_scope"
        ELSE IF Misshapen(q) THEN "misshapen" ELSE Dispatch(q)
  BY <1>1, <1>2 DEF Admitted
<1> QED BY <1>3, <1>4

LEMMA StepUpStep ==
  ASSUME ScopesKnown, [ToolsNext]_toolVars
  PROVE  /\ ScopesKnown'
         /\ token.state = "valid" /\ token'.state = "valid" => token.scopes \subseteq token'.scopes
<1> DEFINE Goal == /\ ScopesKnown'
                   /\ token.state = "valid" /\ token'.state = "valid" =>
                        token.scopes \subseteq token'.scopes
<1>1. CASE UNCHANGED token
  BY <1>1 DEF ScopesKnown
<1>2. CASE TokenExpires
  BY <1>2 DEF TokenExpires, ScopesKnown
<1>3. ASSUME NEW tool \in UsedTools, StepUp(Plain(tool)) PROVE Goal
  <2> DEFINE q == Plain(tool)  asked == Challenged(Wanted(q), Admitted(q))
  <2>1. /\ token' = [state |-> "valid", scopes |-> asked]
        /\ Admitted(q) \in {"no_token", "invalid_token", "insufficient_scope"}
    BY <1>3 DEF StepUp
  <2>2. asked \subseteq Supported
    <3>1. "notes:read" \in Supported
      BY DEF Supported
    <3>2. ScopesFor(Wanted(q)) # <<>> => ScopesFor(Wanted(q))[1] \in Supported
      BY DEF ScopesFor, Supported
    <3>3. Challenge(token.scopes, Wanted(q)) \subseteq Supported
      BY DEF Challenge
    <3> HIDE DEF q
    <3> QED BY <2>1, <3>1, <3>2, <3>3 DEF Challenged
  <2>3. token.state = "valid" => token.scopes \subseteq asked
    <3> SUFFICES ASSUME token.state = "valid" PROVE token.scopes \subseteq asked
      OBVIOUS
    <3>1. Admitted(q) = "insufficient_scope"
      BY <2>1, OnlyScopesAreMissing
    <3>2. asked = Challenge(token.scopes, Wanted(q))
      BY SMTT(30), <3>1 DEF Challenged
    <3> QED BY <3>2 DEF Challenge, ScopesKnown
  <2> HIDE DEF asked
  <2> QED BY <2>1, <2>2, <2>3 DEF ScopesKnown
<1>4. UNCHANGED token \/ TokenExpires \/ \E tool \in UsedTools : StepUp(Plain(tool))
  BY DEF ToolsNext, toolVars, WebWrites, WebDeletes, GetNote, GetOutline, GetFragment,
     PiecesTogether, Post, Commit, CreateByAgent, SendAgain, SendForLatest, AgentEnds
<1> QED BY <1>1, <1>2, <1>3, <1>4

(* A challenge asks for the scopes of the token besides the one that is     *)
(* missing, so an agent that follows challenges loses none.                 *)
THEOREM ToolsStepUpKeepsScopes == ToolsSpec => StepUpKeepsScopes
<1>1. ToolsInit => ScopesKnown
  BY DEF ToolsInit, NoToken, ScopesKnown
<1>2. ScopesKnown /\ [ToolsNext]_toolVars => ScopesKnown'
  BY StepUpStep
<1>3. ScopesKnown /\ [ToolsNext]_toolVars =>
        [token.state = "valid" /\ token'.state = "valid" => token.scopes \subseteq token'.scopes]_toolVars
  BY StepUpStep
<1> QED BY <1>1, <1>2, <1>3, PTL DEF ToolsSpec, StepUpKeepsScopes
-------------------------------------------------------------------------------
(* What the tools store.  A draft on its way has passed the check that what *)
(* is stored needs, whichever tool it came by.                              *)

NoteSound ==
    /\ kept = [row |-> kept.row, text |-> kept.text, rev |-> kept.rev]
    /\ kept.row \in {"none", "live", "gone"} /\ kept.rev \in 0..MaxVersions
    /\ kept.row = "live" => Validates(kept.text)
AgentSound ==
    /\ agent.step \in {"idle", "outlined", "pieced", "holding", "running", "answered"}
    /\ agent.step = "outlined" =>
         agent = [step |-> agent.step, rev |-> agent.rev, count |-> agent.count,
                  copy |-> agent.copy, of |-> agent.of]
    /\ agent.step = "running" /\ agent.tool # "delete_note" => Validates(agent.draft)
ToolsSound == ScopesKnown /\ NoteSound /\ AgentSound

LEMMA NoteStaysSound ==
  ASSUME NoteSound, AgentSound, [ToolsNext]_toolVars
  PROVE  NoteSound'
<1>1. ASSUME NEW text, Validates(text), kept.rev < MaxVersions, kept' = Version(text)
      PROVE  NoteSound'
  <2>1. kept.rev + 1 \in 0..MaxVersions
    BY <1>1, ToolsAssumption DEF NoteSound
  <2> QED BY <1>1, <2>1 DEF Version, NoteSound, Validates
<1>2. ASSUME kept.rev < MaxVersions, kept' = [kept EXCEPT !.row = "gone", !.rev = @ + 1]
      PROVE  NoteSound'
  <2>1. kept.rev + 1 \in 0..MaxVersions
    BY <1>2, ToolsAssumption DEF NoteSound
  <2>2. kept' = [row |-> "gone", text |-> kept.text, rev |-> kept.rev + 1]
    BY <1>2 DEF NoteSound
  <2> QED BY <2>1, <2>2 DEF NoteSound
<1>3. CASE WebWrites
  BY <1>1, <1>3 DEF WebWrites
<1>4. CASE WebDeletes
  BY <1>2, <1>4 DEF WebDeletes
<1>5. CASE Commit
  <2>1. \/ kept' = kept
        \/ /\ kept.rev < MaxVersions
           /\ kept' = IF agent.tool = "delete_note" THEN [kept EXCEPT !.row = "gone", !.rev = @ + 1]
                      ELSE Version(agent.draft)
    BY <1>5 DEF Commit
  <2>2. agent.tool # "delete_note" => Validates(agent.draft)
    BY <1>5 DEF Commit, AgentSound
  <2>3. CASE kept' = kept
    BY <2>3 DEF NoteSound
  <2> QED BY <1>1, <1>2, <2>1, <2>2, <2>3
<1>6. CASE CreateByAgent
  BY SMTT(30), <1>1, <1>6 DEF CreateByAgent
<1>7. kept' = kept \/ WebWrites \/ WebDeletes \/ Commit \/ CreateByAgent
  BY DEF ToolsNext, toolVars, GetNote, GetOutline, GetFragment, PiecesTogether, Post, StepUp,
     TokenExpires, SendAgain, SendForLatest, AgentEnds
<1>8. CASE kept' = kept
  BY <1>8 DEF NoteSound
<1> QED BY <1>3, <1>4, <1>5, <1>6, <1>7, <1>8

LEMMA AgentStaysSound ==
  ASSUME AgentSound, [ToolsNext]_toolVars
  PROVE  AgentSound'
<1>1. CASE agent' = agent
  BY <1>1 DEF AgentSound
<1>2. ASSUME agent'.step \in {"idle", "pieced", "holding", "answered"} PROVE AgentSound'
  BY <1>2 DEF AgentSound
<1>3. ASSUME NEW q, NEW goal, NEW draft, Working(q, goal, draft),
             q.tool # "delete_note" => Validates(draft)
      PROVE  AgentSound'
  BY <1>3 DEF Working, AgentSound, Validates
<1>4. \A why : Refused(why) => AgentSound'
  BY <1>2 DEF Refused, Told
<1>5. ASSUME NEW q, Post(q) PROVE AgentSound'
  <2>1. ASSUME NEW goal, NEW context, NEW dry, PatchArrives(q, goal, context, dry) PROVE AgentSound'
    <3>1. PICK draft : draft = ApplyPatch(kept.text, Diff(agent.copy, goal, context))
      OBVIOUS
    <3>2. \/ \E answer : Told(answer)
          \/ Validates(draft) /\ Working(q, goal, draft)
      BY <2>1, <3>1 DEF PatchArrives, Refused
    <3> QED BY <1>2, <1>3, <3>2 DEF Told
  <2>2. ASSUME NEW goal, ReplaceArrives(q, goal) PROVE AgentSound'
    BY <1>3, <1>4, <2>2 DEF ReplaceArrives
  <2> QED BY <1>3, <1>4, <1>5, <2>1, <2>2 DEF Post
<1>6. CASE GetOutline
  BY <1>6 DEF GetOutline, AgentSound
<1>7. CASE GetFragment
  <2>1. PICK j : agent' =
          [agent EXCEPT
             !.step = IF j = agent.count THEN "pieced" ELSE @,
             !.copy = [lines |-> @.lines \o Fragment(kept.text, Len(agent.copy.lines) + 1, j).lines,
                       nl |-> Fragment(kept.text, Len(agent.copy.lines) + 1, j).nl]]
    BY Zenon, <1>7 DEF GetFragment
  <2>2. agent.step = "outlined"
    BY <1>7 DEF GetFragment
  <2> QED BY <2>1, <2>2 DEF AgentSound
<1>8. CASE Commit
  <2>1. \E answer : Told(answer)
    BY <1>8 DEF Commit, Refused
  <2> QED BY <1>2, <2>1 DEF Told
<1>9. CASE GetNote \/ PiecesTogether \/ SendAgain \/ SendForLatest \/ CreateByAgent \/ AgentEnds
  BY <1>2, <1>9 DEF GetNote, PiecesTogether, SendAgain, SendForLatest, CreateByAgent, AgentEnds,
                    Resting
<1>10. \/ agent' = agent \/ GetOutline \/ GetFragment \/ GetNote \/ PiecesTogether \/ SendAgain
       \/ SendForLatest \/ (\E q : Post(q)) \/ Commit \/ CreateByAgent \/ AgentEnds
  BY DEF ToolsNext, toolVars, WebWrites, WebDeletes, TokenExpires, StepUp
<1> QED BY <1>1, <1>5, <1>6, <1>7, <1>8, <1>9, <1>10

(* Whatever stores a note, an agent's patch, its whole source or the web UI, *)
(* a note that is there is one that validates, and every variable of the     *)
(* tools keeps its type.                                                     *)
THEOREM ToolsTypesOK == ToolsSpec => []ToolsTypeOK
<1>1. ToolsInit => ToolsSound
  BY ToolsAssumption DEF ToolsInit, NoNote, NoToken, Resting, ToolsSound, ScopesKnown, NoteSound,
     AgentSound
<1>2. ToolsSound /\ [ToolsNext]_toolVars => ToolsSound'
  BY StepUpStep, NoteStaysSound, AgentStaysSound DEF ToolsSound
<1>3. ToolsSound => ToolsTypeOK
  BY DEF ToolsSound, ScopesKnown, NoteSound, AgentSound, ToolsTypeOK
<1> QED BY <1>1, <1>2, <1>3, PTL DEF ToolsSpec
===============================================================================
