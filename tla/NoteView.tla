-------------------------------- MODULE NoteView -------------------------------
(***************************************************************************)
(* What a person is shown: a note with what it refers to and what refers   *)
(* to it, its citations, a preview of a draft, and the graph of all notes  *)
(* and the works they cite.  All of it is read from rows that stand beside *)
(* the text of a note, note_references and note_citations, and every query *)
(* joins who may see the notes at either end.                              *)
(*                                                                         *)
(* Reading changes nothing, so what is shown is an operator on the tables. *)
(* The tables change by the actions below; revisions, images and deletion  *)
(* dates are NoteLifecycle's subject.  A body is what a text refers to     *)
(* (refs), what it cites in order of appearance (cites) and whether it     *)
(* contains the word that is searched for.                                 *)
(***************************************************************************)
EXTENDS Integers, FiniteSets, Sequences

CONSTANTS
    NoteIds,        \* identifiers of notes, in their order
    People,
    OwnerOf,        \* OwnerOf[n]: who creates note n
    CitedKeys,      \* citation keys, of items and of texts
    Bodies,         \* what texts may say
    MaxDepth        \* MAX_GRAPH_DEPTH

ASSUME ViewAssumption ==
    /\ NoteIds \subseteq Nat /\ MaxDepth \in Nat
    /\ OwnerOf \in [NoteIds -> People]
    /\ Bodies \subseteq [refs: SUBSET NoteIds, cites: Seq(CitedKeys), word: BOOLEAN]

\* The tables: notes [state, body], note_acl as levels, note_references,
\* note_citations, and the keys of each library.
VARIABLE tables

NoBody == [refs |-> {}, cites |-> <<>>, word |-> FALSE]
Unwritten == [state |-> "none", body |-> NoBody]

ViewInit ==
    tables = [note |-> [n \in NoteIds |-> Unwritten], acl |-> [n \in NoteIds |-> [p \in People |-> 0]],
              refs |-> {}, cites |-> {}, library |-> [p \in People |-> {}]]

-------------------------------------------------------------------------------
(* Who sees what: note_access.                                             *)

LevelOf(p, n, t) == IF t.note[n].state = "none" THEN 0
                    ELSE IF p = OwnerOf[n] THEN 3 ELSE t.acl[n][p]
Sees(p, n, t) == t.note[n].state = "live" /\ LevelOf(p, n, t) >= 1

\* note_graph, note_view_snapshot and visible_notes_by_id select these.
Visible(p, t) == {n \in NoteIds : Sees(p, n, t)}

\* Mutant: rows are only ever added.
WithBody_Added(n, body, t) ==
    [t EXCEPT !.note[n] = [state |-> "live", body |-> body],
              !.refs = @ \cup {<<n, m>> : m \in body.refs},
              !.cites = @ \cup {<<n, body.cites[i]>> : i \in DOMAIN body.cites}]

\* The rows a text is stored with, in place of those of the text before.
WithBody(n, body, t) ==
    [t EXCEPT !.note[n] = [state |-> "live", body |-> body],
              !.refs = {r \in @ : r[1] # n} \cup {<<n, m>> : m \in body.refs},
              !.cites = {c \in @ : c[1] # n} \cup {<<n, body.cites[i]>> : i \in DOMAIN body.cites}]

-------------------------------------------------------------------------------
(* Writing.                                                                *)

WriteNew(n, body) ==
    /\ tables.note[n].state = "none" /\ tables' = WithBody(n, body, tables)

\* update_note, apply_note_patch and restore_note_revision end in this.
Rewrite(n, body) ==
    /\ tables.note[n].state = "live" /\ \E p \in People : LevelOf(p, n, tables) >= 2
    /\ tables' = WithBody(n, body, tables)

\* The rows of a deleted note stay, and serve it again when it is restored.
SetDeleted(n, from, to) ==
    /\ tables.note[n].state = from /\ tables' = [tables EXCEPT !.note[n].state = to]

\* By cascade the rows of the note go; rows that name it as a target stay. The
\* identifier is not used again.
Erase(n) ==
    /\ tables.note[n].state = "deleted"
    /\ tables' = [tables EXCEPT !.note[n] = [state |-> "gone", body |-> NoBody],
                                !.acl[n] = [p \in People |-> 0],
                                !.refs = {r \in @ : r[1] # n}, !.cites = {c \in @ : c[1] # n}]

ShareNote(n, p, level) ==
    /\ tables.note[n].state = "live" /\ p # OwnerOf[n]
    /\ tables' = [tables EXCEPT !.acl[n][p] = level]

EditKey(p, k) ==
    tables' = [tables EXCEPT !.library[p] = IF k \in @ THEN @ \ {k} ELSE @ \cup {k}]

\* An archive has the notes and not the rows: those are made from the texts again,
\* of deleted notes too.
RestoreTables ==
    LET stored == {n \in NoteIds : tables.note[n].state \in {"live", "deleted"}} IN
    tables' = [tables EXCEPT
        !.refs = UNION {{<<n, m>> : m \in tables.note[n].body.refs} : n \in stored},
        !.cites = UNION {{<<n, tables.note[n].body.cites[i]>> : i \in DOMAIN tables.note[n].body.cites} :
                         n \in stored}]

ViewNext ==
    \/ \E n \in NoteIds :
          \/ \E body \in Bodies : WriteNew(n, body) \/ Rewrite(n, body)
          \/ SetDeleted(n, "live", "deleted") \/ SetDeleted(n, "deleted", "live") \/ Erase(n)
          \/ \E p \in People, level \in 0..2 : ShareNote(n, p, level)
    \/ \E p \in People, k \in CitedKeys : EditKey(p, k)
    \/ RestoreTables

ViewSpec == ViewInit /\ [][ViewNext]_tables

-------------------------------------------------------------------------------
(* One note.                                                               *)

\* A reference leads to a note the viewer sees, or is shown as hidden.
Resolution(targets, body) == [m \in body.refs |-> IF m \in targets THEN "visible" ELSE "hidden"]

\* Keys in the order a text first has them; the known ones are numbered and listed.
Once(cites) ==
    LET firsts == SelectSeq([i \in DOMAIN cites |-> i],
                            LAMBDA i : \A j \in 1..i - 1 : cites[j] # cites[i])
    IN [k \in DOMAIN firsts |-> cites[firsts[k]]]
ListedKeys(known, cites) == SelectSeq(Once(cites), LAMBDA k : k \in known)
UnknownKeys(known, cites) == SelectSeq(Once(cites), LAMBDA k : k \notin known)

\* From the library of whoever wrote the note, whoever looks at it.
Citations(known, body) ==
    [entries |-> ListedKeys(known, body.cites), unknown |-> UnknownKeys(known, body.cites)]

\* Mutant: notes that refer to this one are shown whoever may read them.
Incoming_All(p, n, t) == {m \in NoteIds : <<m, n>> \in t.refs /\ t.note[m].state = "live"}

Incoming(p, n, t) == {m \in Visible(p, t) : <<m, n>> \in t.refs}
Outgoing(p, n, t) == {m \in Visible(p, t) : <<n, m>> \in t.refs}

\* read_note_view: one transaction, and after it the citations.
View(p, n, t) ==
    [note |-> t.note[n].body, outgoing |-> Outgoing(p, n, t), incoming |-> Incoming(p, n, t),
     references |-> Resolution(Outgoing(p, n, t), t.note[n].body),
     citations |-> Citations(t.library[OwnerOf[n]], t.note[n].body)]

\* preview_note_update: of a draft, whose targets are looked up by their identifiers.
DraftView(p, n, body, t) ==
    [references |-> Resolution(Visible(p, t) \cap body.refs, body),
     citations |-> Citations(t.library[OwnerOf[n]], body)]

-------------------------------------------------------------------------------
(* The graph.                                                              *)

\* The title of a work is that of the first note whose owner has the item: titles
\* are told by the owner of the library, {} for none.
WorkTitle(k, cites, t) ==
    LET known == {c[1] : c \in {c \in cites : c[2] = k /\ k \in t.library[OwnerOf[c[1]]]}} IN
    {OwnerOf[n] : n \in {n \in known : \A m \in known : n <= m}}

Graph(p, search, t) ==
    LET shown == {n \in Visible(p, t) : search => t.note[n].body.word}
        cites == {c \in t.cites : c[1] \in shown} IN
    [notes |-> shown, works |-> {[key |-> c[2], title |-> WorkTitle(c[2], cites, t)] : c \in cites},
     refs |-> {r \in t.refs : r[1] \in shown /\ r[2] \in shown}, cites |-> cites]

NoGraph == [notes |-> {}, works |-> {}, refs |-> {}, cites |-> {}]

\* Points that an edge joins, in either direction.
Joined2(g, x, y) ==
    \/ \E r \in g.refs : {x, y} = {<<"note", r[1]>>, <<"note", r[2]>>}
    \/ \E c \in g.cites : {x, y} = {<<"note", c[1]>>, <<"work", c[2]>>}
Points(g) == {<<"note", n>> : n \in g.notes} \cup {<<"work", w.key>> : w \in g.works}

\* The points reached in 0, 1, 2 ... steps.
Steps(g, origin) ==
    LET reached[d \in 0..MaxDepth + 1] ==
          IF d = 0 THEN {<<"note", origin>>}
          ELSE reached[d - 1] \cup {y \in Points(g) : \E x \in reached[d - 1] : Joined2(g, x, y)}
    IN reached

AtMost(depth) == IF depth <= MaxDepth THEN depth ELSE MaxDepth

\* Mutant: one step too many.
Reached_Further(g, origin, depth) == Steps(g, origin)[AtMost(depth) + 1]

\* The points reached in so many steps, of as many as may be asked for.
Reached(g, origin, depth) == Steps(g, origin)[AtMost(depth)]

\* What of the graph is within depth edges of a note.
Within(g, origin, depth) ==
    IF origin \notin g.notes THEN NoGraph
    ELSE LET near == Reached(g, origin, depth) IN
         [notes |-> {n \in g.notes : <<"note", n>> \in near},
          works |-> {w \in g.works : <<"work", w.key>> \in near},
          refs |-> {r \in g.refs : <<"note", r[1]>> \in near /\ <<"note", r[2]>> \in near},
          cites |-> {c \in g.cites : <<"note", c[1]>> \in near /\ <<"work", c[2]>> \in near}]

-------------------------------------------------------------------------------
\* The tables keep their type.
ViewTypeOK ==
    /\ \A n \in NoteIds : tables.note[n].state \in {"none", "live", "deleted", "gone"}
    /\ tables.acl \in [NoteIds -> [People -> 0..2]]
    /\ tables.refs \subseteq NoteIds \X NoteIds /\ tables.cites \subseteq NoteIds \X CitedKeys
    /\ tables.library \in [People -> SUBSET CitedKeys]

\* The rows beside the notes say what the texts say, after every change of a text and
\* after a restore, which makes them anew.
LinksAreTheText ==
    \A n \in NoteIds :
        /\ {r[2] : r \in {r \in tables.refs : r[1] = n}} = tables.note[n].body.refs
        /\ {c[2] : c \in {c \in tables.cites : c[1] = n}} =
             {tables.note[n].body.cites[i] : i \in DOMAIN tables.note[n].body.cites}

\* The tables as they would be if what p does not see did not exist: other notes,
\* their rows, and libraries of people none of whose notes p sees.
SeenBy(p, t) ==
    [t EXCEPT !.note = [n \in NoteIds |-> IF Sees(p, n, t) THEN t.note[n] ELSE Unwritten],
              !.refs = {r \in @ : Sees(p, r[1], t)}, !.cites = {c \in @ : Sees(p, c[1], t)},
              !.library = [q \in People |-> IF \E n \in Visible(p, t) : OwnerOf[n] = q
                                            THEN @[q] ELSE {}]]

\* Nothing a person is shown tells of a note the person may not see, not even that
\* there is one: every view, preview and graph is the same without it.
NothingHiddenShows ==
    \A p \in People :
        LET t == tables  less == SeenBy(p, tables) IN
        /\ \A search \in BOOLEAN : Graph(p, search, t) = Graph(p, search, less)
        /\ \A n \in Visible(p, t) :
              /\ View(p, n, t) = View(p, n, less)
              /\ LevelOf(p, n, t) >= 2 =>
                   \A body \in Bodies : DraftView(p, n, body, t) = DraftView(p, n, body, less)

\* A walk of d edges from x to y.
Walk(g, x, y, d) ==
    IF d = 0 THEN x = y
    ELSE \E w \in [1..d - 1 -> Points(g)] :
           LET at(i) == IF i = 0 THEN x ELSE IF i = d THEN y ELSE w[i] IN
           \A i \in 0..d - 1 : Joined2(g, at(i), at(i + 1))

\* The part of the graph that is shown around a note is what walks of that many
\* edges reach, and no edge of it lacks an end.
WithinIsDistance ==
    \A p \in People, search \in BOOLEAN, n \in NoteIds, depth \in 1..MaxDepth :
        LET g == Graph(p, search, tables)  part == Within(g, n, depth) IN
        /\ n \in g.notes =>
             Points(part) = {y \in Points(g) : \E d \in 0..depth : Walk(g, <<"note", n>>, y, d)}
        /\ \A r \in part.refs : {r[1], r[2]} \subseteq part.notes
        /\ \A c \in part.cites : c[1] \in part.notes /\ \E w \in part.works : w.key = c[2]
================================================================================
