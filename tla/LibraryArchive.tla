---------------------------- MODULE LibraryArchive -----------------------------
(***************************************************************************)
(* The bibliography in a backup: items, import sources and the links from  *)
(* which the next import tells what changed since the last one.            *)
(***************************************************************************)
EXTENDS BibliographyImport

\* An item in an archive, without what only the table knows.
ArchivedItem(i) ==
    [key |-> item[i].key, text |-> item[i].text, rev |-> item[i].rev,
     created |-> item[i].created, updated |-> item[i].updated]

ExportedLibrary ==
    [items |-> [i \in Here |-> ArchivedItem(i)],
     sources |-> [s \in {t \in Sources : source[t].rev > 0} |-> source[s]],
     links |-> {l \in [source: Sources, key: Keys, to: {link[s][k] : s \in Sources, k \in Keys}] :
                  l.to = link[l.source][l.key] /\ l.to # NoLink}]

\* with_bibliography_data: no key twice, links between sources and items that are
\* there, at revisions these have had.
LibraryAccepts(x) ==
    /\ \A i, j \in DOMAIN x.items : i # j => x.items[i].key # x.items[j].key
    /\ \A l \in x.links : /\ l.source \in DOMAIN x.sources /\ l.to.item \in DOMAIN x.items
                          /\ l.to.rev <= x.items[l.to.item].rev
    /\ \A l, n \in x.links : l.source = n.source /\ l.key = n.key => l = n

\* Every item and source is built anew from the archive, and refuses times in disorder.
LibraryValidates(x) ==
    /\ Reads([items |-> x.items])
    /\ LibraryAccepts(x)

\* Mutant: a restored item starts at its first revision.
RestoredItem_First(a) ==
    [row |-> "live", key |-> a.key, text |-> a.text, rev |-> 1,
     created |-> a.created, updated |-> a.updated]

RestoredItem(a) ==
    [row |-> "live", key |-> a.key, text |-> a.text, rev |-> a.rev,
     created |-> a.created, updated |-> a.updated]

\* The rows of the empty database after a restore.
RestoredLibrary(x) ==
    [item |-> [i \in Items |-> IF i \in DOMAIN x.items THEN RestoredItem(x.items[i]) ELSE NoItem],
     source |-> [s \in Sources |-> IF s \in DOMAIN x.sources THEN x.sources[s]
                                   ELSE [rev |-> 0, created |-> 0]],
     link |-> [s \in Sources |-> [k \in Keys |->
                 IF \E l \in x.links : l.source = s /\ l.key = k
                 THEN (CHOOSE l \in x.links : l.source = s /\ l.key = k).to ELSE NoLink]]]

\* The classification of a file does not see that the library was restored.
SameImport(x, s, file) ==
    LET r == RestoredLibrary(x)
        lib == [items |-> [i \in DOMAIN x.items |-> r.item[i]],
                links |-> r.link[s], source |-> r.source[s].rev]
    IN \A p \in DOMAIN file : Classify(file, p, lib) = Classify(file, p, Loaded(s))

-------------------------------------------------------------------------------
\* Links lead to items of the same owner at revisions they have had, whatever was edited,
\* deleted and imported between preview and apply.  As long as the clock was not set back,
\* a library can be exported and restored in any state this leaves it in, and an import
\* goes on from where the sources were.
LibraryRestores ==
    /\ \A s \in Sources : Sound(Loaded(s))
    /\ LibraryReads =>
        /\ LibraryValidates(ExportedLibrary)
        /\ \A s \in DOMAIN ExportedLibrary.sources, e \in [key: Keys, text: Texts] :
             SameImport(ExportedLibrary, s, [p \in {1} |-> e])
================================================================================
