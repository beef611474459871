---------------------------- MODULE AccountsArchive ----------------------------
(***************************************************************************)
(* Principals in a backup.  Inside the database everything refers to the   *)
(* number of a principal; an archive knows identities only, names each     *)
(* owner by its primary one, and numbers principals anew when it is read.  *)
(***************************************************************************)
EXTENDS Accounts

Bound(k) == {i \in Identities : principalOf[i] = k}

\* Principal::restore and with_principals: a primary identity of its own for each.
PrincipalsAccepted ==
    \A k \in Used : primary[k] # Nobody /\ primary[k] \in Bound(k)

\* Mutant: the other identities of a principal are left out.
ArchivedPrincipals_PrimaryOnly == {[main |-> primary[k], aliases |-> {}] : k \in Used}

\* The entry of a principal: its primary identity and the others.
ArchivedPrincipals == {[main |-> primary[k], aliases |-> Bound(k) \ {primary[k]}] : k \in Used}

\* No identity twice, as a primary one or an alias.
DeclaredPrincipals(entries) ==
    \A e \in entries :
        /\ e.main \notin e.aliases
        /\ \A f \in entries \ {e} :
             ({e.main} \cup e.aliases) \cap ({f.main} \cup f.aliases) = {}

\* What refers to a principal comes back as the one whose primary identity it names.
PrincipalNamed(entries, i) == CHOOSE e \in entries : e.main = i

\* The rows inserted: whom an identity resolves to afterwards.
InsertedFor(entries, i) == {e \in entries : i = e.main \/ i \in e.aliases}

-------------------------------------------------------------------------------
\* Whatever logged in, was shared with, linked or made primary: the principals can be
\* exported and the archive read, and after a restore every identity that got in before
\* gets in again, and reaches what its principal owned.
PrincipalsRestore ==
    server = "up" =>
        /\ PrincipalsAccepted /\ DeclaredPrincipals(ArchivedPrincipals)
        /\ \A i \in Identities : Resolves(i) =>
             InsertedFor(ArchivedPrincipals, i) =
               {PrincipalNamed(ArchivedPrincipals, primary[Resolved(i)])}
        /\ \A i \in Identities : ~Resolves(i) => InsertedFor(ArchivedPrincipals, i) = {}
================================================================================
