------------------------------- MODULE Accounts --------------------------------
(***************************************************************************)
(* Who is who: OIDC login attempts and their callbacks, principals and the *)
(* identities bound to them, Web sessions with an idle and an absolute     *)
(* deadline, the checks a browser request passes before it acts, and the   *)
(* offline commands that hand a principal over to another identity.        *)
(*                                                                         *)
(* Tokens, states and nonces are the identifiers of their rows; the        *)
(* clock may be set back.  The provider (an external service and the       *)
(* shared login crate) answers a callback with any identity or not at all. *)
(***************************************************************************)
EXTENDS Clock, FiniteSets

CONSTANTS
    Identities,   \* pairs of issuer and subject the provider vouches for
    Nobody,       \* no identity
    Allowed,      \* those with an allowed claim value
    Attempts,     \* states of login attempts
    Sessions,     \* session identifiers
    Browsers,     \* requests that may be under way at once
    MaxPending,   \* MAX_PENDING_OIDC_LOGIN_ATTEMPTS
    AttemptLife,  \* lifetime of a login attempt
    IdleWindow,   \* SessionLifetime: idle ...
    Absolute      \* ... and absolute

ASSUME AccountsAssumption ==
    /\ Allowed \subseteq Identities /\ Nobody \notin Identities
    /\ IsFiniteSet(Identities) /\ IsFiniteSet(Attempts)
    /\ MaxPending \in Nat /\ AttemptLife \in Nat /\ IdleWindow \in Nat /\ Absolute \in Nat

PrincipalIds == 1..Cardinality(Identities)
MinOf(a, b) == IF a <= b THEN a ELSE b

\* What is left of a row that was deleted.
NoAttempt == [row |-> "gone", until |-> 0]
NoSession == [row |-> "purged", who |-> Nobody, idle |-> 0, absolute |-> 0]
NoRequest == [stage |-> "idle", session |-> 0, who |-> Nobody]

VARIABLES
    server,        \* "up", or the step of an offline command
    command,       \* the command under way: its identities and whether to switch
    principalOf,   \* principal_identities: the principal an identity is bound to, 0 for none
    primary,       \* primary[k]: the identity of principal k with is_primary, Nobody for none
    attempt,       \* rows of oidc_login_attempts: when they expire
    callback,      \* a callback under way: its step and what the provider said
    session,       \* rows of web_sessions
    request,       \* what a browser's request has passed
    issued,        \* history: the sessions an attempt led to
    ended          \* history: sessions logged out, or refused as expired

commandVars == <<server, command>>
bindVars    == <<principalOf, primary>>
loginVars   == <<attempt, callback, issued>>
sessionVars == <<session, request, ended>>
accountVars == <<clockVars, commandVars, bindVars, loginVars, sessionVars>>

NoCommand == [old |-> Nobody, new |-> Nobody, switch |-> FALSE]

AccountsInit ==
    /\ ClockInit
    /\ server = "up" /\ command = NoCommand
    /\ principalOf = [i \in Identities |-> 0]
    /\ primary = [k \in PrincipalIds |-> Nobody]
    /\ attempt = [t \in Attempts |-> [NoAttempt EXCEPT !.row = "new"]]
    /\ callback = [t \in Attempts |-> [step |-> "none", who |-> Nobody]]
    /\ issued = [t \in Attempts |-> {}]
    /\ session = [s \in Sessions |-> [NoSession EXCEPT !.row = "new"]]
    /\ request = [b \in Browsers |-> NoRequest]
    /\ ended = {}

-------------------------------------------------------------------------------
(* Identities and principals.                                              *)

\* Resolving joins the identity with the primary one of its principal; without
\* either there is no answer.
Resolves(i) == principalOf[i] # 0 /\ primary[principalOf[i]] # Nobody
Resolved(i) == IF Resolves(i) THEN principalOf[i] ELSE 0

Used == {principalOf[i] : i \in Identities} \ {0}

\* Mutant: the identity is looked up before the write is reserved, so a
\* simultaneous first login is not seen.
ResolveOrCreate_Unreserved(i) ==
    \E k \in PrincipalIds \ Used :
        /\ principalOf' = [principalOf EXCEPT ![i] = k]
        /\ primary' = [primary EXCEPT ![k] = i]

\* One transaction that reserves the write first: the principal of an identity,
\* a new one if there is none.
ResolveOrCreate(i) ==
    \/ /\ principalOf[i] # 0 /\ Resolves(i)
       /\ UNCHANGED bindVars
    \/ /\ principalOf[i] = 0
       /\ \E k \in PrincipalIds \ Used :
            /\ \A j \in PrincipalIds : j < k => j \in Used
            /\ principalOf' = [principalOf EXCEPT ![i] = k]
            /\ primary' = [primary EXCEPT ![k] = i]

\* Sharing a note with an identity that never logged in creates its principal.
ShareWith(i) ==
    /\ server = "up"
    /\ principalOf[i] = 0 /\ ResolveOrCreate(i)
    /\ UNCHANGED <<clockVars, commandVars, loginVars, sessionVars>>

-------------------------------------------------------------------------------
(* Login: an attempt is stored, taken by its callback and ends in a session. *)

Pending(t) == attempt[t].row = "pending"
Lapsed(t)  == Pending(t) /\ attempt[t].until <= now

\* Expired attempts go first; a full table refuses, and nothing of it stays.
RoomForAttempt == Cardinality({u \in Attempts : Pending(u) /\ ~Lapsed(u)}) < MaxPending

BeginLogin(t) ==
    /\ server = "up" /\ attempt[t].row = "new"
    /\ RoomForAttempt
    /\ attempt' = [u \in Attempts |->
                     IF u = t THEN [row |-> "pending", until |-> now + AttemptLife]
                     ELSE IF Lapsed(u) THEN NoAttempt
                     ELSE attempt[u]]
    /\ UNCHANGED <<clockVars, commandVars, bindVars, callback, issued, sessionVars>>

\* Mutant: the attempt is read and left to the purge.
TakeAttempt_Read(t) ==
    /\ server = "up" /\ Pending(t) /\ ~Lapsed(t)
    /\ callback' = [callback EXCEPT ![t] = [step |-> "taken", who |-> Nobody]]
    /\ UNCHANGED <<clockVars, commandVars, bindVars, attempt, issued, sessionVars>>

\* The callback deletes the row, expired or not; only one that was not goes on.
TakeAttempt(t) ==
    /\ server = "up" /\ Pending(t)
    /\ attempt' = [attempt EXCEPT ![t] = NoAttempt]
    /\ callback' = IF Lapsed(t) THEN callback
                   ELSE [callback EXCEPT ![t] = [step |-> "taken", who |-> Nobody]]
    /\ UNCHANGED <<clockVars, commandVars, bindVars, issued, sessionVars>>

\* The provider's tokens are exchanged and verified; an identity without an
\* allowed claim value is refused before anything is created for it.
ProviderAnswers(t) ==
    /\ callback[t].step = "taken"
    /\ \E i \in Allowed : callback' = [callback EXCEPT ![t] = [step |-> "verified", who |-> i]]
    /\ UNCHANGED <<clockVars, commandVars, bindVars, attempt, issued, sessionVars>>

\* complete_login ends with the principal ...
CompleteLogin(t) ==
    /\ callback[t].step = "verified"
    /\ ResolveOrCreate(callback[t].who)
    /\ callback' = [callback EXCEPT ![t].step = "resolved"]
    /\ UNCHANGED <<clockVars, commandVars, attempt, issued, sessionVars>>

NewSession(i) ==
    [row |-> "live", who |-> i,
     idle |-> MinOf(now + IdleWindow, now + Absolute), absolute |-> now + Absolute]

\* ... and the handler goes on to a session, for which the identity is resolved
\* once more. The new identifier replaces nothing.
IssueSession(t, s) ==
    /\ callback[t].step = "resolved" /\ Resolves(callback[t].who)
    /\ session[s].row = "new"
    /\ session' = [session EXCEPT ![s] = NewSession(callback[t].who)]
    /\ callback' = [callback EXCEPT ![t] = [step |-> "none", who |-> Nobody]]
    /\ issued' = [issued EXCEPT ![t] = @ \cup {s}]
    /\ UNCHANGED <<clockVars, commandVars, bindVars, attempt, request, ended>>

\* Any step may fail; what it stored stays, and the login starts again.
LoginFails(t) ==
    /\ callback[t].step # "none"
    /\ callback' = [callback EXCEPT ![t] = [step |-> "none", who |-> Nobody]]
    /\ UNCHANGED <<clockVars, commandVars, bindVars, attempt, issued, sessionVars>>

-------------------------------------------------------------------------------
(* A request with a session cookie.                                        *)

Valid(s) == session[s].row = "live" /\ session[s].idle > now /\ session[s].absolute > now

\* Mutant: an expired session is refused and stays as it is.
Refuse_Unmarked(s) == UNCHANGED session /\ ended' = ended \cup {s}

Revoked(s) == IF session[s].row = "live" THEN [session EXCEPT ![s].row = "revoked"] ELSE session

\* A session found expired is revoked on the spot, so that it stays refused
\* whatever the clock does next.
Refuse(s) == session' = Revoked(s) /\ ended' = ended \cup {s}

Send(b, req) == request' = [request EXCEPT ![b] = req]

\* Validity and the new idle deadline are one statement.
Authenticate(b, s) ==
    /\ server = "up" /\ request[b] = NoRequest
    /\ session[s].row # "new"
    /\ IF Valid(s)
       THEN /\ session' = [session EXCEPT ![s].idle = MinOf(session[s].absolute, now + IdleWindow)]
            /\ Send(b, [stage |-> "session", session |-> s, who |-> session[s].who])
            /\ UNCHANGED ended
       ELSE Refuse(s) /\ Send(b, NoRequest)
    /\ UNCHANGED <<clockVars, commandVars, bindVars, loginVars>>

\* The identity of the session is resolved, and never created.
FindActor(b) ==
    /\ request[b].stage = "session"
    /\ Send(b, IF Resolves(request[b].who) THEN [request[b] EXCEPT !.stage = "actor"] ELSE NoRequest)
    /\ UNCHANGED <<clockVars, commandVars, bindVars, loginVars, session, ended>>

\* Revoked sessions have no CSRF token; the deadlines are not looked at again.
CsrfHolds(s) == session[s].row = "live"

\* A mutation from the own origin compares the token of its cookie, its header and the session.
VerifyCsrf(b) ==
    /\ request[b].stage = "actor"
    /\ Send(b, IF CsrfHolds(request[b].session)
               THEN [request[b] EXCEPT !.stage = "checked"] ELSE NoRequest)
    /\ UNCHANGED <<clockVars, commandVars, bindVars, loginVars, session, ended>>

\* The use case runs as the principal of the identity; reads run without the CSRF check.
Act(b) ==
    /\ request[b].stage \in {"actor", "checked"}
    /\ Send(b, NoRequest)
    /\ UNCHANGED <<clockVars, commandVars, bindVars, loginVars, session, ended>>

Logout(b) ==
    /\ request[b].stage = "checked"
    /\ LET s == request[b].session IN
       session' = Revoked(s) /\ ended' = ended \cup {s}
    /\ Send(b, NoRequest)
    /\ UNCHANGED <<clockVars, commandVars, bindVars, loginVars>>

-------------------------------------------------------------------------------
(* purge-expired, which may run beside the server.                         *)

PurgeAccounts ==
    /\ server = "up"
    /\ session' = [s \in Sessions |->
                     IF session[s].row = "revoked" \/ (session[s].row = "live" /\ ~Valid(s))
                     THEN NoSession ELSE session[s]]
    /\ attempt' = [t \in Attempts |->
                     IF Lapsed(t) THEN NoAttempt ELSE attempt[t]]
    /\ UNCHANGED <<clockVars, commandVars, bindVars, callback, issued, request, ended>>

-------------------------------------------------------------------------------
(* Offline: the command takes the database for itself; requests and        *)
(* callbacks under way end with the server.                                *)

\* Exactly one primary identity for every principal, and one of its own.
BindingsValid(of, prim) ==
    \A k \in {of[i] : i \in Identities} \ {0} : prim[k] # Nobody /\ of[prim[k]] = k

LinkIdentity(old, new, switch) ==
    /\ server = "up"
    /\ old # new /\ BindingsValid(principalOf, primary)
    /\ principalOf[old] # 0 /\ principalOf[new] = 0
    /\ server' = "checked"
    /\ command' = [old |-> old, new |-> new, switch |-> switch]
    /\ callback' = [t \in Attempts |-> [step |-> "none", who |-> Nobody]]
    /\ request' = [b \in Browsers |-> NoRequest]
    /\ UNCHANGED <<clockVars, bindVars, attempt, issued, session, ended>>

SetPrimary(i) ==
    /\ server = "up" /\ BindingsValid(principalOf, primary)
    /\ principalOf[i] # 0 /\ primary[principalOf[i]] # i
    /\ server' = "checked"
    /\ command' = [old |-> i, new |-> i, switch |-> TRUE]
    /\ callback' = [t \in Attempts |-> [step |-> "none", who |-> Nobody]]
    /\ request' = [b \in Browsers |-> NoRequest]
    /\ UNCHANGED <<clockVars, bindVars, attempt, issued, session, ended>>

\* The verified copy of the whole database is there before anything changes.
PublishBackup ==
    /\ server = "checked" /\ server' = "saved"
    /\ UNCHANGED <<clockVars, command, bindVars, loginVars, sessionVars>>

\* One transaction, verified before it commits.
ApplyCommand ==
    /\ server = "saved"
    /\ LET k == principalOf[command.old] IN
       /\ principalOf' = [principalOf EXCEPT ![command.new] = k]
       /\ primary' = IF command.switch THEN [primary EXCEPT ![k] = command.new] ELSE primary
    /\ BindingsValid(principalOf', primary')
    /\ server' = "up" /\ command' = NoCommand
    /\ UNCHANGED <<clockVars, loginVars, sessionVars>>

\* It stops at any step, or the server does: what was under way is gone.
StopsAccounts ==
    /\ server' = "up" /\ command' = NoCommand
    /\ callback' = [t \in Attempts |-> [step |-> "none", who |-> Nobody]]
    /\ request' = [b \in Browsers |-> NoRequest]
    /\ UNCHANGED <<clockVars, bindVars, attempt, issued, session, ended>>

AccountsClock ==
    /\ Tick
    /\ UNCHANGED <<commandVars, bindVars, loginVars, sessionVars>>

-------------------------------------------------------------------------------
Login(t) ==
    \/ BeginLogin(t) \/ TakeAttempt(t) \/ ProviderAnswers(t) \/ CompleteLogin(t)
    \/ \E s \in Sessions : IssueSession(t, s)
    \/ LoginFails(t)

Browse(b) ==
    \/ \E s \in Sessions : Authenticate(b, s)
    \/ FindActor(b) \/ VerifyCsrf(b) \/ Act(b) \/ Logout(b)

Maintain ==
    \/ \E i, j \in Identities : LinkIdentity(i, j, TRUE) \/ LinkIdentity(i, j, FALSE)
    \/ \E i \in Identities : SetPrimary(i)
    \/ PublishBackup \/ ApplyCommand

AccountsNext ==
    \/ \E t \in Attempts : Login(t)
    \/ \E b \in Browsers : Browse(b)
    \/ \E i \in Identities : ShareWith(i)
    \/ PurgeAccounts \/ Maintain \/ StopsAccounts \/ AccountsClock

AccountsSpec == AccountsInit /\ [][AccountsNext]_accountVars

-------------------------------------------------------------------------------
\* Every variable keeps its type; an idle deadline never passes the absolute one.
AccountsTypeOK ==
    /\ ClockTypeOK
    /\ server \in {"up", "checked", "saved"}
    /\ principalOf \in [Identities -> PrincipalIds \cup {0}]
    /\ primary \in [PrincipalIds -> Identities \cup {Nobody}]
    /\ attempt \in [Attempts -> [row: {"new", "pending", "gone"}, until: Nat]]
    /\ callback \in [Attempts -> [step: {"none", "taken", "verified", "resolved"},
                                  who: Identities \cup {Nobody}]]
    /\ session \in [Sessions -> [row: {"new", "live", "revoked", "purged"},
                                 who: Identities \cup {Nobody},
                                 idle: Nat, absolute: Nat]]
    /\ \A s \in Sessions : session[s].idle <= session[s].absolute
    /\ request \in [Browsers -> [stage: {"idle", "session", "actor", "checked"},
                                 session: Sessions \cup {0}, who: Identities \cup {Nobody}]]
    /\ issued \in [Attempts -> SUBSET Sessions] /\ ended \subseteq Sessions
    /\ command.new \in Identities \cup {Nobody}

\* A session that was logged out, or refused once, never passes again: not in a
\* request that races the logout, not after the clock was set back.
EndedStaysEnded == \A s \in ended : session[s].row \in {"revoked", "purged"}

\* A callback that is repeated, or races itself or the purge, leads to one
\* session at most, and a session comes from one attempt.
LoginIsOnce ==
    /\ \A t \in Attempts : Cardinality(issued[t]) <= 1
    /\ \A t, u \in Attempts : t # u => issued[t] \cap issued[u] = {}

\* Whatever logs in, is shared with, linked or made primary, and wherever a
\* command stops: an identity that has resolved resolves to the same principal
\* for ever, so that sessions, tokens and access lists keep their meaning.
ResolvesAsBefore ==
    [][\A i \in Identities : Resolves(i) => Resolves(i)' /\ Resolved(i)' = Resolved(i)]_accountVars
================================================================================
