----------------------------- MODULE AccountsProofs -----------------------------
(***************************************************************************)
(* Theorems about Accounts, for any identities, sessions, login attempts,  *)
(* requests at once, lifetimes and limits, and a clock that may be set     *)
(* back: a login attempt leads to one session at most, an ended session    *)
(* stays ended, and an identity keeps its principal.                       *)
(***************************************************************************)
EXTENDS AccountsArchive, FiniteSetTheorems, TLAPS

USE AccountsAssumption, ClockAssumption
    DEF clockVars, commandVars, bindVars, loginVars, sessionVars

Anyone == Identities \cup {Nobody}
AttemptRows == [row: {"new", "pending", "gone"}, until: Nat]
Callbacks   == [step: {"none", "taken", "verified", "resolved"}, who: Anyone]
SessionRows == [row: {"new", "live", "revoked", "purged"}, who: Anyone, idle: Nat, absolute: Nat]
Passed      == [stage: {"idle", "session", "actor", "checked"}, session: Sessions \cup {0}, who: Anyone]
CommandsUnderWay == [old: Anyone, new: Anyone, switch: BOOLEAN]

\* An attempt leads to a session after its row is gone and its callback came.
LoginInv ==
    /\ attempt \in [Attempts -> AttemptRows]
    /\ callback \in [Attempts -> Callbacks]
    /\ issued \in [Attempts -> SUBSET Sessions]
    /\ \A t \in Attempts :
         /\ callback[t].step \in {"verified", "resolved"} => callback[t].who \in Identities
         /\ attempt[t].row # "gone" => callback[t].step = "none"
         /\ attempt[t].row # "gone" \/ callback[t].step # "none" => issued[t] = {}
         /\ issued[t] = {} \/ \E s \in Sessions : issued[t] = {s}
    /\ \A t, u \in Attempts : t # u => issued[t] \cap issued[u] = {}

\* Only sessions that were begun are issued, presented or ended.
SessionInv ==
    /\ session \in [Sessions -> SessionRows]
    /\ \A s \in Sessions : session[s].idle <= session[s].absolute
    /\ request \in [Browsers -> Passed]
    /\ \A b \in Browsers : request[b].stage # "idle" =>
         request[b].session \in Sessions /\ session[request[b].session].row # "new"
    /\ ended \subseteq Sessions /\ EndedStaysEnded
    /\ \A t \in Attempts : \A s \in issued[t] : session[s].row # "new"

\* Offline, the command still fits the bindings it was checked against.
BindInv ==
    /\ principalOf \in [Identities -> PrincipalIds \cup {0}]
    /\ primary \in [PrincipalIds -> Anyone]
    /\ server \in {"up", "checked", "saved"} /\ command \in CommandsUnderWay
    /\ server # "up" =>
         /\ \A t \in Attempts : callback[t].step = "none"
         /\ command.old \in Identities /\ command.new \in Identities
         /\ principalOf[command.old] # 0
         /\ principalOf[command.new] \in {0, principalOf[command.old]}

AccountsInv == ClockTypeOK /\ LoginInv /\ SessionInv /\ BindInv

-------------------------------------------------------------------------------
LEMMA AccountsBegin == AccountsInit => AccountsInv
<1> SUFFICES ASSUME AccountsInit PROVE AccountsInv
  OBVIOUS
<1>1. ClockTypeOK
  BY DEF AccountsInit, ClockInit, ClockTypeOK
<1>2. LoginInv
  <2>1. [NoAttempt EXCEPT !.row = "new"] = [row |-> "new", until |-> 0]
    BY DEF NoAttempt
  <2> QED BY <2>1 DEF AccountsInit, LoginInv, AttemptRows, Callbacks, Anyone
<1>3. SessionInv
  <2>1. [NoSession EXCEPT !.row = "new"]
          = [row |-> "new", who |-> Nobody, idle |-> 0, absolute |-> 0]
    BY DEF NoSession
  <2>2. NoRequest \in Passed /\ NoRequest.stage = "idle"
    BY DEF NoRequest, Passed, Anyone
  <2> QED BY SMTT(30), <2>1, <2>2 DEF AccountsInit, SessionInv, SessionRows, Anyone, EndedStaysEnded
<1>4. BindInv
  BY DEF AccountsInit, BindInv, NoCommand, CommandsUnderWay, Anyone
<1> QED BY <1>1, <1>2, <1>3, <1>4 DEF AccountsInv

-------------------------------------------------------------------------------
(* Login attempts.                                                         *)

LEMMA LoginSteps == ASSUME AccountsInv, [AccountsNext]_accountVars PROVE LoginInv'
<1> USE DEF AccountsInv, LoginInv
<1>t. /\ now \in Nat /\ NoAttempt \in AttemptRows /\ NoAttempt.row = "gone"
      /\ \A i \in Anyone : [step |-> "none", who |-> i] \in Callbacks
      /\ \A i \in Anyone : [step |-> "taken", who |-> i] \in Callbacks
      /\ \A i \in Anyone : [step |-> "verified", who |-> i] \in Callbacks
      /\ Nobody \in Anyone /\ Identities \subseteq Anyone
  BY DEF ClockTypeOK, NoAttempt, AttemptRows, Callbacks, Anyone
<1>1. ASSUME NEW t \in Attempts, BeginLogin(t) PROVE LoginInv'
  <2>1. [row |-> "pending", until |-> now + AttemptLife] \in AttemptRows
    BY <1>t DEF AttemptRows
  <2>2. /\ attempt' \in [Attempts -> AttemptRows] /\ UNCHANGED <<callback, issued>>
        /\ \A u \in Attempts : attempt'[u].row # "gone" => attempt[u].row # "gone"
    BY <1>1, <1>t, <2>1 DEF BeginLogin
  <2> QED BY <2>2
<1>2. ASSUME NEW t \in Attempts, TakeAttempt(t) PROVE LoginInv'
  <2>1. /\ attempt[t].row = "pending" /\ attempt' = [attempt EXCEPT ![t] = NoAttempt]
        /\ \/ callback' = callback
           \/ callback' = [callback EXCEPT ![t] = [step |-> "taken", who |-> Nobody]]
        /\ UNCHANGED issued
    BY <1>2 DEF TakeAttempt, Pending
  <2> QED BY <1>t, <2>1
<1>3. ASSUME NEW t \in Attempts, ProviderAnswers(t) PROVE LoginInv'
  <2>1. PICK i \in Identities : callback' = [callback EXCEPT ![t] = [step |-> "verified", who |-> i]]
    BY <1>3 DEF ProviderAnswers
  <2> QED BY <1>3, <1>t, <2>1 DEF ProviderAnswers
<1>4. ASSUME NEW t \in Attempts, CompleteLogin(t) PROVE LoginInv'
  <2>1. [callback[t] EXCEPT !.step = "resolved"] \in Callbacks
    BY DEF Callbacks
  <2> QED BY <1>4, <2>1 DEF CompleteLogin, Callbacks
<1>5. ASSUME NEW t \in Attempts, NEW s \in Sessions, IssueSession(t, s) PROVE LoginInv'
  <2>1. /\ callback[t].step = "resolved" /\ session[s].row = "new"
        /\ callback' = [callback EXCEPT ![t] = [step |-> "none", who |-> Nobody]]
        /\ issued' = [issued EXCEPT ![t] = @ \cup {s}] /\ UNCHANGED attempt
    BY <1>5 DEF IssueSession
  <2>2. issued[t] = {} /\ attempt[t].row = "gone" /\ issued' = [issued EXCEPT ![t] = {s}]
    BY <2>1
  <2>3. \A u \in Attempts : s \notin issued[u]
    BY <2>1 DEF SessionInv
  <2>4. \A u, v \in Attempts : u # v => issued'[u] \cap issued'[v] = {}
    BY <2>2, <2>3
  <2>5. /\ callback' \in [Attempts -> Callbacks] /\ issued' \in [Attempts -> SUBSET Sessions]
        /\ callback'[t].step = "none" /\ issued'[t] = {s} /\ attempt'[t].row = "gone"
        /\ \A u \in Attempts : u # t => callback'[u] = callback[u] /\ issued'[u] = issued[u]
                                        /\ attempt'[u] = attempt[u]
    BY <1>t, <2>1, <2>2
  <2> QED BY <2>1, <2>4, <2>5
<1>6. ASSUME NEW t \in Attempts, LoginFails(t) PROVE LoginInv'
  BY <1>6, <1>t DEF LoginFails
<1>7. ASSUME callback' = [t \in Attempts |-> [step |-> "none", who |-> Nobody]],
             UNCHANGED <<attempt, issued>>
      PROVE  LoginInv'
  BY <1>7, <1>t
<1>8. CASE PurgeAccounts
  <2>1. /\ attempt' \in [Attempts -> AttemptRows] /\ UNCHANGED <<callback, issued>>
        /\ \A u \in Attempts : attempt'[u].row # "gone" => attempt[u].row # "gone"
    BY <1>8, <1>t DEF PurgeAccounts
  <2> QED BY <2>1
<1>9. CASE UNCHANGED loginVars
  BY <1>9
<1>10. ASSUME NEW t \in Attempts, Login(t) PROVE LoginInv'
  BY <1>1, <1>2, <1>3, <1>4, <1>5, <1>6, <1>10 DEF Login
<1>11. ASSUME NEW b \in Browsers, Browse(b) PROVE LoginInv'
  BY <1>9, <1>11 DEF Browse, Authenticate, FindActor, VerifyCsrf, Act, Logout
<1>12. CASE Maintain \/ StopsAccounts
  BY <1>7, <1>9, <1>12 DEF Maintain, LinkIdentity, SetPrimary, PublishBackup, ApplyCommand, StopsAccounts
<1>13. ASSUME NEW i \in Identities, ShareWith(i) PROVE LoginInv'
  BY <1>9, <1>13 DEF ShareWith
<1>14. CASE AccountsClock \/ UNCHANGED accountVars
  BY <1>9, <1>14 DEF AccountsClock, accountVars
<1> QED BY <1>8, <1>10, <1>11, <1>12, <1>13, <1>14 DEF AccountsNext

-------------------------------------------------------------------------------
(* Sessions and requests.                                                  *)

\* Revoking a session, in whatever state its row is, keeps the type of the table.
LEMMA RevokedRow ==
  ASSUME SessionInv, NEW s \in Sessions, session[s].row # "new"
  PROVE  /\ Revoked(s) \in [Sessions -> SessionRows]
         /\ Revoked(s)[s].row \in {"revoked", "purged"}
         /\ \A r \in Sessions : /\ r # s => Revoked(s)[r] = session[r]
                               /\ Revoked(s)[r].idle = session[r].idle
                               /\ Revoked(s)[r].absolute = session[r].absolute
<1>1. session \in [Sessions -> SessionRows] /\ session[s] \in SessionRows
  BY DEF SessionInv
<1>2. [session[s] EXCEPT !.row = "revoked"] \in SessionRows
  BY <1>1 DEF SessionRows
<1>3. CASE session[s].row = "live"
  BY <1>1, <1>2, <1>3 DEF Revoked, SessionRows
<1>4. CASE session[s].row # "live"
  BY <1>1, <1>4 DEF Revoked, SessionRows
<1> QED BY <1>3, <1>4

\* An action that keeps the sessions that were begun, and ends none that stays live.
LEMMA SessionFrame ==
  ASSUME SessionInv, session' \in [Sessions -> SessionRows],
         \A s \in Sessions : /\ session'[s].idle <= session'[s].absolute
                             /\ session[s].row # "new" => session'[s].row # "new"
                             /\ session[s].row \in {"revoked", "purged"} =>
                                  session'[s].row \in {"revoked", "purged"},
         request' \in [Browsers -> Passed],
         \A b \in Browsers : request'[b].stage # "idle" =>
            request'[b].session \in Sessions /\ session'[request'[b].session].row # "new",
         ended' \subseteq Sessions,
         \A s \in ended' \ ended : session'[s].row \in {"revoked", "purged"},
         issued' \in [Attempts -> SUBSET Sessions],
         \A t \in Attempts : \A s \in issued'[t] \ issued[t] : session'[s].row # "new"
  PROVE  SessionInv'
BY DEF SessionInv, EndedStaysEnded

LEMMA SessionSteps ==
  ASSUME AccountsInv, LoginInv', [AccountsNext]_accountVars
  PROVE  SessionInv'
<1> USE DEF AccountsInv
<1>t. /\ session \in [Sessions -> SessionRows] /\ request \in [Browsers -> Passed]
      /\ ended \subseteq Sessions /\ issued \in [Attempts -> SUBSET Sessions] /\ now \in Nat
      /\ issued' \in [Attempts -> SUBSET Sessions]
      /\ \A s \in Sessions : session[s].idle <= session[s].absolute
      /\ \A b \in Browsers : request[b].stage # "idle" =>
            request[b].session \in Sessions /\ session[request[b].session].row # "new"
  BY DEF SessionInv, LoginInv, ClockTypeOK
<1>n. NoRequest \in Passed /\ NoRequest.stage = "idle"
  BY DEF NoRequest, Passed, Anyone
<1>1. CASE UNCHANGED <<session, request, ended, issued>>
  BY <1>1, <1>t, SessionFrame
<1>2. ASSUME NEW t \in Attempts, NEW s \in Sessions, IssueSession(t, s) PROVE SessionInv'
  <2>1. callback[t].who \in Anyone
    BY DEF LoginInv, Callbacks
  <2> DEFINE new == NewSession(callback[t].who)
  <2>2. new \in SessionRows /\ new.idle <= new.absolute /\ new.row = "live"
    BY <1>t, <2>1 DEF NewSession, MinOf, SessionRows
  <2> HIDE DEF new
  <2>3. /\ session[s].row = "new" /\ session' = [session EXCEPT ![s] = new]
        /\ issued' = [issued EXCEPT ![t] = @ \cup {s}] /\ UNCHANGED <<request, ended>>
    BY <1>2 DEF IssueSession, new
  <2>4. /\ session' \in [Sessions -> SessionRows] /\ session'[s] = new
        /\ \A r \in Sessions : r # s => session'[r] = session[r]
    BY <1>t, <2>2, <2>3
  <2>5. \A u \in Attempts : \A r \in issued'[u] \ issued[u] : r = s
    BY <1>t, <2>3
  <2>6. \A r \in Sessions : session'[r].idle <= session'[r].absolute
    BY <1>t, <2>2, <2>4
  <2>7. \A r \in Sessions : /\ session'[r].row # "new" \/ session[r].row = "new" 
                            /\ session[r].row \in {"revoked", "purged"} =>
                                  session'[r].row \in {"revoked", "purged"}
    BY <2>2, <2>3, <2>4
  <2> QED BY <1>t, <2>2, <2>3, <2>4, <2>5, <2>6, <2>7, SessionFrame
<1>3. ASSUME NEW b \in Browsers, NEW s \in Sessions, Authenticate(b, s) PROVE SessionInv'
  <2>0. session[s] \in SessionRows /\ session[s].row # "new" /\ UNCHANGED issued
    BY <1>3, <1>t DEF Authenticate
  <2>1. CASE Valid(s)
    <3> DEFINE idle == MinOf(session[s].absolute, now + IdleWindow)
    <3>1. idle \in Nat /\ idle <= session[s].absolute
      BY <1>t, <2>0 DEF MinOf, SessionRows
    <3> HIDE DEF idle
    <3>2. /\ session' = [session EXCEPT ![s].idle = idle] /\ UNCHANGED ended
          /\ request' = [request EXCEPT ![b] = [stage |-> "session", session |-> s,
                                               who |-> session[s].who]]
      BY <1>3, <2>1 DEF Authenticate, Send, idle
    <3>3. [stage |-> "session", session |-> s, who |-> session[s].who] \in Passed
      BY <2>0 DEF Passed, SessionRows
    <3>4. [session[s] EXCEPT !.idle = idle] \in SessionRows
      BY <2>0, <3>1 DEF SessionRows
    <3>5. /\ session' \in [Sessions -> SessionRows]
          /\ session'[s].row = session[s].row /\ session'[s].idle <= session'[s].absolute
          /\ \A r \in Sessions : r # s => session'[r] = session[r]
      BY <1>t, <2>0, <3>1, <3>2, <3>4 DEF SessionRows
    <3>6. /\ request' \in [Browsers -> Passed] /\ request'[b].session = s
          /\ \A c \in Browsers : c # b => request'[c] = request[c]
      BY <1>t, <3>2, <3>3
    <3>7. \A r \in Sessions : session'[r].row = session[r].row /\ session'[r].idle <= session'[r].absolute
      BY <1>t, <3>5
    <3> QED BY <1>t, <2>0, <3>2, <3>5, <3>6, <3>7, SessionFrame
  <2>2. CASE ~Valid(s)
    <3>1. /\ session' = Revoked(s) /\ ended' = ended \cup {s}
          /\ request' = [request EXCEPT ![b] = NoRequest]
      BY <1>3, <2>2 DEF Authenticate, Refuse, Send
    <3>2. /\ session' \in [Sessions -> SessionRows]
          /\ session'[s].row \in {"revoked", "purged"}
          /\ \A r \in Sessions : /\ r # s => session'[r] = session[r]
                                /\ session'[r].idle = session[r].idle
                                /\ session'[r].absolute = session[r].absolute
      BY <2>0, <3>1, RevokedRow
    <3>3. /\ request' \in [Browsers -> Passed]
          /\ \A c \in Browsers : request'[c].stage # "idle" => request'[c] = request[c]
      BY <1>t, <1>n, <3>1
    <3> QED BY <1>t, <2>0, <3>1, <3>2, <3>3, SessionFrame
  <2> QED BY <2>1, <2>2
<1>4. ASSUME NEW b \in Browsers, FindActor(b) \/ VerifyCsrf(b) \/ Act(b) PROVE SessionInv'
  <2>1. /\ [request[b] EXCEPT !.stage = "actor"] \in Passed
        /\ [request[b] EXCEPT !.stage = "checked"] \in Passed
        /\ [request[b] EXCEPT !.stage = "actor"].session = request[b].session
        /\ [request[b] EXCEPT !.stage = "checked"].session = request[b].session
    BY <1>t DEF Passed
  <2>2. /\ request[b].stage # "idle" /\ UNCHANGED <<session, ended, issued>>
        /\ \E req \in {NoRequest, [request[b] EXCEPT !.stage = "actor"],
                        [request[b] EXCEPT !.stage = "checked"]} :
              request' = [request EXCEPT ![b] = req]
    BY <1>4 DEF FindActor, VerifyCsrf, Act, Send
  <2>3. /\ request' \in [Browsers -> Passed]
        /\ \A c \in Browsers : request'[c].stage # "idle" =>
              request[c].stage # "idle" /\ request'[c].session = request[c].session
    BY ZenonT(60), <1>t, <1>n, <2>1, <2>2
  <2> QED BY <1>t, <2>2, <2>3, SessionFrame
<1>5. ASSUME NEW b \in Browsers, Logout(b) PROVE SessionInv'
  <2> DEFINE s == request[b].session
  <2>1. s \in Sessions /\ session[s].row # "new"
    BY <1>5, <1>t DEF Logout
  <2>2. /\ session' = Revoked(s) /\ ended' = ended \cup {s}
        /\ request' = [request EXCEPT ![b] = NoRequest] /\ UNCHANGED issued
    BY <1>5 DEF Logout, Send
  <2> HIDE DEF s
  <2>3. /\ session' \in [Sessions -> SessionRows]
        /\ session'[s].row \in {"revoked", "purged"}
        /\ \A r \in Sessions : /\ r # s => session'[r] = session[r]
                              /\ session'[r].idle = session[r].idle
                              /\ session'[r].absolute = session[r].absolute
    BY <2>1, <2>2, RevokedRow
  <2>4. /\ request' \in [Browsers -> Passed]
        /\ \A c \in Browsers : request'[c].stage # "idle" => request'[c] = request[c]
    BY <1>t, <1>n, <2>2
  <2> QED BY <1>t, <2>1, <2>2, <2>3, <2>4, SessionFrame
<1>6. CASE PurgeAccounts
  <2>1. NoSession \in SessionRows /\ NoSession.row = "purged" /\ NoSession.idle = 0 /\ NoSession.absolute = 0
    BY DEF NoSession, SessionRows, Anyone
  <2>2. /\ session' \in [Sessions -> SessionRows]
        /\ \A s \in Sessions : session'[s] = session[s]
                              \/ (session'[s] = NoSession /\ session[s].row # "new")
        /\ UNCHANGED <<request, ended, issued>>
    <3> DEFINE gone == {s \in Sessions :
                          session[s].row = "revoked" \/ (session[s].row = "live" /\ ~Valid(s))}
    <3>1. gone \subseteq Sessions /\ \A s \in gone : session[s].row # "new"
      OBVIOUS
    <3>2. /\ session' = [s \in Sessions |-> IF s \in gone THEN NoSession ELSE session[s]]
          /\ UNCHANGED <<request, ended, issued>>
      BY <1>6 DEF PurgeAccounts
    <3> HIDE DEF gone
    <3>3. \A s \in Sessions : (IF s \in gone THEN NoSession ELSE session[s]) \in SessionRows
      BY <1>t, <2>1
    <3>4. session' \in [Sessions -> SessionRows]
      BY <3>2, <3>3
    <3>5. \A s \in Sessions : session'[s] = IF s \in gone THEN NoSession ELSE session[s]
      BY <3>2
    <3>6. \A s \in Sessions : session'[s] = session[s]
                            \/ (session'[s] = NoSession /\ session[s].row # "new")
      BY <3>1, <3>5
    <3> QED BY <3>2, <3>4, <3>6
  <2>3. \A s \in Sessions : session'[s].idle <= session'[s].absolute
    BY <1>t, <2>1, <2>2
  <2> QED BY <1>t, <2>1, <2>2, <2>3, SessionFrame
<1>7. ASSUME request' = [b \in Browsers |-> NoRequest], UNCHANGED <<session, ended, issued>>
      PROVE  SessionInv'
  BY <1>7, <1>t, <1>n, SessionFrame
<1>8. ASSUME NEW t \in Attempts, Login(t) PROVE SessionInv'
  BY <1>1, <1>2, <1>8 DEF Login, BeginLogin, TakeAttempt, ProviderAnswers, CompleteLogin, LoginFails
<1>9. ASSUME NEW b \in Browsers, Browse(b) PROVE SessionInv'
  BY <1>3, <1>4, <1>5, <1>9 DEF Browse
<1>10. CASE Maintain \/ StopsAccounts
  BY <1>1, <1>7, <1>10 DEF Maintain, LinkIdentity, SetPrimary, PublishBackup, ApplyCommand, StopsAccounts
<1>11. CASE AccountsClock \/ UNCHANGED accountVars \/ \E i \in Identities : ShareWith(i)
  BY <1>1, <1>11 DEF AccountsClock, accountVars, ShareWith
<1> QED BY <1>6, <1>8, <1>9, <1>10, <1>11 DEF AccountsNext

-------------------------------------------------------------------------------
(* Bindings.                                                               *)

\* What a step of the bindings must not do.
Faithful == \A i \in Identities : Resolves(i) => Resolves(i)' /\ Resolved(i)' = Resolved(i)

\* A principal found, or a new one nobody has.
LEMMA ResolveStep ==
  ASSUME BindInv, NEW i \in Identities, ResolveOrCreate(i)
  PROVE  /\ principalOf' \in [Identities -> PrincipalIds \cup {0}]
         /\ primary' \in [PrincipalIds -> Anyone]
         /\ Faithful
<1>t. principalOf \in [Identities -> PrincipalIds \cup {0}] /\ primary \in [PrincipalIds -> Anyone]
  BY DEF BindInv
<1>1. CASE UNCHANGED bindVars
  BY <1>1, <1>t DEF Faithful, Resolves, Resolved
<1>2. ASSUME principalOf[i] = 0, NEW k \in PrincipalIds \ Used,
             principalOf' = [principalOf EXCEPT ![i] = k], primary' = [primary EXCEPT ![k] = i]
      PROVE  /\ principalOf' \in [Identities -> PrincipalIds \cup {0}]
             /\ primary' \in [PrincipalIds -> Anyone]
             /\ Faithful
  <2>1. \A j \in Identities : principalOf[j] # 0 => principalOf[j] # k /\ j # i
    BY <1>2 DEF Used
  <2>2. \A j \in Identities : principalOf[j] # 0 =>
           principalOf'[j] = principalOf[j] /\ primary'[principalOf[j]] = primary[principalOf[j]]
    BY <1>t, <1>2, <2>1
  <2> QED BY <1>t, <1>2, <2>2 DEF Faithful, Resolves, Resolved, Anyone
<1> QED BY <1>1, <1>2 DEF ResolveOrCreate

LEMMA BindSteps ==
  ASSUME AccountsInv, LoginInv', [AccountsNext]_accountVars
  PROVE  BindInv' /\ Faithful
<1> USE DEF AccountsInv
<1>t. /\ principalOf \in [Identities -> PrincipalIds \cup {0}] /\ primary \in [PrincipalIds -> Anyone]
      /\ server \in {"up", "checked", "saved"} /\ command \in CommandsUnderWay
  BY DEF BindInv
<1>1. ASSUME UNCHANGED <<server, command, principalOf, primary>>,
             server = "up" \/ \A t \in Attempts : callback'[t].step = "none"
      PROVE  BindInv' /\ Faithful
  BY <1>1, <1>t DEF BindInv, Faithful, Resolves, Resolved
<1>2. ASSUME NEW t \in Attempts, Login(t) PROVE BindInv' /\ Faithful
  <2>1. CASE CompleteLogin(t)
    <3>1. server = "up" /\ callback[t].who \in Identities /\ ResolveOrCreate(callback[t].who)
          /\ UNCHANGED <<server, command>>
      BY <2>1, <1>t DEF CompleteLogin, BindInv, LoginInv
    <3>2. /\ principalOf' \in [Identities -> PrincipalIds \cup {0}]
          /\ primary' \in [PrincipalIds -> Anyone] /\ Faithful
      BY <3>1, ResolveStep
    <3> QED BY <1>t, <3>1, <3>2 DEF BindInv
  <2>2. CASE ~CompleteLogin(t)
    <3>1. UNCHANGED <<server, command, principalOf, primary>>
          /\ (server = "up" \/ LoginFails(t) \/ callback[t].step # "none")
      BY <1>2, <2>2 DEF Login, BeginLogin, TakeAttempt, ProviderAnswers, IssueSession, LoginFails
    <3>2. callback[t].step # "none" => server = "up"
      BY <1>t DEF BindInv
    <3>3. LoginFails(t) => callback[t].step # "none"
      BY DEF LoginFails
    <3> QED BY <1>1, <3>1, <3>2, <3>3
  <2> QED BY <2>1, <2>2
<1>3. ASSUME NEW b \in Browsers, Browse(b) PROVE BindInv' /\ Faithful
  <2>1. UNCHANGED <<server, command, principalOf, primary, callback>>
    BY <1>3 DEF Browse, Authenticate, FindActor, VerifyCsrf, Act, Logout
  <2> QED BY <1>1, <1>t, <2>1 DEF BindInv
<1>4. ASSUME NEW i \in Identities, ShareWith(i) PROVE BindInv' /\ Faithful
  <2>1. server = "up" /\ ResolveOrCreate(i) /\ UNCHANGED <<server, command>>
    BY <1>4 DEF ShareWith
  <2> QED BY <1>t, <2>1, ResolveStep DEF BindInv
<1>5. ASSUME NEW i \in Identities, NEW j \in Identities, NEW b \in BOOLEAN,
             server' = "checked", command' = [old |-> i, new |-> j, switch |-> b],
             callback' = [t \in Attempts |-> [step |-> "none", who |-> Nobody]],
             UNCHANGED <<principalOf, primary>>,
             principalOf[i] # 0, principalOf[j] \in {0, principalOf[i]}
      PROVE  BindInv' /\ Faithful
  <2>1. command' \in CommandsUnderWay /\ command'.old = i /\ command'.new = j
    BY <1>5 DEF CommandsUnderWay, Anyone
  <2> QED BY <1>t, <1>5, <2>1 DEF BindInv, Faithful, Resolves, Resolved
<1>6. CASE ApplyCommand
  <2> DEFINE old == command.old  new == command.new  k == principalOf[old]
  <2>1. /\ old \in Identities /\ new \in Identities /\ k # 0 /\ k \in PrincipalIds
        /\ principalOf[new] \in {0, k}
    BY <1>6, <1>t DEF ApplyCommand, BindInv
  <2>2. /\ principalOf' = [principalOf EXCEPT ![new] = k]
        /\ primary' = [primary EXCEPT ![k] = new] \/ primary' = primary
        /\ server' = "up" /\ command' = NoCommand
    BY <1>6 DEF ApplyCommand
  <2> HIDE DEF old, new, k
  <2>3. /\ principalOf' \in [Identities -> PrincipalIds \cup {0}]
        /\ primary' \in [PrincipalIds -> Anyone]
    BY <1>t, <2>1, <2>2 DEF Anyone
  <2>4. \A i \in Identities : principalOf[i] # 0 => principalOf'[i] = principalOf[i]
    BY <1>t, <2>1, <2>2
  <2>5. \A m \in PrincipalIds : primary[m] # Nobody => primary'[m] # Nobody
    BY <1>t, <2>1, <2>2
  <2>6. Faithful
    BY <1>t, <2>4, <2>5 DEF Faithful, Resolves, Resolved
  <2>7. command' \in CommandsUnderWay
    BY <2>2 DEF NoCommand, CommandsUnderWay, Anyone
  <2> QED BY <2>2, <2>3, <2>6, <2>7 DEF BindInv
<1>7. CASE Maintain
  <2>1. ASSUME NEW i \in Identities, NEW j \in Identities, NEW b \in BOOLEAN, LinkIdentity(i, j, b)
        PROVE  BindInv' /\ Faithful
    BY <1>5, <2>1 DEF LinkIdentity
  <2>2. ASSUME NEW i \in Identities, SetPrimary(i) PROVE BindInv' /\ Faithful
    BY <1>5, <2>2 DEF SetPrimary
  <2>3. CASE PublishBackup
    BY <1>t, <2>3 DEF PublishBackup, BindInv, Faithful, Resolves, Resolved
  <2> QED BY <1>6, <1>7, <2>1, <2>2, <2>3 DEF Maintain
<1>8. CASE StopsAccounts
  <2>1. server' = "up" /\ command' = NoCommand /\ UNCHANGED <<principalOf, primary>>
    BY <1>8 DEF StopsAccounts
  <2>2. command' \in CommandsUnderWay
    BY <2>1 DEF NoCommand, CommandsUnderWay, Anyone
  <2> QED BY <1>t, <2>1, <2>2 DEF BindInv, Faithful, Resolves, Resolved
<1>9. CASE PurgeAccounts \/ AccountsClock \/ UNCHANGED accountVars
  <2>1. UNCHANGED <<server, command, principalOf, primary, callback>>
    BY <1>9 DEF PurgeAccounts, AccountsClock, accountVars
  <2> QED BY <1>1, <1>t, <2>1 DEF BindInv
<1> QED BY <1>2, <1>3, <1>4, <1>7, <1>8, <1>9 DEF AccountsNext

-------------------------------------------------------------------------------
\* The invariant of login attempts, sessions, requests and bindings, whatever the
\* clock does and wherever an offline command stops.
THEOREM AccountsInvariant == AccountsSpec => []AccountsInv
<1>1. AccountsInv /\ [AccountsNext]_accountVars => ClockTypeOK'
  <2> SUFFICES ASSUME AccountsInv, [AccountsNext]_accountVars PROVE ClockTypeOK'
    OBVIOUS
  <2>1. CASE Tick
    BY <2>1 DEF Tick, AccountsInv, ClockTypeOK
  <2>2. CASE UNCHANGED clockVars
    BY <2>2 DEF AccountsInv, ClockTypeOK
  <2>3. Tick \/ UNCHANGED clockVars
    BY DEF AccountsNext, accountVars, Login, BeginLogin, TakeAttempt, ProviderAnswers, CompleteLogin,
       IssueSession, LoginFails, Browse, Authenticate, FindActor, VerifyCsrf, Act, Logout, Maintain,
       LinkIdentity, SetPrimary, PublishBackup, ApplyCommand, StopsAccounts, AccountsClock,
       ShareWith, PurgeAccounts
  <2> QED BY <2>1, <2>2, <2>3
<1>2. AccountsInv /\ [AccountsNext]_accountVars => AccountsInv'
  BY <1>1, LoginSteps, SessionSteps, BindSteps DEF AccountsInv
<1> QED BY <1>2, AccountsBegin, PTL DEF AccountsSpec

\* The rows keep their types, and no idle deadline passes the absolute one.
THEOREM AccountsTypes == AccountsSpec => []AccountsTypeOK
<1>1. AccountsInv => AccountsTypeOK
  BY DEF AccountsInv, LoginInv, SessionInv, BindInv, AccountsTypeOK, AttemptRows, Callbacks,
         SessionRows, Passed, CommandsUnderWay, Anyone
<1> QED BY <1>1, AccountsInvariant, PTL

\* A session logged out or refused as expired never passes again: session.rs revokes
\* the row it found expired, so a clock that is set back does not revive it.
THEOREM AccountsEndedStaysEnded == AccountsSpec => []EndedStaysEnded
<1>1. AccountsInv => EndedStaysEnded
  BY DEF AccountsInv, SessionInv
<1> QED BY <1>1, AccountsInvariant, PTL

\* A login attempt leads to one session at most: consume deletes its row and tells
\* the callback in one statement whether there was one.
THEOREM AccountsLoginIsOnce == AccountsSpec => []LoginIsOnce
<1>1. AccountsInv => LoginIsOnce
  <2> SUFFICES ASSUME AccountsInv, NEW t \in Attempts PROVE Cardinality(issued[t]) <= 1
    BY DEF AccountsInv, LoginInv, LoginIsOnce
  <2>1. issued[t] = {} \/ \E s \in Sessions : issued[t] = {s}
    BY DEF AccountsInv, LoginInv
  <2> QED BY <2>1, FS_EmptySet, FS_Singleton
<1> QED BY <1>1, AccountsInvariant, PTL

\* An identity that has resolved resolves to the same principal for ever: first
\* logins reserve the write before they look, and link-identity and set-primary only
\* add an identity or move the primary one within its principal.
THEOREM AccountsResolvesAsBefore == AccountsSpec => ResolvesAsBefore
<1>1. AccountsInv /\ AccountsInv' /\ [AccountsNext]_accountVars =>
        [\A i \in Identities : Resolves(i) => Resolves(i)' /\ Resolved(i)' = Resolved(i)]_accountVars
  BY BindSteps DEF AccountsInv, Faithful
<1> QED BY <1>1, AccountsInvariant, PTL DEF AccountsSpec, ResolvesAsBefore

-------------------------------------------------------------------------------
(* Principals in a backup.                                                 *)

\* The primary identity of a principal is one of its own.
PrimaryInv ==
    \A i \in Identities : principalOf[i] # 0 =>
        primary[principalOf[i]] \in Identities /\ principalOf[primary[principalOf[i]]] = principalOf[i]

LEMMA PrimaryCreated ==
  ASSUME BindInv, PrimaryInv, NEW i \in Identities, ResolveOrCreate(i) PROVE PrimaryInv'
<1>t. principalOf \in [Identities -> PrincipalIds \cup {0}] /\ primary \in [PrincipalIds -> Anyone]
  BY DEF BindInv
<1>1. CASE UNCHANGED bindVars
  BY <1>1 DEF PrimaryInv
<1>2. ASSUME principalOf[i] = 0, NEW k \in PrincipalIds \ Used,
             principalOf' = [principalOf EXCEPT ![i] = k], primary' = [primary EXCEPT ![k] = i]
      PROVE  PrimaryInv'
  <2>1. \A j \in Identities : principalOf[j] # k
    BY <1>2 DEF Used, PrincipalIds
  <2> QED BY <1>t, <1>2, <2>1 DEF PrimaryInv
<1> QED BY <1>1, <1>2 DEF ResolveOrCreate

LEMMA PrimaryStep == ASSUME AccountsInv, PrimaryInv, [AccountsNext]_accountVars PROVE PrimaryInv'
<1>t. /\ BindInv /\ LoginInv
      /\ principalOf \in [Identities -> PrincipalIds \cup {0}] /\ primary \in [PrincipalIds -> Anyone]
  BY DEF AccountsInv, BindInv
<1>1. CASE UNCHANGED bindVars
  BY <1>1 DEF PrimaryInv
<1>2. ASSUME NEW t \in Attempts, CompleteLogin(t) PROVE PrimaryInv'
  <2>1. callback[t].who \in Identities /\ ResolveOrCreate(callback[t].who)
    BY <1>2, <1>t DEF CompleteLogin, LoginInv
  <2> QED BY <1>t, <2>1, PrimaryCreated
<1>3. ASSUME NEW i \in Identities, ShareWith(i) PROVE PrimaryInv'
  BY <1>3, <1>t, PrimaryCreated DEF ShareWith
<1>4. CASE ApplyCommand
  <2> DEFINE new == command.new  k == principalOf[command.old]
  <2>1. new \in Identities /\ k # 0 /\ k \in PrincipalIds /\ principalOf[new] \in {0, k}
    BY <1>4, <1>t DEF ApplyCommand, BindInv
  <2>2. /\ principalOf' = [principalOf EXCEPT ![new] = k]
        /\ primary' = [primary EXCEPT ![k] = new] \/ primary' = primary
    BY <1>4 DEF ApplyCommand
  <2>3. primary[k] \in Identities /\ principalOf[primary[k]] = k
    BY <1>4, <1>t, <2>1 DEF PrimaryInv, ApplyCommand, BindInv
  <2> HIDE DEF new, k
  <2> QED BY <1>t, <2>1, <2>2, <2>3 DEF PrimaryInv
<1>5. UNCHANGED bindVars \/ ApplyCommand \/ (\E t \in Attempts : CompleteLogin(t))
      \/ \E i \in Identities : ShareWith(i)
  BY DEF AccountsNext, accountVars, Login, BeginLogin, TakeAttempt, ProviderAnswers,
     IssueSession, LoginFails, Browse, Authenticate, FindActor, VerifyCsrf, Act, Logout, Maintain,
     LinkIdentity, SetPrimary, PublishBackup, StopsAccounts, AccountsClock, PurgeAccounts
<1> QED BY <1>1, <1>2, <1>3, <1>4, <1>5

LEMMA InvPrincipals == BindInv /\ PrimaryInv => PrincipalsRestore
<1> SUFFICES ASSUME BindInv, PrimaryInv PROVE PrincipalsRestore
  OBVIOUS
<1> DEFINE entry(k) == [main |-> primary[k], aliases |-> Bound(k) \ {primary[k]}]
           entries == {entry(k) : k \in Used}
<1>1. \A k \in Used : primary[k] \in Identities /\ principalOf[primary[k]] = k /\ k # 0
  BY DEF PrimaryInv, Used
<1>2. \A k \in Used : primary[k] \in Bound(k) /\ {entry(k).main} \cup entry(k).aliases = Bound(k)
  BY <1>1 DEF Bound
<1>3. \A k, m \in Used : k # m => Bound(k) \cap Bound(m) = {} /\ entry(k) # entry(m)
  BY <1>1 DEF Bound
<1>4. entries = ArchivedPrincipals
  BY DEF ArchivedPrincipals
<1>5. PrincipalsAccepted
  BY <1>1, <1>2 DEF PrincipalsAccepted
<1>6. DeclaredPrincipals(entries)
  <2>1. ASSUME NEW k \in Used, NEW m \in Used, entry(k) # entry(m)
        PROVE  ({entry(k).main} \cup entry(k).aliases) \cap ({entry(m).main} \cup entry(m).aliases) = {}
    BY <1>2, <1>3, <2>1
  <2> QED BY <2>1 DEF DeclaredPrincipals
<1>7. \A k \in Used : \A i : i = entry(k).main \/ i \in entry(k).aliases <=> i \in Bound(k)
  BY <1>2
<1>8. ASSUME NEW i \in Identities, Resolves(i)
      PROVE  InsertedFor(entries, i) = {PrincipalNamed(entries, primary[Resolved(i)])}
  <2> PICK k : k = principalOf[i]
    OBVIOUS
  <2>1. k \in Used /\ i \in Bound(k) /\ Resolved(i) = k
    BY <1>8 DEF Resolves, Resolved, Used, Bound
  <2>2. \A m \in Used : i \in Bound(m) <=> m = k
    BY <2>1 DEF Bound
  <2>3. InsertedFor(entries, i) = {entry(k)}
    BY <1>7, <2>1, <2>2 DEF InsertedFor
  <2>4. \A m \in Used : entry(m).main = primary[k] => m = k
    BY <1>1, <2>1
  <2>5. PrincipalNamed(entries, primary[k]) = entry(k)
    BY <2>1, <2>4 DEF PrincipalNamed
  <2> QED BY <2>1, <2>3, <2>5
<1>9. ASSUME NEW i \in Identities, ~Resolves(i) PROVE InsertedFor(entries, i) = {}
  <2>1. principalOf[i] = 0
    BY <1>9 DEF Resolves, PrimaryInv
  <2>2. \A k \in Used : i \notin Bound(k)
    BY <1>1, <2>1 DEF Bound
  <2> QED BY <1>7, <2>2 DEF InsertedFor
<1> QED BY <1>4, <1>5, <1>6, <1>8, <1>9 DEF PrincipalsRestore

\* The principals can be archived and restored at any moment the server is up, and every
\* identity gets in again as before: link-identity and set-primary leave each principal
\* with a primary identity of its own, wherever they stop.
THEOREM AccountsPrincipalsRestore == AccountsSpec => []PrincipalsRestore
<1>1. AccountsInit => PrimaryInv
  BY DEF AccountsInit, PrimaryInv
<1>2. AccountsInv /\ PrimaryInv => PrincipalsRestore
  BY InvPrincipals DEF AccountsInv
<1> QED BY <1>1, <1>2, PrimaryStep, AccountsInvariant, PTL DEF AccountsSpec
===============================================================================
