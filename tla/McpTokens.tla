------------------------------ MODULE McpTokens ------------------------------
(***************************************************************************)
(* The OAuth authorization server of the MCP endpoint, for one principal:  *)
(* clients, consent, authorization codes, families of access and refresh   *)
(* tokens, the two scope ceilings and the daily purge.  A family is what   *)
(* grows out of one authorization code.                                    *)
(*                                                                         *)
(* Every action is one SQLite transaction, except that an authorization    *)
(* takes four: it resolves the client, reads the principal's ceiling,      *)
(* reads the client's ceiling and only then stores the code.  Requests     *)
(* whose client, resource, redirect URI, challenge or scopes do not match  *)
(* match no row and change nothing.                                        *)
(*                                                                         *)
(* Time: the code compares stored times only with "now", so "expired",     *)
(* "idle" and "old" are turned by actions of the clock.                    *)
(***************************************************************************)
EXTENDS Naturals, FiniteSets

CONSTANTS
    Clients,       \* client ids
    Dynamic,       \* the clients that register themselves; the others have a metadata document
    MaxDynamic,    \* bound on the number of registered dynamic clients
    Scopes,        \* scopes the server supports
    MaxFamilies,   \* bound: number of authorizations ever begun
    MaxGen,        \* bound: number of generations of tokens in a family
    MaxRev         \* bound: revision of a scope ceiling

ASSUME McpAssumption ==
    /\ Clients # {}
    /\ Dynamic \subseteq Clients
    /\ MaxDynamic \in Nat
    /\ MaxFamilies \in Nat
    /\ MaxGen \in Nat \ {0}
    /\ MaxRev \in Nat

VARIABLES
    client,        \* mcp_clients: absent, fresh, or old enough to be purged
    authz,         \* mcp_client_authorizations: none, active or revoked
    granted,       \*   every scope ever consented to
    used,          \*   whether last_used_at_ms is set
    idle,          \*   last use (or else consent) is older than the cutoff
    stage,         \* how far an authorization is: see Stages
    owner,         \*   its client
    scope,         \*   the scopes consented to
    codeExpired,   \*   whether its code has expired
    refresh,       \* mcp_refresh_tokens, by family and generation
    access,        \* mcp_access_tokens, by family and generation
    accessScope,   \*   scopes of an access token
    pceil,         \* mcp_principal_scope_ceilings
    cceil,         \* mcp_client_scope_ceilings
    dead,          \* history: the family has been revoked
    overlapped     \* history: a ceiling was replaced after the authorization had read it

clientVars == client
authzVars  == <<authz, granted, used, idle>>
codeVars   == <<stage, owner, scope, codeExpired>>
tokenVars  == <<refresh, access, accessScope>>
ceilVars   == <<pceil, cceil>>
history    == <<dead, overlapped>>
vars == <<client, authzVars, codeVars, tokenVars, ceilVars, history>>

Families == 1..MaxFamilies
Gens     == 1..MaxGen

(***************************************************************************)
(* An authorization that is "asked" has resolved its client, "checked" has *)
(* read the principal's ceiling too, "cleared" also the client's.  "open"  *)
(* and "consumed" are a code in the table, "gone" one that is no longer    *)
(* there (or never came to be).                                            *)
(***************************************************************************)
Stages == {"new", "asked", "checked", "cleared", "open", "consumed", "gone"}

Ceiling == [scopes : SUBSET Scopes, rev : 0..MaxRev]

(* effective_scope_ceiling: no stored row means every scope, revision 0. *)
Unset == [scopes |-> Scopes, rev |-> 0]

CodeRow(f)       == stage[f] \in {"open", "consumed"}
CodeUsable(f)    == stage[f] = "open" /\ ~codeExpired[f]
RefreshUsable(f) == \E g \in Gens : refresh[f][g] = "current"
AccessUsable(f)  == \E g \in Gens : access[f][g] = "live"
TokenUsable(f)   == RefreshUsable(f) \/ AccessUsable(f)
TokenRow(f)      == \E g \in Gens : refresh[f][g] # "none" \/ access[f][g] # "none"

(* Types, the values of each column among them: a table never holds a state *)
(* of the other.                                                            *)
TypeOK ==
    /\ client \in [Clients -> {"absent", "fresh", "old"}]
    /\ authz \in [Clients -> {"none", "active", "revoked"}]
    /\ granted \in [Clients -> SUBSET Scopes]
    /\ used \in [Clients -> BOOLEAN]
    /\ idle \in [Clients -> BOOLEAN]
    /\ stage \in [Families -> Stages]
    /\ owner \in [Families -> Clients]
    /\ scope \in [Families -> SUBSET Scopes]
    /\ codeExpired \in [Families -> BOOLEAN]
    /\ refresh \in [Families -> [Gens -> {"none", "current", "rotated", "expired", "revoked"}]]
    /\ access \in [Families -> [Gens -> {"none", "live", "expired", "revoked"}]]
    /\ accessScope \in [Families -> [Gens -> SUBSET Scopes]]
    /\ pceil \in Ceiling
    /\ cceil \in [Clients -> Ceiling]
    /\ dead \in [Families -> BOOLEAN]
    /\ overlapped \in [Families -> BOOLEAN]

Init ==
    /\ client = [c \in Clients |-> "absent"]
    /\ authz = [c \in Clients |-> "none"]
    /\ granted = [c \in Clients |-> {}]
    /\ used = [c \in Clients |-> FALSE]
    /\ idle = [c \in Clients |-> FALSE]
    /\ stage = [f \in Families |-> "new"]
    /\ owner = [f \in Families |-> CHOOSE c \in Clients : TRUE]
    /\ scope = [f \in Families |-> {}]
    /\ codeExpired = [f \in Families |-> FALSE]
    /\ refresh = [f \in Families |-> [g \in Gens |-> "none"]]
    /\ access = [f \in Families |-> [g \in Gens |-> "none"]]
    /\ accessScope = [f \in Families |-> [g \in Gens |-> {}]]
    /\ pceil = Unset
    /\ cceil = [c \in Clients |-> Unset]
    /\ dead = [f \in Families |-> FALSE]
    /\ overlapped = [f \in Families |-> FALSE]

-----------------------------------------------------------------------------
(* Clients and consent *)

(* Dynamic client registration, refused when the bound is reached. *)
RegisterClient(c) ==
    /\ c \in Dynamic
    /\ client[c] = "absent"
    /\ Cardinality({d \in Dynamic : client[d] # "absent"}) < MaxDynamic
    /\ client' = [client EXCEPT ![c] = "fresh"]
    /\ UNCHANGED <<authzVars, codeVars, tokenVars, ceilVars, history>>

(* A consented authorization request of client c for the scopes S.  A      *)
(* dynamic client must be registered; a metadata document is fetched.      *)
BeginAuthorization(f, c, S) ==
    /\ stage[f] = "new"
    /\ \A e \in Families : e < f => stage[e] # "new"
    /\ S # {}
    /\ c \in Dynamic => client[c] # "absent"
    /\ stage' = [stage EXCEPT ![f] = "asked"]
    /\ owner' = [owner EXCEPT ![f] = c]
    /\ scope' = [scope EXCEPT ![f] = S]
    /\ UNCHANGED <<clientVars, authzVars, codeExpired, tokenVars, ceilVars, history>>

(* The two reads of scope_ceilings.  Scopes beyond either refuse the       *)
(* request.                                                                *)
ReadPrincipalCeiling(f) ==
    /\ stage[f] = "asked"
    /\ scope[f] \subseteq pceil.scopes
    /\ stage' = [stage EXCEPT ![f] = "checked"]
    /\ UNCHANGED <<clientVars, authzVars, owner, scope, codeExpired, tokenVars, ceilVars, history>>

ReadClientCeiling(f) ==
    /\ stage[f] = "checked"
    /\ scope[f] \subseteq cceil[owner[f]].scopes
    /\ stage' = [stage EXCEPT ![f] = "cleared"]
    /\ UNCHANGED <<clientVars, authzVars, owner, scope, codeExpired, tokenVars, ceilVars, history>>

(* The request is refused, fails or is lost in a crash of the server. *)
AuthorizationEnds(f) ==
    /\ stage[f] \in {"asked", "checked", "cleared"}
    /\ stage' = [stage EXCEPT ![f] = "gone"]
    /\ UNCHANGED <<clientVars, authzVars, owner, scope, codeExpired, tokenVars, ceilVars, history>>

(* upsert_client: an existing row keeps its age. *)
Upserted(c) == IF client[c] = "absent" THEN "fresh" ELSE client[c]

(* The code is stored together with its client and the authorization.  A   *)
(* new consent does not reset the time of the last use.                    *)
IssueCode(f) ==
    LET c == owner[f] IN
    /\ stage[f] = "cleared"
    /\ client' = [client EXCEPT ![c] = Upserted(c)]
    /\ authz' = [authz EXCEPT ![c] = "active"]
    /\ granted' = [granted EXCEPT ![c] = @ \union scope[f]]
    /\ idle' = [idle EXCEPT ![c] = @ /\ used[c]]
    /\ stage' = [stage EXCEPT ![f] = "open"]
    /\ UNCHANGED <<used, owner, scope, codeExpired, tokenVars, ceilVars, history>>

-----------------------------------------------------------------------------
(* Codes and tokens *)

RevokeFamilies_RefreshOnly(F) ==
    /\ refresh' = [f \in Families |-> [g \in Gens |->
                     IF f \in F /\ refresh[f][g] # "none" THEN "revoked" ELSE refresh[f][g]]]
    /\ dead' = [f \in Families |-> dead[f] \/ (f \in F /\ TokenRow(f))]
    /\ UNCHANGED <<access, accessScope>>

(* Every token of the families F is revoked, whatever its state. *)
RevokeFamilies(F) ==
    /\ refresh' = [f \in Families |-> [g \in Gens |->
                     IF f \in F /\ refresh[f][g] # "none" THEN "revoked" ELSE refresh[f][g]]]
    /\ access' = [f \in Families |-> [g \in Gens |->
                     IF f \in F /\ access[f][g] # "none" THEN "revoked" ELSE access[f][g]]]
    /\ dead' = [f \in Families |-> dead[f] \/ (f \in F /\ TokenRow(f))]
    /\ UNCHANGED accessScope

(* The code is exchanged for the first pair of tokens. *)
ExchangeCode(f) ==
    /\ CodeUsable(f)
    /\ stage' = [stage EXCEPT ![f] = "consumed"]
    /\ access' = [access EXCEPT ![f][1] = "live"]
    /\ accessScope' = [accessScope EXCEPT ![f][1] = scope[f]]
    /\ refresh' = [refresh EXCEPT ![f][1] = "current"]
    /\ UNCHANGED <<clientVars, authzVars, owner, scope, codeExpired, ceilVars, history>>

(* A code that was exchanged comes again, before or after its expiry. *)
CodeAgain(f) ==
    /\ stage[f] = "consumed"
    /\ RevokeFamilies({f})
    /\ UNCHANGED <<clientVars, authzVars, codeVars, ceilVars, overlapped>>

Rotate_KeepsOld(f, g, S) ==
    /\ refresh[f][g] = "current"
    /\ g < MaxGen
    /\ S \subseteq scope[f]
    /\ refresh' = [refresh EXCEPT ![f][g + 1] = "current"]
    /\ access' = [access EXCEPT ![f][g + 1] = "live"]
    /\ accessScope' = [accessScope EXCEPT ![f][g + 1] = S]
    /\ UNCHANGED <<clientVars, authzVars, codeVars, ceilVars, history>>

(* The current refresh token is rotated; the new access token may carry    *)
(* fewer scopes, the new refresh token keeps those of the family.          *)
Rotate(f, g, S) ==
    /\ refresh[f][g] = "current"
    /\ g < MaxGen
    /\ S \subseteq scope[f]
    /\ refresh' = [refresh EXCEPT ![f][g] = "rotated", ![f][g + 1] = "current"]
    /\ access' = [access EXCEPT ![f][g + 1] = "live"]
    /\ accessScope' = [accessScope EXCEPT ![f][g + 1] = S]
    /\ UNCHANGED <<clientVars, authzVars, codeVars, ceilVars, history>>

(* A refresh token that was rotated comes again. *)
RefreshAgain(f, g) ==
    /\ refresh[f][g] = "rotated"
    /\ RevokeFamilies({f})
    /\ UNCHANGED <<clientVars, authzVars, codeVars, ceilVars, overlapped>>

(* An access token is used. *)
Authenticate(f, g) ==
    /\ access[f][g] = "live"
    /\ used' = [used EXCEPT ![owner[f]] = TRUE]
    /\ idle' = [idle EXCEPT ![owner[f]] = FALSE]
    /\ UNCHANGED <<clientVars, authz, granted, codeVars, tokenVars, ceilVars, history>>

(* RFC 7009: any token still in a table revokes its family. *)
RevokeToken(f) ==
    /\ TokenRow(f)
    /\ RevokeFamilies({f})
    /\ UNCHANGED <<clientVars, authzVars, codeVars, ceilVars, overlapped>>

(* The principal revokes a client. *)
RevokeClient(c) ==
    /\ RevokeFamilies({f \in Families : owner[f] = c})
    /\ stage' = [f \in Families |->
                   IF owner[f] = c /\ stage[f] = "open" THEN "gone" ELSE stage[f]]
    /\ authz' = [authz EXCEPT ![c] = IF @ = "none" THEN "none" ELSE "revoked"]
    /\ UNCHANGED <<clientVars, granted, used, idle, owner, scope, codeExpired, ceilVars, overlapped>>

-----------------------------------------------------------------------------
(* Scope ceilings *)

(* The families of the clients C with a token, not yet revoked, whose       *)
(* scopes exceed S.  A rotated or expired token counts as well.             *)
Exceeding(C, S) ==
    {f \in Families : owner[f] \in C /\ \E g \in Gens :
        \/ refresh[f][g] \notin {"none", "revoked"} /\ ~(scope[f] \subseteq S)
        \/ access[f][g] \notin {"none", "revoked"} /\ ~(accessScope[f][g] \subseteq S)}

InvalidateExcess_TokensOnly(C, S) ==
    /\ RevokeFamilies(Exceeding(C, S))
    /\ UNCHANGED codeVars

(* invalidate_excess_grants: unused codes of the clients C that exceed S    *)
(* are deleted, the families that do are revoked.                           *)
InvalidateExcess(C, S) ==
    /\ RevokeFamilies(Exceeding(C, S))
    /\ stage' = [f \in Families |->
                   IF owner[f] \in C /\ stage[f] = "open" /\ ~(scope[f] \subseteq S)
                   THEN "gone" ELSE stage[f]]
    /\ UNCHANGED <<owner, scope, codeExpired>>

(* The authorizations under way that have read a ceiling now replaced. *)
Overlaps(F) == overlapped' = [f \in Families |-> overlapped[f] \/ f \in F]

(* A ceiling is replaced only by a caller who knows its revision; 0 stands  *)
(* for a ceiling not stored yet.                                            *)
Replaceable(ceiling, expected) == expected = ceiling.rev /\ ceiling.rev < MaxRev

ReplacePrincipalCeiling(S, expected) ==
    /\ Replaceable(pceil, expected)
    /\ pceil' = [scopes |-> S, rev |-> pceil.rev + 1]
    /\ InvalidateExcess(Clients, S)
    /\ Overlaps({f \in Families : stage[f] \in {"checked", "cleared"}})
    /\ UNCHANGED <<clientVars, authzVars, cceil>>

(* The ceiling of a client, which can be changed only while the client is   *)
(* registered and has an authorization row.                                 *)
ReplaceClientCeiling(c, S, expected) ==
    /\ client[c] # "absent"
    /\ authz[c] # "none"
    /\ Replaceable(cceil[c], expected)
    /\ cceil' = [cceil EXCEPT ![c] = [scopes |-> S, rev |-> @.rev + 1]]
    /\ InvalidateExcess({c}, S)
    /\ Overlaps({f \in Families : owner[f] = c /\ stage[f] = "cleared"})
    /\ UNCHANGED <<clientVars, authzVars, pceil>>

DeleteClientCeiling(c, expected) ==
    /\ authz[c] # "none"
    /\ expected > 0
    /\ expected = cceil[c].rev
    /\ cceil' = [cceil EXCEPT ![c] = Unset]
    /\ UNCHANGED <<clientVars, authzVars, codeVars, tokenVars, pceil, history>>

-----------------------------------------------------------------------------
(* The clock *)

CodeExpires(f) ==
    /\ CodeRow(f)
    /\ ~codeExpired[f]
    /\ codeExpired' = [codeExpired EXCEPT ![f] = TRUE]
    /\ UNCHANGED <<clientVars, authzVars, stage, owner, scope, tokenVars, ceilVars, history>>

AccessExpires(f, g) ==
    /\ access[f][g] = "live"
    /\ access' = [access EXCEPT ![f][g] = "expired"]
    /\ UNCHANGED <<clientVars, authzVars, codeVars, refresh, accessScope, ceilVars, history>>

(* 30 days after its issue; the access tokens of its family, issued no      *)
(* later and for an hour, have expired before.                              *)
RefreshExpires(f, g) ==
    /\ refresh[f][g] = "current"
    /\ ~AccessUsable(f)
    /\ refresh' = [refresh EXCEPT ![f][g] = "expired"]
    /\ UNCHANGED <<clientVars, authzVars, codeVars, access, accessScope, ceilVars, history>>

AuthorizationIdles(c) ==
    /\ authz[c] # "none"
    /\ ~idle[c]
    /\ idle' = [idle EXCEPT ![c] = TRUE]
    /\ UNCHANGED <<clientVars, authz, granted, used, codeVars, tokenVars, ceilVars, history>>

ClientAges(c) ==
    /\ client[c] = "fresh"
    /\ client' = [client EXCEPT ![c] = "old"]
    /\ UNCHANGED <<authzVars, codeVars, tokenVars, ceilVars, history>>

-----------------------------------------------------------------------------
(* The daily purge: one transaction that deletes from five tables in this   *)
(* order.  Each operator says which rows of a table it keeps.               *)

AccessKept(f, g) == access[f][g] = "live"

RefreshKept_NoEvidence(f, g) == refresh[f][g] = "current"

RefreshKept_Rotated(f, g) ==
    \/ refresh[f][g] \in {"current", "rotated"}
    \/ refresh[f][g] = "expired" /\ RefreshUsable(f)

(* A rotated token is kept as evidence while its family is in use. *)
RefreshKept(f, g) ==
    \/ refresh[f][g] = "current"
    \/ refresh[f][g] \in {"rotated", "expired"} /\ RefreshUsable(f)

FamilyKept(f) == \E g \in Gens : AccessKept(f, g) \/ RefreshKept(f, g)

(* So is an exchanged code. *)
CodeKept(f) ==
    /\ CodeRow(f)
    /\ codeExpired[f] => stage[f] = "consumed" /\ FamilyKept(f)

Referenced(c) == \E f \in Families : owner[f] = c /\ (CodeKept(f) \/ FamilyKept(f))

AuthzKept_Idle(c) == authz[c] # "none" /\ ~idle[c]

AuthzKept(c) == authz[c] # "none" /\ (idle[c] => Referenced(c))

ClientKept(c) ==
    \/ client[c] = "fresh"
    \/ client[c] = "old" /\ (Referenced(c) \/ cceil[c].rev > 0 \/ AuthzKept(c))

Purge ==
    /\ access' = [f \in Families |-> [g \in Gens |->
                    IF AccessKept(f, g) THEN access[f][g] ELSE "none"]]
    /\ accessScope' = [f \in Families |-> [g \in Gens |->
                         IF AccessKept(f, g) THEN accessScope[f][g] ELSE {}]]
    /\ refresh' = [f \in Families |-> [g \in Gens |->
                     IF RefreshKept(f, g) THEN refresh[f][g] ELSE "none"]]
    /\ stage' = [f \in Families |->
                   IF CodeRow(f) /\ ~CodeKept(f) THEN "gone" ELSE stage[f]]
    /\ authz' = [c \in Clients |-> IF AuthzKept(c) THEN authz[c] ELSE "none"]
    /\ granted' = [c \in Clients |-> IF AuthzKept(c) THEN granted[c] ELSE {}]
    /\ used' = [c \in Clients |-> AuthzKept(c) /\ used[c]]
    /\ idle' = [c \in Clients |-> AuthzKept(c) /\ idle[c]]
    /\ client' = [c \in Clients |-> IF ClientKept(c) THEN client[c] ELSE "absent"]
    /\ UNCHANGED <<owner, scope, codeExpired, ceilVars, history>>

-----------------------------------------------------------------------------

OwnerSteps ==
    \/ \E S \in SUBSET Scopes, e \in 0..MaxRev : ReplacePrincipalCeiling(S, e)
    \/ \E c \in Clients :
        \/ RevokeClient(c)
        \/ \E S \in SUBSET Scopes, e \in 0..MaxRev : ReplaceClientCeiling(c, S, e)
        \/ \E e \in 0..MaxRev : DeleteClientCeiling(c, e)

ClientSteps ==
    \/ \E c \in Clients : RegisterClient(c)
    \/ \E f \in Families :
        \/ \E c \in Clients, S \in SUBSET Scopes : BeginAuthorization(f, c, S)
        \/ ReadPrincipalCeiling(f)
        \/ ReadClientCeiling(f)
        \/ AuthorizationEnds(f)
        \/ IssueCode(f)
        \/ ExchangeCode(f)
        \/ CodeAgain(f)
        \/ RevokeToken(f)
        \/ \E g \in Gens :
            \/ Authenticate(f, g)
            \/ RefreshAgain(f, g)
            \/ \E S \in SUBSET Scopes : Rotate(f, g, S)

ClockSteps ==
    \/ \E c \in Clients : AuthorizationIdles(c) \/ ClientAges(c)
    \/ \E f \in Families :
        \/ CodeExpires(f)
        \/ \E g \in Gens : AccessExpires(f, g) \/ RefreshExpires(f, g)

Next == OwnerSteps \/ ClientSteps \/ ClockSteps \/ Purge

Spec == Init /\ [][Next]_vars

(* The purge runs every day, gets past what it does before (the notes) and  *)
(* time passes; nothing is expected of clients, the principal or requests   *)
(* under way.                                                               *)
FairSpec ==
    /\ Spec
    /\ WF_vars(Purge)
    /\ \A c \in Clients : WF_vars(AuthorizationIdles(c))
    /\ \A f \in Families :
        /\ WF_vars(CodeExpires(f))
        /\ \A g \in Gens : WF_vars(AccessExpires(f, g)) /\ WF_vars(RefreshExpires(f, g))

-----------------------------------------------------------------------------
(* What must hold *)

(* A family has one refresh token that still can be rotated, and every      *)
(* other one is older: rotation consumes what it presents.                  *)
OneRefreshToken ==
    \A f \in Families : \A g, h \in Gens :
        /\ refresh[f][g] = "current" /\ refresh[f][h] = "current" => g = h
        /\ refresh[f][g] = "current" /\ h > g => refresh[f][h] = "none"

(* Once revoked, by whatever path, a family never again has a token that    *)
(* works.                                                                   *)
RevokedStaysRevoked == \A f \in Families : dead[f] => ~TokenUsable(f)

(* While a token of a family works, the code it came from and every refresh *)
(* token rotated since are still known, so that presenting one of them      *)
(* again is recognised as such: no purge forgets them too early.            *)
ReplayIsKnown ==
    \A f \in Families : TokenUsable(f) =>
        /\ stage[f] = "consumed"
        /\ \E g \in Gens :
            /\ refresh[f][g] = "current"
            /\ \A h \in Gens : h < g => refresh[f][h] = "rotated"

(* Whatever can still be exchanged or used belongs to an authorization the  *)
(* principal sees, has not revoked and consented to in that extent.         *)
GrantIsAuthorized ==
    \A f \in Families : stage[f] = "open" \/ TokenUsable(f) =>
        /\ authz[owner[f]] = "active"
        /\ scope[f] \subseteq granted[owner[f]]
        /\ \A g \in Gens : accessScope[f][g] \subseteq scope[f]

(* No row refers to a client that is not in its table, so no purge can fail *)
(* on a foreign key and no consent, token or ceiling outlives its client.   *)
ReferencesHold ==
    /\ \A c \in Clients : authz[c] # "none" \/ cceil[c].rev > 0 => client[c] # "absent"
    /\ \A f \in Families : CodeRow(f) \/ TokenRow(f) =>
        client[owner[f]] # "absent" /\ authz[owner[f]] # "none"

(* Nothing usable exceeds either ceiling, unless its authorization had read *)
(* a ceiling that was replaced before the code was stored.                  *)
GrantsFitCeilings ==
    \A f \in Families : ~overlapped[f] /\ (stage[f] = "open" \/ TokenUsable(f)) =>
        scope[f] \subseteq pceil.scopes \intersect cceil[owner[f]].scopes

(***************************************************************************)
(* The inductive invariant: how codes, generations of tokens and history   *)
(* are related.                                                            *)
(***************************************************************************)

(* Tokens come only from an exchanged code. *)
TokensComeFromCode ==
    \A f \in Families :
        /\ stage[f] # "consumed" => ~TokenRow(f)
        /\ stage[f] = "new" => \A g \in Gens : accessScope[f][g] = {}

(* Revocation reaches a whole family and is remembered in dead. *)
RevocationIsWhole ==
    \A f \in Families :
        /\ dead[f] => stage[f] \in {"consumed", "gone"}
        /\ dead[f] => \A g \in Gens : /\ refresh[f][g] \in {"none", "revoked"}
                                      /\ access[f][g] \in {"none", "revoked"}

(* Generations follow one another without a gap up to the current one. *)
Chain ==
    \A f \in Families : \A g \in Gens : refresh[f][g] = "current" =>
        \A h \in Gens : /\ h < g => refresh[f][h] = "rotated"
                        /\ h > g => refresh[f][h] = "none"

(* An access token works no longer than the refresh token of its family. *)
AccessUnderRefresh == \A f \in Families : AccessUsable(f) => RefreshUsable(f)

ScopesShrink == \A f \in Families : \A g \in Gens : accessScope[f][g] \subseteq scope[f]

(* An authorization fits every ceiling it has read that was not replaced    *)
(* under it.                                                                *)
ReadCeilingsFit ==
    \A f \in Families : ~overlapped[f] =>
        /\ stage[f] \in {"checked", "cleared", "open"} \/ TokenUsable(f) =>
            scope[f] \subseteq pceil.scopes
        /\ stage[f] \in {"cleared", "open"} \/ TokenUsable(f) =>
            scope[f] \subseteq cceil[owner[f]].scopes

McpInv ==
    /\ TypeOK
    /\ TokensComeFromCode
    /\ RevocationIsWhole
    /\ Chain
    /\ AccessUnderRefresh
    /\ ScopesShrink
    /\ ReadCeilingsFit
    /\ GrantIsAuthorized
    /\ ReferencesHold

(* When no token of a family works any longer, its rows are removed in the  *)
(* end: the conditions of the purge on three tables do not wait for one     *)
(* another.  And a revoked authorization disappears from the list unless    *)
(* the principal consents anew.                                             *)
RowsAreForgotten ==
    /\ \A f \in Families :
          stage[f] = "consumed" /\ ~TokenUsable(f) ~> ~CodeRow(f) /\ ~TokenRow(f)
    /\ \A c \in Clients : authz[c] = "revoked" ~> authz[c] # "revoked"

(* mcp.adoc: a client's ceiling can be lifted, or else a narrowed ceiling   *)
(* could be neither widened nor recovered from the consent page.  Lifting   *)
(* and replacing ask for the authorization row; a ceiling of no scopes lets *)
(* no new one come to be.                                                   *)
CeilingCanBeLifted ==
    \A c \in Clients : cceil[c].rev > 0 /\ cceil[c].scopes = {} => authz[c] # "none"
=============================================================================
