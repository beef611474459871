------------------------------ MODULE McpProofs ------------------------------
(***************************************************************************)
(* Proofs about McpTokens: the invariants hold for any clients, scopes and *)
(* bounds.                                                                 *)
(*                                                                         *)
(* TokenInv relates codes, generations and revocation; it mentions neither *)
(* clients nor ceilings.  The rest relates what is usable to the tables    *)
(* that authorize it.  Most actions make no more usable than before, which *)
(* is what TokenFrame and AuthorityFrame are for.                          *)
(***************************************************************************)
EXTENDS McpTokens, TLAPS

USE McpAssumption DEF Families, Gens, Stages, Ceiling

TokenInv ==
    /\ TokensComeFromCode
    /\ RevocationIsWhole
    /\ Chain
    /\ AccessUnderRefresh
    /\ ScopesShrink

AuthorityInv ==
    /\ ReadCeilingsFit
    /\ GrantIsAuthorized
    /\ ReferencesHold

LEMMA McpInit == Init => McpInv
<1> SUFFICES ASSUME Init PROVE McpInv
  OBVIOUS
<1> USE DEF Init, Unset
<1>1. TypeOK
  BY DEF TypeOK
<1>2. \A f \in Families : ~TokenUsable(f) /\ ~TokenRow(f) /\ ~CodeRow(f)
  BY DEF TokenUsable, AccessUsable, RefreshUsable, TokenRow, CodeRow
<1>3. TokensComeFromCode /\ RevocationIsWhole /\ Chain /\ ScopesShrink
  BY <1>2 DEF TokensComeFromCode, RevocationIsWhole, Chain, ScopesShrink
<1>4. AccessUnderRefresh
  BY <1>2 DEF AccessUnderRefresh, TokenUsable
<1>5. ReadCeilingsFit /\ GrantIsAuthorized /\ ReferencesHold
  BY <1>2 DEF ReadCeilingsFit, GrantIsAuthorized, ReferencesHold
<1> QED BY <1>1, <1>3, <1>4, <1>5 DEF McpInv

\* A step that leaves the token tables alone and neither consumes a code nor
\* removes a consumed one keeps everything said about tokens.
LEMMA TokenFrame ==
  ASSUME TokenInv, UNCHANGED <<refresh, access, accessScope, dead>>,
         \A f \in Families :
           /\ stage'[f] = "new" => stage[f] = "new"
           /\ scope'[f] = scope[f] \/ stage[f] = "new"
           /\ stage[f] = "consumed" <=> stage'[f] = "consumed"
           /\ stage[f] = "gone" => stage'[f] = "gone"
  PROVE  TokenInv'
<1> USE DEF TokenInv
<1>1. \A f \in Families : /\ TokenRow(f)' <=> TokenRow(f)
                          /\ AccessUsable(f)' <=> AccessUsable(f)
                          /\ RefreshUsable(f)' <=> RefreshUsable(f)
  BY DEF TokenRow, AccessUsable, RefreshUsable
<1>2. TokensComeFromCode'
  BY <1>1 DEF TokensComeFromCode
<1>3. RevocationIsWhole'
  BY DEF RevocationIsWhole
<1>4. Chain'
  BY DEF Chain
<1>5. AccessUnderRefresh'
  BY <1>1 DEF AccessUnderRefresh
<1>6. ScopesShrink'
  BY DEF ScopesShrink, TokensComeFromCode
<1> QED BY <1>2, <1>3, <1>4, <1>5, <1>6

\* Revoking families leaves none of their tokens usable, touches no other
\* family and removes no row.
LEMMA RevokeKeepsTokens ==
  ASSUME TypeOK, TokenInv, NEW F, RevokeFamilies(F), UNCHANGED scope,
         \A f \in Families : stage'[f] = stage[f] \/ (stage[f] = "open" /\ stage'[f] = "gone")
  PROVE  /\ TokenInv'
         /\ refresh' \in [Families -> [Gens -> {"none", "current", "rotated", "expired", "revoked"}]]
         /\ access' \in [Families -> [Gens -> {"none", "live", "expired", "revoked"}]]
         /\ dead' \in [Families -> BOOLEAN]
         /\ accessScope' = accessScope
         /\ \A f \in Families : /\ TokenRow(f)' <=> TokenRow(f)
                                /\ TokenUsable(f)' => TokenUsable(f) /\ f \notin F
<1> USE DEF TokenInv
<1>1. /\ refresh' \in [Families -> [Gens -> {"none", "current", "rotated", "expired", "revoked"}]]
      /\ access' \in [Families -> [Gens -> {"none", "live", "expired", "revoked"}]]
      /\ dead' \in [Families -> BOOLEAN]
      /\ accessScope' = accessScope
  BY SMTT(30) DEF RevokeFamilies, TypeOK
<1>2. \A f \in Families, g \in Gens :
        /\ f \notin F => refresh'[f][g] = refresh[f][g] /\ access'[f][g] = access[f][g]
        /\ f \in F => /\ refresh'[f][g] = IF refresh[f][g] = "none" THEN "none" ELSE "revoked"
                      /\ access'[f][g] = IF access[f][g] = "none" THEN "none" ELSE "revoked"
  BY DEF RevokeFamilies
<1>3. \A f \in Families : dead'[f] <=> dead[f] \/ (f \in F /\ TokenRow(f))
  BY DEF RevokeFamilies, TypeOK
<1>4. \A f \in Families : TokenRow(f)' <=> TokenRow(f)
  BY <1>2 DEF TokenRow
<1>5. \A f \in Families : /\ AccessUsable(f)' => AccessUsable(f) /\ f \notin F
                          /\ RefreshUsable(f)' => RefreshUsable(f) /\ f \notin F
                          /\ RefreshUsable(f) /\ f \notin F => RefreshUsable(f)'
  BY <1>2 DEF AccessUsable, RefreshUsable
<1>6. TokensComeFromCode'
  BY <1>1, <1>4 DEF TokensComeFromCode
<1>7. RevocationIsWhole'
  <2> SUFFICES ASSUME NEW f \in Families, dead'[f]
               PROVE  /\ stage'[f] \in {"consumed", "gone"}
                      /\ \A g \in Gens : /\ refresh'[f][g] \in {"none", "revoked"}
                                         /\ access'[f][g] \in {"none", "revoked"}
    BY DEF RevocationIsWhole
  <2>1. stage[f] \in {"consumed", "gone"}
    BY <1>3 DEF RevocationIsWhole, TokensComeFromCode
  <2>2. CASE f \in F
    BY <1>2, <2>1, <2>2
  <2>3. CASE f \notin F
    BY <1>2, <1>3, <2>1, <2>3 DEF RevocationIsWhole
  <2> QED BY <2>2, <2>3
<1>8. Chain'
  BY <1>2 DEF Chain
<1>9. AccessUnderRefresh'
  BY <1>5 DEF AccessUnderRefresh
<1>10. ScopesShrink'
  BY <1>1 DEF ScopesShrink
<1> QED BY <1>1, <1>4, <1>5, <1>6, <1>7, <1>8, <1>9, <1>10 DEF TokenUsable

\* A step that makes nothing usable that was not (or was not an open code), and
\* leaves what authorizes it alone, keeps everything said about authority.
LEMMA AuthorityFrame ==
  ASSUME AuthorityInv, ScopesShrink', owner \in [Families -> Clients],
         UNCHANGED <<authz, granted, owner, scope, pceil, cceil, overlapped>>,
         \A c \in Clients : client[c] # "absent" => client'[c] # "absent",
         \A f \in Families :
           /\ \/ stage'[f] = stage[f]
              \/ stage[f] = "open" /\ stage'[f] = "consumed"
              \/ stage'[f] = "gone"
           /\ TokenUsable(f)' => TokenUsable(f) \/ stage[f] = "open"
           /\ TokenRow(f)' => TokenRow(f) \/ CodeRow(f)
  PROVE  AuthorityInv'
<1> USE DEF AuthorityInv
<1>1. ReadCeilingsFit'
  BY DEF ReadCeilingsFit
<1>2. GrantIsAuthorized'
  BY DEF GrantIsAuthorized, ScopesShrink
<1>3. ReferencesHold'
  BY DEF ReferencesHold, CodeRow
<1> QED BY <1>1, <1>2, <1>3

\* The steps of a request before its code is stored.
LEMMA RequestsKeep ==
  ASSUME McpInv, NEW f \in Families,
         \/ \E c \in Clients, S \in SUBSET Scopes : BeginAuthorization(f, c, S)
         \/ ReadPrincipalCeiling(f)
         \/ ReadClientCeiling(f)
         \/ AuthorizationEnds(f)
  PROVE  McpInv'
<1> USE DEF McpInv, clientVars, authzVars, tokenVars, ceilVars, history
<1>1. ASSUME NEW c \in Clients, NEW S \in SUBSET Scopes, BeginAuthorization(f, c, S)
      PROVE  McpInv'
  <2> USE <1>1 DEF BeginAuthorization
  <2>1. TypeOK'
    BY DEF TypeOK
  <2>2. TokenInv'
    BY TokenFrame DEF TokenInv, TypeOK
  <2>3. /\ ~TokenRow(f) /\ ~TokenUsable(f)
        /\ \A e \in Families : e # f => stage'[e] = stage[e] /\ owner'[e] = owner[e] /\ scope'[e] = scope[e]
        /\ stage'[f] = "asked"
    BY ZenonT(60) DEF TypeOK, TokensComeFromCode, TokenRow, TokenUsable, AccessUsable, RefreshUsable
  <2>4. \A e \in Families : (TokenRow(e)' <=> TokenRow(e)) /\ (TokenUsable(e)' <=> TokenUsable(e))
    BY DEF TokenRow, TokenUsable, AccessUsable, RefreshUsable
  <2>5. ReadCeilingsFit'
    BY <2>3, <2>4 DEF ReadCeilingsFit
  <2>6. GrantIsAuthorized'
    BY <2>3, <2>4, <2>2 DEF GrantIsAuthorized, TokenInv, ScopesShrink
  <2>7. ReferencesHold'
    BY <2>3, <2>4 DEF ReferencesHold, CodeRow
  <2> QED BY <2>1, <2>2, <2>5, <2>6, <2>7 DEF TokenInv
<1>2. ASSUME \/ ReadPrincipalCeiling(f)
             \/ ReadClientCeiling(f)
             \/ AuthorizationEnds(f)
      PROVE  McpInv'
  <2>1. /\ UNCHANGED <<clientVars, authzVars, owner, scope, codeExpired, tokenVars, ceilVars, history>>
        /\ \E s \in {"checked", "cleared", "gone"} : stage' = [stage EXCEPT ![f] = s]
        /\ stage[f] \in {"asked", "checked", "cleared"}
    BY <1>2 DEF ReadPrincipalCeiling, ReadClientCeiling, AuthorizationEnds
  <2>2. TypeOK'
    BY <2>1 DEF TypeOK
  <2>3. TokenInv'
    BY <2>1, TokenFrame DEF TokenInv, TypeOK
  <2>4. \A e \in Families : (TokenRow(e)' <=> TokenRow(e)) /\ (TokenUsable(e)' <=> TokenUsable(e))
    BY <2>1 DEF TokenRow, TokenUsable, AccessUsable, RefreshUsable
  <2>5. /\ \A e \in Families : e # f => stage'[e] = stage[e]
        /\ stage'[f] \in {"checked", "cleared", "gone"}
        /\ \A e \in Families : (stage'[e] = "open" => stage[e] = "open") /\ (CodeRow(e)' => CodeRow(e))
    BY <2>1 DEF TypeOK, CodeRow
  <2>6. ReadCeilingsFit'
    <3>1. /\ stage'[f] \in {"checked", "cleared"} /\ ~overlapped[f] => scope[f] \subseteq pceil.scopes
          /\ stage'[f] = "cleared" => scope[f] \subseteq cceil[owner[f]].scopes
      BY <1>2 DEF ReadPrincipalCeiling, ReadClientCeiling, AuthorizationEnds, TypeOK, ReadCeilingsFit
    <3> QED BY <2>1, <2>4, <2>5, <3>1 DEF ReadCeilingsFit
  <2>7. GrantIsAuthorized'
    BY <2>1, <2>4, <2>5 DEF GrantIsAuthorized
  <2>8. ReferencesHold'
    BY <2>1, <2>4, <2>5 DEF ReferencesHold
  <2> QED BY <2>2, <2>3, <2>6, <2>7, <2>8 DEF TokenInv
<1> QED BY <1>1, <1>2

\* The code comes to be together with what it refers to.
LEMMA IssueCodeKeeps ==
  ASSUME McpInv, NEW f \in Families, IssueCode(f)
  PROVE  McpInv'
<1> USE DEF McpInv, tokenVars, ceilVars, history, IssueCode
<1> DEFINE c == owner[f]
<1>1. c \in Clients
  BY DEF TypeOK
<1>2. TypeOK'
  BY <1>1 DEF TypeOK, Upserted
<1>3. TokenInv'
  BY TokenFrame DEF TokenInv, TypeOK
<1>4. \A e \in Families : /\ TokenRow(e)' <=> TokenRow(e)
                          /\ TokenUsable(e)' <=> TokenUsable(e)
                          /\ e # f => stage'[e] = stage[e]
  BY DEF TokenRow, TokenUsable, AccessUsable, RefreshUsable, TypeOK
<1>5. /\ \A d \in Clients : /\ client[d] # "absent" => client'[d] # "absent"
                            /\ authz[d] = "active" => authz'[d] = "active"
                            /\ authz[d] # "none" => authz'[d] # "none"
                            /\ authz'[d] # "none" => d = c \/ authz[d] # "none"
                            /\ granted[d] \subseteq granted'[d]
      /\ client'[c] # "absent" /\ authz'[c] = "active" /\ scope[f] \subseteq granted'[c]
  BY <1>1 DEF TypeOK, Upserted
<1>6. ReadCeilingsFit'
  BY <1>4 DEF ReadCeilingsFit
<1>7. GrantIsAuthorized'
  <2> SUFFICES ASSUME NEW e \in Families, stage'[e] = "open" \/ TokenUsable(e)'
               PROVE  authz'[owner[e]] = "active" /\ scope[e] \subseteq granted'[owner[e]]
    BY <1>3 DEF GrantIsAuthorized, TokenInv, ScopesShrink
  <2>1. CASE e = f
    BY <1>5, <2>1
  <2>2. CASE e # f
    <3>1. owner[e] \in Clients /\ (stage[e] = "open" \/ TokenUsable(e))
      BY <1>4, <2>2 DEF TypeOK
    <3> HIDE DEF c
    <3> QED BY <1>5, <3>1 DEF GrantIsAuthorized
  <2> QED BY <2>1, <2>2
<1>8. ReferencesHold'
  <2>1. \A d \in Clients : authz'[d] # "none" \/ cceil[d].rev > 0 => client'[d] # "absent"
    BY <1>5 DEF ReferencesHold
  <2>2. ASSUME NEW e \in Families, CodeRow(e)' \/ TokenRow(e)'
        PROVE  client'[owner[e]] # "absent" /\ authz'[owner[e]] # "none"
    <3>1. CASE e = f
      BY <1>5, <3>1
    <3>2. CASE e # f
      <4>1. owner[e] \in Clients /\ (CodeRow(e) \/ TokenRow(e))
        BY <1>4, <2>2, <3>2 DEF TypeOK, CodeRow
      <4> QED BY <1>5, <4>1 DEF ReferencesHold
    <3> QED BY <3>1, <3>2
  <2> QED BY <2>1, <2>2 DEF ReferencesHold
<1> QED BY <1>2, <1>3, <1>6, <1>7, <1>8 DEF TokenInv

\* Registration, use and the clock of clients, authorizations and codes.
LEMMA QuietKeeps ==
  ASSUME McpInv,
         \/ \E c \in Clients : \/ RegisterClient(c)
                               \/ AuthorizationIdles(c)
                               \/ ClientAges(c)
         \/ \E f \in Families : \/ CodeExpires(f)
                                \/ \E g \in Gens : Authenticate(f, g)
  PROVE  McpInv'
<1> USE DEF McpInv
<1>1. /\ UNCHANGED <<authz, granted, stage, owner, scope, tokenVars, ceilVars, history>>
      /\ TypeOK'
      /\ \A c \in Clients : client[c] # "absent" => client'[c] # "absent"
  <2>1. CASE \E c \in Clients : RegisterClient(c) \/ AuthorizationIdles(c) \/ ClientAges(c)
    BY ZenonT(60), <2>1 DEF RegisterClient, AuthorizationIdles, ClientAges, TypeOK,
                clientVars, authzVars, codeVars, tokenVars, ceilVars, history
  <2>2. CASE \E f \in Families : CodeExpires(f) \/ \E g \in Gens : Authenticate(f, g)
    BY ZenonT(60), <2>2 DEF CodeExpires, Authenticate, TypeOK,
                clientVars, authzVars, codeVars, tokenVars, ceilVars, history
  <2> QED BY <2>1, <2>2
<1>2. TokenInv'
  BY <1>1, TokenFrame DEF TokenInv, tokenVars, history
<1>3. \A f \in Families : (TokenRow(f)' <=> TokenRow(f)) /\ (TokenUsable(f)' <=> TokenUsable(f))
  BY <1>1 DEF TokenRow, TokenUsable, AccessUsable, RefreshUsable, tokenVars
<1>4. AuthorityInv'
  BY <1>1, <1>2, <1>3, AuthorityFrame DEF AuthorityInv, TokenInv, TypeOK, ceilVars, history
<1> QED BY <1>1, <1>2, <1>4 DEF TokenInv, AuthorityInv

\* A family begins with its first generation alone.
LEMMA ExchangeKeeps ==
  ASSUME McpInv, NEW f \in Families, ExchangeCode(f)
  PROVE  McpInv'
<1> USE DEF McpInv, ExchangeCode, CodeUsable
<1>1. TypeOK'
  BY DEF TypeOK, clientVars, authzVars, ceilVars, history
<1>2. /\ \A e \in Families : e # f => /\ stage'[e] = stage[e]
                                      /\ refresh'[e] = refresh[e]
                                      /\ access'[e] = access[e]
                                      /\ accessScope'[e] = accessScope[e]
      /\ stage'[f] = "consumed"
      /\ refresh'[f][1] = "current"
      /\ accessScope'[f][1] = scope[f]
      /\ \A g \in Gens : g # 1 => /\ refresh'[f][g] = refresh[f][g]
                                  /\ accessScope'[f][g] = accessScope[f][g]
      /\ UNCHANGED <<scope, dead>>
  BY DEF TypeOK, history
<1>3. \A g \in Gens : refresh[f][g] = "none"
  BY DEF TokensComeFromCode, TokenRow
<1>4. ~dead[f]
  BY DEF RevocationIsWhole
<1>5. \A e \in Families : e # f => /\ TokenRow(e)' <=> TokenRow(e)
                                   /\ AccessUsable(e)' <=> AccessUsable(e)
                                   /\ RefreshUsable(e)' <=> RefreshUsable(e)
  BY <1>2 DEF TokenRow, AccessUsable, RefreshUsable
<1>6. RefreshUsable(f)'
  BY <1>2 DEF RefreshUsable
<1>7. TokensComeFromCode'
  BY <1>2, <1>5 DEF TokensComeFromCode
<1>8. RevocationIsWhole'
  BY <1>2, <1>4 DEF RevocationIsWhole
<1>9. Chain'
  BY <1>2, <1>3 DEF Chain
<1>10. AccessUnderRefresh'
  BY <1>5, <1>6 DEF AccessUnderRefresh
<1>11. ScopesShrink'
  BY <1>2 DEF ScopesShrink
<1>12. AuthorityInv'
  <2>1. \A e \in Families : /\ TokenUsable(e)' => TokenUsable(e) \/ stage[e] = "open"
                            /\ TokenRow(e)' => TokenRow(e) \/ CodeRow(e)
    BY <1>5 DEF TokenUsable, CodeRow
  <2> QED
    BY <1>2, <1>11, <2>1, AuthorityFrame
    DEF AuthorityInv, TypeOK, clientVars, authzVars, ceilVars, history
<1> QED BY <1>1, <1>7, <1>8, <1>9, <1>10, <1>11, <1>12 DEF AuthorityInv

\* Rotation moves the current place on by one generation.
LEMMA RotateKeeps ==
  ASSUME McpInv, NEW f \in Families, NEW g \in Gens, NEW S \in SUBSET Scopes, Rotate(f, g, S)
  PROVE  McpInv'
<1> USE DEF McpInv, Rotate
<1>0. g + 1 \in Gens /\ g + 1 # g
  OBVIOUS
<1>1. TypeOK'
  BY <1>0 DEF TypeOK, clientVars, authzVars, codeVars, ceilVars, history
<1>2. /\ \A e \in Families : e # f => /\ refresh'[e] = refresh[e]
                                      /\ access'[e] = access[e]
                                      /\ accessScope'[e] = accessScope[e]
      /\ refresh'[f][g] = "rotated"
      /\ refresh'[f][g + 1] = "current"
      /\ accessScope'[f][g + 1] = S
      /\ \A h \in Gens : /\ h \notin {g, g + 1} => refresh'[f][h] = refresh[f][h]
                         /\ h # g + 1 => accessScope'[f][h] = accessScope[f][h]
      /\ UNCHANGED <<stage, scope, dead>>
  BY SMTT(30), <1>0 DEF TypeOK, codeVars, history
<1>3. /\ \A h \in Gens : /\ h < g => refresh[f][h] = "rotated"
                         /\ h > g => refresh[f][h] = "none"
      /\ RefreshUsable(f)
  BY DEF Chain, RefreshUsable
<1>4. stage[f] = "consumed" /\ ~dead[f]
  BY DEF RevocationIsWhole, TokensComeFromCode, TokenRow
<1>5. \A e \in Families : e # f => /\ TokenRow(e)' <=> TokenRow(e)
                                   /\ AccessUsable(e)' <=> AccessUsable(e)
                                   /\ RefreshUsable(e)' <=> RefreshUsable(e)
  BY ZenonT(60), <1>2 DEF TokenRow, AccessUsable, RefreshUsable
<1>6. RefreshUsable(f)'
  BY <1>0, <1>2 DEF RefreshUsable
<1>7. TokensComeFromCode'
  BY <1>2, <1>4, <1>5 DEF TokensComeFromCode
<1>8. RevocationIsWhole'
  BY ZenonT(60), <1>2, <1>4 DEF RevocationIsWhole
<1>9. Chain'
  <2> SUFFICES ASSUME NEW e \in Families, NEW k \in Gens, refresh'[e][k] = "current", NEW h \in Gens
               PROVE  /\ h < k => refresh'[e][h] = "rotated"
                      /\ h > k => refresh'[e][h] = "none"
    BY DEF Chain
  <2>1. CASE e = f
    <3> HIDE DEF McpInv, Rotate
    <3>1. k \in {g, g + 1} \/ refresh[f][k] = "current"
      BY <1>2, <2>1
    <3>2. k = g + 1
      BY <1>2, <1>3, <2>1, <3>1
    <3>3. h = g \/ (h < g /\ h \notin {g, g + 1}) \/ h = g + 1 \/ (h > g /\ h \notin {g, g + 1})
      OBVIOUS
    <3> QED BY <1>2, <1>3, <2>1, <3>2, <3>3
  <2>2. CASE e # f
    <3>1. Chain
      OBVIOUS
    <3>2. refresh'[e] = refresh[e]
      BY <1>2, <2>2
    <3> HIDE DEF McpInv, Rotate
    <3> QED BY <3>1, <3>2 DEF Chain
  <2> QED BY <2>1, <2>2
<1>10. AccessUnderRefresh'
  BY <1>5, <1>6 DEF AccessUnderRefresh
<1>11. ScopesShrink'
  BY <1>2 DEF ScopesShrink
<1>12. AuthorityInv'
  <2>1. \A e \in Families : /\ TokenUsable(e)' => TokenUsable(e)
                            /\ TokenRow(e)' => TokenRow(e) \/ CodeRow(e)
    BY <1>3, <1>4, <1>5 DEF TokenUsable, CodeRow
  <2> QED
    BY <1>2, <1>11, <2>1, AuthorityFrame
    DEF AuthorityInv, TypeOK, clientVars, authzVars, codeVars, ceilVars, history
<1> QED BY <1>1, <1>7, <1>8, <1>9, <1>10, <1>11, <1>12 DEF AuthorityInv

\* Expiry only takes away.
LEMMA ExpiryKeeps ==
  ASSUME McpInv, NEW f \in Families, NEW g \in Gens,
         AccessExpires(f, g) \/ RefreshExpires(f, g)
  PROVE  McpInv'
<1> USE DEF McpInv
<1>1. TypeOK' /\ UNCHANGED <<clientVars, authzVars, codeVars, accessScope, ceilVars, history>>
  <2>1. CASE AccessExpires(f, g)
    BY <2>1 DEF AccessExpires, TypeOK, clientVars, authzVars, codeVars, ceilVars, history
  <2>2. CASE RefreshExpires(f, g)
    BY <2>2 DEF RefreshExpires, TypeOK, clientVars, authzVars, codeVars, ceilVars, history
  <2> QED BY <2>1, <2>2
<1>2. \A e \in Families, h \in Gens :
        /\ \/ refresh'[e][h] = refresh[e][h]
           \/ /\ e = f /\ h = g /\ ~AccessUsable(f)
              /\ refresh[e][h] = "current" /\ refresh'[e][h] = "expired"
        /\ \/ access'[e][h] = access[e][h]
           \/ access[e][h] = "live" /\ access'[e][h] = "expired"
  <2>1. CASE AccessExpires(f, g)
    BY <2>1 DEF AccessExpires, TypeOK
  <2>2. CASE RefreshExpires(f, g)
    BY <2>2 DEF RefreshExpires, TypeOK
  <2> QED BY <2>1, <2>2
<1>3. \A e \in Families : /\ TokenRow(e)' <=> TokenRow(e)
                          /\ AccessUsable(e)' => AccessUsable(e)
                          /\ RefreshUsable(e)' => RefreshUsable(e)
                          /\ AccessUsable(e)' /\ RefreshUsable(e) => RefreshUsable(e)'
  BY <1>2 DEF TokenRow, AccessUsable, RefreshUsable
<1>4. TokensComeFromCode'
  BY <1>1, <1>3 DEF TokensComeFromCode, codeVars
<1>5. RevocationIsWhole'
  BY <1>1, <1>2 DEF RevocationIsWhole, codeVars, history
<1>6. Chain'
  <2> SUFFICES ASSUME NEW e \in Families, NEW k \in Gens, refresh'[e][k] = "current", NEW h \in Gens
               PROVE  /\ h < k => refresh'[e][h] = "rotated"
                      /\ h > k => refresh'[e][h] = "none"
    BY DEF Chain
  <2> QED BY <1>2 DEF Chain
<1>7. AccessUnderRefresh'
  BY <1>3 DEF AccessUnderRefresh
<1>8. ScopesShrink'
  BY <1>1 DEF ScopesShrink, codeVars
<1>9. AuthorityInv'
  BY <1>1, <1>3, <1>8, AuthorityFrame
  DEF AuthorityInv, TypeOK, TokenUsable, clientVars, authzVars, codeVars, ceilVars, history
<1> QED BY <1>1, <1>4, <1>5, <1>6, <1>7, <1>8, <1>9 DEF AuthorityInv

\* A presented code, rotated token or revocation request ends one family.
LEMMA RevocationKeeps ==
  ASSUME McpInv, NEW F \in SUBSET Families, RevokeFamilies(F),
         UNCHANGED <<clientVars, authzVars, codeVars, ceilVars, overlapped>>
  PROVE  McpInv'
<1> USE DEF McpInv
<1>1. /\ TokenInv' /\ accessScope' = accessScope
      /\ refresh' \in [Families -> [Gens -> {"none", "current", "rotated", "expired", "revoked"}]]
      /\ access' \in [Families -> [Gens -> {"none", "live", "expired", "revoked"}]]
      /\ dead' \in [Families -> BOOLEAN]
      /\ \A f \in Families : (TokenRow(f)' <=> TokenRow(f)) /\ (TokenUsable(f)' => TokenUsable(f))
  BY RevokeKeepsTokens DEF TokenInv, codeVars
<1>2. TypeOK'
  BY <1>1 DEF TypeOK, clientVars, authzVars, codeVars, ceilVars
<1>3. AuthorityInv'
  BY <1>1, AuthorityFrame
  DEF AuthorityInv, TokenInv, TypeOK, clientVars, authzVars, codeVars, ceilVars
<1> QED BY <1>1, <1>2, <1>3 DEF TokenInv, AuthorityInv

\* Nothing of a revoked client stays usable.
LEMMA RevokeClientKeeps ==
  ASSUME McpInv, NEW c \in Clients, RevokeClient(c)
  PROVE  McpInv'
<1> USE DEF McpInv, RevokeClient, clientVars, ceilVars
<1> DEFINE F == {f \in Families : owner[f] = c}
<1>1. \A f \in Families : \/ stage'[f] = stage[f] /\ (stage[f] = "open" => f \notin F)
                          \/ f \in F /\ stage[f] = "open" /\ stage'[f] = "gone"
  BY DEF TypeOK
<1>2. /\ TokenInv' /\ accessScope' = accessScope
      /\ refresh' \in [Families -> [Gens -> {"none", "current", "rotated", "expired", "revoked"}]]
      /\ access' \in [Families -> [Gens -> {"none", "live", "expired", "revoked"}]]
      /\ dead' \in [Families -> BOOLEAN]
      /\ \A f \in Families : /\ TokenRow(f)' <=> TokenRow(f)
                             /\ TokenUsable(f)' => TokenUsable(f) /\ f \notin F
  BY <1>1, RevokeKeepsTokens DEF TokenInv
<1>3. TypeOK'
  BY <1>2 DEF TypeOK
<1>4. \A d \in Clients : /\ d # c => authz'[d] = authz[d]
                         /\ authz'[d] = "none" <=> authz[d] = "none"
  BY DEF TypeOK
<1>5. \A f \in Families : /\ owner[f] \in Clients /\ (f \notin F => owner[f] # c)
                          /\ stage'[f] = "open" => stage[f] = "open" /\ f \notin F
                          /\ CodeRow(f)' => CodeRow(f)
                          /\ stage'[f] \in {"checked", "cleared"} => stage'[f] = stage[f]
  BY <1>1 DEF TypeOK, CodeRow
<1>6. ReadCeilingsFit'
  BY <1>2, <1>5 DEF ReadCeilingsFit
<1>7. GrantIsAuthorized'
  BY <1>2, <1>4, <1>5 DEF GrantIsAuthorized
<1>8. ReferencesHold'
  BY <1>2, <1>4, <1>5 DEF ReferencesHold
<1> QED BY <1>2, <1>3, <1>6, <1>7, <1>8 DEF TokenInv

\* After a ceiling of the clients C has become S, nothing of theirs that is
\* usable exceeds S, and everything else is as it was.
LEMMA InvalidateKeeps ==
  ASSUME McpInv, NEW C \in SUBSET Clients, NEW S \in SUBSET Scopes, InvalidateExcess(C, S),
         UNCHANGED <<clientVars, authzVars>>
  PROVE  /\ TokenInv'
         /\ GrantIsAuthorized'
         /\ stage' \in [Families -> Stages]
         /\ refresh' \in [Families -> [Gens -> {"none", "current", "rotated", "expired", "revoked"}]]
         /\ access' \in [Families -> [Gens -> {"none", "live", "expired", "revoked"}]]
         /\ dead' \in [Families -> BOOLEAN]
         /\ UNCHANGED <<accessScope, owner, scope, codeExpired>>
         /\ \A f \in Families :
              /\ CodeRow(f)' => CodeRow(f)
              /\ TokenRow(f)' => TokenRow(f)
              /\ TokenUsable(f)' => TokenUsable(f)
              /\ stage'[f] \in {"checked", "cleared", "open"} => stage'[f] = stage[f]
              /\ owner[f] \in C /\ (stage'[f] = "open" \/ TokenUsable(f)') => scope[f] \subseteq S
<1> USE DEF McpInv, InvalidateExcess
<1> DEFINE F == Exceeding(C, S)
<1>1. \A f \in Families : \/ stage'[f] = stage[f] /\ (stage[f] = "open" /\ owner[f] \in C => scope[f] \subseteq S)
                          \/ stage[f] = "open" /\ stage'[f] = "gone"
  BY DEF TypeOK
<1>2. /\ TokenInv' /\ accessScope' = accessScope
      /\ refresh' \in [Families -> [Gens -> {"none", "current", "rotated", "expired", "revoked"}]]
      /\ access' \in [Families -> [Gens -> {"none", "live", "expired", "revoked"}]]
      /\ dead' \in [Families -> BOOLEAN]
      /\ \A f \in Families : /\ TokenRow(f)' <=> TokenRow(f)
                             /\ TokenUsable(f)' => TokenUsable(f) /\ f \notin F
  BY <1>1, RevokeKeepsTokens DEF TokenInv
<1>3. \A f \in Families : /\ CodeRow(f)' => CodeRow(f)
                          /\ stage'[f] \in {"checked", "cleared", "open"} => stage'[f] = stage[f]
  BY <1>1 DEF CodeRow
<1>4. \A f \in Families : owner[f] \in C /\ TokenUsable(f)' => scope[f] \subseteq S
  <2> SUFFICES ASSUME NEW f \in Families, owner[f] \in C, TokenUsable(f)'
               PROVE  scope[f] \subseteq S
    OBVIOUS
  <2>1. RefreshUsable(f) /\ f \notin F
    BY <1>2 DEF TokenUsable, AccessUnderRefresh
  <2> QED BY <2>1 DEF RefreshUsable, Exceeding
<1>5. GrantIsAuthorized'
  BY <1>2, <1>3 DEF GrantIsAuthorized, authzVars
<1>6. stage' \in [Families -> Stages]
  BY DEF TypeOK
<1> QED BY <1>1, <1>2, <1>3, <1>4, <1>5, <1>6

LEMMA ReplacePrincipalKeeps ==
  ASSUME McpInv, NEW S \in SUBSET Scopes, NEW e \in 0..MaxRev, ReplacePrincipalCeiling(S, e)
  PROVE  McpInv'
<1> USE DEF McpInv, ReplacePrincipalCeiling, Replaceable, clientVars, authzVars
<1>1. InvalidateExcess(Clients, S) /\ UNCHANGED <<clientVars, authzVars>>
  OBVIOUS
<1>2. /\ TokenInv' /\ GrantIsAuthorized'
      /\ stage' \in [Families -> Stages]
      /\ refresh' \in [Families -> [Gens -> {"none", "current", "rotated", "expired", "revoked"}]]
      /\ access' \in [Families -> [Gens -> {"none", "live", "expired", "revoked"}]]
      /\ dead' \in [Families -> BOOLEAN]
      /\ UNCHANGED <<accessScope, owner, scope, codeExpired>>
      /\ \A f \in Families :
           /\ CodeRow(f)' => CodeRow(f)
           /\ TokenRow(f)' => TokenRow(f)
           /\ TokenUsable(f)' => TokenUsable(f)
           /\ stage'[f] \in {"checked", "cleared", "open"} => stage'[f] = stage[f]
           /\ owner[f] \in Clients /\ (stage'[f] = "open" \/ TokenUsable(f)') => scope[f] \subseteq S
  BY <1>1, InvalidateKeeps
<1>3. /\ pceil' = [scopes |-> S, rev |-> pceil.rev + 1]
      /\ pceil' \in Ceiling /\ pceil'.scopes = S
  BY DEF TypeOK
<1>4. /\ overlapped' \in [Families -> BOOLEAN]
      /\ \A f \in Families : overlapped'[f] <=> overlapped[f] \/ stage[f] \in {"checked", "cleared"}
  BY DEF Overlaps, TypeOK
<1>5. TypeOK'
  BY <1>2, <1>3, <1>4 DEF TypeOK
<1>6. ReadCeilingsFit'
  <2> SUFFICES ASSUME NEW f \in Families, ~overlapped'[f],
                      stage'[f] \in {"checked", "cleared", "open"} \/ TokenUsable(f)'
               PROVE  /\ scope[f] \subseteq S
                      /\ scope[f] \subseteq cceil[owner[f]].scopes
    BY <1>2, <1>3 DEF ReadCeilingsFit
  <2>1. stage'[f] = "open" \/ TokenUsable(f)'
    BY <1>2, <1>4
  <2>2. ~overlapped[f] /\ (stage[f] = "open" \/ TokenUsable(f)) /\ owner[f] \in Clients
    BY <1>2, <1>4, <2>1 DEF TypeOK
  <2> QED BY <1>2, <2>1, <2>2 DEF ReadCeilingsFit
<1>7. ReferencesHold'
  BY <1>2 DEF ReferencesHold
<1> QED BY <1>2, <1>5, <1>6, <1>7 DEF TokenInv

LEMMA ReplaceClientKeeps ==
  ASSUME McpInv, NEW c \in Clients, NEW S \in SUBSET Scopes, NEW e \in 0..MaxRev,
         ReplaceClientCeiling(c, S, e)
  PROVE  McpInv'
<1> USE DEF McpInv, ReplaceClientCeiling, Replaceable, clientVars, authzVars
<1>1. InvalidateExcess({c}, S) /\ UNCHANGED <<clientVars, authzVars>>
  OBVIOUS
<1>2. /\ TokenInv' /\ GrantIsAuthorized'
      /\ stage' \in [Families -> Stages]
      /\ refresh' \in [Families -> [Gens -> {"none", "current", "rotated", "expired", "revoked"}]]
      /\ access' \in [Families -> [Gens -> {"none", "live", "expired", "revoked"}]]
      /\ dead' \in [Families -> BOOLEAN]
      /\ UNCHANGED <<accessScope, owner, scope, codeExpired>>
      /\ \A f \in Families :
           /\ CodeRow(f)' => CodeRow(f)
           /\ TokenRow(f)' => TokenRow(f)
           /\ TokenUsable(f)' => TokenUsable(f)
           /\ stage'[f] \in {"checked", "cleared", "open"} => stage'[f] = stage[f]
           /\ owner[f] \in {c} /\ (stage'[f] = "open" \/ TokenUsable(f)') => scope[f] \subseteq S
  BY ZenonT(60), <1>1, InvalidateKeeps
<1>3. /\ cceil' \in [Clients -> Ceiling] /\ cceil'[c].scopes = S
      /\ \A d \in Clients : d # c => cceil'[d] = cceil[d]
  BY DEF TypeOK
<1>4. /\ overlapped' \in [Families -> BOOLEAN]
      /\ \A f \in Families : overlapped'[f] <=> overlapped[f] \/ (owner[f] = c /\ stage[f] = "cleared")
  BY DEF Overlaps, TypeOK
<1>5. TypeOK'
  BY <1>2, <1>3, <1>4 DEF TypeOK
<1>6. ReadCeilingsFit'
  <2> SUFFICES ASSUME NEW f \in Families, ~overlapped'[f],
                      stage'[f] \in {"checked", "cleared", "open"} \/ TokenUsable(f)'
               PROVE  /\ scope[f] \subseteq pceil.scopes
                      /\ stage'[f] \in {"cleared", "open"} \/ TokenUsable(f)' =>
                           scope[f] \subseteq cceil'[owner[f]].scopes
    BY <1>2 DEF ReadCeilingsFit
  <2>1. /\ ~overlapped[f] /\ owner[f] \in Clients
        /\ stage[f] \in {"checked", "cleared", "open"} \/ TokenUsable(f)
        /\ owner[f] = c => stage[f] # "cleared"
    BY <1>2, <1>4 DEF TypeOK
  <2>2. scope[f] \subseteq pceil.scopes
    BY <2>1 DEF ReadCeilingsFit
  <2>3. ASSUME stage'[f] \in {"cleared", "open"} \/ TokenUsable(f)'
        PROVE  scope[f] \subseteq cceil'[owner[f]].scopes
    <3>1. CASE owner[f] = c
      BY <1>2, <1>3, <2>1, <2>3, <3>1
    <3>2. CASE owner[f] # c
      BY <1>2, <1>3, <2>1, <2>3, <3>2 DEF ReadCeilingsFit
    <3> QED BY <3>1, <3>2
  <2> QED BY <2>2, <2>3
<1>7. ReferencesHold'
  BY <1>2, <1>3 DEF ReferencesHold
<1> QED BY <1>2, <1>5, <1>6, <1>7 DEF TokenInv

LEMMA DeleteClientCeilingKeeps ==
  ASSUME McpInv, NEW c \in Clients, NEW e \in 0..MaxRev, DeleteClientCeiling(c, e)
  PROVE  McpInv'
<1> USE DEF McpInv, DeleteClientCeiling, Unset, clientVars, authzVars, codeVars, tokenVars, history
<1>1. TypeOK'
  BY DEF TypeOK
<1>2. TokenInv'
  BY TokenFrame DEF TokenInv
<1>3. \A f \in Families : /\ TokenRow(f)' <=> TokenRow(f)
                          /\ TokenUsable(f)' <=> TokenUsable(f)
                          /\ CodeRow(f)' <=> CodeRow(f)
  BY DEF TokenRow, TokenUsable, AccessUsable, RefreshUsable, CodeRow
<1>4. /\ cceil'[c].scopes = Scopes /\ cceil'[c].rev = 0
      /\ \A d \in Clients : d # c => cceil'[d] = cceil[d]
      /\ \A f \in Families : owner[f] \in Clients /\ scope[f] \subseteq Scopes
  BY DEF TypeOK
<1>5. ReadCeilingsFit'
  BY <1>3, <1>4 DEF ReadCeilingsFit
<1>6. GrantIsAuthorized'
  BY <1>3 DEF GrantIsAuthorized
<1>7. ReferencesHold'
  BY <1>3, <1>4 DEF ReferencesHold
<1> QED BY <1>1, <1>2, <1>5, <1>6, <1>7 DEF TokenInv

\* The purge removes rows nobody can use, and evidence and referenced rows only
\* after what they serve.
LEMMA PurgeKeeps ==
  ASSUME McpInv, Purge
  PROVE  McpInv'
<1> USE DEF McpInv, Purge
<1>1. TypeOK'
  BY SMTT(30) DEF TypeOK, ceilVars, history
<1>2. \A f \in Families, g \in Gens :
        /\ access'[f][g] = IF access[f][g] = "live" THEN "live" ELSE "none"
        /\ refresh'[f][g] = IF RefreshKept(f, g) THEN refresh[f][g] ELSE "none"
        /\ accessScope'[f][g] \in {accessScope[f][g], {}}
  BY DEF AccessKept
<1>3. /\ \A f \in Families : stage'[f] = IF CodeRow(f) /\ ~CodeKept(f) THEN "gone" ELSE stage[f]
      /\ UNCHANGED <<owner, scope, codeExpired, pceil, cceil, dead, overlapped>>
  BY DEF ceilVars, history
<1>4. \A f \in Families : /\ AccessUsable(f)' <=> AccessUsable(f)
                          /\ RefreshUsable(f)' <=> RefreshUsable(f)
                          /\ TokenUsable(f)' <=> TokenUsable(f)
                          /\ TokenRow(f)' => FamilyKept(f) /\ TokenRow(f)
                          /\ TokenUsable(f) => FamilyKept(f) /\ TokenRow(f)
  BY <1>2 DEF AccessUsable, RefreshUsable, TokenUsable, TokenRow, FamilyKept, AccessKept, RefreshKept
<1>5. \A f \in Families : /\ stage'[f] = stage[f] \/ stage'[f] = "gone"
                          /\ CodeRow(f)' => CodeKept(f) /\ CodeRow(f)
                          /\ stage[f] = "consumed" /\ FamilyKept(f) => stage'[f] = "consumed"
  BY <1>3 DEF CodeRow, CodeKept
<1>6. TokensComeFromCode'
  BY <1>2, <1>4, <1>5 DEF TokensComeFromCode
<1>7. RevocationIsWhole'
  BY <1>2, <1>3, <1>5 DEF RevocationIsWhole
<1>8. Chain'
  <2> SUFFICES ASSUME NEW f \in Families, NEW g \in Gens, refresh'[f][g] = "current", NEW h \in Gens
               PROVE  /\ h < g => refresh'[f][h] = "rotated"
                      /\ h > g => refresh'[f][h] = "none"
    BY DEF Chain
  <2>1. refresh[f][g] = "current" /\ RefreshUsable(f)
    BY <1>2 DEF RefreshUsable
  <2>2. /\ h < g => refresh[f][h] = "rotated"
        /\ h > g => refresh[f][h] = "none"
    BY <2>1 DEF Chain
  <2>3. refresh[f][h] = "rotated" => RefreshKept(f, h)
    BY <2>1 DEF RefreshKept
  <2> QED BY <1>2, <2>2, <2>3
<1>9. AccessUnderRefresh'
  BY <1>4 DEF AccessUnderRefresh
<1>10. ScopesShrink'
  BY <1>2, <1>3 DEF ScopesShrink
<1>11. ReadCeilingsFit'
  BY <1>3, <1>4, <1>5 DEF ReadCeilingsFit
<1>12. \A f \in Families : (CodeRow(f)' \/ TokenRow(f)') =>
         /\ owner[f] \in Clients /\ Referenced(owner[f])
         /\ AuthzKept(owner[f]) /\ ClientKept(owner[f])
  <2> SUFFICES ASSUME NEW f \in Families, CodeRow(f)' \/ TokenRow(f)'
               PROVE  /\ owner[f] \in Clients /\ Referenced(owner[f])
                      /\ AuthzKept(owner[f]) /\ ClientKept(owner[f])
    OBVIOUS
  <2>1. owner[f] \in Clients /\ client[owner[f]] \in {"absent", "fresh", "old"}
    BY DEF TypeOK
  <2>2. Referenced(owner[f])
    BY <1>4, <1>5 DEF Referenced
  <2>3. authz[owner[f]] # "none" /\ client[owner[f]] # "absent"
    BY <1>4, <1>5 DEF ReferencesHold
  <2> QED BY <2>1, <2>2, <2>3 DEF AuthzKept, ClientKept
<1>13. GrantIsAuthorized'
  <2> SUFFICES ASSUME NEW f \in Families, stage'[f] = "open" \/ TokenUsable(f)'
               PROVE  authz'[owner[f]] = "active" /\ scope[f] \subseteq granted'[owner[f]]
    BY <1>3, <1>10 DEF GrantIsAuthorized, ScopesShrink
  <2>1. authz[owner[f]] = "active" /\ scope[f] \subseteq granted[owner[f]]
    BY <1>4, <1>5 DEF GrantIsAuthorized
  <2>2. CodeRow(f)' \/ TokenRow(f)'
    BY DEF CodeRow, TokenRow, TokenUsable, AccessUsable, RefreshUsable
  <2> QED BY <1>12, <2>1, <2>2
<1>14. ReferencesHold'
  <2>1. \A c \in Clients : authz'[c] # "none" \/ cceil'[c].rev > 0 => client'[c] # "absent"
    <3> SUFFICES ASSUME NEW c \in Clients, authz'[c] # "none" \/ cceil'[c].rev > 0
                 PROVE  client'[c] # "absent"
      OBVIOUS
    <3>1. client[c] \in {"fresh", "old"} /\ (AuthzKept(c) \/ cceil[c].rev > 0)
      BY <1>3 DEF ReferencesHold, TypeOK, AuthzKept
    <3> QED BY <3>1 DEF ClientKept
  <2>2. ASSUME NEW f \in Families, CodeRow(f)' \/ TokenRow(f)'
        PROVE  client'[owner[f]] # "absent" /\ authz'[owner[f]] # "none"
    <3>1. /\ owner[f] \in Clients /\ AuthzKept(owner[f]) /\ ClientKept(owner[f])
          /\ client[owner[f]] # "absent" /\ authz[owner[f]] # "none"
      BY <1>4, <1>5, <1>12, <2>2 DEF ReferencesHold
    <3> QED BY <3>1
  <2> QED BY <1>3, <2>1, <2>2 DEF ReferencesHold
<1> QED BY <1>1, <1>6, <1>7, <1>8, <1>9, <1>10, <1>11, <1>13, <1>14

LEMMA McpStep == McpInv /\ [Next]_vars => McpInv'
<1> SUFFICES ASSUME McpInv, [Next]_vars PROVE McpInv'
  OBVIOUS
<1>1. CASE OwnerSteps
  BY <1>1, ReplacePrincipalKeeps, RevokeClientKeeps, ReplaceClientKeeps, DeleteClientCeilingKeeps
  DEF OwnerSteps
<1>2. CASE \E f \in Families :
             \/ CodeAgain(f)
             \/ RevokeToken(f)
             \/ \E g \in Gens : RefreshAgain(f, g)
  <2>1. PICK f \in Families : /\ RevokeFamilies({f})
                              /\ UNCHANGED <<clientVars, authzVars, codeVars, ceilVars, overlapped>>
    BY <1>2 DEF CodeAgain, RevokeToken, RefreshAgain
  <2> QED BY <2>1, RevocationKeeps
<1>3. CASE \E f \in Families :
             \/ \E c \in Clients, S \in SUBSET Scopes : BeginAuthorization(f, c, S)
             \/ ReadPrincipalCeiling(f)
             \/ ReadClientCeiling(f)
             \/ AuthorizationEnds(f)
  BY <1>3, RequestsKeep
<1>4. CASE \E f \in Families :
             \/ IssueCode(f)
             \/ ExchangeCode(f)
             \/ \E g \in Gens, S \in SUBSET Scopes : Rotate(f, g, S)
  BY <1>4, IssueCodeKeeps, ExchangeKeeps, RotateKeeps
<1>5. CASE \/ \E c \in Clients : RegisterClient(c)
           \/ \E f \in Families, g \in Gens : Authenticate(f, g)
  BY <1>5, QuietKeeps
<1>6. CASE ClientSteps
  BY <1>2, <1>3, <1>4, <1>5, <1>6 DEF ClientSteps
<1>7. CASE ClockSteps
  BY <1>7, QuietKeeps, ExpiryKeeps DEF ClockSteps
<1>8. CASE Purge
  BY <1>8, PurgeKeeps
<1>9. CASE UNCHANGED vars
  <2>1. UNCHANGED <<clientVars, authzVars, codeVars, tokenVars, ceilVars, history>>
    BY <1>9 DEF vars, clientVars, authzVars, codeVars, tokenVars, ceilVars, history
  <2> QED
    BY SMTT(30), <2>1 DEF McpInv, TypeOK, TokensComeFromCode, RevocationIsWhole, Chain, AccessUnderRefresh,
                ScopesShrink, ReadCeilingsFit, GrantIsAuthorized, ReferencesHold,
                TokenRow, TokenUsable, AccessUsable, RefreshUsable, CodeRow,
                clientVars, authzVars, codeVars, tokenVars, ceilVars, history
<1> QED BY <1>1, <1>6, <1>7, <1>8, <1>9 DEF Next

(* The invariant behind the theorems below: what codes, generations of      *)
(* tokens, ceilings and the tables of clients say of one another.           *)
THEOREM McpInvariant == Spec => []McpInv
<1> QED BY McpInit, McpStep, PTL DEF Spec

(* A family has one refresh token that can be rotated, and none after it.   *)
THEOREM McpOneRefreshToken == Spec => []OneRefreshToken
<1>1. McpInv => OneRefreshToken
  <2> SUFFICES ASSUME McpInv, NEW f \in Families, NEW g \in Gens, NEW h \in Gens,
                      refresh[f][g] = "current"
               PROVE  /\ refresh[f][h] = "current" => g = h
                      /\ h > g => refresh[f][h] = "none"
    BY DEF OneRefreshToken
  <2>1. /\ h < g => refresh[f][h] = "rotated"
        /\ h > g => refresh[f][h] = "none"
    BY DEF McpInv, Chain
  <2> QED BY <2>1
<1> QED BY McpInvariant, <1>1, PTL

(* A family revoked by any path has no token that works ever after.         *)
THEOREM McpRevokedStaysRevoked == Spec => []RevokedStaysRevoked
<1>1. McpInv => RevokedStaysRevoked
  BY DEF McpInv, RevocationIsWhole, RevokedStaysRevoked, TokenUsable, AccessUsable, RefreshUsable
<1> QED BY McpInvariant, <1>1, PTL

(* The tables keep their types.                                            *)
THEOREM McpTypeOK == Spec => []TypeOK
<1>1. McpInv => TypeOK
  BY DEF McpInv
<1> QED BY McpInvariant, <1>1, PTL

(* While a token works, the code and the rotated tokens of its family are   *)
(* known, however often the purge has run.                                  *)
THEOREM McpReplayIsKnown == Spec => []ReplayIsKnown
<1>1. McpInv => ReplayIsKnown
  <2> SUFFICES ASSUME McpInv, NEW f \in Families, TokenUsable(f)
               PROVE  /\ stage[f] = "consumed"
                      /\ \E g \in Gens : /\ refresh[f][g] = "current"
                                         /\ \A h \in Gens : h < g => refresh[f][h] = "rotated"
    BY DEF ReplayIsKnown
  <2>1. TokenRow(f)
    BY DEF TokenUsable, AccessUsable, RefreshUsable, TokenRow
  <2>2. stage[f] = "consumed"
    BY <2>1 DEF McpInv, TokensComeFromCode
  <2>3. RefreshUsable(f)
    BY DEF McpInv, AccessUnderRefresh, TokenUsable
  <2> QED BY <2>2, <2>3 DEF McpInv, Chain, RefreshUsable
<1> QED BY McpInvariant, <1>1, PTL

(* What can be exchanged or used belongs to an authorization that is there, *)
(* is not revoked and was consented to in that extent.                      *)
THEOREM McpGrantIsAuthorized == Spec => []GrantIsAuthorized
<1>1. McpInv => GrantIsAuthorized
  BY DEF McpInv
<1> QED BY McpInvariant, <1>1, PTL

(* No code, token, authorization or ceiling refers to a client that is not  *)
(* in its table, so no purge fails on a foreign key.                        *)
THEOREM McpReferencesHold == Spec => []ReferencesHold
<1>1. McpInv => ReferencesHold
  BY DEF McpInv
<1> QED BY McpInvariant, <1>1, PTL

(* Nothing usable exceeds either ceiling, unless its authorization had read *)
(* a ceiling that was replaced before the code was stored.                  *)
THEOREM McpGrantsFitCeilings == Spec => []GrantsFitCeilings
<1>1. McpInv => GrantsFitCeilings
  BY DEF McpInv, ReadCeilingsFit, GrantsFitCeilings
<1> QED BY McpInvariant, <1>1, PTL

=============================================================================
