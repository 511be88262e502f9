---------------------------- MODULE AccessProofs ----------------------------
(***************************************************************************)
(* Proofs about Access for all users, policies, check lists and chains.    *)
(***************************************************************************)
EXTENDS Access, TLAPS

\* Where Chain may stand: it begins at the first member and ends behind the last.
LEMMA PositionFacts ==
  /\ 1 \in Positions
  /\ \A n \in Positions : n <= Len(Revokers) => n + 1 \in Positions
  BY ChainAssumption DEF Positions

\* A connection without a request is of the type.
LEMMA FreeTyped == Free \in RequestType
  BY PositionFacts DEF Free, RequestType, Doors, Verdicts

\* The initial state is of the type.
LEMMA TypeInit == Init => TypeOK
<1> SUFFICES ASSUME Init PROVE TypeOK
  OBVIOUS
<1>1. conn \in [Conns -> RequestType]
  BY FreeTyped DEF Init
<1>2. proc \in ProcType
  BY DEF Init, NewProc, ProcType
<1>3. \A q \in Conns : conn[q].parsed => conn[q].token \in tokens
  BY DEF Init, Free
<1> QED
  BY <1>1, <1>2, <1>3, BoundAssumption DEF Init, TypeOK, NoCheck

\* A step that changes one request, and that to one of the type, keeps the type.
LEMMA OneRequest ==
  ASSUME TypeOK, NEW q \in Conns, NEW r \in RequestType, r.parsed => r.token \in tokens,
         conn' = [conn EXCEPT ![q] = r],
         UNCHANGED <<upstream, denied, accounts, conf, slot, proc, events>>
  PROVE  TypeOK'
<1>1. RequestType' = RequestType
  BY DEF RequestType, upstream
<1>2. conn' \in [Conns -> RequestType]
  BY DEF TypeOK
<1>3. \A p \in Conns : conn'[p].parsed => conn'[p].token \in tokens
  BY DEF TypeOK
<1> QED
  BY <1>1, <1>2, <1>3 DEF TypeOK, upstream

\* Every step of a request keeps the type.
LEMMA TypeHandle == ASSUME TypeOK, NEW q \in Conns, Handle(q) PROVE TypeOK'
<1> DEFINE same == UNCHANGED <<upstream, denied, accounts, conf, slot, proc, events>>
           Set(r) == conn' = [conn EXCEPT ![q] = r]
<1>0. 1 \in Positions
  BY PositionFacts
<1>1. /\ conn \in [Conns -> RequestType] /\ conn[q] \in RequestType
      /\ conn[q].parsed => conn[q].token \in tokens
  BY DEF TypeOK
<1>2. ASSUME NEW r \in RequestType, r.parsed => r.token \in tokens, Set(r), same PROVE TypeOK'
  BY <1>2, OneRequest
<1>3. ASSUME NEW v \in Verdicts, Ended(q, v), same PROVE TypeOK'
  <2> DEFINE r == [conn[q] EXCEPT !.pc = "done", !.verdict = v, !.next = 1]
  <2>1. Set(r)
    BY <1>1, <1>3 DEF Ended
  <2>2. r \in RequestType /\ (r.parsed => r.token \in tokens)
    BY <1>0, <1>1 DEF RequestType
  <2> QED
    BY <1>2, <1>3, <2>1, <2>2
<1>4. CASE ReviewRefused(q)
  <2> DEFINE r == [Free EXCEPT !.pc = "done", !.verdict = "bad"]
  <2>1. r \in RequestType /\ ~r.parsed
    BY <1>0 DEF RequestType, Free, Doors, Verdicts
  <2> QED
    BY <1>2, <1>4, <2>1 DEF ReviewRefused
<1>5. ASSUME NEW t \in tokens \cup {NoToken}, NEW want \in Wants, ReviewBegin(q, t, want)
      PROVE  TypeOK'
  <2>1. Begun("review", t, want) \in RequestType /\ ~Begun("review", t, want).parsed
    BY <1>0 DEF RequestType, Begun, Free, Doors, Verdicts, Known
  <2>2. \A p \in Conns : /\ [conn[p] EXCEPT !.foreign = @ \cup {want}] \in RequestType
                         /\ [conn[p] EXCEPT !.foreign = @ \cup {want}].parsed = conn[p].parsed
                         /\ [conn[p] EXCEPT !.foreign = @ \cup {want}].token = conn[p].token
    BY <1>1 DEF RequestType
  <2>3. conn' \in [Conns -> RequestType]
    BY <1>1, <1>5, <2>1, <2>2 DEF ReviewBegin
  <2>4. \A p \in Conns : conn'[p].parsed => conn'[p].token \in tokens
    BY <1>5, <2>1, <2>2 DEF ReviewBegin, TypeOK
  <2>5. RequestType' = RequestType
    BY <1>5 DEF RequestType, ReviewBegin, upstream
  <2>6. slot' \in Wants \cup {NoCheck}
    BY <1>5 DEF ReviewBegin, TypeOK
  <2> QED
    BY <1>5, <2>3, <2>4, <2>5, <2>6 DEF ReviewBegin, TypeOK, upstream
<1>6. CASE AppRefused(q)
  <2> DEFINE r == [Free EXCEPT !.pc = "done", !.door = conf.door, !.verdict = "unauthenticated"]
  <2>1. conf.door \in Doors
    BY <1>6, ConfigAssumption DEF AppRefused, TypeOK, Doors
  <2>2. r \in RequestType /\ ~r.parsed
    BY <1>0, <2>1 DEF RequestType, Free, Verdicts
  <2> QED
    BY <1>2, <1>6, <2>2 DEF AppRefused
<1>7. ASSUME NEW t \in tokens \cup {NoToken}, AppBegin(q, t) PROVE TypeOK'
  <2>1. conf.door \in Doors
    BY <1>7, ConfigAssumption DEF AppBegin, TypeOK, Doors
  <2>2. Begun(conf.door, t, {}) \in RequestType /\ ~Begun(conf.door, t, {}).parsed
    BY <1>0, <2>1 DEF RequestType, Begun, Free, Verdicts, Known
  <2> QED
    BY <1>2, <1>7, <2>2 DEF AppBegin
<1>8. CASE ParseFails(q)
  BY <1>3, <1>8 DEF ParseFails, Rejection, Verdicts
<1>9. CASE Parse(q)
  <2> DEFINE r == [conn[q] EXCEPT !.pc = "revokers", !.parsed = TRUE]
  <2>1. Set(r)
    BY <1>1, <1>9 DEF Parse
  <2>2. conn[q].token \in tokens
    BY <1>1, <1>9 DEF Parse, RequestType, NoToken
  <2>3. r \in RequestType /\ r.token \in tokens
    BY <1>1, <2>2 DEF RequestType
  <2> QED
    BY <1>2, <1>9, <2>1, <2>3 DEF Parse
<1>10. CASE RevokerClear(q)
  <2> DEFINE r == [conn[q] EXCEPT !.next = @ + 1]
  <2>1. Set(r)
    BY <1>1, <1>10 DEF RevokerClear
  <2>2. conn[q].next + 1 \in Positions
    BY <1>1, <1>10, PositionFacts DEF RevokerClear, Asking, RequestType
  <2>3. r \in RequestType /\ (r.parsed => r.token \in tokens)
    BY <1>1, <2>2 DEF RequestType
  <2> QED
    BY <1>2, <1>10, <2>1, <2>3 DEF RevokerClear
<1>11. CASE RevokerHit(q)
  BY <1>3, <1>11 DEF RevokerHit, Rejection, Verdicts
<1>12. CASE RevokerFails(q)
  <2> DEFINE r == [conn[q] EXCEPT !.pc = "done", !.verdict = Rejection(conn[q].door, TRUE),
                                  !.next = 1, !.failed = TRUE]
  <2>1. Set(r)
    BY <1>1, <1>12 DEF RevokerFails
  <2>2. r \in RequestType /\ (r.parsed => r.token \in tokens)
    BY <1>0, <1>1 DEF RequestType, Rejection, Verdicts
  <2> QED
    BY <1>2, <1>12, <2>1, <2>2 DEF RevokerFails
<1>13. CASE Check(q)
  BY <1>3, <1>13 DEF Check, Rejection, Verdicts
<1>14. ASSUME NEW a \in Accounts \cup {NoAccount},
              NEW pc \in {"call", "serve", "done"}, NEW v \in {"none", "unauthenticated"},
              SignArrives(q, a, pc, v)
       PROVE  TypeOK'
  <2> DEFINE r == [Free EXCEPT !.pc = pc, !.door = "sign", !.account = a, !.verdict = v,
                               !.barred = Guard = "sa" /\ a \notin accounts]
  <2>1. r \in RequestType /\ ~r.parsed
    BY <1>0 DEF RequestType, Free, Verdicts, Doors
  <2> QED
    BY <1>2, <1>14, <2>1 DEF SignArrives
<1>15. CASE SignRefused(q) \/ SignOpen(q)
  BY <1>14, <1>15 DEF SignRefused, SignOpen
<1>16. ASSUME NEW a \in Accounts, StaticBearer(q, a) \/ AskApiserver(q, a) PROVE TypeOK'
  BY <1>14, <1>16 DEF StaticBearer, AskApiserver
<1>17. CASE ApiserverSaysYes(q)
  <2> DEFINE r == [conn[q] EXCEPT !.pc = "serve"]
  <2>1. r \in RequestType /\ (r.parsed => r.token \in tokens)
    BY <1>1 DEF RequestType
  <2>2. Set(r) \/ Ended(q, "unauthenticated")
    BY <1>1, <1>17 DEF ApiserverSaysYes
  <2> QED
    BY <1>2, <1>3, <1>17, <2>1, <2>2 DEF ApiserverSaysYes, Verdicts
<1>18. CASE ApiserverSaysNo(q)
  BY <1>3, <1>18 DEF ApiserverSaysNo, Verdicts
<1>19. CASE Serve(q)
  BY <1>3, <1>19 DEF Serve, Verdicts
<1>20. CASE Answered(q)
  BY <1>2, <1>20, FreeTyped DEF Answered, Free
<1> QED
  BY <1>4, <1>5, <1>6, <1>7, <1>8, <1>9, <1>10, <1>11, <1>12, <1>13, <1>15, <1>16, <1>17,
     <1>18, <1>19, <1>20 DEF Handle

\* Every step keeps the type.
LEMMA TypeNext == TypeOK /\ [Next]_vars => TypeOK'
<1> SUFFICES ASSUME TypeOK, [Next]_vars PROVE TypeOK'
  OBVIOUS
<1>0. tokens' = tokens => RequestType' = RequestType
  BY DEF RequestType
<1>1. CASE UNCHANGED vars
  BY <1>0, <1>1 DEF vars, TypeOK
<1>2. ASSUME NEW a \in Asks, Submit(a) PROVE TypeOK'
  <2>1. events' \in 0..MaxEvents
    BY <1>2, BoundAssumption DEF Submit, MayHappen, TypeOK
  <2> QED
    BY <1>0, <1>2, <2>1 DEF Submit, TypeOK
<1>3. ASSUME NEW p \in Policies, ChangePolicy(p) PROVE TypeOK'
  <2>1. events' \in 0..MaxEvents
    BY <1>3, BoundAssumption DEF ChangePolicy, MayHappen, TypeOK
  <2> QED
    BY <1>0, <1>3, <2>1 DEF ChangePolicy, TypeOK
<1>4. CASE MintToken
  <2>1. tokens \subseteq tokens'
    BY <1>4 DEF MintToken
  <2>2. RequestType \subseteq RequestType'
    BY <2>1 DEF RequestType
  <2>3. conn' \in [Conns -> RequestType'] /\ denied' \subseteq Stores \X tokens'
    BY <1>4, <2>1, <2>2 DEF MintToken, TypeOK
  <2>4. \A t \in tokens' : t.minted /\ t.under \in Policies
    <3>1. request \in [stored : {TRUE}, ask : Asks, under : Policies]
      <4>1. ~NoRequest.stored
        BY DEF NoRequest
      <4>2. request.stored
        BY <1>4 DEF MintToken
      <4> QED
        BY <4>1, <4>2 DEF TypeOK
    <3>2. request.under \in Policies
      BY <3>1
    <3> QED
      BY <1>4, <3>2 DEF MintToken, TypeOK
  <2>5. \A q \in Conns : conn'[q].parsed => conn'[q].token \in tokens'
    BY <1>4, <2>1 DEF MintToken, TypeOK
  <2> QED
    BY <1>4, <2>3, <2>4, <2>5 DEF MintToken, TypeOK
<1>5. ASSUME NEW m \in Stores, NEW t \in tokens, Revoke(m, t) PROVE TypeOK'
  <2>1. events' \in 0..MaxEvents
    BY <1>5, BoundAssumption DEF Revoke, MayHappen, TypeOK
  <2>2. denied' \subseteq Stores \X tokens
    BY <1>5 DEF Revoke, TypeOK
  <2> QED
    BY <1>0, <1>5, <2>1, <2>2 DEF Revoke, upstream, TypeOK
<1>6. ASSUME NEW a \in Accounts, RemoveAccount(a) PROVE TypeOK'
  <2>1. events' \in 0..MaxEvents
    BY <1>6, BoundAssumption DEF RemoveAccount, MayHappen, TypeOK
  <2> QED
    BY <1>0, <1>6, <2>1 DEF RemoveAccount, upstream, TypeOK
<1>7. ASSUME NEW q \in Conns, Handle(q) PROVE TypeOK'
  BY <1>7, TypeHandle
<1>8. CASE Run \/ Tell \/ ServeBreaks
  <2>1. proc' \in ProcType
    BY <1>8 DEF Run, Listen, Tell, ServeBreaks, SelectDone, SelectError, ShutdownQuiet,
                ShutdownTimesOut, Returns, NewProc, ProcType, TypeOK
  <2>2. UNCHANGED <<upstream, denied, accounts, conf, slot, conn, events>>
    BY <1>8 DEF Run, Listen, Tell, ServeBreaks, SelectDone, SelectError, ShutdownQuiet,
                ShutdownTimesOut
  <2> QED
    BY <1>0, <2>1, <2>2 DEF TypeOK, upstream
<1>9. CASE ExitAndRestart
  <2>1. proc' \in ProcType
    BY <1>9 DEF ExitAndRestart, NewProc, ProcType
  <2>2. conn' \in [Conns -> RequestType]
    BY <1>9, FreeTyped DEF ExitAndRestart, TypeOK
  <2>3. \A q \in Conns : conn'[q].parsed => conn'[q].token \in tokens
    BY <1>9 DEF ExitAndRestart, TypeOK, Free
  <2> QED
    BY <1>0, <1>9, <2>1, <2>2, <2>3 DEF ExitAndRestart, NoCheck, upstream, TypeOK
<1> QED
  BY <1>1, <1>2, <1>3, <1>4, <1>5, <1>6, <1>7, <1>8, <1>9 DEF Next, Upstream

\* The doors and the process keep their types, for every policy, check list,
\* revoker chain and number of connections; in particular a request that got
\* past Parse carries a token that was minted here.
THEOREM TypeCorrect == Spec => []TypeOK
<1> QED
  BY TypeInit, TypeNext, PTL DEF Spec

-----------------------------------------------------------------------------
(* From the policy to the token.                                           *)

\* What the admission policy let in, and what was minted from it.
Granted ==
  /\ request # NoRequest => Allow(request.under, request.ask.user, request.ask.spec)
  /\ \A t \in tokens : \E a \in Asks :
       /\ Allow(t.under, a.user, a.spec) /\ t.author = a.user
       /\ t.claims = Mint(a.spec, DefaultIssuer)

\* Nothing is stored or minted that was not let in; changing the policy later
\* does not touch it.
LEMMA GrantedNext == TypeOK /\ Granted /\ [Next]_vars => Granted'
<1> SUFFICES ASSUME TypeOK, Granted, [Next]_vars PROVE Granted'
  OBVIOUS
<1>1. CASE UNCHANGED <<request, tokens>>
  BY <1>1 DEF Granted
<1>2. ASSUME NEW a \in Asks, Submit(a) PROVE Granted'
  BY <1>2 DEF Submit, Granted
<1>3. CASE MintToken
  <2>1. request # NoRequest
    <3>1. ~NoRequest.stored
      BY DEF NoRequest
    <3> QED
      BY <1>3, <3>1 DEF MintToken
  <2>2. request.ask \in Asks
    BY <2>1 DEF TypeOK
  <2>3. \A t \in tokens' \ tokens :
          /\ Allow(t.under, request.ask.user, request.ask.spec) /\ t.author = request.ask.user
          /\ t.claims = Mint(request.ask.spec, DefaultIssuer)
    BY <1>3, <2>1 DEF MintToken, Granted
  <2>4. request' = NoRequest
    BY <1>3 DEF MintToken
  <2> QED
    BY <2>2, <2>3, <2>4 DEF Granted
<1>4. ASSUME NEW q \in Conns, Handle(q) PROVE UNCHANGED <<request, tokens>>
  BY <1>4 DEF Handle, ReviewRefused, ReviewBegin, AppRefused, AppBegin, ParseFails, Parse,
     RevokerClear, RevokerHit, RevokerFails, Check, SignRefused, SignOpen, StaticBearer,
     AskApiserver, SignArrives, ApiserverSaysYes, ApiserverSaysNo, Serve, Answered, upstream
<1>5. CASE Run \/ Tell \/ ServeBreaks \/ ExitAndRestart
  BY <1>1, <1>5 DEF Run, Listen, Tell, ServeBreaks, SelectDone, SelectError, ShutdownQuiet,
              ShutdownTimesOut, ExitAndRestart, upstream
<1>6. ASSUME NEW p \in Policies, ChangePolicy(p) PROVE Granted'
  BY <1>1, <1>6 DEF ChangePolicy
<1>7. ASSUME NEW m \in Stores, NEW t \in tokens, Revoke(m, t) PROVE Granted'
  BY <1>1, <1>7 DEF Revoke, upstream
<1>8. ASSUME NEW a \in Accounts, RemoveAccount(a) PROVE Granted'
  BY <1>1, <1>8 DEF RemoveAccount, upstream
<1>9. CASE UNCHANGED vars
  BY <1>1, <1>9 DEF vars
<1> QED
  BY <1>1, <1>2, <1>3, <1>4, <1>5, <1>6, <1>7, <1>8, <1>9 DEF Next, Upstream

\* An extraClaims key that is used is one the policy opens, unless the author
\* is an administrator.
LEMMA ExtraIsOpen ==
  ASSUME NEW p, NEW u, NEW spec, Allow(p, u, spec), ~IsAdmin(p, u), NEW k \in ExtraUsed(spec)
  PROVE  OpenKey(p, k)
<1>1. Plain(k) \in {Plain(j) : j \in DOMAIN spec.extra}
  BY DEF ExtraUsed
<1>2. AllowAny \in p.extraKeys \/ Plain(k) \in StringSet(p.extraKeys)
  BY <1>1 DEF Allow, CheckAllowedList
<1>3. TrimSpace(AllowAny) = AllowAny
  BY DEF AllowAny, TrimSpace, Plain
<1>4. AllowAny \in Trimmed(p.extraKeys) \/ Plain(k) \in Trimmed(p.extraKeys)
  BY <1>2, <1>3 DEF StringSet, Trimmed
<1> QED
  BY <1>4 DEF OpenKey

\* A list that the policy allows is within it.
LEMMA AllowedWithin ==
  ASSUME NEW S, NEW allowed, CheckAllowedList(S, allowed)
  PROVE  Within(ReadStringSlice(ListOrAbsent(S)), allowed)
<1>1. ReadStringSlice(ListOrAbsent(S)) \subseteq S
  BY DEF ReadStringSlice, ListOrAbsent, List, Absent, Text
<1>2. AllowAny \in allowed \/ S \subseteq Trimmed(allowed)
  BY DEF CheckAllowedList, StringSet, Trimmed
<1> QED
  BY <1>1, <1>2 DEF Within

\* What mint makes of a request that the policy lets in is what its author is
\* entitled to.
LEMMA MintWithinPolicy ==
  ASSUME NEW a \in Asks, NEW t, Allow(t.under, a.user, a.spec), t.author = a.user,
         t.claims = Mint(a.spec, DefaultIssuer)
  PROVE  Entitled(t)
<1> DEFINE p == t.under
           u == a.user
           spec == a.spec
           c == t.claims
<1> SUFFICES ASSUME ~IsAdmin(p, u) PROVE Entitled(t)
  BY DEF Entitled
<1>1. \A k \in ClaimKeys : k \notin ExtraUsed(spec) => c[k] = FieldClaims(spec, DefaultIssuer)[k]
  BY DEF Mint
<1>2. \A k \in ClaimKeys : OpenKey(p, k) \/ c[k] = FieldClaims(spec, DefaultIssuer)[k]
  BY <1>1, ExtraIsOpen
<1>3. c["sub"] = TextOrAbsent(spec.subject)
  BY <1>1 DEF ExtraUsed, RegisteredClaims, ClaimKeys, FieldClaims
<1>4. c["aud"] = ListOrAbsent(spec.audience)
  BY <1>1 DEF ExtraUsed, RegisteredClaims, ClaimKeys, FieldClaims
<1>5. /\ OpenKey(p, "groups") \/ c["groups"] = ListOrAbsent(spec.groups)
      /\ OpenKey(p, "roles") \/ c["roles"] = ListOrAbsent(spec.roles)
      /\ OpenKey(p, "entitlements") \/ c["entitlements"] = ListOrAbsent(spec.entitlements)
  BY <1>2 DEF ClaimKeys, FieldClaims
<1>6. ReadString(c["sub"]) \subseteq {u.name}
  <2>1. spec.subject \in {Plain(Empty), u.name}
    BY DEF Allow
  <2> QED
    BY <1>3, <2>1 DEF TextOrAbsent, Text, Absent, ReadString
<1>7. OpenKey(p, "groups") \/ ReadStringSlice(c["groups"]) \subseteq Trimmed(u.groups)
  <2>1. spec.groups \subseteq Trimmed(u.groups)
    BY DEF Allow, StringSet, Trimmed
  <2>2. ReadStringSlice(ListOrAbsent(spec.groups)) \subseteq spec.groups
    BY DEF ReadStringSlice, ListOrAbsent, List, Absent, Text
  <2> QED
    BY <1>5, <2>1, <2>2
<1>8. Within(ReadStringSlice(c["aud"]), p.audiences)
  BY <1>4, AllowedWithin DEF Allow
<1>9. OpenKey(p, "roles") \/ Within(ReadStringSlice(c["roles"]), p.roles)
  BY <1>5, AllowedWithin DEF Allow
<1>10. OpenKey(p, "entitlements") \/ Within(ReadStringSlice(c["entitlements"]), p.entitlements)
  BY <1>5, AllowedWithin DEF Allow
<1> QED
  BY <1>6, <1>7, <1>8, <1>9, <1>10 DEF Entitled, UserInfo

-----------------------------------------------------------------------------
(* At the doors.                                                           *)

\* The order of the steps at each door.
InOrder(r) ==
  /\ r.pc \in {"parse", "revokers"} => r.door # "sign"
  /\ r.pc \in {"call", "serve"} => r.door = "sign"
  /\ r.door # "sign" /\ (r.pc = "revokers" \/ r.verdict = "accepted") => r.parsed

\* A request with a token known as revoked has the member that knows it before it.
Shut(r) ==
  r.door # "sign" /\ r.barred =>
    /\ r.verdict # "accepted"
    /\ r.pc \in {"parse", "revokers"} =>
         \E i \in DOMAIN Revokers : i >= r.next /\ <<Revokers[i], r.token>> \in denied

\* An account that was gone when its request came has not come back.
Live(r) ==
  r.door = "sign" /\ Guard = "sa" =>
    /\ r.barred => r.account \notin accounts /\ r.pc # "serve" /\ r.verdict # "accepted"
    /\ r.pc = "serve" \/ r.verdict = "accepted" =>
         conf.auth.allowed \subseteq {Plain(Empty)} \/ r.account \in conf.auth.allowed

DoorOK(r) == InOrder(r) /\ Shut(r) /\ Live(r)
DoorInv   == \A q \in Conns : DoorOK(conn[q])

\* Revoking more and removing accounts disturbs no request.
LEMMA DoorKept ==
  ASSUME NEW r, DoorOK(r), denied \subseteq denied', accounts' \subseteq accounts, conf' = conf
  PROVE  DoorOK(r)'
<1>1. InOrder(r)'
  BY DEF DoorOK, InOrder
<1>2. Shut(r)'
  BY DEF DoorOK, Shut
<1>3. Live(r)'
  BY DEF DoorOK, Live, Guard
<1> QED
  BY <1>1, <1>2, <1>3 DEF DoorOK

\* Nothing is claimed of a connection without a request.
LEMMA DoorFree == DoorOK(Free)
  BY DEF DoorOK, InOrder, Shut, Live, Free

\* A request that is refused is done with.
LEMMA DoorRefused ==
  ASSUME NEW r \in RequestType, DoorOK(r), NEW r2 \in RequestType,
         r2.pc = "done", r2.verdict # "accepted", r2.door = r.door, r2.barred = r.barred,
         r2.account = r.account
  PROVE  DoorOK(r2)
<1>1. InOrder(r2)
  BY DEF InOrder
<1>2. Shut(r2)
  BY DEF Shut
<1>3. Live(r2)
  BY DEF DoorOK, Live
<1> QED
  BY <1>1, <1>2, <1>3 DEF DoorOK

\* A request that begins at a door that verifies tokens.
LEMMA DoorBegun ==
  ASSUME NEW door \in Doors \ {"sign"}, NEW t, NEW want PROVE DoorOK(Begun(door, t, want))
<1> DEFINE r == Begun(door, t, want)
<1>1. /\ r.pc = "parse" /\ r.door = door /\ r.verdict = "none" /\ r.token = t /\ r.next = 1
      /\ r.barred = Known(t)
  BY DEF Begun, Free
<1>2. InOrder(r)
  BY <1>1 DEF InOrder
<1>3. DOMAIN Revokers = 1..Len(Revokers) /\ Len(Revokers) \in Nat
  BY ChainAssumption
<1>4. Known(t) => \E i \in DOMAIN Revokers : i >= 1 /\ <<Revokers[i], t>> \in denied
  BY <1>3 DEF Known
<1>5. Shut(r)
  BY <1>1, <1>4 DEF Shut
<1>6. Live(r)
  BY <1>1 DEF Live
<1> QED
  BY <1>2, <1>5, <1>6 DEF DoorOK

\* Every step of a request keeps all requests in order.
LEMMA DoorHandle == ASSUME TypeOK, DoorInv, NEW q \in Conns, Handle(q) PROVE DoorInv'
<1> DEFINE c == conn[q]
           same == UNCHANGED <<denied, accounts, conf>>
           Set(r) == conn' = [conn EXCEPT ![q] = r]
<1>1. conn \in [Conns -> RequestType] /\ c \in RequestType /\ DoorOK(c)
  BY DEF TypeOK, DoorInv
<1>2. ASSUME NEW r, DoorOK(r), Set(r), same PROVE DoorInv'
  <2>1. \A p \in Conns : DoorOK(conn'[p])
    BY <1>1, <1>2 DEF DoorInv
  <2>2. ASSUME NEW p \in Conns PROVE DoorOK(conn[p])'
    BY <1>2, <2>1 DEF DoorOK, InOrder, Shut, Live, Guard
  <2> QED
    BY <2>2 DEF DoorInv
<1>3. 1 \in Positions
  BY PositionFacts
<1>4. ASSUME NEW v \in Verdicts \ {"accepted"}, Ended(q, v), same PROVE DoorInv'
  <2> DEFINE r == [c EXCEPT !.pc = "done", !.verdict = v, !.next = 1]
  <2>1. r \in RequestType /\ Set(r)
    BY <1>1, <1>3, <1>4 DEF Ended, RequestType
  <2>2. DoorOK(r)
    BY <1>1, <2>1, DoorRefused DEF RequestType
  <2> QED
    BY <1>2, <1>4, <2>1, <2>2
<1>5. CASE ReviewRefused(q)
  <2> DEFINE r == [Free EXCEPT !.pc = "done", !.verdict = "bad"]
  <2>1. DoorOK(r)
    BY DEF DoorOK, InOrder, Shut, Live, Free
  <2> QED
    BY <1>2, <1>5, <2>1 DEF ReviewRefused
<1>6. ASSUME NEW t \in tokens \cup {NoToken}, NEW want \in Wants, ReviewBegin(q, t, want)
      PROVE  DoorInv'
  <2>1. DoorOK(Begun("review", t, want))
    BY DoorBegun DEF Doors
  <2>2. ASSUME NEW p \in Conns PROVE DoorOK([conn[p] EXCEPT !.foreign = @ \cup {want}])
    <3> DEFINE r == [conn[p] EXCEPT !.foreign = @ \cup {want}]
    <3>1. /\ r.pc = conn[p].pc /\ r.door = conn[p].door /\ r.verdict = conn[p].verdict
          /\ r.parsed = conn[p].parsed /\ r.barred = conn[p].barred /\ r.next = conn[p].next
          /\ r.token = conn[p].token /\ r.account = conn[p].account
      BY <1>1 DEF RequestType
    <3>2. DoorOK(conn[p])
      BY DEF DoorInv
    <3> QED
      BY <3>1, <3>2 DEF DoorOK, InOrder, Shut, Live
  <2>3. ASSUME NEW p \in Conns PROVE DoorOK(conn'[p])
    BY <1>1, <1>6, <2>1, <2>2 DEF ReviewBegin, DoorInv
  <2>4. ASSUME NEW p \in Conns PROVE DoorOK(conn[p])'
    BY <1>6, <2>3 DEF ReviewBegin, DoorOK, InOrder, Shut, Live, Guard
  <2> QED
    BY <2>4 DEF DoorInv
<1>7. CASE AppRefused(q)
  <2> DEFINE r == [Free EXCEPT !.pc = "done", !.door = conf.door, !.verdict = "unauthenticated"]
  <2>1. DoorOK(r)
    BY DEF DoorOK, InOrder, Shut, Live, Free
  <2> QED
    BY <1>2, <1>7, <2>1 DEF AppRefused
<1>8. ASSUME NEW t \in tokens \cup {NoToken}, AppBegin(q, t) PROVE DoorInv'
  <2>1. conf.door \in Doors \ {"sign"}
    BY <1>8, ConfigAssumption DEF AppBegin, TypeOK, Doors
  <2>2. DoorOK(Begun(conf.door, t, {}))
    BY <2>1, DoorBegun
  <2> QED
    BY <1>2, <1>8, <2>2 DEF AppBegin
<1>9. CASE ParseFails(q)
  BY <1>4, <1>9 DEF ParseFails, Rejection, Verdicts
<1>10. CASE Parse(q)
  <2> DEFINE r == [c EXCEPT !.pc = "revokers", !.parsed = TRUE]
  <2>1. Set(r)
    BY <1>1, <1>10 DEF Parse
  <2>2. /\ r.pc = "revokers" /\ r.parsed /\ r.door = c.door /\ r.verdict = c.verdict
        /\ r.barred = c.barred /\ r.next = c.next /\ r.token = c.token /\ r.account = c.account
    BY <1>1 DEF RequestType
  <2>3. DoorOK(r)
    BY <1>1, <1>10, <2>2 DEF Parse, DoorOK, InOrder, Shut, Live
  <2> QED
    BY <1>2, <1>10, <2>1, <2>3 DEF Parse
<1>11. CASE RevokerClear(q)
  <2> DEFINE r == [c EXCEPT !.next = @ + 1]
  <2>1. Set(r)
    BY <1>1, <1>11 DEF RevokerClear
  <2>2. /\ r.pc = c.pc /\ r.parsed = c.parsed /\ r.door = c.door /\ r.verdict = c.verdict
        /\ r.barred = c.barred /\ r.next = c.next + 1 /\ r.token = c.token /\ r.account = c.account
    BY <1>1 DEF RequestType
  <2>3. c.next \in Nat /\ \A i \in DOMAIN Revokers : i \in Nat
    BY <1>1, ChainAssumption DEF RequestType, Positions
  <2>4. <<Revokers[c.next], c.token>> \notin denied
    BY <1>11 DEF RevokerClear, Member
  <2>5. ASSUME NEW i \in DOMAIN Revokers, i >= c.next, <<Revokers[i], c.token>> \in denied
        PROVE  i >= c.next + 1
    <3>1. i # c.next
      BY <2>4, <2>5
    <3> QED
      BY <2>3, <2>5, <3>1
  <2>6. Shut(r)
    BY <1>1, <2>2, <2>5 DEF DoorOK, Shut
  <2>7. InOrder(r) /\ Live(r)
    BY <1>1, <2>2 DEF DoorOK, InOrder, Live
  <2> QED
    BY <1>2, <1>11, <2>1, <2>6, <2>7 DEF RevokerClear, DoorOK
<1>12. CASE RevokerHit(q)
  BY <1>4, <1>12 DEF RevokerHit, Rejection, Verdicts
<1>13. CASE RevokerFails(q)
  <2> DEFINE r == [c EXCEPT !.pc = "done", !.verdict = Rejection(c.door, TRUE),
                            !.next = 1, !.failed = TRUE]
  <2>1. Rejection(c.door, TRUE) \in Verdicts \ {"accepted"}
    BY DEF Rejection, Verdicts
  <2>2. r \in RequestType /\ Set(r)
    BY <1>1, <1>3, <1>13, <2>1 DEF RevokerFails, RequestType
  <2>3. DoorOK(r)
    BY <1>1, <2>1, <2>2, DoorRefused DEF RequestType
  <2> QED
    BY <1>2, <1>13, <2>2, <2>3 DEF RevokerFails
<1>14. CASE Check(q)
  <2>1. ASSUME Ended(q, "accepted") PROVE DoorInv'
    <3> DEFINE r == [c EXCEPT !.pc = "done", !.verdict = "accepted", !.next = 1]
    <3>1. /\ r.pc = "done" /\ r.parsed = c.parsed /\ r.door = c.door
          /\ r.barred = c.barred /\ r.verdict = "accepted"
      BY <1>1 DEF RequestType
    <3>2. c.door # "sign" /\ c.parsed
      BY <1>1, <1>14 DEF Check, DoorOK, InOrder
    <3>3. ~c.barred
      <4>1. c.next > Len(Revokers) /\ c.next \in Nat
        BY <1>1, <1>14, ChainAssumption DEF Check, RequestType, Positions
      <4>2. \A i \in DOMAIN Revokers : ~(i >= c.next)
        BY <4>1, ChainAssumption
      <4> QED
        BY <1>1, <1>14, <3>2, <4>2 DEF Check, DoorOK, Shut
    <3>4. DoorOK(r)
      BY <3>1, <3>2, <3>3 DEF DoorOK, InOrder, Shut, Live
    <3>5. Set(r)
      BY <1>1, <2>1 DEF Ended
    <3> QED
      BY <1>2, <1>14, <3>4, <3>5 DEF Check
  <2> QED
    BY <1>4, <1>14, <2>1 DEF Check, Rejection, Verdicts
<1>15. ASSUME NEW a, NEW pc \in {"call", "serve", "done"}, NEW v \in {"none", "unauthenticated"},
              pc = "serve" => Guard # "sa", SignArrives(q, a, pc, v)
       PROVE  DoorInv'
  <2> DEFINE r == [Free EXCEPT !.pc = pc, !.door = "sign", !.account = a, !.verdict = v,
                               !.barred = Guard = "sa" /\ a \notin accounts]
  <2>1. /\ r.pc = pc /\ r.door = "sign" /\ r.account = a /\ r.verdict = v
        /\ r.barred = (Guard = "sa" /\ a \notin accounts)
    BY DEF Free
  <2>2. DoorOK(r)
    BY <1>15, <2>1 DEF DoorOK, InOrder, Shut, Live
  <2> QED
    BY <1>2, <1>15, <2>2 DEF SignArrives
<1>16. CASE SignRefused(q) \/ SignOpen(q)
  BY <1>15, <1>16 DEF SignRefused, SignOpen
<1>17. ASSUME NEW a \in Accounts, StaticBearer(q, a) \/ AskApiserver(q, a) PROVE DoorInv'
  BY <1>15, <1>17 DEF StaticBearer, AskApiserver
<1>18. CASE ApiserverSaysYes(q)
  <2>1. ASSUME AllowedSAs = {} \/ c.account \in AllowedSAs, conn' = [conn EXCEPT ![q].pc = "serve"]
        PROVE  DoorInv'
    <3> DEFINE r == [c EXCEPT !.pc = "serve"]
    <3>1. /\ r.pc = "serve" /\ r.door = c.door /\ r.verdict = c.verdict /\ r.parsed = c.parsed
          /\ r.barred = c.barred /\ r.account = c.account
      BY <1>1 DEF RequestType
    <3>2. c.door = "sign" /\ c.account \in accounts
      BY <1>1, <1>18 DEF ApiserverSaysYes, DoorOK, InOrder
    <3>3. conf.auth.allowed \subseteq {Plain(Empty)} \/ c.account \in conf.auth.allowed
      BY <2>1 DEF AllowedSAs
    <3>4. DoorOK(r)
      BY <1>1, <3>1, <3>2, <3>3 DEF DoorOK, InOrder, Shut, Live
    <3>5. Set(r)
      BY <1>1, <2>1
    <3> QED
      BY <1>2, <1>18, <3>4, <3>5 DEF ApiserverSaysYes
  <2> QED
    BY <1>4, <1>18, <2>1 DEF ApiserverSaysYes, Verdicts
<1>19. CASE ApiserverSaysNo(q)
  BY <1>4, <1>19 DEF ApiserverSaysNo, Verdicts
<1>20. CASE Serve(q)
  <2> DEFINE r == [c EXCEPT !.pc = "done", !.verdict = "accepted", !.next = 1]
  <2>1. /\ r.pc = "done" /\ r.door = c.door /\ r.verdict = "accepted"
        /\ r.barred = c.barred /\ r.account = c.account
    BY <1>1 DEF RequestType
  <2>2. DoorOK(r)
    BY <1>1, <1>20, <2>1 DEF Serve, DoorOK, InOrder, Shut, Live
  <2>3. Set(r)
    BY <1>1, <1>20 DEF Serve, Ended
  <2> QED
    BY <1>2, <1>20, <2>2, <2>3 DEF Serve
<1>21. CASE Answered(q)
  BY <1>2, <1>21, DoorFree DEF Answered
<1> QED
  BY <1>5, <1>6, <1>7, <1>8, <1>9, <1>10, <1>11, <1>12, <1>13, <1>14, <1>16, <1>17, <1>18,
     <1>19, <1>20, <1>21 DEF Handle

\* So does every other step.
LEMMA DoorNext == TypeOK /\ DoorInv /\ [Next]_vars => DoorInv'
<1> SUFFICES ASSUME TypeOK, DoorInv, [Next]_vars PROVE DoorInv'
  OBVIOUS
<1>1. ASSUME denied \subseteq denied', accounts' \subseteq accounts, UNCHANGED <<conf, conn>>
      PROVE  DoorInv'
  <2>1. ASSUME NEW q \in Conns PROVE DoorOK(conn[q])'
    <3>1. PICK r : r = conn[q]
      OBVIOUS
    <3>2. DoorOK(r)'
      BY <1>1, <3>1, DoorKept DEF DoorInv
    <3> QED
      BY <1>1, <3>1, <3>2
  <2> QED
    BY <2>1 DEF DoorInv
<1>2. CASE UNCHANGED vars
  BY <1>1, <1>2 DEF vars
<1>3. CASE Upstream
  BY <1>1, <1>3 DEF Upstream, Submit, ChangePolicy, MintToken, Revoke, RemoveAccount, upstream
<1>4. CASE \E q \in Conns : Handle(q)
  BY <1>4, DoorHandle
<1>5. CASE Run \/ Tell \/ ServeBreaks
  BY <1>1, <1>5 DEF Run, Listen, Tell, ServeBreaks, SelectDone, SelectError, ShutdownQuiet,
                    ShutdownTimesOut
<1>6. CASE ExitAndRestart
  <2>1. ASSUME NEW q \in Conns PROVE DoorOK(conn'[q])
    BY <1>6, DoorFree DEF ExitAndRestart, DoorInv
  <2>2. ASSUME NEW q \in Conns PROVE DoorOK(conn[q])'
    BY <1>6, <2>1 DEF ExitAndRestart, DoorOK, InOrder, Shut, Live, Guard
  <2> QED
    BY <2>2 DEF DoorInv
<1> QED
  BY <1>2, <1>3, <1>4, <1>5, <1>6 DEF Next

-----------------------------------------------------------------------------
(* The end of the process.                                                 *)

\* Programs that are not jwtmintd have no Run, and a clean stop stays clean.
StopInv == (conf.daemon \/ proc.pc = "none") /\ CleanStop

\* A request of jwtmintd's begins only while Run waits.
LEMMA StopHandle == ASSUME TypeOK, StopInv, NEW q \in Conns, Handle(q) PROVE StopInv'
<1>1. UNCHANGED <<conf, proc>>
  BY DEF Handle, ReviewRefused, ReviewBegin, AppRefused, AppBegin, ParseFails, Parse,
     RevokerClear, RevokerHit, RevokerFails, Check, SignRefused, SignOpen, StaticBearer,
     AskApiserver, SignArrives, ApiserverSaysYes, ApiserverSaysNo, Serve, Answered
<1> SUFFICES ASSUME proc.pc = "returned", proc.result = "nil"
             PROVE  \A p \in Conns : ~(InFlight(p)' /\ Ours(p)')
  BY <1>1 DEF StopInv, CleanStop
<1>2. conf.daemon /\ ~Accepting
  BY DEF StopInv, Accepting
<1>3. \A p \in Conns : ~(InFlight(p) /\ Ours(p))
  BY DEF StopInv, CleanStop
<1>4. conn \in [Conns -> RequestType]
  BY DEF TypeOK
<1>5. ASSUME NEW r, conn' = [conn EXCEPT ![q] = r],
             r.pc \in {"free", "done"} \/ r.door \notin {"review", "sign"}
      PROVE  \A p \in Conns : ~(InFlight(p)' /\ Ours(p)')
  BY <1>3, <1>4, <1>5 DEF InFlight, Ours
<1>6. ASSUME NEW v, Ended(q, v) PROVE \A p \in Conns : ~(InFlight(p)' /\ Ours(p)')
  <2> DEFINE r == [conn[q] EXCEPT !.pc = "done", !.verdict = v, !.next = 1]
  <2>1. r.pc = "done" /\ conn' = [conn EXCEPT ![q] = r]
    BY <1>4, <1>6 DEF Ended, RequestType
  <2> QED
    BY <1>5, <2>1
<1>7. ASSUME NEW t \in tokens \cup {NoToken}, AppBegin(q, t)
      PROVE  \A p \in Conns : ~(InFlight(p)' /\ Ours(p)')
  <2>1. conf.door \notin {"review", "sign"}
    BY <1>7, ConfigAssumption DEF TypeOK
  <2>2. Begun(conf.door, t, {}).door = conf.door
    BY DEF Begun, Free
  <2> QED
    BY <1>5, <1>7, <2>1, <2>2 DEF AppBegin
<1>8. CASE AppRefused(q)
  <2> DEFINE r == [Free EXCEPT !.pc = "done", !.door = conf.door, !.verdict = "unauthenticated"]
  <2>1. r.pc = "done"
    BY DEF Free
  <2> QED
    BY <1>5, <1>8, <2>1 DEF AppRefused
<1>9. ASSUME InFlight(q), ~Ours(q), conn'[q].door = conn[q].door,
             \A p \in Conns \ {q} : conn'[p] = conn[p]
      PROVE  \A p \in Conns : ~(InFlight(p)' /\ Ours(p)')
  BY <1>3, <1>9 DEF InFlight, Ours
<1>10. CASE Parse(q) \/ RevokerClear(q)
  <2>1. InFlight(q) /\ ~Ours(q)
    BY <1>3, <1>10 DEF Parse, RevokerClear, Asking, InFlight
  <2>2. conn'[q].door = conn[q].door /\ \A p \in Conns \ {q} : conn'[p] = conn[p]
    BY <1>4, <1>10 DEF Parse, RevokerClear, RequestType
  <2> QED
    BY <1>9, <2>1, <2>2
<1>11. CASE ApiserverSaysYes(q)
  <2>1. InFlight(q) /\ ~Ours(q)
    BY <1>3, <1>11 DEF ApiserverSaysYes, InFlight
  <2>2. \/ Ended(q, "unauthenticated")
        \/ conn'[q].door = conn[q].door /\ \A p \in Conns \ {q} : conn'[p] = conn[p]
    BY <1>4, <1>11 DEF ApiserverSaysYes, RequestType
  <2> QED
    BY <1>6, <1>9, <2>1, <2>2
<1>12. CASE RevokerFails(q)
  <2> DEFINE r == [conn[q] EXCEPT !.pc = "done", !.verdict = Rejection(conn[q].door, TRUE),
                                  !.next = 1, !.failed = TRUE]
  <2>1. r.pc = "done" /\ conn' = [conn EXCEPT ![q] = r]
    BY <1>4, <1>12 DEF RevokerFails, RequestType
  <2> QED
    BY <1>5, <2>1
<1>13. CASE ParseFails(q) \/ RevokerHit(q) \/ Check(q) \/ ApiserverSaysNo(q) \/ Serve(q)
  BY <1>6, <1>13 DEF ParseFails, RevokerHit, Check, ApiserverSaysNo, Serve
<1>14. CASE Answered(q)
  BY <1>5, <1>14 DEF Answered, Free
<1>15. /\ ~ReviewRefused(q) /\ ~SignRefused(q) /\ ~SignOpen(q)
       /\ \A t, want : ~ReviewBegin(q, t, want)
       /\ \A a : ~StaticBearer(q, a) /\ ~AskApiserver(q, a)
  BY <1>2 DEF ReviewRefused, SignRefused, SignOpen, ReviewBegin, StaticBearer, AskApiserver,
              SignArrives
<1> QED
  BY <1>7, <1>8, <1>10, <1>11, <1>12, <1>13, <1>14, <1>15 DEF Handle

\* Run returns nil only from a quiet Shutdown.
LEMMA StopNext == TypeOK /\ StopInv /\ [Next]_vars => StopInv'
<1> SUFFICES ASSUME TypeOK, StopInv, [Next]_vars PROVE StopInv'
  OBVIOUS
<1>1. ASSUME UNCHANGED <<conf, proc, conn>> PROVE StopInv'
  BY <1>1 DEF StopInv, CleanStop, InFlight, Ours
<1>2. CASE UNCHANGED vars
  BY <1>1, <1>2 DEF vars
<1>3. CASE Upstream
  BY <1>1, <1>3 DEF Upstream, Submit, ChangePolicy, MintToken, Revoke, RemoveAccount, upstream
<1>4. CASE \E q \in Conns : Handle(q)
  BY <1>4, StopHandle
<1>5. ASSUME proc.pc # "none", UNCHANGED <<conf, conn>>,
             proc'.pc = "returned" => proc'.result = "error"
      PROVE  StopInv'
  BY <1>5 DEF StopInv, CleanStop
<1>6. CASE Listen \/ Tell \/ ServeBreaks \/ SelectDone \/ SelectError \/ ShutdownTimesOut
  <2>1. proc.pc # "none" /\ UNCHANGED <<conf, conn>>
    BY <1>6 DEF Listen, Tell, ServeBreaks, SelectDone, SelectError, ShutdownTimesOut
  <2>2. proc'.pc = "returned" => proc'.result = "error"
    BY <1>6 DEF Listen, Tell, ServeBreaks, SelectDone, SelectError, ShutdownTimesOut, Returns,
                NewProc, TypeOK, ProcType
  <2> QED
    BY <1>5, <2>1, <2>2
<1>7. CASE ShutdownQuiet
  BY <1>7 DEF ShutdownQuiet, StopInv, CleanStop, InFlight, Ours
<1>8. CASE ExitAndRestart
  BY <1>8 DEF ExitAndRestart, NewProc, StopInv, CleanStop
<1> QED
  BY <1>2, <1>3, <1>4, <1>6, <1>7, <1>8 DEF Next, Run

-----------------------------------------------------------------------------
(* What the checks say.                                                    *)

\* A check passes exactly the claims that satisfy it: normalizing both sides,
\* and treating all that cannot be read as nothing, loses and adds no match.
LEMMA ListPasses ==
  ASSUME NEW v, v.kind \in {"string", "list"} \/ v.of = {}, NEW want
  PROVE  Matching(ReadStringSlice(v), want) # {} <=>
           /\ v # Text(Plain(Empty))
           /\ \E s \in v.of, w \in want : s.word = w.word
<1> DEFINE have == ReadStringSlice(v)
<1>1. have = IF v # Text(Plain(Empty)) THEN v.of ELSE {}
  BY DEF ReadStringSlice
<1>2. \A s, w : NormalizeString(s) = NormalizeString(w) <=> s.word = w.word
  BY DEF NormalizeString, Plain
<1>3. Matching(have, want) # {} <=>
        \E s \in have, w \in want : NormalizeString(s) = NormalizeString(w)
  <2> HIDE DEF have
  <2> QED
    BY DEF Matching
<1>4. Matching(have, want) # {} <=> \E s \in have, w \in want : s.word = w.word
  BY <1>2, <1>3
<1> QED
  BY <1>1, <1>4

\* The claims of a token that was minted here.
Minted(c) == \E a \in Asks : c = Mint(a.spec, DefaultIssuer)

\* They are JSON, and there is an issuer that is not empty.
LEMMA MintedValues ==
  ASSUME NEW c, Minted(c)
  PROVE  /\ \E s : s # Plain(Empty) /\ c["iss"] = Text(s)
         /\ \A k \in ClaimKeys :
              /\ c[k].kind \in {"string", "list"} \/ c[k].of = {}
              /\ c[k] # Absent => c[k].kind # "absent"
<1>1. PICK a \in Asks : c = Mint(a.spec, DefaultIssuer)
  BY DEF Minted
<1> DEFINE spec == a.spec
           f == FieldClaims(spec, DefaultIssuer)
<1>2. \A k \in ClaimKeys : c[k] = IF k \in ExtraUsed(spec) THEN spec.extra[k] ELSE f[k]
  BY <1>1 DEF Mint
<1>3. c["iss"] = f["iss"]
  BY <1>2 DEF ClaimKeys, ExtraUsed, RegisteredClaims
<1>4. \E s : s # Plain(Empty) /\ f["iss"] = Text(s)
  BY IssuerAssumption DEF FieldClaims, ClaimKeys
<1>5. ASSUME NEW k \in ClaimKeys
      PROVE  /\ c[k].kind \in {"string", "list"} \/ c[k].of = {}
             /\ c[k] # Absent => c[k].kind # "absent"
  <2>1. CASE k \in ExtraUsed(spec)
    <3>1. c[k] \in {Number, NotJSON} \/ c[k].kind \in {"string", "list"}
      BY <1>2, <2>1, AskAssumption DEF ExtraUsed
    <3> QED
      BY <3>1 DEF Number, NotJSON
  <2>2. CASE k \notin ExtraUsed(spec)
    <3>1. c[k] = f[k]
      BY <1>2, <2>2
    <3>2. \/ \E s : f[k] = Text(s) \/ f[k] = TextOrAbsent(s) \/ f[k] = ListOrAbsent(s)
          \/ f[k] = Absent
      BY DEF FieldClaims, ClaimKeys
    <3>3. c[k] = Absent \/ \E s : c[k] = Text(s) \/ c[k] = List(s)
      BY <3>1, <3>2 DEF TextOrAbsent, ListOrAbsent
    <3>4. Absent.of = {} /\ \A s : Text(s).kind = "string" /\ List(s).kind = "list"
      BY DEF Absent, Text, List
    <3> HIDE DEF f
    <3> QED
      BY <3>3, <3>4
  <2> QED
    BY <2>1, <2>2
<1> QED
  BY <1>3, <1>4, <1>5

\* The checks that can be configured demand of minted claims what they say.
LEMMA PassesIsSatisfies ==
  ASSUME NEW c, Minted(c), NEW k, k.on \in {"aud", "groups", "roles", "iss", "keys"},
         k.on = "keys" => k.want \subseteq ClaimKeys
  PROVE  Passes(k, c) <=> Satisfies(k, c)
<1>1. CASE k.on \in {"aud", "groups", "roles"}
  <2>1. k.on \in ClaimKeys
    BY <1>1 DEF ClaimKeys
  <2>2. Passes(k, c) <=> Matching(ReadStringSlice(c[k.on]), k.want) # {}
    BY <1>1 DEF Passes, CheckAudience, CheckHasGroups, CheckHasRoles, MatchingAudience,
                MatchingGroups, MatchingRoles
  <2>3. Satisfies(k, c) <=> /\ c[k.on] # Text(Plain(Empty))
                            /\ \E s \in c[k.on].of, w \in k.want : s.word = w.word
    BY <1>1 DEF Satisfies
  <2>4. c[k.on].kind \in {"string", "list"} \/ c[k.on].of = {}
    BY <2>1, MintedValues
  <2> QED
    BY <2>2, <2>3, <2>4, ListPasses
<1>2. CASE k.on = "iss"
  <2>1. PICK s : s # Plain(Empty) /\ c["iss"] = Text(s)
    BY MintedValues
  <2>2. ReadString(c["iss"]) = {s} /\ c["iss"].of = {s}
    BY <2>1 DEF ReadString, Text
  <2> QED
    BY <1>2, <2>2 DEF Passes, Satisfies, CheckIssuer
<1>3. CASE k.on = "keys"
  <2>0. Absent.kind = "absent"
    BY DEF Absent
  <2>1. \A j \in k.want : c[j].kind # "absent" <=> c[j] # Absent
    BY <1>3, <2>0, MintedValues
  <2> QED
    BY <1>3, <2>1 DEF Passes, Satisfies, CheckRequiredKeys
<1> QED
  BY <1>1, <1>2, <1>3

-----------------------------------------------------------------------------
(* The answers.                                                            *)

\* The list a door was built with, and the audience checks a review may run.
StaticFor(r) == IF r.door = "review" THEN conf.review ELSE conf.app
JudgedFor(r) == {[on |-> "aud", want |-> w] : w \in {r.want} \cup r.foreign}

\* There is an answer at the end only, a verified token behind Parse only, and
\* audiences are asked of reviews only.
Stage(r) ==
  /\ r.pc # "done" => r.verdict = "none"
  /\ r.pc = "revokers" => r.parsed
  /\ r.pc \notin {"revokers", "done"} => ~r.parsed
  /\ r.want # {} => r.door = "review"

\* The shared element is the review's own or what another has appended since.
OwnCheck(r) ==
  r.pc \in {"parse", "revokers"} /\ r.door = "review" /\ r.want # {} /\ Spare =>
    slot \in {r.want} \cup r.foreign

\* What OwnAudience and DeniedForCause say of one request.
Right(r) ==
  r.door # "sign" =>
    /\ r.want # {} => \E check \in JudgedFor(r) : Satisfies(check, r.token.claims)
    /\ \A i \in DOMAIN StaticFor(r) : Satisfies(StaticFor(r)[i], r.token.claims)

Cause(r) ==
  \/ r.failed
  \/ Known(r.token)
  \/ \E i \in DOMAIN StaticFor(r) : ~Satisfies(StaticFor(r)[i], r.token.claims)
  \/ r.want # {} /\ \E check \in JudgedFor(r) : ~Satisfies(check, r.token.claims)

Answer(r) ==
  /\ r.verdict = "accepted" => Right(r)
  /\ r.verdict = "unauthenticated" => ~r.parsed
  /\ r.verdict = "forbidden" => r.parsed
  /\ r.verdict \in {"denied", "forbidden"} /\ r.parsed => Cause(r)

AnswerOK(r) == Stage(r) /\ OwnCheck(r) /\ Answer(r)
AnswerInv   == \A q \in Conns : AnswerOK(conn[q])

\* Revoking more disturbs no request.
LEMMA AnswerKept ==
  ASSUME NEW r, AnswerOK(r), denied \subseteq denied', UNCHANGED <<conf, slot>>
  PROVE  AnswerOK(r)'
<1>1. Spare' = Spare /\ StaticFor(r)' = StaticFor(r)
  BY DEF Spare, Capacity, StaticFor
<1>2. Known(r.token) => Known(r.token)'
  BY DEF Known
<1>3. Right(r) => Right(r)'
  BY <1>1 DEF Right, JudgedFor
<1>4. Cause(r) => Cause(r)'
  BY <1>1, <1>2 DEF Cause, JudgedFor
<1> QED
  BY <1>1, <1>3, <1>4 DEF AnswerOK, Stage, OwnCheck, Answer

\* Nothing is claimed of a connection without a request.
LEMMA AnswerFree == AnswerOK(Free)
  BY DEF AnswerOK, Stage, OwnCheck, Answer, Free

\* The answer of Check, from the list the request ranges over: the last check
\* is the review's own or that of a review whose append got in between.
LEMMA CheckAnswers ==
  ASSUME TypeOK, NEW q \in Conns, Stage(conn[q]), OwnCheck(conn[q]),
         conn[q].pc = "revokers", Minted(conn[q].token.claims)
  PROVE  /\ AllPass(ChecksOf(q), conn[q].token.claims) => Right(conn[q])
         /\ ~AllPass(ChecksOf(q), conn[q].token.claims) => Cause(conn[q])
<1> DEFINE r == conn[q]
           c == r.token.claims
           L == StaticFor(r)
           own == [on |-> "aud", want |-> IF Spare THEN slot ELSE r.want]
<1>1. IsCheckList(conf.review) /\ IsCheckList(conf.app)
  BY ConfigAssumption DEF TypeOK
<1>2. IsCheckList(L)
  BY <1>1 DEF StaticFor
<1>3. L \in Seq({L[i] : i \in DOMAIN L})
  BY <1>2 DEF IsCheckList
<1>4. \A i \in DOMAIN L : Passes(L[i], c) <=> Satisfies(L[i], c)
  BY <1>2, PassesIsSatisfies DEF IsCheckList
<1>5. \A w : Passes([on |-> "aud", want |-> w], c) <=> Satisfies([on |-> "aud", want |-> w], c)
  BY PassesIsSatisfies
<1>6. CASE r.door = "review" /\ r.want # {}
  <2>1. ChecksOf(q) = Append(L, own)
    BY <1>6 DEF ChecksOf, StaticFor
  <2>2. AllPass(ChecksOf(q), c) <=> Passes(own, c) /\ \A i \in DOMAIN L : Passes(L[i], c)
    <3> HIDE DEF L, own, c
    <3>1. /\ DOMAIN Append(L, own) = 1..(Len(L) + 1) /\ DOMAIN L = 1..Len(L) /\ Len(L) \in Nat
          /\ Append(L, own)[Len(L) + 1] = own
          /\ \A i \in DOMAIN L : Append(L, own)[i] = L[i]
      BY <1>3
    <3>2. \A i : i \in DOMAIN Append(L, own) <=> i \in DOMAIN L \/ i = Len(L) + 1
      BY <3>1
    <3> QED
      BY <2>1, <3>1, <3>2 DEF AllPass
  <2>3. own \in JudgedFor(r)
    BY <1>6 DEF OwnCheck, JudgedFor
  <2>4. Passes(own, c) <=> Satisfies(own, c)
    BY <1>5
  <2> HIDE DEF L, own
  <2>5. AllPass(ChecksOf(q), c) => Right(r)
    BY <1>4, <2>2, <2>3, <2>4 DEF Right, L
  <2>6. ~AllPass(ChecksOf(q), c) => Cause(r)
    BY <1>4, <1>6, <2>2, <2>3, <2>4 DEF Cause, L
  <2> QED
    BY <2>5, <2>6
<1>7. CASE ~(r.door = "review" /\ r.want # {})
  <2>1. ChecksOf(q) = L
    BY <1>7 DEF ChecksOf, StaticFor
  <2>2. AllPass(ChecksOf(q), c) <=> \A i \in DOMAIN L : Satisfies(L[i], c)
    BY <1>4, <2>1 DEF AllPass
  <2>3. r.want = {}
    BY <1>7 DEF Stage
  <2> QED
    BY <1>7, <2>2, <2>3 DEF Right, Cause
<1> QED
  BY <1>6, <1>7

\* A request that ends with an answer there is a cause for is in order.
LEMMA AnswerEnds ==
  ASSUME NEW c, Stage(c), NEW r, r.pc = "done", r.door = c.door, r.want = c.want,
         r.token = c.token, r.parsed = c.parsed, r.foreign = c.foreign, c.failed => r.failed,
         r.verdict = "accepted" => Right(c),
         r.verdict = "unauthenticated" => ~c.parsed,
         r.verdict = "forbidden" => c.parsed,
         r.verdict \in {"denied", "forbidden"} /\ c.parsed => r.failed \/ Cause(c)
  PROVE  AnswerOK(r)
<1>1. JudgedFor(r) = JudgedFor(c) /\ StaticFor(r) = StaticFor(c)
  BY DEF JudgedFor, StaticFor
<1>2. (Right(c) => Right(r)) /\ (r.failed \/ Cause(c) => Cause(r))
  BY <1>1 DEF Right, Cause
<1>3. Stage(r)
  BY DEF Stage
<1> QED
  BY <1>2, <1>3 DEF AnswerOK, OwnCheck, Answer

\* A step that changes one request, and that to one in order, keeps all in order.
LEMMA OneAnswer ==
  ASSUME AnswerInv, conn \in [Conns -> RequestType], NEW q \in Conns, NEW r, AnswerOK(r),
         conn' = [conn EXCEPT ![q] = r], UNCHANGED <<denied, conf, slot>>
  PROVE  AnswerInv'
<1>1. ASSUME NEW p \in Conns PROVE AnswerOK(conn[p])'
  <2>1. PICK s : s = conn'[p]
    OBVIOUS
  <2>2. AnswerOK(s)
    BY <2>1 DEF AnswerInv
  <2>3. AnswerOK(s)'
    BY <2>2, AnswerKept
  <2> QED
    BY <2>1, <2>3
<1> QED
  BY <1>1 DEF AnswerInv

\* Another review's append is noted at every request it takes the check from.
LEMMA AnswerReview ==
  ASSUME TypeOK, AnswerInv, NEW q \in Conns, NEW t, NEW want, ReviewBegin(q, t, want)
  PROVE  AnswerInv'
<1>1. conn \in [Conns -> RequestType] /\ UNCHANGED <<conf, denied>>
  BY DEF TypeOK, ReviewBegin
<1>2. Spare' = Spare
  BY <1>1 DEF Spare, Capacity
<1>3. slot' = IF Spare /\ want # {} THEN want ELSE slot
  BY DEF ReviewBegin
<1> SUFFICES ASSUME NEW p \in Conns PROVE AnswerOK(conn[p])'
  BY DEF AnswerInv
<1>4. ASSUME NEW r PROVE Answer(r) => Answer(r)'
  <2>1. StaticFor(r)' = StaticFor(r) /\ Known(r.token)' = Known(r.token)
    BY <1>1 DEF StaticFor, Known
  <2>2. (Right(r) => Right(r)') /\ (Cause(r) => Cause(r)')
    BY <2>1 DEF Right, Cause, JudgedFor
  <2> QED
    BY <2>2 DEF Answer
<1>5. PICK r : r = conn'[p]
  OBVIOUS
<1>6. CASE p = q
  <2>1. r = Begun("review", t, want)
    BY <1>1, <1>5, <1>6 DEF ReviewBegin
  <2>2. /\ r.pc = "parse" /\ r.door = "review" /\ r.verdict = "none" /\ ~r.parsed
        /\ r.want = want
    BY <2>1 DEF Begun, Free
  <2>3. Stage(r)' /\ Answer(r)'
    BY <2>2 DEF Stage, Answer
  <2>4. OwnCheck(r)'
    BY <1>2, <1>3, <2>2 DEF OwnCheck
  <2> QED
    BY <1>5, <2>3, <2>4 DEF AnswerOK
<1>7. CASE p # q
  <2> DEFINE s == conn[p]
             shared == /\ Spare /\ want # {} /\ InFlight(p)
                       /\ s.door = "review" /\ s.want # {}
  <2>1. s \in RequestType /\ AnswerOK(s)
    BY <1>1 DEF AnswerInv
  <2>2. CASE shared
    <3>1. r = [s EXCEPT !.foreign = @ \cup {want}]
      BY <1>1, <1>5, <1>7, <2>2 DEF ReviewBegin
    <3>2. /\ r.pc = s.pc /\ r.door = s.door /\ r.verdict = s.verdict /\ r.want = s.want
          /\ r.parsed = s.parsed /\ want \in r.foreign
      BY <2>1, <3>1 DEF RequestType
    <3>3. r.verdict = "none"
      BY <2>1, <2>2, <3>2 DEF AnswerOK, Stage, InFlight
    <3>4. Stage(r)' /\ Answer(r)' /\ OwnCheck(r)'
      BY <1>3, <2>1, <2>2, <3>2, <3>3 DEF AnswerOK, Stage, Answer, OwnCheck
    <3> QED
      BY <1>5, <3>4 DEF AnswerOK
  <2>3. CASE ~shared
    <3>1. r = s
      BY <1>1, <1>5, <1>7, <2>3 DEF ReviewBegin
    <3>2. Stage(r)' /\ Answer(r)'
      BY <1>4, <2>1, <3>1 DEF AnswerOK, Stage
    <3>3. OwnCheck(r)'
      BY <1>2, <1>3, <2>1, <2>3, <3>1 DEF AnswerOK, OwnCheck, InFlight
    <3> QED
      BY <1>5, <3>2, <3>3 DEF AnswerOK
  <2> QED
    BY <2>2, <2>3
<1> QED
  BY <1>6, <1>7

\* Every step of a request answers for a cause.
LEMMA AnswerHandle ==
  ASSUME TypeOK, Granted, DoorInv, AnswerInv, NEW q \in Conns, Handle(q) PROVE AnswerInv'
<1> DEFINE c == conn[q]
           same == UNCHANGED <<denied, conf, slot>>
           Set(r) == conn' = [conn EXCEPT ![q] = r]
<1>1. /\ conn \in [Conns -> RequestType] /\ c \in RequestType
      /\ AnswerOK(c) /\ InOrder(c)
  BY DEF TypeOK, AnswerInv, DoorInv, DoorOK
<1>2. ASSUME NEW r, AnswerOK(r), Set(r), same PROVE AnswerInv'
  BY <1>1, <1>2, OneAnswer
<1>4. ASSUME NEW v, Ended(q, v), same,
             v = "accepted" => Right(c),
             v = "unauthenticated" => ~c.parsed,
             v = "forbidden" => c.parsed,
             v \in {"denied", "forbidden"} /\ c.parsed => Cause(c)
      PROVE  AnswerInv'
  <2> DEFINE r == [c EXCEPT !.pc = "done", !.verdict = v, !.next = 1]
  <2>1. Set(r)
    BY <1>1, <1>4 DEF Ended
  <2>2. /\ r.pc = "done" /\ r.verdict = v /\ r.door = c.door /\ r.want = c.want
        /\ r.token = c.token /\ r.parsed = c.parsed /\ r.foreign = c.foreign
        /\ c.failed => r.failed
    BY <1>1 DEF RequestType
  <2> HIDE DEF r
  <2>3. AnswerOK(r)
    BY <1>1, <1>4, <2>2, AnswerEnds DEF AnswerOK
  <2> QED
    BY <1>2, <1>4, <2>1, <2>3
<1>5. CASE ReviewRefused(q)
  <2> DEFINE r == [Free EXCEPT !.pc = "done", !.verdict = "bad"]
  <2>1. AnswerOK(r)
    BY DEF AnswerOK, Stage, OwnCheck, Answer, Free
  <2> QED
    BY <1>2, <1>5, <2>1 DEF ReviewRefused
<1>6. ASSUME NEW t \in tokens \cup {NoToken}, NEW want \in Wants, ReviewBegin(q, t, want)
      PROVE  AnswerInv'
  BY <1>6, AnswerReview
<1>7. CASE AppRefused(q)
  <2> DEFINE r == [Free EXCEPT !.pc = "done", !.door = conf.door, !.verdict = "unauthenticated"]
  <2>1. AnswerOK(r)
    BY DEF AnswerOK, Stage, OwnCheck, Answer, Free
  <2> QED
    BY <1>2, <1>7, <2>1 DEF AppRefused
<1>8. ASSUME NEW t \in tokens \cup {NoToken}, AppBegin(q, t) PROVE AnswerInv'
  <2> DEFINE r == Begun(conf.door, t, {})
  <2>1. r.pc = "parse" /\ r.want = {} /\ r.verdict = "none" /\ ~r.parsed
    BY DEF Begun, Free
  <2>2. AnswerOK(r)
    BY <2>1 DEF AnswerOK, Stage, OwnCheck, Answer
  <2> QED
    BY <1>2, <1>8, <2>2 DEF AppBegin
<1>9. CASE ParseFails(q)
  <2>1. ~c.parsed
    BY <1>1, <1>9 DEF ParseFails, AnswerOK, Stage
  <2> QED
    BY <1>4, <1>9, <2>1 DEF ParseFails, Rejection
<1>10. CASE Parse(q)
  <2> DEFINE r == [c EXCEPT !.pc = "revokers", !.parsed = TRUE]
  <2>1. Set(r)
    BY <1>1, <1>10 DEF Parse
  <2>2. /\ r.pc = "revokers" /\ r.parsed /\ r.door = c.door /\ r.verdict = c.verdict
        /\ r.want = c.want /\ r.foreign = c.foreign
    BY <1>1 DEF RequestType
  <2>3. AnswerOK(r)
    BY <1>1, <1>10, <2>2 DEF Parse, AnswerOK, Stage, OwnCheck, Answer
  <2> QED
    BY <1>2, <1>10, <2>1, <2>3 DEF Parse
<1>11. CASE RevokerClear(q)
  <2> DEFINE r == [c EXCEPT !.next = @ + 1]
  <2>1. Set(r)
    BY <1>1, <1>11 DEF RevokerClear
  <2>2. /\ r.pc = c.pc /\ r.parsed = c.parsed /\ r.door = c.door /\ r.verdict = c.verdict
        /\ r.want = c.want /\ r.foreign = c.foreign
    BY <1>1 DEF RequestType
  <2>3. AnswerOK(r)
    BY <1>1, <1>11, <2>2 DEF RevokerClear, Asking, AnswerOK, Stage, OwnCheck, Answer
  <2> QED
    BY <1>2, <1>11, <2>1, <2>3 DEF RevokerClear
<1>12. CASE RevokerHit(q)
  <2>1. c.parsed
    BY <1>1, <1>12 DEF RevokerHit, Asking, AnswerOK, Stage
  <2>2. Known(c.token)
    <3>1. c.next \in DOMAIN Revokers
      BY <1>1, <1>12, ChainAssumption DEF RevokerHit, Asking, RequestType, Positions
    <3> QED
      BY <1>12, <3>1 DEF RevokerHit, Member, Known
  <2>3. Cause(c)
    BY <2>2 DEF Cause
  <2> QED
    BY <1>4, <1>12, <2>1, <2>3 DEF RevokerHit, Rejection
<1>13. CASE RevokerFails(q)
  <2> DEFINE v == Rejection(c.door, TRUE)
             r == [c EXCEPT !.pc = "done", !.verdict = v, !.next = 1, !.failed = TRUE]
  <2>1. Set(r)
    BY <1>1, <1>13 DEF RevokerFails
  <2>2. /\ r.pc = "done" /\ r.verdict = v /\ r.door = c.door /\ r.want = c.want
        /\ r.token = c.token /\ r.parsed = c.parsed /\ r.foreign = c.foreign
        /\ r.failed
    BY <1>1 DEF RequestType
  <2>3. c.parsed /\ v \in {"denied", "forbidden"}
    BY <1>1, <1>13 DEF RevokerFails, Asking, AnswerOK, Stage, Rejection
  <2> HIDE DEF r, v
  <2>4. AnswerOK(r)
    BY <1>1, <2>2, <2>3, AnswerEnds DEF AnswerOK
  <2> QED
    BY <1>2, <1>13, <2>1, <2>4 DEF RevokerFails
<1>14. CASE Check(q)
  <2>1. c.parsed /\ c.pc = "revokers"
    BY <1>1, <1>14 DEF Check, AnswerOK, Stage
  <2>2. c.token \in tokens
    BY <2>1 DEF TypeOK
  <2>3. Minted(c.token.claims)
    BY <2>2 DEF Granted, Minted
  <2>4. /\ AllPass(ChecksOf(q), c.token.claims) => Right(c)
        /\ ~AllPass(ChecksOf(q), c.token.claims) => Cause(c)
    BY <1>1, <2>1, <2>3, CheckAnswers DEF AnswerOK
  <2> QED
    BY <1>4, <1>14, <2>1, <2>4 DEF Check, Rejection
<1>15. ASSUME NEW a, NEW pc \in {"call", "serve", "done"}, NEW v \in {"none", "unauthenticated"},
              pc # "done" => v = "none", SignArrives(q, a, pc, v)
       PROVE  AnswerInv'
  <2> DEFINE r == [Free EXCEPT !.pc = pc, !.door = "sign", !.account = a, !.verdict = v,
                               !.barred = Guard = "sa" /\ a \notin accounts]
  <2>1. r.pc = pc /\ r.door = "sign" /\ r.verdict = v /\ ~r.parsed /\ r.want = {}
    BY DEF Free
  <2>2. AnswerOK(r)
    BY <1>15, <2>1 DEF AnswerOK, Stage, OwnCheck, Answer
  <2> QED
    BY <1>2, <1>15, <2>2 DEF SignArrives
<1>16. CASE SignRefused(q) \/ SignOpen(q)
  BY <1>15, <1>16 DEF SignRefused, SignOpen
<1>17. ASSUME NEW a \in Accounts, StaticBearer(q, a) \/ AskApiserver(q, a) PROVE AnswerInv'
  BY <1>15, <1>17 DEF StaticBearer, AskApiserver
<1>18. CASE ApiserverSaysYes(q)
  <2>1. ASSUME conn' = [conn EXCEPT ![q].pc = "serve"] PROVE AnswerInv'
    <3> DEFINE r == [c EXCEPT !.pc = "serve"]
    <3>1. /\ r.pc = "serve" /\ r.door = c.door /\ r.verdict = c.verdict /\ r.parsed = c.parsed
          /\ r.want = c.want
      BY <1>1 DEF RequestType
    <3>2. AnswerOK(r)
      BY <1>1, <1>18, <3>1 DEF ApiserverSaysYes, AnswerOK, Stage, OwnCheck, Answer
    <3>3. Set(r)
      BY <1>1, <2>1
    <3> QED
      BY <1>2, <1>18, <3>2, <3>3 DEF ApiserverSaysYes
  <2>2. ~c.parsed
    BY <1>1, <1>18 DEF ApiserverSaysYes, AnswerOK, Stage
  <2> QED
    BY <1>4, <1>18, <2>1, <2>2 DEF ApiserverSaysYes
<1>19. CASE ApiserverSaysNo(q)
  <2>1. ~c.parsed
    BY <1>1, <1>19 DEF ApiserverSaysNo, AnswerOK, Stage
  <2> QED
    BY <1>4, <1>19, <2>1 DEF ApiserverSaysNo
<1>20. CASE Serve(q)
  <2>1. Right(c)
    BY <1>1, <1>20 DEF Serve, InOrder, Right
  <2> QED
    BY <1>4, <1>20, <2>1 DEF Serve
<1>21. CASE Answered(q)
  BY <1>2, <1>21, AnswerFree DEF Answered
<1> QED
  BY <1>5, <1>6, <1>7, <1>8, <1>9, <1>10, <1>11, <1>12, <1>13, <1>14, <1>16, <1>17, <1>18,
     <1>19, <1>20, <1>21 DEF Handle

\* So does every other step.
LEMMA AnswerNext ==
  TypeOK /\ Granted /\ DoorInv /\ AnswerInv /\ [Next]_vars => AnswerInv'
<1> SUFFICES ASSUME TypeOK, Granted, DoorInv, AnswerInv, [Next]_vars PROVE AnswerInv'
  OBVIOUS
<1>1. ASSUME denied \subseteq denied', UNCHANGED <<conf, slot, conn>> PROVE AnswerInv'
  <2>1. ASSUME NEW q \in Conns PROVE AnswerOK(conn[q])'
    <3>1. PICK r : r = conn[q]
      OBVIOUS
    <3>2. AnswerOK(r)'
      BY <1>1, <3>1, AnswerKept DEF AnswerInv
    <3> QED
      BY <1>1, <3>1, <3>2
  <2> QED
    BY <2>1 DEF AnswerInv
<1>2. CASE UNCHANGED vars
  BY <1>1, <1>2 DEF vars
<1>3. CASE Upstream
  BY <1>1, <1>3 DEF Upstream, Submit, ChangePolicy, MintToken, Revoke, RemoveAccount, upstream
<1>4. CASE \E q \in Conns : Handle(q)
  BY <1>4, AnswerHandle
<1>5. CASE Run \/ Tell \/ ServeBreaks
  BY <1>1, <1>5 DEF Run, Listen, Tell, ServeBreaks, SelectDone, SelectError, ShutdownQuiet,
                    ShutdownTimesOut
<1>6. CASE ExitAndRestart
  <2>1. UNCHANGED <<denied, conf>>
    BY <1>6 DEF ExitAndRestart
  <2>2. ASSUME NEW q \in Conns PROVE AnswerOK(conn[q])'
    <3>1. PICK r : r = conn'[q]
      OBVIOUS
    <3>2. AnswerOK(r)
      BY <1>6, <3>1, AnswerFree DEF ExitAndRestart, AnswerInv
    <3>3. r = Free \/ r.door # "review"
      BY <1>6, <3>1 DEF ExitAndRestart, Ours
    <3>4. StaticFor(r)' = StaticFor(r) /\ (Known(r.token) => Known(r.token)')
      BY <2>1 DEF StaticFor, Known
    <3>5. Answer(r)'
      <4>1. (Right(r) => Right(r)') /\ (Cause(r) => Cause(r)')
        BY <3>4 DEF Right, Cause, JudgedFor
      <4> QED
        BY <3>2, <4>1 DEF AnswerOK, Answer
    <3>6. Stage(r)' /\ OwnCheck(r)'
      BY <3>2, <3>3 DEF AnswerOK, Stage, OwnCheck, Free
    <3> QED
      BY <3>1, <3>5, <3>6 DEF AnswerOK
  <2> QED
    BY <2>2 DEF AnswerInv
<1> QED
  BY <1>2, <1>3, <1>4, <1>5, <1>6 DEF Next

-----------------------------------------------------------------------------
\* The invariant that the theorems below follow from.
Inv == TypeOK /\ Granted /\ DoorInv /\ AnswerInv /\ StopInv

\* Every reachable state satisfies it.
THEOREM InvHolds == Spec => []Inv
<1>1. Init => Inv
  <2> SUFFICES ASSUME Init PROVE Inv
    OBVIOUS
  <2>1. Granted
    BY DEF Init, Granted
  <2>2. DoorInv
    BY DoorFree DEF Init, DoorInv
  <2>3. StopInv
    BY DEF Init, StopInv, CleanStop, NewProc
  <2>4. AnswerInv
    BY AnswerFree DEF Init, AnswerInv
  <2> QED
    BY TypeInit, <2>1, <2>2, <2>3, <2>4 DEF Inv
<1>2. Inv /\ [Next]_vars => Inv'
  BY TypeNext, GrantedNext, DoorNext, AnswerNext, StopNext DEF Inv
<1> QED
  BY <1>1, <1>2, PTL DEF Spec

\* Nobody but an administrator gets another identity than his own by way of a
\* JWTRequest, whatever the policies, the requests and the checks of the doors
\* are, and however the policy is changed in between: what admission lets in
\* is all that mint can turn into claims.
THEOREM GrantKept == Spec => []IdentityGranted
<1>1. Inv => IdentityGranted
  <2> SUFFICES ASSUME Inv, NEW q \in Conns, conn[q].verdict = "accepted", conn[q].door # "sign"
               PROVE  Entitled(conn[q].token)
    BY DEF IdentityGranted
  <2>1. conn[q].token \in tokens
    BY DEF Inv, TypeOK, DoorInv, DoorOK, InOrder
  <2> QED
    BY <2>1, MintWithinPolicy DEF Inv, Granted
<1> QED
  BY <1>1, InvHolds, PTL

\* A door lets in what satisfies the checks it was built with, and a review
\* the audiences it was asked for, or those of a review whose append took its
\* check, for every check list and any number of concurrent reviews.
THEOREM AudienceKept == Spec => []OwnAudience
<1>1. Inv => OwnAudience
  <2> SUFFICES ASSUME Inv, NEW q \in Conns, conn[q].door # "sign", conn[q].verdict = "accepted"
               PROVE  /\ conn[q].want # {} =>
                           \E check \in JudgedBy(q) : Satisfies(check, conn[q].token.claims)
                      /\ \A i \in DOMAIN StaticOf(q) :
                           Satisfies(StaticOf(q)[i], conn[q].token.claims)
    BY DEF OwnAudience
  <2>1. Right(conn[q])
    BY DEF Inv, AnswerInv, AnswerOK, Answer
  <2>2. JudgedBy(q) = JudgedFor(conn[q]) /\ StaticOf(q) = StaticFor(conn[q])
    BY DEF JudgedBy, JudgedFor, StaticOf, StaticFor
  <2> QED
    BY <2>1, <2>2 DEF Right
<1> QED
  BY <1>1, InvHolds, PTL

\* Nobody is turned away without a cause, and 401 and 403 tell an unverified
\* token from a verified one, whatever the checks, the claims and the chain.
THEOREM DenialsExplained == Spec => []DeniedForCause
<1>1. Inv => DeniedForCause
  <2> SUFFICES ASSUME Inv PROVE DeniedForCause
    OBVIOUS
  <2>1. ASSUME NEW q \in Conns
        PROVE  /\ Answer(conn[q])
               /\ JudgedBy(q) = JudgedFor(conn[q]) /\ StaticOf(q) = StaticFor(conn[q])
    BY DEF Inv, AnswerInv, AnswerOK, JudgedBy, JudgedFor, StaticOf, StaticFor
  <2> QED
    BY <2>1 DEF DeniedForCause, Answer, Cause
<1> QED
  BY <1>1, InvHolds, PTL

\* A token that a member of the chain knows as revoked opens no door, for any
\* number of members, whichever of them fail or are nil.
THEOREM RevokedStaysOut == Spec => []RevokedShut
<1>1. Inv => RevokedShut
  BY DEF Inv, DoorInv, DoorOK, Shut, RevokedShut
<1> QED
  BY <1>1, InvHolds, PTL

\* /sign is served to live and listed accounts only, whatever the API server's
\* failures.
THEOREM LiveAccountsOnly == Spec => []OnlyLiveAccounts
<1>1. Inv => OnlyLiveAccounts
  BY DEF Inv, DoorInv, DoorOK, Live, OnlyLiveAccounts
<1> QED
  BY <1>1, InvHolds, PTL

\* Run returns nil only with no request in flight, for any number of
\* connections and any race of signal, accept error and timeout.
THEOREM StopIsClean == Spec => []CleanStop
<1>1. Inv => CleanStop
  BY DEF Inv, StopInv
<1> QED
  BY <1>1, InvHolds, PTL
=============================================================================
