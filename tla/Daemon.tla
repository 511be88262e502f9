------------------------------- MODULE Daemon -------------------------------
(***************************************************************************)
(* httpserver.Server: /sign, /verify and /refresh over one key             *)
(* configuration and, as Config.Revoker, one MemRevoker; the operator who  *)
(* revokes; and the restarts by which keys are rotated.  jwtmintd runs it  *)
(* without a revoker, which is the case in which nobody revokes.           *)
(*                                                                         *)
(* A /verify request is several steps: the parser reads the clock once,    *)
(* then the revoker reads its map, then the clock again.  Everything else  *)
(* may happen between them.                                                *)
(***************************************************************************)
EXTENDS TokenRules, FiniteSets

CONSTANTS SignKeys,     \* the key pairs the operator owns
          Jtis,         \* jti values
          NoKey, NilToken,
          Requests,     \* concurrent /verify requests
          Exps, Iats, Nbfs,   \* time claims callers of /sign may send
          Lifetimes,    \* expires_in values of /sign callers
          KidHeaders,   \* kid headers callers of /sign may send
          MaxTime, MaxTokens, MaxRestarts

ASSUME DaemonAssumption ==
  /\ NoKid \notin SignKeys /\ KidHeaders \subseteq SignKeys \cup {NoKid}
  /\ NoKey \notin Jtis /\ NilToken \notin Jtis /\ NoKey # NilToken
  /\ \A v \in Exps \cup Iats \cup Nbfs : v \in Nat \/ v \in {Missing, Bad}
  /\ Lifetimes \subseteq Int
  /\ MaxTime \in Nat \ {0} /\ MaxTokens \in Nat /\ MaxRestarts \in Nat

VARIABLES now, revoked, lookup, sweep, seen, rewritten,   \* the revoker's
          cfg,        \* the running server's keys
          restarts,   \* how often the process was started again
          issued,     \* every token handed out
          req,        \* /verify requests
          killed,     \* history: chains revoked forever in this process
          spent,      \* history: tokens revoked until their own exp
          barred      \* history: requests begun on a token of a killed chain

\* Nobody runs Cleanup here: MemRevokerProofs!PromiseKept shows that it
\* cannot be told from a step in which nothing happens.
R == INSTANCE MemRevoker WITH Keys <- Jtis, Readers <- Requests, Sweepers <- {}

revVars  == <<now, revoked, lookup, sweep, seen, rewritten>>
srvVars  == <<cfg, restarts, issued, req, killed, spent, barred>>
vars     == <<now, revoked, lookup, sweep, seen, rewritten,
              cfg, restarts, issued, req, killed, spent, barred>>

\* httpserver.New: AdditionalKeys need the primary to have a Kid.
Configs ==
  {c \in [primary : SignKeys, kid : SignKeys \cup {NoKid}, additional : SUBSET SignKeys] :
     /\ c.primary \notin c.additional
     /\ c.kid \in {c.primary, NoKid}
     /\ c.additional # {} => c.kid # NoKid}

NoToken == [jti |-> NoKey]
IdleReq == [pc |-> "idle", token |-> NoToken, at |-> 0, valid |-> FALSE, spent |-> {}]

Init ==
  /\ R!Init
  /\ cfg \in Configs
  /\ restarts = 0
  /\ issued = {}
  /\ req = [q \in Requests |-> IdleReq]
  /\ killed = {}
  /\ spent = {}
  /\ barred = {}

-----------------------------------------------------------------------------
Tick == R!Tick /\ UNCHANGED srvVars

\* The token signWith builds; kid is the caller's header or the server's own.
SignedToken(c, jti, kid) ==
  LET times == SignedTimes(c, now)
  IN  [jti |-> jti, key |-> cfg.primary, kid |-> IF kid = NoKid THEN cfg.kid ELSE kid,
       exp |-> times.exp, iat |-> times.iat, nbf |-> times.nbf,
       chain |-> Cardinality(issued), first |-> times.iat,
       life |-> times.exp - times.iat, own |-> kid = NoKid, epoch |-> restarts]

\* jti is the caller's, which may be empty or in use, or a fresh uuid.
SignWith(c, kid) ==
  /\ Cardinality(issued) < MaxTokens
  /\ ~SignRefused(c, now)
  /\ \E jti \in Jtis \cup {NoKey} : issued' = issued \cup {SignedToken(c, jti, kid)}
  /\ UNCHANGED <<revVars, cfg, restarts, req, killed, spent, barred>>

\* /sign without expires_in: the caller's exp, if any, is used.
Sign(exp, iat, nbf, kid) == SignWith([exp |-> exp, iat |-> iat, nbf |-> nbf], kid)

\* /sign with expires_in: exp is overwritten by now + d before signing.
SignFor(d, iat, nbf, kid) ==
  /\ d > 0
  /\ SignWith([exp |-> NumericDate(now + d), iat |-> iat, nbf |-> nbf], kid)

\* Mutant: the refreshed token loses its jti.
RefreshedAnonymous(t, exp) ==
  LET times == RefreshedTimes(t.iat, exp, now)
  IN  [jti |-> NoKey, key |-> cfg.primary, kid |-> NoKid,
       exp |-> times.exp, iat |-> times.iat, nbf |-> times.nbf,
       chain |-> t.chain, first |-> t.first, life |-> t.life, own |-> TRUE, epoch |-> restarts]

\* The token refresh builds: same jti, new times, no kid header.
RefreshedToken(t, exp) ==
  LET times == RefreshedTimes(t.iat, exp, now)
  IN  [jti |-> t.jti, key |-> cfg.primary, kid |-> NoKid,
       exp |-> times.exp, iat |-> times.iat, nbf |-> times.nbf,
       chain |-> t.chain, first |-> t.first,
       life |-> IF exp = t.exp THEN t.life ELSE times.exp - times.iat,
       own |-> TRUE, epoch |-> restarts]

\* /refresh: signature under the primary key only, registered claims and the
\* revoker not consulted.  exp is what the claims resolver made of it (without
\* one, the token's own); a resolver that refuses, or returns nil, ends the
\* request.  Resolvers that put another jti in are not modelled.
Refresh(t, exp) ==
  /\ Cardinality(issued) < MaxTokens
  /\ t.key = cfg.primary
  /\ ~RefreshRefused(t.iat, exp, now)
  /\ issued' = issued \cup {RefreshedToken(t, exp)}
  /\ UNCHANGED <<revVars, cfg, restarts, req, killed, spent, barred>>

\* The operator revokes a token's jti forever.
Revoke(t) ==
  /\ R!RevokeUntil(t.jti, R!Forever)
  /\ killed' = IF t.jti = NoKey THEN killed ELSE killed \cup {t.chain}
  /\ UNCHANGED <<cfg, restarts, issued, req, spent, barred>>

\* The recommended pattern: revoke until the token's own exp.  It replaces
\* an entry that was there before.  (Tick 0, before the server started, is no
\* until: it stands for the zero time.)
RevokeUntilExp(t) ==
  /\ t.exp \in R!Times /\ t.jti # NoKey
  /\ R!RevokeUntil(t.jti, t.exp)
  /\ LET chains == {u.chain : u \in {v \in issued : v.jti = t.jti}}
     IN  /\ killed' = killed \ chains
         /\ barred' = {q \in barred : req[q].token.chain \notin chains}
         /\ spent' = {u \in spent : u.jti # t.jti} \cup {t}
  /\ UNCHANGED <<cfg, restarts, issued, req>>

-----------------------------------------------------------------------------
\* Verify, first step: signature, then registered claims at this instant.
VerifyReject(q, t) ==
  /\ req[q].pc = "idle"
  /\ ~(KeyAccepts(cfg, t) /\ InWindow(t, now))
  /\ req' = [req EXCEPT ![q] = [pc |-> "done", token |-> t, at |-> now, valid |-> FALSE,
                               spent |-> spent]]
  /\ UNCHANGED <<revVars, cfg, restarts, issued, killed, spent, barred>>

VerifyParse(q, t) ==
  /\ req[q].pc = "idle"
  /\ KeyAccepts(cfg, t) /\ InWindow(t, now)
  /\ req' = [req EXCEPT ![q] = [pc |-> "parsed", token |-> t, at |-> now, valid |-> FALSE,
                               spent |-> spent]]
  /\ barred' = IF t.chain \in killed THEN barred \cup {q} ELSE barred
  /\ UNCHANGED <<revVars, cfg, restarts, issued, killed, spent>>

\* The revoker, registered as a static check, is called with the token.
VerifyLookup(q) ==
  /\ req[q].pc = "parsed"
  /\ \/ R!LookupCall(q, req[q].token.jti)
     \/ R!LookupMiss(q)
     \/ R!LookupRead(q)
     \/ R!LookupDecide(q)
  /\ UNCHANGED srvVars

\* runChecks: revoked and failed lookups are errors, so valid is false.
VerifyCheck(q) ==
  /\ req[q].pc = "parsed"
  /\ lookup[q].pc = "done"
  /\ req' = [req EXCEPT ![q].pc = "done", ![q].valid = (lookup[q].answer = "clear")]
  /\ UNCHANGED <<revVars, cfg, restarts, issued, killed, spent, barred>>

\* The response is written and the handler returns.
VerifyDone(q) ==
  /\ req[q].pc = "done"
  /\ req' = [req EXCEPT ![q] = IdleReq]
  /\ barred' = barred \ {q}
  /\ \/ R!LookupReturn(q)
     \/ lookup[q].pc = "idle" /\ UNCHANGED revVars
  /\ UNCHANGED <<cfg, restarts, issued, killed, spent>>

\* The process is started again with other keys: requests in flight are
\* gone, and so is everything the in-process revoker knew.
Restart(c) ==
  /\ restarts < MaxRestarts
  /\ restarts' = restarts + 1
  /\ cfg' = c
  /\ req' = [q \in Requests |-> IdleReq]
  /\ revoked' = [j \in Jtis |-> R!Absent]
  /\ lookup' = [q \in Requests |-> R!Idle]
  /\ seen' = [q \in Requests |-> {}]
  /\ rewritten' = {}
  /\ killed' = {}
  /\ spent' = {}
  /\ barred' = {}
  /\ UNCHANGED <<now, sweep, issued>>

Next ==
  \/ Tick
  \/ \E exp \in Exps, iat \in Iats, nbf \in Nbfs, kid \in KidHeaders : Sign(exp, iat, nbf, kid)
  \/ \E d \in Lifetimes, iat \in Iats, nbf \in Nbfs, kid \in KidHeaders : SignFor(d, iat, nbf, kid)
  \/ \E t \in issued : \/ \E exp \in {t.exp, Missing, Bad} : Refresh(t, exp)
                       \/ Revoke(t)
                       \/ RevokeUntilExp(t)
  \/ \E q \in Requests : \/ \E t \in issued : VerifyReject(q, t) \/ VerifyParse(q, t)
                         \/ VerifyLookup(q)
                         \/ VerifyCheck(q)
                         \/ VerifyDone(q)
  \/ \E c \in Configs : Restart(c)

Spec == Init /\ [][Next]_vars

-----------------------------------------------------------------------------
WholeSeconds == {t \in Nat : t % TicksPerSecond = 0}

Tokens == [jti : Jtis \cup {NoKey}, key : SignKeys, kid : SignKeys \cup {NoKid},
           exp : WholeSeconds, iat : WholeSeconds, nbf : WholeSeconds,
           chain : Nat, first : WholeSeconds, life : Nat, own : BOOLEAN, epoch : 0..MaxRestarts]

Reqs == [pc : {"idle", "parsed", "done"}, token : Tokens \cup {NoToken}, at : 0..MaxTime,
         valid : BOOLEAN, spent : SUBSET Tokens]

\* Type invariant of the server's state: every time claim is a whole second.
TypeOK ==
  /\ R!TypeOK
  /\ cfg \in Configs
  /\ restarts \in 0..MaxRestarts
  /\ issued \subseteq Tokens
  /\ req \in [Requests -> Reqs]
  /\ \A q \in Requests : req[q].pc # "idle" => req[q].token \in issued
  /\ killed \subseteq {t.chain : t \in issued}
  /\ spent \subseteq issued
  /\ barred \subseteq Requests

\* Revoking one token forever silences its whole refresh chain: no /verify
\* that starts later accepts it, nor any token refreshed from it before or
\* after, because refresh keeps the jti and the revoker fails closed.
ChainRevoked ==
  \A q \in Requests : q \in barred => ~(req[q].pc = "done" /\ req[q].valid)

\* /verify never rejects without a cause: a token that a configured key
\* signed under its own kid, inside its time window when parsed, is refused
\* only if its jti was revoked at some instant of the check.  Switching from
\* one key to several and demoting the signing key are no cause.
RejectedForCause ==
  \A q \in Requests :
    req[q].pc = "done" /\ ~req[q].valid =>
      LET t == req[q].token IN
      \/ ~InWindow(t, req[q].at)
      \/ t.key \notin Trusted(cfg)
      \/ cfg.additional # {} /\ t.kid # t.key
      \/ "revoked" \in seen[q]

\* "preserving the original expiration window": however often a token is
\* refreshed, and wherever in a second that happens, its lifetime is the one
\* it was signed with.
WindowPreserved == \A t \in issued : t.exp - t.iat = t.life

\* "MaxAge bounds how old (by original iat) a token can be and still refresh,
\* preventing a deprovisioned user's token from being refreshed indefinitely":
\* no refreshed token is issued more than MaxAge after the first one.
ChainBounded == MaxAge > 0 => \A t \in issued : t.iat - t.first <= MaxAge

\* "Kid is the key id published in JWKS and embedded as a token header": what
\* /sign and /refresh hand out, the caller adding no kid header, the /verify
\* of the same running server can attribute to its key.
IssuedVerifiable ==
  \A t \in issued : t.epoch = restarts /\ t.own => KeyAccepts(cfg, t)

\* "The recommended pattern is to pass the token's own exp as until": a token
\* revoked this way is not accepted by any /verify that starts later.
SpentStaysSpent ==
  \A q \in Requests :
    req[q].pc = "done" /\ req[q].valid => req[q].token \notin req[q].spent
=============================================================================
