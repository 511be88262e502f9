------------------------------- MODULE Access -------------------------------
(***************************************************************************)
(* The way of a claim from the user who asks for it to the service that    *)
(* believes it: a JWTRequest passes the admission webhook, the controller  *)
(* mints a token from it, and the token is presented at the doors that     *)
(* verify tokens: jwtmintd's TokenReview webhook and the HTTP and gRPC     *)
(* middleware of a service.  Beside them the door of /sign, which asks the *)
(* Kubernetes API server about its caller, and the life of the jwtmintd    *)
(* process, which may be told to stop while requests are in flight.        *)
(*                                                                         *)
(* Requests are concurrent, one per connection.  What they share is the    *)
(* check list of the TokenReview handler: it is a Go slice, and each       *)
(* request appends its own audience check to it.                           *)
(***************************************************************************)
EXTENDS ClaimRules

CONSTANTS
  Asks,          \* who writes which JWTRequest: [user : [name, groups], spec]
  Policies,      \* the admission policies the controller is started with
  DefaultIssuer, \* the controller's iss
  Conns,         \* connections, each with one request at a time
  Wants,         \* the audiences an API server asks a review for
  Configs,       \* programs: [daemon, reviews, review, door, app, auth], that is,
                 \* whether it is jwtmintd, whether it has a TokenReview handler and
                 \* its check list, which middleware it has ("http", "grpc", or ""
                 \* for none) and its check list, and how /sign is guarded
  Stores,        \* what may be revoked in
  Revokers,      \* the members of the revoker chain, in order
  Nil,           \* a nil member of it
  Accounts,      \* bearer tokens of /sign's callers: ServiceAccounts, or secrets
  MaxTokens,
  MaxEvents      \* changes from outside: edits, revocations, removals

ASSUME BoundAssumption  == MaxTokens \in Nat /\ MaxEvents \in Nat
ASSUME ChainAssumption  == Nil \notin Stores /\ Revokers \in Seq(Stores \cup {Nil})

\* A list of checks, each made by one of the constructors that Passes knows.
IsCheckList(s) ==
  /\ s \in Seq({s[i] : i \in DOMAIN s})
  /\ \A i \in DOMAIN s : /\ s[i].on \in {"aud", "groups", "roles", "iss", "keys"}
                         /\ s[i].on = "keys" => s[i].want \subseteq ClaimKeys

ASSUME ConfigAssumption ==
  \A c \in Configs :
    c.door \in {"", "http", "grpc"} /\ IsCheckList(c.review) /\ IsCheckList(c.app)

\* WithDefaultIssuer refuses an empty issuer; extraClaims are JSON, or not JSON.
ASSUME IssuerAssumption == DefaultIssuer # Plain(Empty)
ASSUME AskAssumption ==
  \A a \in Asks : \A k \in DOMAIN a.spec.extra :
    a.spec.extra[k] \in {Number, NotJSON} \/ a.spec.extra[k].kind \in {"string", "list"}

VARIABLES
  policy, request,  \* the controller's policy; the JWTRequest stored, or NoRequest
  tokens,           \* minted tokens
  denied,           \* pairs of a revoker and a token it knows to be revoked
  accounts,         \* ServiceAccounts that exist
  conf,             \* the program that runs
  slot,             \* the spare element behind the shared check list
  proc,             \* Server.Run
  conn,             \* requests in flight
  events            \* budget used

upstream == <<policy, request, tokens>>
vars == <<policy, request, tokens, denied, accounts, conf, slot, proc, conn, events>>

NoRequest == [stored |-> FALSE]
NoToken   == [minted |-> FALSE]      \* one that no key of ours has signed
NoCheck   == {}
NoAccount == Plain(Empty)

Doors    == {"review", "http", "grpc", "sign"}
Verdicts == {"none", "bad", "denied", "unauthenticated", "forbidden", "error", "accepted"}
Free    == [pc |-> "free", door |-> "review", token |-> NoToken, want |-> {}, next |-> 1,
            account |-> NoAccount, verdict |-> "none",
            parsed |-> FALSE, failed |-> FALSE, foreign |-> {}, barred |-> FALSE]
NewProc == [pc |-> "start", told |-> FALSE, broken |-> FALSE, result |-> "none"]

\* Handlers of jwtmintd that http.Server counts as active.
InFlight(q) == conn[q].pc \notin {"free", "done"}
Ours(q)     == conn[q].door \in {"review", "sign"}

\* buildAuthenticator, authenticator: no mode but sa and a secret for static
\* guard the door.
Guard ==
  CASE conf.auth.mode = "sa" -> "sa"
    [] conf.auth.mode \in {"", "static"} /\ conf.auth.secret # Plain(Empty) -> "static"
    [] OTHER -> "none"

\* Changes from outside, where the program that runs would notice them.
MayHappen(seen) == events < MaxEvents /\ seen
VerifiesTokens  == conf.reviews \/ conf.door # ""

-----------------------------------------------------------------------------
\* The capacity append gives a slice that has grown to n one by one.
Capacity(n) == CASE n = 0 -> 0 [] n = 1 -> 1 [] n = 2 -> 2 [] n \in 3..4 -> 4 [] n \in 5..8 -> 8

\* append on the shared list writes behind its end instead of copying it.
Spare == Len(conf.review) < Capacity(Len(conf.review))

Init ==
  /\ policy \in Policies
  /\ request = NoRequest
  /\ tokens = {}
  /\ denied = {}
  /\ accounts = Accounts
  /\ conf \in Configs
  /\ slot = NoCheck
  /\ proc = IF conf.daemon THEN NewProc ELSE [NewProc EXCEPT !.pc = "none"]
  /\ conn = [q \in Conns |-> Free]
  /\ events = 0

-----------------------------------------------------------------------------
(* From the user to the token.                                             *)

\* A JWTRequest is created, or updated by somebody else.  One that the
\* webhook denies, or cannot decode, is not stored.
Submit(a) ==
  /\ VerifiesTokens /\ Cardinality(tokens) < MaxTokens
  /\ request.stored => MayHappen(TRUE)
  /\ Allow(policy, a.user, a.spec)
  /\ request' = [stored |-> TRUE, ask |-> a, under |-> policy]
  /\ events' = IF request.stored THEN events + 1 ELSE events
  /\ UNCHANGED <<policy, tokens, denied, accounts, conf, slot, proc, conn>>

\* The controller is started again with another policy.  Requests that were
\* stored under the old one are not looked at again.
ChangePolicy(p) ==
  /\ MayHappen(request.stored)
  /\ policy' = p
  /\ events' = events + 1
  /\ UNCHANGED <<request, tokens, denied, accounts, conf, slot, proc, conn>>

\* The controller mints for the request that is stored.  author and under are
\* history: who wrote it, and the policy that let it in.
MintToken ==
  /\ request.stored /\ Cardinality(tokens) < MaxTokens
  /\ tokens' = tokens \cup {[minted |-> TRUE, claims |-> Mint(request.ask.spec, DefaultIssuer),
                             author |-> request.ask.user, under |-> request.under]}
  /\ request' = NoRequest
  /\ UNCHANGED <<policy, denied, accounts, conf, slot, proc, conn, events>>

\* Somebody revokes a token in one of the stores.
Revoke(m, t) ==
  /\ MayHappen(TRUE)
  /\ denied' = denied \cup {<<m, t>>}
  /\ events' = events + 1
  /\ UNCHANGED <<upstream, accounts, conf, slot, proc, conn>>

\* A ServiceAccount is deleted.
RemoveAccount(a) ==
  /\ MayHappen(Guard = "sa") /\ a \in accounts
  /\ accounts' = accounts \ {a}
  /\ events' = events + 1
  /\ UNCHANGED <<upstream, denied, conf, slot, proc, conn>>

-----------------------------------------------------------------------------
(* The doors that verify tokens.                                           *)

\* Chain asks its members in order.
Asking(q) == conn[q].pc = "revokers" /\ conn[q].next <= Len(Revokers)
Member(q) == Revokers[conn[q].next]
Known(t)  == \E i \in DOMAIN Revokers : <<Revokers[i], t>> \in denied

Ended(q, verdict) ==
  conn' = [conn EXCEPT ![q].pc = "done", ![q].verdict = verdict, ![q].next = 1]

\* barred is history: the token was known as revoked when the request began.
Begun(door, t, want) ==
  [Free EXCEPT !.pc = "parse", !.door = door, !.token = t, !.want = want,
               !.barred = Known(t)]

\* jwtmintd serves while Run waits; other programs here never stop.
Accepting == conf.daemon => proc.pc = "serving"

\* A review whose body cannot be decoded, or has no token.
ReviewRefused(q) ==
  /\ conn[q].pc = "free" /\ Accepting /\ conf.reviews
  /\ conn' = [conn EXCEPT ![q] = [Free EXCEPT !.pc = "done", !.verdict = "bad"]]
  /\ UNCHANGED <<upstream, denied, accounts, conf, slot, proc, events>>

\* A review begins: the check of the audiences it asks for is appended to the
\* list.  foreign is history: the audiences of the reviews that have written
\* their check over this one's since it began.
ReviewBegin(q, t, want) ==
  LET shared(r) == /\ Spare /\ want # {} /\ r # q
                   /\ InFlight(r) /\ conn[r].door = "review" /\ conn[r].want # {}
  IN  /\ conn[q].pc = "free" /\ Accepting /\ conf.reviews
      /\ slot' = IF Spare /\ want # {} THEN want ELSE slot
      /\ conn' = [r \in Conns |->
                    IF r = q THEN Begun("review", t, want)
                    ELSE IF shared(r) THEN [conn[r] EXCEPT !.foreign = @ \cup {want}] ELSE conn[r]]
      /\ UNCHANGED <<upstream, denied, accounts, conf, proc, events>>

\* The middleware of a service finds no bearer token, or an empty one.
AppRefused(q) ==
  /\ conn[q].pc = "free" /\ conf.door # ""
  /\ conn' = [conn EXCEPT ![q] = [Free EXCEPT !.pc = "done", !.door = conf.door,
                                              !.verdict = "unauthenticated"]]
  /\ UNCHANGED <<upstream, denied, accounts, conf, slot, proc, events>>

AppBegin(q, t) ==
  /\ conn[q].pc = "free" /\ conf.door # ""
  /\ conn' = [conn EXCEPT ![q] = Begun(conf.door, t, {})]
  /\ UNCHANGED <<upstream, denied, accounts, conf, slot, proc, events>>

\* What a failed Verify makes of the request: the review tells no reason, the
\* middleware answers 403 for errors that wrap ErrCheck and 401 for others.
Rejection(door, isCheck) ==
  IF door = "review" THEN "denied" ELSE IF isCheck THEN "forbidden" ELSE "unauthenticated"

\* Mutant: a token is taken whoever signed it.
ParseUnsigned(q) ==
  /\ conn[q].pc = "parse"
  /\ conn' = [conn EXCEPT ![q].pc = "revokers", ![q].parsed = TRUE]
  /\ UNCHANGED <<upstream, denied, accounts, conf, slot, proc, events>>

\* Verify: a wrong signature, a token out of its time, or a caller that is
\* gone already.
ParseFails(q) ==
  /\ conn[q].pc = "parse"
  /\ Ended(q, Rejection(conn[q].door, FALSE))
  /\ UNCHANGED <<upstream, denied, accounts, conf, slot, proc, events>>

\* A token of ours, in its time.
Parse(q) ==
  /\ conn[q].pc = "parse" /\ conn[q].token.minted
  /\ conn' = [conn EXCEPT ![q].pc = "revokers", ![q].parsed = TRUE]
  /\ UNCHANGED <<upstream, denied, accounts, conf, slot, proc, events>>

\* The next member is nil, or does not know the token.
RevokerClear(q) ==
  /\ Asking(q) /\ <<Member(q), conn[q].token>> \notin denied
  /\ conn' = [conn EXCEPT ![q].next = @ + 1]
  /\ UNCHANGED <<upstream, denied, accounts, conf, slot, proc, events>>

RevokerHit(q) ==
  /\ Asking(q) /\ <<Member(q), conn[q].token>> \in denied
  /\ Ended(q, Rejection(conn[q].door, TRUE))
  /\ UNCHANGED <<upstream, denied, accounts, conf, slot, proc, events>>

\* Mutant: a member that cannot answer is passed over.
RevokerSkipped(q) ==
  /\ Asking(q) /\ Member(q) # Nil
  /\ conn' = [conn EXCEPT ![q].next = @ + 1, ![q].failed = TRUE]
  /\ UNCHANGED <<upstream, denied, accounts, conf, slot, proc, events>>

\* A member cannot answer: an error, which ends Verify.
RevokerFails(q) ==
  /\ Asking(q) /\ Member(q) # Nil
  /\ conn' = [conn EXCEPT ![q].pc = "done", ![q].verdict = Rejection(conn[q].door, TRUE),
                          ![q].next = 1, ![q].failed = TRUE]
  /\ UNCHANGED <<upstream, denied, accounts, conf, slot, proc, events>>

\* Mutant: a handler built with checks does not add the request's own.
StaticChecks(q) ==
  IF conn[q].door # "review" THEN conf.app
  ELSE IF conn[q].want = {} \/ conf.review # <<>> THEN conf.review
  ELSE Append(conf.review, [on |-> "aud", want |-> conn[q].want])

\* The list a request ranges over.  What is behind the shared part is whatever
\* the last append wrote there.
ChecksOf(q) ==
  IF conn[q].door # "review" THEN conf.app
  ELSE IF conn[q].want = {} THEN conf.review
  ELSE Append(conf.review, [on |-> "aud", want |-> IF Spare THEN slot ELSE conn[q].want])

\* The checks run; a review then needs a user name for its answer, and the
\* middleware calls the handler it wraps with the claims.
Check(q) ==
  /\ conn[q].pc = "revokers" /\ conn[q].next > Len(Revokers)
  /\ LET c == conn[q].token.claims
     IN  Ended(q, IF ~AllPass(ChecksOf(q), c) THEN Rejection(conn[q].door, TRUE)
                  ELSE IF conn[q].door = "review" /\ UserInfo(c).names = {} THEN "error"
                  ELSE "accepted")
  /\ UNCHANGED <<upstream, denied, accounts, conf, slot, proc, events>>

-----------------------------------------------------------------------------
(* The door of /sign and /refresh.                                         *)

SignArrives(q, a, pc, verdict) ==
  /\ conn[q].pc = "free" /\ conf.daemon /\ Accepting
  /\ conn' = [conn EXCEPT ![q] = [Free EXCEPT !.pc = pc, !.door = "sign", !.account = a,
                                              !.verdict = verdict,
                                              !.barred = Guard = "sa" /\ a \notin accounts]]
  /\ UNCHANGED <<upstream, denied, accounts, conf, slot, proc, events>>

\* requireAuth and what can be told from the header alone.
SignRefused(q) == Guard # "none" /\ SignArrives(q, NoAccount, "done", "unauthenticated")
SignOpen(q)    == Guard = "none" /\ SignArrives(q, NoAccount, "serve", "none")

StaticBearer(q, s) ==
  /\ Guard = "static"
  /\ IF s = conf.auth.secret THEN SignArrives(q, s, "serve", "none")
                             ELSE SignArrives(q, s, "done", "unauthenticated")

\* A bearer token is sent to the API server as a TokenReview.
AskApiserver(q, a) == Guard = "sa" /\ SignArrives(q, a, "call", "none")

\* The names given to --allowed-sa; empty ones do not count, and with none
\* left every account will do.
AllowedSAs == conf.auth.allowed \ {Plain(Empty)}

\* The API server knows the account, and the allow-list has it.
ApiserverSaysYes(q) ==
  /\ conn[q].pc = "call" /\ conn[q].account \in accounts
  /\ IF AllowedSAs = {} \/ conn[q].account \in AllowedSAs
     THEN conn' = [conn EXCEPT ![q].pc = "serve"]
     ELSE Ended(q, "unauthenticated")
  /\ UNCHANGED <<upstream, denied, accounts, conf, slot, proc, events>>

\* Mutant: a review that fails lets the caller through.
ApiserverFailsOpen(q) ==
  /\ conn[q].pc = "call"
  /\ conn' = [conn EXCEPT ![q].pc = "serve"]
  /\ UNCHANGED <<upstream, denied, accounts, conf, slot, proc, events>>

\* It says no, or the call fails.
ApiserverSaysNo(q) ==
  /\ conn[q].pc = "call"
  /\ Ended(q, "unauthenticated")
  /\ UNCHANGED <<upstream, denied, accounts, conf, slot, proc, events>>

\* The wrapped handler, which Daemon has in detail.
Serve(q) ==
  /\ conn[q].pc = "serve"
  /\ Ended(q, "accepted")
  /\ UNCHANGED <<upstream, denied, accounts, conf, slot, proc, events>>

\* The answer is read and the connection idle.
Answered(q) ==
  /\ conn[q].pc = "done"
  /\ conn' = [conn EXCEPT ![q] = Free]
  /\ UNCHANGED <<upstream, denied, accounts, conf, slot, proc, events>>

-----------------------------------------------------------------------------
(* Server.Run.                                                             *)

Returns(result) == proc' = [NewProc EXCEPT !.pc = "returned", !.result = result]

Listen ==
  /\ proc.pc = "start"
  /\ \/ proc' = [proc EXCEPT !.pc = "serving"]
     \/ Returns("error")
  /\ UNCHANGED <<upstream, denied, accounts, conf, slot, conn, events>>

\* SIGTERM: the context is cancelled.
Tell ==
  /\ proc.pc \in {"start", "serving"} /\ ~proc.told
  /\ proc' = [proc EXCEPT !.told = TRUE]
  /\ UNCHANGED <<upstream, denied, accounts, conf, slot, conn, events>>

\* Serve gives up (accept fails, or the certificate cannot be read) and its
\* error waits in errCh; connections that are open stay so.
ServeBreaks ==
  /\ proc.pc = "serving" /\ ~proc.broken
  /\ proc' = [proc EXCEPT !.broken = TRUE]
  /\ UNCHANGED <<upstream, denied, accounts, conf, slot, conn, events>>

\* The select: both cases may be ready, and then the error is lost.
SelectDone ==
  /\ proc.pc = "serving" /\ proc.told
  /\ proc' = [proc EXCEPT !.pc = "stopping", !.broken = FALSE]
  /\ UNCHANGED <<upstream, denied, accounts, conf, slot, conn, events>>

SelectError ==
  /\ proc.pc = "serving" /\ proc.broken
  /\ Returns("error")
  /\ UNCHANGED <<upstream, denied, accounts, conf, slot, conn, events>>

\* Shutdown: the listener is closed and idle connections are; it waits for
\* the others, up to ShutdownTimeout.
ShutdownQuiet ==
  /\ proc.pc = "stopping"
  /\ \A q \in Conns : ~(InFlight(q) /\ Ours(q))
  /\ Returns("nil")
  /\ UNCHANGED <<upstream, denied, accounts, conf, slot, conn, events>>

\* Mutant: the error of Shutdown is not looked at.
TimeoutIgnored ==
  /\ proc.pc = "stopping"
  /\ Returns("nil")
  /\ UNCHANGED <<upstream, denied, accounts, conf, slot, conn, events>>

\* Mutant: Shutdown is given no deadline.
NoTimeout == FALSE /\ UNCHANGED vars

ShutdownTimesOut ==
  /\ proc.pc = "stopping"
  /\ Returns("error")
  /\ UNCHANGED <<upstream, denied, accounts, conf, slot, conn, events>>

\* main returns; requests still in flight die with the process, and the
\* process is started again.
ExitAndRestart ==
  /\ proc.pc = "returned"
  /\ proc' = NewProc
  /\ slot' = NoCheck
  /\ conn' = [q \in Conns |-> IF Ours(q) THEN Free ELSE conn[q]]
  /\ UNCHANGED <<upstream, denied, accounts, conf, events>>

-----------------------------------------------------------------------------
Upstream ==
  \/ \E a \in Asks : Submit(a)
  \/ \E p \in Policies : ChangePolicy(p)
  \/ MintToken
  \/ \E m \in Stores, t \in tokens : Revoke(m, t)
  \/ \E a \in Accounts : RemoveAccount(a)

Handle(q) ==
  \/ ReviewRefused(q)
  \/ \E t \in tokens \cup {NoToken}, want \in Wants : ReviewBegin(q, t, want)
  \/ AppRefused(q)
  \/ \E t \in tokens \cup {NoToken} : AppBegin(q, t)
  \/ ParseFails(q) \/ Parse(q)
  \/ RevokerClear(q) \/ RevokerHit(q) \/ RevokerFails(q)
  \/ Check(q)
  \/ SignRefused(q) \/ SignOpen(q)
  \/ \E a \in Accounts : StaticBearer(q, a) \/ AskApiserver(q, a)
  \/ ApiserverSaysYes(q) \/ ApiserverSaysNo(q) \/ Serve(q)
  \/ Answered(q)

Run == Listen \/ SelectDone \/ SelectError \/ ShutdownQuiet \/ ShutdownTimesOut

Next == \/ Upstream
        \/ \E q \in Conns : Handle(q)
        \/ Tell \/ ServeBreaks
        \/ Run \/ ExitAndRestart

Spec == Init /\ [][Next]_vars

\* Run's goroutine runs, and the timer of the shutdown context fires.
\* Nothing is assumed of handlers: what they call may never answer.
FairSpec == Spec /\ WF_vars(Run)

-----------------------------------------------------------------------------
Positions == 1..(Len(Revokers) + 1)

RequestType ==
  [pc : {"free", "parse", "revokers", "call", "serve", "done"}, door : Doors,
   token : tokens \cup {NoToken}, want : Wants \cup {{}}, next : Positions,
   account : Accounts \cup {NoAccount}, verdict : Verdicts, parsed : BOOLEAN,
   failed : BOOLEAN, foreign : SUBSET Wants, barred : BOOLEAN]

ProcType ==
  [pc : {"none", "start", "serving", "stopping", "returned"}, told : BOOLEAN,
   broken : BOOLEAN, result : {"none", "nil", "error"}]

\* Type invariant of the request, the doors and the process; a request that
\* got past the signature has a token of ours.
TypeOK ==
  /\ policy \in Policies
  /\ request = NoRequest \/ request \in [stored : {TRUE}, ask : Asks, under : Policies]
  /\ \A t \in tokens : t.minted /\ t.under \in Policies
  /\ denied \subseteq Stores \X tokens
  /\ accounts \subseteq Accounts
  /\ conf \in Configs
  /\ slot \in Wants \cup {NoCheck}
  /\ proc \in ProcType
  /\ conn \in [Conns -> RequestType]
  /\ \A q \in Conns : conn[q].parsed => conn[q].token \in tokens
  /\ events \in 0..MaxEvents

\* What a check demands of claims, said without the code's helpers: of lists,
\* a word in common, however it is written; an empty string is no list.
Satisfies(check, c) ==
  CASE check.on = "keys" -> \A k \in check.want : c[k] # Absent
    [] check.on = "iss"  -> c["iss"].of \cap check.want # {}
    [] OTHER -> /\ c[check.on] # Text(Plain(Empty))
                /\ \E s \in c[check.on].of, w \in check.want : s.word = w.word

StaticOf(q) == IF conn[q].door = "review" THEN conf.review ELSE conf.app

\* The audience checks that a review may have run: its own, or that of a
\* review whose append came after its own.
JudgedBy(q) == {[on |-> "aud", want |-> w] : w \in {conn[q].want} \cup conn[q].foreign}

\* "the webhook must verify the token's aud claim against that set": a review
\* that authenticates found one of the audiences it was asked for, or else one
\* that a review asked for whose append came between; and whatever requests
\* do to each other, the checks a door was built with hold of all it lets in.
OwnAudience ==
  \A q \in Conns :
    conn[q].door # "sign" /\ conn[q].verdict = "accepted" =>
      /\ conn[q].want # {} => \E check \in JudgedBy(q) : Satisfies(check, conn[q].token.claims)
      /\ \A i \in DOMAIN StaticOf(q) : Satisfies(StaticOf(q)[i], conn[q].token.claims)

\* Nobody is turned away without a cause: a token that verified, that no
\* revoker knew or failed on, and that satisfies the checks of its door, is
\* refused by a review only for its own audiences or those of a review whose
\* append came between.  403 is the answer to tokens that verified, 401 to all
\* others.  (Without a user name for its answer a review ends with an error of
\* the server, which is no refusal.)
DeniedForCause ==
  \A q \in Conns :
    LET t == conn[q].token IN
    /\ conn[q].verdict = "unauthenticated" => ~conn[q].parsed
    /\ conn[q].verdict = "forbidden" => conn[q].parsed
    /\ conn[q].verdict \in {"denied", "forbidden"} /\ conn[q].parsed =>
         \/ conn[q].failed
         \/ Known(t)
         \/ \E i \in DOMAIN StaticOf(q) : ~Satisfies(StaticOf(q)[i], t.claims)
         \/ conn[q].want # {} /\ \E check \in JudgedBy(q) : ~Satisfies(check, t.claims)

\* What a policy bounds, said without the code's helpers.
Trimmed(S)         == {TrimSpace(s) : s \in S}
Within(S, allowed) == AllowAny \in allowed \/ S \subseteq Trimmed(allowed)
OpenKey(p, k)      == {AllowAny, Plain(k)} \cap Trimmed(p.extraKeys) # {}

Entitled(t) ==
  LET info == UserInfo(t.claims)
  IN  \/ IsAdmin(t.under, t.author)
      \/ /\ info.names \subseteq {t.author.name}
         /\ OpenKey(t.under, "groups") \/ info.groups \subseteq Trimmed(t.author.groups)
         /\ Within(ReadStringSlice(t.claims["aud"]), t.under.audiences)
         /\ \/ OpenKey(t.under, "roles")
            \/ Within(ReadStringSlice(t.claims["roles"]), t.under.roles)
         /\ \/ OpenKey(t.under, "entitlements")
            \/ Within(ReadStringSlice(t.claims["entitlements"]), t.under.entitlements)

\* Whoever writes a JWTRequest, and no admin, gets no other identity with it
\* than his own, wherever the token is presented: the user name is his, and
\* the groups are his and the audiences allowed, by the policy that let the
\* request in; a claim that the policy lets extraClaims set is not bounded.
IdentityGranted ==
  \A q \in Conns :
    conn[q].verdict = "accepted" /\ conn[q].door # "sign" => Entitled(conn[q].token)

\* A token that any member of the chain knows as revoked when a request
\* begins does not get that request in, whichever other member fails.
RevokedShut ==
  \A q \in Conns : conn[q].door # "sign" /\ conn[q].barred => conn[q].verdict # "accepted"

\* /sign is not served to an account that was deleted before the request
\* came, nor to one that is not on a list that is not empty.
OnlyLiveAccounts ==
  \A q \in Conns :
    Guard = "sa" /\ conn[q].door = "sign" /\ (conn[q].pc = "serve" \/ conn[q].verdict = "accepted") =>
      /\ ~conn[q].barred
      /\ conf.auth.allowed \subseteq {Plain(Empty)} \/ conn[q].account \in conf.auth.allowed

\* "blocks until ctx is canceled, then shuts down gracefully": Run returns nil
\* only when no request is left that it had accepted.
CleanStop ==
  proc.pc = "returned" /\ proc.result = "nil" => \A q \in Conns : ~(InFlight(q) /\ Ours(q))

\* Once told to stop, Run returns, whatever a handler waits for.
Stops == proc.told ~> proc.pc = "returned"
=============================================================================
