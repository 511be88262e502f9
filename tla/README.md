# jwtmint in TLA+

jwtmint mints, verifies, refreshes and revokes JSON web tokens: a Go library, an
HTTP server (`jwtmintd`), a Kubernetes controller that keeps tokens in Secrets,
webhooks, and client and server middleware. This directory specifies the parts of it
that hold state shared by goroutines, processes or clocks, checks them with TLC on
small instances, and proves every safety property that the passing runs check for all
instances with TLAPS.

`PROJECT.json` says which definition models which lines, which run checks what, and
which hazards each property is for.

## Inventory

| Part | State | Operations | What makes it correct |
|---|---|---|---|
| In-memory revoker (`revocation/memory.go`) | map key → until, RWMutex, clock | Revoke, RevokeUntil, Unrevoke, Cleanup, Revoked | a lookup answers what was true during the call, whoever writes or cleans up meanwhile |
| Signing, refreshing, verifying (`signing`, `refresh`, `verification`, `claims`, `keys`) | none; tokens carry exp, iat, nbf, jti, kid | Sign, Refresh, Verify | lifetimes survive truncation to seconds; keys are chosen rightly; revocation reaches refreshed tokens |
| HTTP server (`httpserver`) | key configuration, revoker | /sign, /verify, /refresh, restart | what it issues it accepts; what is revoked it rejects; nothing else is rejected |
| Controller (`k8s/controller`) | JWTRequest status, Secret, informer cache, work queue, timer | Reconcile, watch events, requeue | an unexpired token in the Secret, an honest status, no endless loop, no orphan |
| Remote JWKS (`jwks/remote.go`) | cached set, expiry, last error, two locks | KeySet, PublicKey, Refresh | bounded staleness, one request for many callers, no step back, everybody returns |
| Token sources (`middleware/httpauth/client.go`) | cached token and its age, twice | Token, RoundTrip | bounded age, no step back, no lock left behind |
| TokenReview webhook (`k8s/tokenreview`) | check list shared by requests | POST | each request is judged by its own audiences |
| Admission policy (`k8s/admission`) | the policy the process was started with | Allow | nobody gets claims that were not granted him, whatever field he asks through |
| Authenticators (`httpserver/auth.go`, `k8sauth`) | none; the API server knows the accounts | Authenticate | shut when the review fails or the account is gone |
| Inbound middleware (`middleware/httpauth`, `grpcauth`) | none | authorize | its checks hold of all it lets in; refusals have a cause and the right code |
| Revoker chain (`revocation/revoker.go`) | none; its members keep what is revoked | Revoked | one member's failure never hides another's knowledge |
| Server lifecycle (`Server.Run`) | listener, serving goroutine, requests in flight | run, shut down | it always returns, and says nil only after a clean stop |
| Claims helpers (`claims`) | none | read, normalize, match, check | both sides of a comparison are normalized alike |
| CLI, PEM and JWK encoding, metrics, generated code | none worth modelling | | |

How they interact: the server's `/verify` calls the verifier, which parses with one
reading of the clock, then calls the revoker, which reads its map and the clock
again. `/sign` and `/refresh` share the keys with `/verify` and do not ask the
revoker. The controller calls the signer and writes Secrets; kubelet mounts them as
files; the file token source reads those; the cached token source sits on top of it.
Remote verifiers fetch the server's JWKS through `jwks.Remote`. What the controller may
be asked to mint is decided by the admission webhook; what a token then opens is
decided by the checks of the TokenReview webhook and of the middleware, after the
verifier has asked the revokers.

What is hard: critical sections that end before their result is used (revoker, JWKS,
token sources); a reconciler whose only wake-up calls are the events its own writes
make; truncation of times to whole seconds; a crash between two writes; and rules
spread over packages that are each right alone (leeway and revocation, refresh and
dispatch by kid, admission by fields and the overlay of extra claims).

## Modules

| Module | Models | Composition |
|---|---|---|
| `Denylist` | the promise of a revocation list | abstract |
| `MemRevoker` | `revocation.MemRevoker` | implements `Denylist` by `Promise == INSTANCE Denylist WITH ...` |
| `MemRevokerProofs` | theorems about `MemRevoker` | extends it |
| `TokenRules` | times and keys of a token, as operators | |
| `Daemon` | `httpserver.Server` with `/sign`, `/verify`, `/refresh`, an operator, restarts | extends `TokenRules`, instantiates `MemRevoker` |
| `MCDaemon` | the time claims that callers of `/sign` send, the symmetry of keys | extends `Daemon` |
| `DaemonProofs` | theorems about `Daemon` and `TokenRules` | extends `Daemon`, instantiates `MemRevokerProofs` |
| `ClaimRules` | reading, matching and checking claims; the admission policy; minting, as operators | |
| `Access` | from a JWTRequest to the doors its token opens, the door of `/sign`, `Server.Run` | extends `ClaimRules` |
| `MCAccess` | users, specs, policies and programs | extends `Access` |
| `AccessProofs` | theorems about `Access` and `ClaimRules` | extends `Access` |
| `Reconciler` | the JWTRequest controller with its API server, cache and queue | |
| `ReconcilerProofs` | theorems about `Reconciler` | extends it |
| `RemoteJWKS` | `jwks.Remote` with its issuer | |
| `RemoteJWKSProofs` | theorems about `RemoteJWKS` | extends it |
| `TokenSource` | `CachedTokenSource` over `FileTokenSource` with its file | |
| `TokenSourceProofs` | theorems about `TokenSource` | extends it |

Operators marked "Mutant" in a comment are not part of the specifications. Each is
a plausible mistake in the definition after it; the property it is paired with in
`PROJECT.json` is violated when the definition is replaced by it.

### MemRevoker

`revoked` is the map, with `Forever` for the zero time and `Absent` for no entry. A
critical section is one action. `Revoked` takes three steps: the call (the key is
extracted; it may be empty, or the token nil), the read under the read lock
(`LookupMiss`, `LookupRead`), and the comparison with the clock after it is released
(`LookupDecide`). `Cleanup` takes two: `CleanupClock` reads the clock, `CleanupSweep`
sweeps with that clock under the lock. `seen` and `rewritten` are history: the
verdicts that were right at some instant of a pending call, and the calls whose key
was written while they were pending.

`Denylist` has no map and no housekeeping. An entry has no effect from the instant
it lapses, so a lapsed entry and no entry are the same abstract state; a call may return any
verdict that was right while it ran, and also "clear" if its key was rewritten while
it ran. The licence is needed: a call may copy an entry until 2, the entry may be
replaced by one that lasts for ever, and the call, deciding at time 2, answers
"clear" although the key was revoked at every instant.

### TokenRules and Daemon

An instant is a tick and a second has `TicksPerSecond` of them, so truncation by
`jwt.NewNumericDate` can go wrong in the model as in the code. A token is a record
of jti, times, the key that signed it and its kid header, with history (the chain of
refreshes it belongs to, the first iat, the lifetime it was signed with, the process
that issued it). `/sign` and `/refresh` are one step each: they read the clock once
and touch nothing shared. (`/sign` with `expires_in` reads it twice; the readings
are taken to be the same tick.) `/verify` is several steps: parse, the revoker's steps, the check,
the response. `Restart` starts the process with another key configuration and an
empty revoker. A refresh takes what the claims resolver made of exp (unchanged,
dropped, unreadable); a resolver that changes the jti is not modelled.
`jwtmintd` configures no revoker; programs that embed `httpserver` may. A token is
revoked until its own exp only if that is a tick of the model after tick 0, which stands
for Go's zero time: `RevokeUntil` takes the zero time for "forever".

### Reconciler

The API server holds spec, status and Secret; the informer cache lags behind it until
`SyncRequest` or `SyncSecret`, which also queue the request. A reconcile is three
steps: the request is read (`Reconcile`), the Secret is read, and a token is minted
and written or found fresh (`StillFresh`, `MintFails`, `Upsert`, `UpsertFails`), and
the status is written (`SaveStatus`, `SaveFails`); edits, events and a crash may
come between them. The status write conflicts if the copy of the request is not the
latest; the Secret write if the cache is behind. A status update that changes nothing
makes no event, which is what the finding about failures turns on. Times are relative
(ticks left), so the state space is finite without a bound on time and liveness can
be checked. The ten-hour resync of the informers is left out.

### RemoteJWKS

A critical section of `mu` is one action; since nobody else writes the cache while
`refreshMu` is held, taking `refreshMu` and looking again is one action too. A fetch
has a beginning, the issuer's answer (or a failure, or the end of the caller's
context) and an end that records it, with time and rotations in between. A key set is
the number of rotations before it.

### TokenSource

A token is the version of the file and the instant it was read. `CachedTokenSource`
loads value and expiry in separate steps and stores them in separate steps;
`FileTokenSource` keeps its write lock from the second look to the end of the read.

### ClaimRules and Access

A string is a word with a form: plain, with blanks around it, or with slashes behind
it. `strings.TrimSpace` removes the first and `normalizeString` both, so a comparison
that normalizes one side only goes wrong in the model as in the code. A claim is
absent, a string, a list, something else, or not JSON. The empty set stands for
every error of reading a claim, since checks and mapper treat them alike.

`Submit` is the webhook: a request that `Allow` refuses is not stored. `MintToken` is
the controller's `mint`; its timing is `Reconciler`'s concern. `author` and `under`
remember who wrote the request and the policy that let it in. `ChangePolicy` is a
restart of the controller with other flags. A stored request is minted once here; the
reconciler mints it again when its token is due, with the same claims, which no property
can tell from the first token.

A program (`conf`) is a set of doors: the TokenReview handler, the HTTP or gRPC
middleware, and for `jwtmintd` the guarded `/sign`. A request on a connection goes
through `parse`, `revokers` (one step per member of the chain, which may know the
token, not know it, be nil, or fail), and the checks. Requests of `/sign` go through
the authenticator; the API server's review is a call that may fail, during which the
account may be deleted. The history marks are `parsed` (the signature was good),
`failed` (a revoker failed), `barred` (revoked, or deleted, when the request began) and
`foreign`.

The handler's check list is a slice of length `Len(conf.review)` and the capacity that
`append` has given it. Where there is room behind it, all requests write their own
audience check into the same element (`slot`), and a request runs what is there when
it gets to it; `foreign` collects the audiences of the reviews that have written the
element since the request did. Elsewhere `append` copies. `Capacity` is the growth of Go's runtime for
elements of one word. The race itself is modelled as interleaving of whole writes:
an element is one word.

`proc` is `Server.Run`: listening, the `select` over the signal and the serving
goroutine's error, `Shutdown`, its time-out, and the return. The process may be
started again, with requests in flight lost.

`OwnAudience` and `DeniedForCause` say that a review is judged by its own audiences or by
those in `foreign`: that it may be by those is a finding, and that it is by no others, and
by all checks the door was built with, is what the properties add to it.
`IdentityGranted` excepts administrators, and claims whose keys the policy opens to
`extraClaims`: the policy bounds keys there and not values. It holds a token to the
policy that let its request in, since stored requests are not judged again.

## Runs

| Run | Checks | Result |
|---|---|---|
| `MemRevoker` | `TypeOK`, `LookupHonest`, `KeepsPromise` (refinement) | holds |
| `Daemon` | `TypeOK`, `ChainRevoked`, `RejectedForCause`, `WindowPreserved`, over a key rotation | holds |
| `Reconciler` | `TypeOK`, `FreshWhenQuiet`, `ReadyHasToken`; liveness `Recovers`, `Settles`, `NoOrphan` | holds |
| `RemoteJWKS` | `TypeOK`, `BoundedStaleness`, `RefreshSeesRotation`, `NoStampede`, `ErrorsJustified`, `NeverBack`; liveness `CallsReturn` | holds |
| `TokenSource` | `TypeOK`, `TokenAge`, `LocksReleased`, `NeverOlder` | holds |
| `Access` | `TypeOK`, `OwnAudience`, `DeniedForCause`, `IdentityGranted`, `RevokedShut`, `OnlyLiveAccounts`, `CleanStop`; liveness `Stops` | holds |
| `DaemonMaxAge` | `ChainBounded` | violated: a chain of refreshes outlives MaxAge |
| `DaemonKid` | `IssuedVerifiable` | violated: refreshed tokens lose their kid |
| `DaemonLeeway` | `SpentStaysSpent` | violated: revoked until exp, accepted within the leeway after exp |
| `ReconcilerStuck` | `AlwaysFresh` | violated: two failed writes, then no token and no retry |
| `ReconcilerReady` | `ReadyMeansCurrent` | violated: Ready stays true for the token of the old spec |
| `ReconcilerThreshold` | `Settles`, with `RefreshThreshold` 1 | violated: the reconciler mints without end |

Each violated property states a sentence of the repository's documentation; the
findings in `PROJECT.json` quote it and name the line that disagrees. Four findings
belong to runs that pass, because the property says what remains true in spite of
them, and names them:

- `Access`, `OwnAudience`: the append on the shared check list. Without the audiences in
  `foreign`, TLC finds a review for the audience db answered by the check of a later
  review for api.
- `Access`, `IdentityGranted`: the flag help says that an empty allow list allows all;
  the property holds because it allows nothing.
- `TokenSource`, `TokenAge`: a goroutine that loads the value of the cache, and the expiry
  after another one has refreshed it, takes a lapsed token for a fresh one. The mark
  `replaced` excepts these calls and no others; without it TLC finds one.
- `Daemon`, `RejectedForCause`: tokens without a kid stop verifying when a restart adds
  the first additional key. The property lists it as a cause; without that TLC finds
  such a token.

### Bounds

- `MemRevoker`: two keys, one reader, one sweeper, three instants. An entry can be
  written, copied, lapse, be reaped and be written again within one call. What more
  keys, readers and instants do is settled by the proofs.
- `Daemon`: two ticks per second and a default lifetime of a second and a half, so
  that truncation matters; callers of `/sign` send no time claims, or an exp, an iat or
  an nbf that is past or future depending on when they call; one request in flight, against which everything else
  interleaves; two tokens of one jti, so that a token and its refresh, or two tokens
  sharing a jti, coexist; two keys and one restart, so that a key is added, demoted or
  dropped; four instants. One tick of leeway stands for the 30 seconds. `DaemonMaxAge`
  has a longer clock and `DaemonKid` callers that set the kid header themselves.
- `Reconciler`: a lifetime of two and a half seconds with the cutoff half a second
  before its end, so that exp is truncated. At most three things go wrong: two edits,
  two failing calls, one crash, in any mixture. Two failures in a row are what it takes to get stuck.
- `RemoteJWKS`: two callers, one rotation, lifetimes below and at the TTL (max-age 0
  and 2 against a TTL of 1), three instants: the cache expires and is refetched. A failure
  is shared for two ticks, so that it may outlive its cause and is over within the run.
- `TokenSource`: two users of the cache and one of the file, one rewriting of the
  file, four instants.
- `Access`: two connections, one token, one change from outside (an edit, another
  policy, a revocation, a deleted account). Two requests are what it takes to overwrite
  a check, one token is presented by both, and one revocation may fall anywhere in
  either. The chain has two stores with a nil between them. Seven requests
  ask for what is the user's own, for more by way of `extraClaims`, for no subject, and
  for what only an administrator gets; seven programs have one door or two each, one with three checks (a slice with
  room behind it) and one with none. The signal, a breaking listener and restarts are
  not bounded. More connections, tokens and stores are settled by the proofs.

For safety these bounds are only the first look: the theorems below have none, and
hold for larger sets, longer times and other settings of every parameter.

The run `Daemon` declares its two keys symmetric: it checks invariants only, and no
definition and no constant tells the keys apart. The others use no symmetry: their sets
are too small to gain from it, and several check liveness or refinement.

Deadlock is checked in every passing run. None occurs: a revocation can be repeated,
a call begun or the clock advanced in every state.

### Fairness

- `Reconciler`: weak fairness of the worker, of the two watches, of the timer, of the
  clock and of the garbage collector. The worker is one goroutine in a loop; watches,
  the delaying queue and the collector are what controller-runtime and Kubernetes
  provide. No fairness for edits, failures or crashes; they are bounded by budgets,
  and while a budget lasts a call may fail.
- `RemoteJWKS`: strong fairness of the steps of each call: `http.Client.Timeout` ends
  every request, and Go's mutex hands itself to a waiter that has starved for a
  millisecond, so that a caller for whom it is free again and again gets it. The
  clock need not advance.
- `Access`: weak fairness of `Server.Run` alone. It is one goroutine, and the timer of
  the shutdown context fires whatever handlers do. Nothing is assumed of handlers: a
  revoker or the API server may never answer.

## Proofs

`MemRevokerProofs` proves, for every set of keys, readers and sweepers and every bound
on the clock (assuming `RevokerAssumption`: the empty key and the nil token are no
keys, and time has at least one instant):

- `TypeCorrect`: `Spec => []TypeOK`;
- `InvHolds`: `Spec => []IInv`, the inductive invariant;
- `AnswersHonest`: `Spec => []LookupHonest`;
- `PromiseKept`: `Spec => KeepsPromise`, that is, `MemRevoker` implements `Denylist`.

`LookupHonest` is not inductive: it says nothing of calls under way. `IInv` adds that
a sweeper's clock is not in the future (else Cleanup could reap an entry that still
has effect), that a pending call has seen the present verdict, and what the copy of an
entry tells: as long as it has not lapsed the call has seen "revoked"; once it has,
the call has seen "clear" or its key was rewritten; and if the key was not rewritten,
the map still holds the entry, or Cleanup took it after it lapsed. One lemma per
conjunct shows that steps preserve it, with one step per action. For the refinement,
`SameVerdict` shows that both levels judge a key alike, `ObserveWidens` that recording
the verdict is widening what a call may answer, and `PromiseStep` goes through the
actions: `Cleanup` and the copying of an entry map to stuttering steps.

`AccessProofs` proves, for every set of requests, policies, programs, connections,
accounts and stores, every check list and every chain of revokers:

- `TypeCorrect`: `Spec => []TypeOK`;
- `InvHolds`: `Spec => []Inv`, the inductive invariant;
- `GrantKept`: `Spec => []IdentityGranted`;
- `RevokedStaysOut`: `Spec => []RevokedShut`;
- `LiveAccountsOnly`: `Spec => []OnlyLiveAccounts`;
- `AudienceKept`: `Spec => []OwnAudience`;
- `DenialsExplained`: `Spec => []DeniedForCause`;
- `StopIsClean`: `Spec => []CleanStop`.

Assumed: `Nil` is no store; a program has one of the known doors, and lists of checks
made by the constructors that `Passes` knows (`ConfigAssumption`); the default issuer is
not empty, which `WithDefaultIssuer` enforces (`IssuerAssumption`); a value in
`extraClaims` is JSON or is not (`AskAssumption`).

The safety properties speak of requests that have been answered, and say nothing
of those on their way. `Inv` adds four parts to `TypeOK`. `Granted`: what is stored
was allowed, and every token is within what the policy granted its author; the step
from one to the other is `MintWithinPolicy`, a fact about `ClaimRules` alone: what
`Allow` lets in, `Mint` turns into claims that are the author's own, because the extra
claims it keeps have keys that are open or concern nobody (`ExtraIsOpen`,
`AllowedWithin`). `DoorInv`: where a request stands tells what it has passed; a request
whose token was revoked when it began has not got past the first member that knows
it, and one whose account was gone has not been let past the call. Since revocations are
never taken back here, this survives whatever is revoked later. `AnswerInv`: a review
finds in the shared element its own audiences or those of a review whose append came
after its own (`OwnCheck`, `JudgedFor`), and an answer was given for what it says (`Answer`). That the list a
request runs is the static one and its own check is `CheckAnswers`, for lists of any
length; that a check passes exactly the minted claims that satisfy it is
`PassesIsSatisfies`, from `ListPasses` (normalizing both sides and reading what cannot be
read as nothing neither loses nor adds a match) and `MintedValues`. `StopInv`: after Run
has returned nil no request of its own is in flight, since none is accepted any more.
One lemma per part shows that steps preserve it (`GrantedNext`, `DoorNext`, `AnswerNext`,
`StopNext`); those about requests go through the actions of one connection
(`TypeHandle`, `DoorHandle`, `AnswerHandle`, `StopHandle`).

`DaemonProofs` proves, for every set of keys, jti values and concurrent requests, every
number of ticks in a second and any number of tokens and restarts:

- `TypeCorrect`: `Spec => []TypeOK`, in particular every time claim that is handed
  out is a whole second;
- `InvHolds`: `Spec => []IInv`;
- `ChainSilenced`: `Spec => []ChainRevoked`;
- `RejectsForCause`: `Spec => []RejectedForCause`;
- `WindowKept`: `Spec => []WindowPreserved`.

Assumed: `RulesAssumption` (a second has a tick; leeway, MaxAge and lifetimes are
numbers) and `DaemonAssumption` (the markers are no keys and no jti; callers send
numbers, nothing, or something that is no number). What the revoker does is not proved
again: `RP == INSTANCE MemRevokerProofs` as the server uses it, and `RP!InvStep` carries
its invariant through every step (`RevokerStep`). `IInv` adds that a chain of refreshes
keeps its jti (`ChainInv`), that the jti of a chain revoked forever stays in the map
(`KilledInv`), no token expires before it was issued (`TimesInv`), where the revoker
stands in a request, and that a request begun on a token of a revoked chain has copied
an entry that does not lapse (`ReqInv`). `WindowPreserved` rests on arithmetic about
rounding to whole seconds for every resolution of the clock: `NumericDateRounds`,
`SameFraction` and `RefreshKeepsWindow`, with division and remainder taken from `DivMod`.

`ReconcilerProofs` proves, for every lifetime, cutoff and resolution of the clock, and
any number of edits, failures and crashes:

- `TypeCorrect`: `Spec => []TypeOK`;
- `InvHolds`: `Spec => []IInv`;
- `ReadyIsBacked`: `Spec => []ReadyHasToken`;
- `FreshAtRest`: `Spec => []FreshWhenQuiet`, if `Expiration >= TicksPerSecond`.

`IInv` says that the cache is current unless an event is on its way (`CacheInv`); that a
reconcile about to write the status has armed a timer that runs out before the token
does, or will be called again, or has one of the ways to fail to show for it
(`SaveInv`); that no status blames a call before one has failed (`BlameInv`); and that
a controller at rest has its timer set for the token in the Secret, if the status says
Ready or at most one call has failed (`RestInv`). It is the argument for why a
reconciler without a retry recovers from one failure: writing the failure into the
status is a change, and the change wakes it; the second failure writes the same status,
and nobody is woken. The hypothesis of `FreshAtRest` is needed, and came out of the
proof: `spec.expiresIn` may be shorter than a second, exp is then truncated to a time
that is past, the signer refuses it each time, and no token is ever written.
`ReadyIsBacked` needs no hypothesis.

`RemoteJWKSProofs` proves, for every number of callers, TTL, negative TTL, time-out,
max-age and any number of rotations:

- `TypeCorrect`: `Spec => []TypeOK`;
- `InvHolds`: `Spec => []IInv`;
- `StalenessBounded`: `Spec => []BoundedStaleness`;
- `RotationSeen`: `Spec => []RefreshSeesRotation`;
- `StampedeAvoided`: `Spec => []NoStampede`;
- `ErrorsHaveCause`: `Spec => ErrorsJustified`, an action property;
- `CacheMovesOn`: `Spec => NeverBack`, an action property.

All follow from one fact about the lock, that `refreshMu` is held by the one call that
fetches (`MutexInv`), and one about each end of a fetch: what the cache holds lapses no
later than its lifetime and one request after the issuer sent it (`CacheInv`), and what
a reply brings was published after the call began and is not older than the cache
(`CallInv`). `ErrorsHaveCause` needs besides that a remembered error is not older than
the cached set (`CacheInv`) and that a call whose request has not ended has no error
to report (`WaitInv`).

`TokenSourceProofs` proves, for every number of goroutines on either source, every
interval, TTL and delay, and any number of rewritings of the file:

- `TypeCorrect`: `Spec => []TypeOK`;
- `InvHolds`: `Spec => []IInv`;
- `LocksGivenUp`: `Spec => []LocksReleased`;
- `AgeBounded`: `Spec => []TokenAge`;
- `TokensMoveOn`: `Spec => NeverOlder`, an action property.

`IInv` orders the versions along the way of a token, from the cached value through the
file source's to the file; bounds the age of what each cache holds by its expiry
(`FileInv`, `StoreInv`), where the value has lapsed while `mu` is held; and says what a
call holds between two locks and between the two atomic loads (`LoadedOK`, `ReadOK`,
`ValueOK`, `LastOK`). `replaced` calls are excepted from `AgeBounded` and not from
`TokensMoveOn`.

Only model-checked: liveness (`Recovers`, `Settles`, `NoOrphan`, `CallsReturn`,
`Stops`), since fairness and `ENABLED` are outside what the provers handle, and the
violated properties, which are counterexamples. Every inductive invariant was
checked with TLC before it was proved. No module uses recursive operators, and no
proof needs induction over data.

## Plan

Done: the revoker with its promise and proofs, the server's three handlers over it,
the controller, the JWKS cache, the token sources; admission, the doors, the chain of
revokers and `Server.Run`; proofs of all safety properties of the passing runs.

Next, in this order:

1. Abstract specifications for `RemoteJWKS` and `TokenSource` (a register that lags by
   a bounded time and never goes back), with refinements proved from the invariants
   above.
2. A property of the reconciler relating ExpiresAt and JTI of the status to the token
   in the Secret.

## Not modelled

- The command line and configuration files: sequential, read once.
- PEM and JWK encoding, key generation and the cryptography: conversions and the
  standard library; key sets do not change once they are built.
- The JWKS and discovery documents, health and metrics endpoints, logging, security
  headers: constant answers or presentation.
- Setters and accessors of claims beyond those that checks, policy and mapper read.
- Mappers, error handlers and token sources that a program supplies itself.
- Generated deep copies.
