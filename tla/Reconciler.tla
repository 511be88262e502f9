----------------------------- MODULE Reconciler -----------------------------
(***************************************************************************)
(* The JWTRequest controller: one JWTRequest, the Secret it owns, the API  *)
(* server that stores both, the informer cache the reconciler reads from,  *)
(* the work queue that decides when it runs, and the clock that ages the   *)
(* token.                                                                  *)
(*                                                                         *)
(* The API server, the cache and the queue are external: they are modelled *)
(* from what the reconciler relies on.  Time is relative (ticks a token or *)
(* a timer has left), so that behaviours can go on for ever; phase is the  *)
(* position of the clock inside a second, which the truncation of exp to   *)
(* whole seconds depends on.  A reconcile takes no time: the clock waits   *)
(* for it.                                                                 *)
(***************************************************************************)
EXTENDS Integers, FiniteSetsExt

CONSTANTS TicksPerSecond,
          Expiration,    \* resolveExpiration of the spec, in ticks
          Cutoff,        \* expiration times RefreshThreshold, in ticks
          MaxEdits,      \* changes others make to the two objects
          MaxFailures,   \* calls that the API server or the signer fails
          MaxCrashes,    \* restarts of the controller
          MaxTrouble     \* all of these together

ASSUME ReconcilerAssumption ==
  /\ TicksPerSecond \in Nat \ {0}
  /\ Expiration \in Nat \ {0}
  /\ Cutoff \in 0..Expiration
  /\ MaxEdits \in Nat /\ MaxFailures \in Nat /\ MaxCrashes \in Nat /\ MaxTrouble \in Nat

VARIABLES
  phase,                    \* clock, modulo one second
  spec, status, secret,     \* the objects in the API server
  cache,                    \* what the informers have seen of them
  requestNews, secretNews,  \* a watch event is on its way
  queued, timer,            \* work queue: key present; delayed add, or Off
  worker,                   \* the reconcile in progress
  edits, failures, crashes \* budgets used

objects == <<spec, status, secret>>
vars == <<phase, spec, status, secret, cache, requestNews, secretNews, queued, timer,
          worker, edits, failures, crashes>>

Off == -1
SpecStates == {"ok", "bad", "gone"}
NoSecret   == [exists |-> FALSE, left |-> 0, gen |-> 0]
NoStatus   == [ready |-> "unset", msg |-> "", gen |-> 0, named |-> FALSE]
IdleWorker == [pc |-> "idle", spec |-> [gen |-> 0, state |-> "ok"], status |-> NoStatus,
               old |-> FALSE, requeue |-> Off, minted |-> FALSE]

\* The budgets of what may go wrong.
MayGoWrong == edits + failures + crashes < MaxTrouble
MayEdit    == MayGoWrong /\ edits < MaxEdits
MayFail    == MayGoWrong /\ failures < MaxFailures
MayCrash   == MayGoWrong /\ crashes < MaxCrashes

\* No reconcile runs or is due, and the cache is up to date.
Quiet == /\ worker.pc = "idle" /\ ~queued /\ timer # 0
         /\ ~requestNews /\ ~secretNews

-----------------------------------------------------------------------------
\* Mutant: exp is rounded up to the next second.
RoundedUp == Expiration + ((-(phase + Expiration)) % TicksPerSecond)

\* What mint puts into exp, as ticks from now: SetExpiresAt(now + expiration).
NewLeft == Expiration - ((phase + Expiration) % TicksPerSecond)

\* evaluateRefresh: a missing, unreadable or ageing token has to be replaced.
NeedsRefresh(s) == ~s.exists \/ s.left <= Cutoff

\* nextRefresh: never sooner than a second.
NextRefresh == Max({NewLeft - Cutoff, TicksPerSecond})

\* setFailed and setMinted on the status of the copy c of the request.
SetFailed(c, msg) == [c.status EXCEPT !.ready = "false", !.msg = msg, !.gen = c.spec.gen]
SetMinted(c) == [ready |-> "true", msg |-> "", gen |-> c.spec.gen, named |-> TRUE]

\* The reconciler has a status to write, and asks to run again after d.
ToSave(st, d, minted) ==
  worker' = [worker EXCEPT !.pc = "save", !.status = st, !.requeue = d, !.minted = minted]

-----------------------------------------------------------------------------
\* A request nobody has reconciled yet; its creation event is on its way.
Init ==
  /\ phase \in 0..(TicksPerSecond - 1)
  /\ spec = [gen |-> 1, state |-> "ok"]
  /\ status = NoStatus
  /\ secret = NoSecret
  /\ cache = [spec |-> [gen |-> 0, state |-> "gone"], status |-> NoStatus, secret |-> NoSecret]
  /\ requestNews = TRUE
  /\ secretNews = FALSE
  /\ queued = FALSE
  /\ timer = Off
  /\ worker = IdleWorker
  /\ edits = 0 /\ failures = 0 /\ crashes = 0

\* Mutant: a request that is not found is reconciled all the same.
ReconcileGone ==
  /\ worker.pc = "idle" /\ queued
  /\ queued' = FALSE
  /\ worker' = [IdleWorker EXCEPT !.pc = "got", !.spec = cache.spec,
                                  !.status = cache.status, !.old = requestNews]
  /\ UNCHANGED <<phase, objects, cache, requestNews, secretNews, timer,
                 edits, failures, crashes>>

\* Reconcile begins: the request is copied from the cache.  One that is not
\* found ends it; one with a bad spec is marked failed without a requeue.
Reconcile ==
  /\ worker.pc = "idle" /\ queued
  /\ queued' = FALSE
  /\ LET c == [IdleWorker EXCEPT !.pc = "got", !.spec = cache.spec,
                                 !.status = cache.status, !.old = requestNews]
     IN  CASE cache.spec.state = "gone" -> UNCHANGED worker
           [] cache.spec.state = "ok"   -> worker' = c
           [] cache.spec.state = "bad"  ->
                worker' = [c EXCEPT !.pc = "save", !.status = SetFailed(c, "spec")]
  /\ UNCHANGED <<phase, objects, cache, requestNews, secretNews, timer,
                 edits, failures, crashes>>

\* Reading the request or the Secret fails: nothing was done, retried.
ReadFails ==
  /\ worker.pc = "idle" /\ queued
  /\ MayFail /\ failures' = failures + 1
  /\ UNCHANGED <<phase, objects, cache, requestNews, secretNews, queued, timer, worker,
                 edits, crashes>>

\* Mutant: LastMintedAt is stamped by every reconcile.
StillFreshStamped ==
  /\ worker.pc = "got"
  /\ ~NeedsRefresh(cache.secret)
  /\ ToSave([worker.status EXCEPT !.named = TRUE], cache.secret.left - Cutoff, TRUE)
  /\ UNCHANGED <<phase, objects, cache, requestNews, secretNews, queued, timer,
                 edits, failures, crashes>>

\* The token is still fresh: only SecretName is touched.
StillFresh ==
  /\ worker.pc = "got"
  /\ ~NeedsRefresh(cache.secret)
  /\ ToSave([worker.status EXCEPT !.named = TRUE], cache.secret.left - Cutoff, FALSE)
  /\ UNCHANGED <<phase, objects, cache, requestNews, secretNews, queued, timer,
                 edits, failures, crashes>>

\* mint: the signer refuses an exp that truncation moved into the past, and
\* may fail by itself.  The status is all that hears of it.
MintFails ==
  /\ worker.pc = "got"
  /\ NeedsRefresh(cache.secret)
  /\ NewLeft < 0 \/ MayFail
  /\ failures' = IF NewLeft < 0 THEN failures ELSE failures + 1
  /\ ToSave(SetFailed(worker, "sign"), Off, FALSE)
  /\ UNCHANGED <<phase, objects, cache, requestNews, secretNews, queued, timer,
                 edits, crashes>>

\* upsertSecret: CreateOrUpdate reads the cache and then writes.  A create
\* finds the Secret there, or an update finds it changed, when the cache is
\* behind.
UpsertOK == IF cache.secret.exists THEN secret.exists /\ ~secretNews ELSE ~secret.exists

Upsert ==
  /\ worker.pc = "got"
  /\ NeedsRefresh(cache.secret)
  /\ NewLeft >= 0
  /\ UpsertOK
  /\ secret' = [exists |-> TRUE, left |-> NewLeft, gen |-> worker.spec.gen]
  /\ secretNews' = TRUE
  /\ ToSave(SetMinted(worker), NextRefresh, TRUE)
  /\ UNCHANGED <<phase, spec, status, cache, requestNews, queued, timer,
                 edits, failures, crashes>>

\* Mutant: the conditions are left as they were.
UpsertFailsSilently ==
  /\ worker.pc = "got"
  /\ NeedsRefresh(cache.secret)
  /\ NewLeft >= 0
  /\ \/ ~UpsertOK /\ UNCHANGED failures
     \/ MayFail /\ failures' = failures + 1
  /\ ToSave(worker.status, Off, FALSE)
  /\ UNCHANGED <<phase, objects, cache, requestNews, secretNews, queued, timer,
                 edits, crashes>>

\* An error of CreateOrUpdate is reported in the status, and nowhere else.
UpsertFails ==
  /\ worker.pc = "got"
  /\ NeedsRefresh(cache.secret)
  /\ NewLeft >= 0
  /\ \/ ~UpsertOK /\ UNCHANGED failures
     \/ MayFail /\ failures' = failures + 1
  /\ ToSave(SetFailed(worker, IF UpsertOK THEN "api"
                              ELSE IF cache.secret.exists THEN "conflict" ELSE "exists"),
            Off, FALSE)
  /\ UNCHANGED <<phase, objects, cache, requestNews, secretNews, queued, timer,
                 edits, crashes>>

\* Mutant: the result of Reconcile carries no RequeueAfter.
SaveWithoutRequeue ==
  /\ worker.pc = "save"
  /\ ~worker.old /\ spec.state # "gone"
  /\ status' = worker.status
  /\ requestNews' = (requestNews \/ worker.minted \/ worker.status # status)
  /\ worker' = IdleWorker
  /\ UNCHANGED <<phase, spec, secret, cache, secretNews, queued, timer, edits, failures, crashes>>

\* updateStatus: an update that changes nothing makes no event.  The result
\* of Reconcile goes to the queue, which keeps the earlier of two delays.
SaveStatus ==
  /\ worker.pc = "save"
  /\ ~worker.old /\ spec.state # "gone"
  /\ status' = worker.status
  /\ requestNews' = (requestNews \/ worker.minted \/ worker.status # status)
  /\ timer' = CASE worker.requeue = Off -> timer
                [] timer = Off          -> worker.requeue
                [] OTHER                -> Min({timer, worker.requeue})
  /\ worker' = IdleWorker
  /\ UNCHANGED <<phase, spec, secret, cache, secretNews, queued, edits, failures, crashes>>

\* Mutant: the error of updateStatus is swallowed.
SaveFailsQuietly ==
  /\ worker.pc = "save"
  /\ \/ (worker.old \/ spec.state = "gone") /\ UNCHANGED failures
     \/ MayFail /\ failures' = failures + 1
  /\ worker' = IdleWorker
  /\ UNCHANGED <<phase, objects, cache, requestNews, secretNews, queued, timer,
                 edits, crashes>>

\* A conflict or an API error makes Reconcile return an error: retried.
SaveFails ==
  /\ worker.pc = "save"
  /\ \/ (worker.old \/ spec.state = "gone") /\ UNCHANGED failures
     \/ MayFail /\ failures' = failures + 1
  /\ worker' = IdleWorker
  /\ queued' = TRUE
  /\ UNCHANGED <<phase, objects, cache, requestNews, secretNews, timer,
                 edits, crashes>>

-----------------------------------------------------------------------------
\* The informers: the cache moves on and the request is queued.
SyncRequest ==
  /\ requestNews
  /\ cache' = [cache EXCEPT !.spec = spec, !.status = status]
  /\ requestNews' = FALSE
  /\ queued' = TRUE
  /\ UNCHANGED <<phase, objects, secretNews, timer, worker, edits, failures, crashes>>

SyncSecret ==
  /\ secretNews
  /\ cache' = [cache EXCEPT !.secret = secret]
  /\ secretNews' = FALSE
  /\ queued' = TRUE
  /\ UNCHANGED <<phase, objects, requestNews, timer, worker, edits, failures, crashes>>

TimerFires ==
  /\ timer = 0
  /\ timer' = Off
  /\ queued' = TRUE
  /\ UNCHANGED <<phase, objects, cache, requestNews, secretNews, worker,
                 edits, failures, crashes>>

Older(s) == [s EXCEPT !.left = Max({0, s.left - 1})]

Tick ==
  /\ Quiet
  /\ phase' = (phase + 1) % TicksPerSecond
  /\ secret' = Older(secret)
  /\ cache' = [cache EXCEPT !.secret = Older(cache.secret)]
  /\ timer' = IF timer = Off THEN Off ELSE timer - 1
  /\ UNCHANGED <<spec, status, requestNews, secretNews, queued, worker,
                 edits, failures, crashes>>

\* A user changes the spec, breaks it, mends it or deletes the request.
EditSpec(state) ==
  /\ MayEdit /\ spec.state # "gone"
  /\ edits' = edits + 1
  /\ spec' = [gen |-> spec.gen + 1, state |-> state]
  /\ requestNews' = TRUE
  /\ worker' = [worker EXCEPT !.old = TRUE]
  /\ UNCHANGED <<phase, status, secret, cache, secretNews, queued, timer,
                 failures, crashes>>

\* Somebody deletes the Secret, or overwrites the token with rubbish.
SpoilSecret(s) ==
  /\ MayEdit /\ secret.exists
  /\ edits' = edits + 1
  /\ secret' = s
  /\ secretNews' = TRUE
  /\ UNCHANGED <<phase, spec, status, cache, requestNews, queued, timer, worker,
                 failures, crashes>>

\* The garbage collector: the Secret goes with the request that owns it.
CollectSecret ==
  /\ spec.state = "gone" /\ secret.exists
  /\ secret' = NoSecret
  /\ secretNews' = TRUE
  /\ UNCHANGED <<phase, spec, status, cache, requestNews, queued, timer, worker,
                 edits, failures, crashes>>

\* The controller dies; the new one lists everything before it works.
Crash ==
  /\ MayCrash
  /\ crashes' = crashes + 1
  /\ cache' = [spec |-> spec, status |-> status, secret |-> secret]
  /\ requestNews' = FALSE /\ secretNews' = FALSE
  /\ queued' = TRUE
  /\ timer' = Off
  /\ worker' = IdleWorker
  /\ UNCHANGED <<phase, objects, edits, failures>>

Work == Reconcile \/ ReadFails \/ StillFresh \/ MintFails \/ Upsert \/ UpsertFails \/ SaveStatus \/ SaveFails

Others == \/ \E state \in SpecStates : EditSpec(state)
          \/ \E s \in {NoSecret, [secret EXCEPT !.left = 0]} : SpoilSecret(s)
          \/ Crash

Next == Work \/ SyncRequest \/ SyncSecret \/ TimerFires \/ Tick \/ CollectSecret \/ Others

Spec == Init /\ [][Next]_vars

\* The worker goroutine, the watches and the delaying queue keep running,
\* the clock advances, and the garbage collector does its work.
Fairness == /\ WF_vars(Work)
            /\ WF_vars(SyncRequest) /\ WF_vars(SyncSecret) /\ WF_vars(CollectSecret)
            /\ WF_vars(TimerFires) /\ WF_vars(Tick)

FairSpec == Spec /\ Fairness

-----------------------------------------------------------------------------
Specs    == [gen : Nat, state : SpecStates]
Statuses == [ready : {"unset", "true", "false"}, gen : Nat, named : BOOLEAN,
             msg : {"", "spec", "sign", "api", "conflict", "exists"}]
Secrets  == [exists : BOOLEAN, left : 0..Expiration, gen : Nat]
Caches   == [spec : Specs, status : Statuses, secret : Secrets]
Workers  == [pc : {"idle", "got", "save"}, spec : Specs, status : Statuses,
             old : BOOLEAN, requeue : Nat \cup {Off}, minted : BOOLEAN]

\* Type invariant of the objects, the cache, the queue and the worker.
TypeOK ==
  /\ phase \in 0..(TicksPerSecond - 1)
  /\ spec \in Specs /\ status \in Statuses /\ secret \in Secrets
  /\ cache \in Caches
  /\ requestNews \in BOOLEAN /\ secretNews \in BOOLEAN /\ queued \in BOOLEAN
  /\ timer \in Nat \cup {Off}
  /\ worker \in Workers
  /\ edits \in 0..MaxEdits /\ failures \in 0..MaxFailures /\ crashes \in 0..MaxCrashes

HasToken == secret.exists /\ secret.left > 0

\* When the controller has nothing to do, the Secret of a good request is
\* there and its token has not expired, whatever others did to the objects,
\* whenever the controller died, and whichever one call failed.
FreshWhenQuiet == Quiet /\ spec.state = "ok" /\ failures <= 1 => HasToken

\* "maintains a Secret holding a fresh token, refreshing before expiry".
AlwaysFresh == Quiet /\ spec.state = "ok" => HasToken

\* However often and wherever the API server fails: a quiet controller says
\* Ready only while the Secret is there with a token that has not expired.
ReadyHasToken ==
  Quiet /\ spec.state = "ok" /\ status.ready = "true" => HasToken

\* A token that is missing or expired is replaced, if the request is good and
\* no second call fails.
Recovers == (spec.state = "ok" /\ ~HasToken) ~> (spec.state # "ok" \/ HasToken \/ failures > 1)

\* The status writes and Secret writes of a reconcile wake the reconciler
\* again; this comes to rest every time.
Settles == []<>Quiet

\* A deleted request leaves no Secret behind, not even when it is deleted
\* while a reconcile is about to create one.
NoOrphan == spec.state = "gone" ~> [](~secret.exists)

\* "ConditionReady indicates the Secret is up to date with the desired JWT":
\* a quiet controller says Ready only of a token minted for this spec.
ReadyMeansCurrent ==
  Quiet /\ spec.state = "ok" /\ status.ready = "true" => secret.gen = spec.gen
=============================================================================
