-------------------------- MODULE ReconcilerProofs --------------------------
(***************************************************************************)
(* Proofs about Reconciler for every lifetime, refresh threshold and       *)
(* resolution of the clock, and any number of edits, failures and crashes. *)
(***************************************************************************)
EXTENDS Reconciler, TLAPS

\* The informer cache is what the API server holds, unless an event is on its
\* way; a reconcile works on the current spec, unless its copy is old.
CacheInv ==
  /\ ~secretNews => cache.secret = secret
  /\ ~requestNews => cache.spec = spec /\ cache.status = status
  /\ worker.pc # "idle" /\ ~worker.old => worker.spec = spec

\* Nothing wakes the reconciler but its timer.
AtRest == worker.pc = "idle" /\ ~queued /\ ~requestNews /\ ~secretNews

\* The timer runs out before the token does.
Armed(t) == t # Off /\ secret.exists /\ t <= secret.left

\* The lifetime survives the truncation of exp to whole seconds.
Lasting == Expiration >= TicksPerSecond

\* A condition that tells of a failed signature or API call.
Blames(st) == st.msg \in {"sign", "api"}

\* What a reconcile that is about to write the status stands for: a token that
\* it found fresh, or one of the ways to fail.
SaveInv ==
  worker.pc = "save" =>
    /\ worker.requeue # Off => queued \/ secretNews \/ Armed(worker.requeue)
    /\ worker.requeue = Off =>
         /\ worker.status.ready = "false"
         /\ worker.spec.state = "bad" \/ Blames(worker.status) \/ queued \/ secretNews
         /\ Lasting /\ worker.spec.state # "bad" /\ Blames(worker.status) /\ Blames(status)
              => failures >= 2

\* No condition blames a call before one has failed.
BlameInv ==
  Lasting /\ (Blames(status) \/ Blames(cache.status) \/ Blames(worker.status)) => failures >= 1

\* At rest, the timer is set for a token in the Secret: if the status says
\* Ready, and as long as no second call has failed.
RestInv ==
  AtRest /\ spec.state = "ok" /\ (status.ready = "true" \/ (Lasting /\ failures <= 1))
    => Armed(timer)

IInv == TypeOK /\ CacheInv /\ SaveInv /\ BlameInv /\ RestInv

-----------------------------------------------------------------------------
\* The larger and the smaller of two numbers.
LEMMA MaxOfTwo ==
  ASSUME NEW a \in Int, NEW b \in Int
  PROVE  Max({a, b}) = IF a >= b THEN a ELSE b
<1> DEFINE m == IF a >= b THEN a ELSE b
           P(x) == x \in {a, b} /\ \A y \in {a, b} : x >= y
<1>1. P(m)
  OBVIOUS
<1>2. \A x : P(x) => x = m
  OBVIOUS
<1>3. Max({a, b}) = CHOOSE x \in {a, b} : \A y \in {a, b} : x >= y
  BY DEF Max
<1>4. P(Max({a, b}))
  BY <1>1, <1>3
<1> QED
  BY <1>2, <1>4

LEMMA MinOfTwo ==
  ASSUME NEW a \in Int, NEW b \in Int
  PROVE  Min({a, b}) = IF a <= b THEN a ELSE b
<1> DEFINE m == IF a <= b THEN a ELSE b
           P(x) == x \in {a, b} /\ \A y \in {a, b} : x <= y
<1>1. P(m)
  OBVIOUS
<1>2. \A x : P(x) => x = m
  OBVIOUS
<1>3. Min({a, b}) = CHOOSE x \in {a, b} : \A y \in {a, b} : x <= y
  BY DEF Min
<1>4. P(Min({a, b}))
  BY <1>1, <1>3
<1> QED
  BY <1>2, <1>4

\* The lifetime of a new token: truncation takes less than a second off.
LEMMA NewLeftBounded ==
  ASSUME TypeOK
  PROVE  /\ NewLeft \in Int /\ NewLeft <= Expiration
         /\ Lasting => NewLeft >= 0
         /\ NextRefresh \in Nat
<1> DEFINE r == (phase + Expiration) % TicksPerSecond
<1>1. r \in 0..(TicksPerSecond - 1) /\ TicksPerSecond \in Nat \ {0} /\ Expiration \in Nat /\ Cutoff \in Nat
  BY ReconcilerAssumption DEF TypeOK
<1>2. NewLeft = Expiration - r
  BY DEF NewLeft
<1> HIDE DEF r
<1>3. NewLeft \in Int /\ NewLeft <= Expiration /\ (Lasting => NewLeft >= 0)
  BY <1>1, <1>2 DEF Lasting
<1>4. NextRefresh = IF NewLeft - Cutoff >= TicksPerSecond THEN NewLeft - Cutoff ELSE TicksPerSecond
  BY <1>1, <1>3, MaxOfTwo DEF NextRefresh
<1> QED
  BY <1>1, <1>3, <1>4

\* A tick takes one off what a token has left.
LEMMA OlderLeft ==
  ASSUME NEW s \in Secrets
  PROVE  /\ Older(s) \in Secrets /\ Older(s).exists = s.exists
         /\ Older(s).left = IF s.left = 0 THEN 0 ELSE s.left - 1
<1>1. s.left \in 0..Expiration /\ Expiration \in Nat
  BY ReconcilerAssumption DEF Secrets
<1> DEFINE m == Max({0, s.left - 1})
<1>2. m = IF s.left = 0 THEN 0 ELSE s.left - 1
  BY <1>1, MaxOfTwo
<1>3. Older(s) = [s EXCEPT !.left = m]
  BY DEF Older
<1> HIDE DEF m
<1>4. m \in 0..Expiration
  BY <1>1, <1>2
<1> QED
  BY <1>2, <1>3, <1>4 DEF Secrets

LEMMA ConstantsTyped ==
  /\ NoSecret \in Secrets /\ NoStatus \in Statuses /\ IdleWorker \in Workers
  /\ Off \notin Nat /\ IdleWorker.pc = "idle" /\ IdleWorker.status = NoStatus /\ ~Blames(NoStatus)
<1>1. NoSecret \in Secrets
  <2>1. 0 \in 0..Expiration
    BY ReconcilerAssumption
  <2> QED
    BY <2>1 DEF NoSecret, Secrets
<1>2. NoStatus \in Statuses
  BY DEF NoStatus, Statuses
<1>3. IdleWorker \in Workers
  <2>1. [gen |-> 0, state |-> "ok"] \in Specs
    BY DEF Specs, SpecStates
  <2> QED
    BY <1>2, <2>1 DEF IdleWorker, Workers
<1>4. IdleWorker.pc = "idle" /\ IdleWorker.status = NoStatus
  BY DEF IdleWorker
<1>5. Off \notin Nat
  BY DEF Off
<1>6. ~Blames(NoStatus)
  BY DEF Blames, NoStatus
<1> QED
  BY <1>1, <1>2, <1>3, <1>4, <1>5, <1>6

\* What ToSave does to the worker.
LEMMA ToSaveEffect ==
  ASSUME TypeOK, NEW st \in Statuses, NEW d \in Nat \cup {Off}, NEW minted \in BOOLEAN,
         ToSave(st, d, minted)
  PROVE  /\ worker' \in Workers /\ worker'.pc = "save" /\ worker'.status = st
         /\ worker'.requeue = d /\ worker'.spec = worker.spec /\ worker'.old = worker.old
<1>1. worker \in Workers
  BY DEF TypeOK
<1> QED
  BY <1>1 DEF ToSave, Workers

LEMMA InitInv == Init => IInv
<1> SUFFICES ASSUME Init PROVE IInv
  OBVIOUS
<1>1. TypeOK
  <2>1. spec \in Specs /\ status \in Statuses /\ secret \in Secrets /\ worker \in Workers
    BY ConstantsTyped DEF Init, Specs, SpecStates
  <2>2. cache \in Caches
    BY ConstantsTyped DEF Init, Caches, Specs, SpecStates
  <2>3. edits \in 0..MaxEdits /\ failures \in 0..MaxFailures /\ crashes \in 0..MaxCrashes
    BY ReconcilerAssumption DEF Init
  <2> QED
    BY <2>1, <2>2, <2>3 DEF Init, TypeOK
<1>2. CacheInv /\ SaveInv /\ RestInv
  BY ConstantsTyped DEF Init, CacheInv, SaveInv, RestInv, AtRest
<1>3. BlameInv
  BY ConstantsTyped DEF Init, BlameInv
<1> QED
  BY <1>1, <1>2, <1>3 DEF IInv

-----------------------------------------------------------------------------
\* Reconcile copies the request out of the cache.
LEMMA ReconcileStep == ASSUME IInv, Reconcile PROVE IInv'
<1> USE DEF IInv
<1> DEFINE c == [IdleWorker EXCEPT !.pc = "got", !.spec = cache.spec,
                                   !.status = cache.status, !.old = requestNews]
           f == [c EXCEPT !.pc = "save", !.status = SetFailed(c, "spec")]
<1>1. /\ worker.pc = "idle" /\ queued' = FALSE
      /\ UNCHANGED <<phase, spec, status, secret, cache, requestNews, secretNews, timer,
                     edits, failures, crashes>>
  BY DEF Reconcile, objects
<1>2. /\ cache \in Caches /\ cache.spec \in Specs /\ cache.status \in Statuses
      /\ requestNews \in BOOLEAN /\ failures \in Nat
  BY ReconcilerAssumption DEF TypeOK, Caches
<1>3. /\ c \in Workers /\ c.pc = "got" /\ c.spec = cache.spec /\ c.status = cache.status
      /\ c.old = requestNews
  BY <1>2, ConstantsTyped DEF Workers
<1>4. /\ f \in Workers /\ f.pc = "save" /\ f.spec = cache.spec /\ f.old = requestNews
      /\ f.requeue = Off /\ f.status.ready = "false" /\ ~Blames(f.status)
  <2>1. cache.spec.gen \in Nat
    BY <1>2 DEF Specs
  <2>2. /\ SetFailed(c, "spec") \in Statuses
        /\ SetFailed(c, "spec").ready = "false" /\ SetFailed(c, "spec").msg = "spec"
    <3> HIDE DEF c
    <3> QED
      BY <1>2, <1>3, <2>1 DEF SetFailed, Statuses
  <2>3. c.requeue = Off
    BY DEF IdleWorker
  <2> HIDE DEF c
  <2> QED
    BY <1>3, <2>2, <2>3 DEF Workers, Blames
<1>5. CASE cache.spec.state = "gone" /\ UNCHANGED worker
  <2>1. TypeOK' /\ CacheInv' /\ BlameInv'
    BY <1>1, <1>5 DEF TypeOK, CacheInv, BlameInv
  <2>2. SaveInv'
    BY <1>1, <1>5 DEF SaveInv
  <2>3. RestInv'
    BY <1>1, <1>5 DEF RestInv, AtRest, CacheInv
  <2> QED
    BY <2>1, <2>2, <2>3
<1>6. CASE worker' = c
  <2> HIDE DEF c
  <2>1. TypeOK'
    BY <1>1, <1>3, <1>6 DEF TypeOK
  <2>2. CacheInv' /\ SaveInv' /\ RestInv'
    BY <1>1, <1>3, <1>6 DEF CacheInv, SaveInv, RestInv, AtRest
  <2>3. BlameInv'
    BY <1>1, <1>3, <1>6 DEF BlameInv
  <2> QED
    BY <2>1, <2>2, <2>3
<1>7. CASE cache.spec.state = "bad" /\ worker' = f
  <2> HIDE DEF f
  <2>1. TypeOK'
    BY <1>1, <1>4, <1>7 DEF TypeOK
  <2>2. CacheInv' /\ SaveInv' /\ RestInv'
    BY <1>1, <1>4, <1>7 DEF CacheInv, SaveInv, RestInv, AtRest
  <2>3. BlameInv'
    BY <1>1, <1>4, <1>7 DEF BlameInv
  <2> QED
    BY <2>1, <2>2, <2>3
<1>8. cache.spec.state \in {"ok", "bad", "gone"}
  BY <1>2 DEF Specs, SpecStates
<1> QED
  BY <1>5, <1>6, <1>7, <1>8 DEF Reconcile

LEMMA ReadFailsStep == ASSUME IInv, ReadFails PROVE IInv'
<1> USE DEF IInv, ReadFails, objects
<1>1. failures \in Nat /\ failures' \in 0..MaxFailures
  BY ReconcilerAssumption DEF TypeOK, MayFail
<1>2. TypeOK' /\ CacheInv'
  BY <1>1 DEF TypeOK, CacheInv
<1>3. SaveInv' /\ BlameInv' /\ RestInv'
  BY <1>1 DEF SaveInv, BlameInv, RestInv, AtRest
<1> QED
  BY <1>2, <1>3

LEMMA StillFreshStep == ASSUME IInv, StillFresh PROVE IInv'
<1> USE DEF IInv
<1> DEFINE st == [worker.status EXCEPT !.named = TRUE]
           d == cache.secret.left - Cutoff
<1>1. /\ worker.pc = "got" /\ cache.secret.exists /\ cache.secret.left > Cutoff
      /\ ToSave(st, d, FALSE)
      /\ UNCHANGED <<phase, spec, status, secret, cache, requestNews, secretNews, queued, timer,
                     edits, failures, crashes>>
  <2>1. cache.secret.left \in Int /\ Cutoff \in Int
    BY ReconcilerAssumption DEF TypeOK, Caches, Secrets
  <2>2. cache.secret.exists /\ cache.secret.left > Cutoff
    BY <2>1 DEF StillFresh, NeedsRefresh
  <2>3. ToSave(st, d, FALSE)
    BY DEF StillFresh, ToSave
  <2> QED
    BY <2>2, <2>3 DEF StillFresh, objects
<1>2. worker.status \in Statuses /\ cache.secret.left \in Nat /\ Cutoff \in Nat
  BY ReconcilerAssumption DEF TypeOK, Workers, Caches, Secrets
<1>3. st \in Statuses /\ st.msg = worker.status.msg
  BY <1>2 DEF Statuses
<1>4. d \in Nat /\ d <= cache.secret.left /\ d # Off
  BY <1>1, <1>2 DEF Off
<1> HIDE DEF st, d
<1>5. /\ worker' \in Workers /\ worker'.pc = "save" /\ worker'.status = st
      /\ worker'.requeue = d /\ worker'.spec = worker.spec /\ worker'.old = worker.old
  BY <1>1, <1>3, <1>4, ToSaveEffect
<1>6. TypeOK'
  BY <1>1, <1>5 DEF TypeOK
<1>7. CacheInv' /\ RestInv'
  BY <1>1, <1>5 DEF CacheInv, RestInv, AtRest
<1>8. SaveInv'
  BY <1>1, <1>4, <1>5 DEF SaveInv, CacheInv, Armed
<1>9. BlameInv'
  BY <1>1, <1>3, <1>5 DEF BlameInv, Blames
<1> QED
  BY <1>6, <1>7, <1>8, <1>9

\* A reconcile that fails: of its own accord, or because the cache is behind.
LEMMA FailedSave ==
  ASSUME IInv, worker.pc = "got",
         NEW msg \in {"sign", "api", "conflict", "exists"}, NEW n \in 0..MaxFailures, n = failures \/ n = failures + 1,
         failures' = n, ToSave(SetFailed(worker, msg), Off, FALSE),
         UNCHANGED <<phase, spec, status, secret, cache, requestNews, secretNews, queued, timer,
                     edits, crashes>>,
         Lasting /\ msg \in {"sign", "api"} => n = failures + 1,
         msg \in {"conflict", "exists"} => secretNews
  PROVE  IInv'
<1> USE DEF IInv
<1> DEFINE st == SetFailed(worker, msg)
<1>1. failures \in Nat /\ worker.status \in Statuses /\ worker.spec.gen \in Nat
  BY ReconcilerAssumption DEF TypeOK, Workers, Specs
<1>2. st \in Statuses /\ st.msg = msg /\ st.ready = "false"
  BY <1>1 DEF Statuses, SetFailed
<1> HIDE DEF st
<1>3. ToSave(st, Off, FALSE)
  BY DEF st
<1>4. /\ worker' \in Workers /\ worker'.pc = "save" /\ worker'.status = st
      /\ worker'.requeue = Off /\ worker'.spec = worker.spec /\ worker'.old = worker.old
  BY <1>2, <1>3, ToSaveEffect
<1>5. TypeOK'
  BY <1>4 DEF TypeOK
<1>6. CacheInv' /\ RestInv'
  BY <1>4 DEF CacheInv, RestInv, AtRest
<1>7. SaveInv'
  BY <1>1, <1>2, <1>4 DEF SaveInv, BlameInv, Blames
<1>8. BlameInv'
  BY <1>1, <1>2, <1>4 DEF BlameInv, Blames
<1> QED
  BY <1>5, <1>6, <1>7, <1>8

LEMMA MintFailsStep == ASSUME IInv, MintFails PROVE IInv'
<1>1. /\ worker.pc = "got" /\ (NewLeft < 0 \/ MayFail)
      /\ failures' = IF NewLeft < 0 THEN failures ELSE failures + 1
      /\ ToSave(SetFailed(worker, "sign"), Off, FALSE)
      /\ UNCHANGED <<phase, spec, status, secret, cache, requestNews, secretNews, queued, timer,
                     edits, crashes>>
  BY DEF MintFails, objects
<1>2. failures' \in 0..MaxFailures
  BY <1>1, ReconcilerAssumption DEF IInv, TypeOK, MayFail
<1>3. Lasting => failures' = failures + 1
  BY <1>1, NewLeftBounded DEF IInv
<1> QED
  BY <1>1, <1>2, <1>3, FailedSave

LEMMA UpsertFailsStep == ASSUME IInv, UpsertFails PROVE IInv'
<1> DEFINE msg == IF UpsertOK THEN "api" ELSE IF cache.secret.exists THEN "conflict" ELSE "exists"
<1>1. /\ worker.pc = "got"
      /\ (~UpsertOK /\ UNCHANGED failures) \/ (MayFail /\ failures' = failures + 1)
      /\ ToSave(SetFailed(worker, msg), Off, FALSE)
      /\ UNCHANGED <<phase, spec, status, secret, cache, requestNews, secretNews, queued, timer,
                     edits, crashes>>
  BY DEF UpsertFails, objects
<1>2. failures' \in 0..MaxFailures /\ (failures' = failures \/ failures' = failures + 1)
  BY <1>1, ReconcilerAssumption DEF IInv, TypeOK, MayFail
<1>3. ~UpsertOK => secretNews
  BY DEF UpsertOK, IInv, CacheInv
<1>4. /\ msg \in {"sign", "api", "conflict", "exists"}
      /\ msg \in {"sign", "api"} => failures' = failures + 1
      /\ msg \in {"conflict", "exists"} => secretNews
  BY <1>1, <1>3
<1> HIDE DEF msg
<1> QED
  BY <1>1, <1>2, <1>4, FailedSave

LEMMA UpsertStep == ASSUME IInv, Upsert PROVE IInv'
<1> USE DEF IInv
<1> DEFINE st == SetMinted(worker)
<1>1. /\ worker.pc = "got" /\ NewLeft >= 0
      /\ secret' = [exists |-> TRUE, left |-> NewLeft, gen |-> worker.spec.gen] /\ secretNews' = TRUE
      /\ UNCHANGED <<phase, spec, status, cache, requestNews, queued, timer,
                     edits, failures, crashes>>
  BY DEF Upsert
<1>2. ToSave(st, NextRefresh, TRUE)
  BY DEF Upsert, ToSave
<1>3. worker.spec.gen \in Nat /\ NewLeft \in 0..Expiration /\ NextRefresh \in Nat
  BY <1>1, NewLeftBounded, ReconcilerAssumption DEF TypeOK, Workers, Specs
<1>4. st \in Statuses /\ ~Blames(st) /\ secret' \in Secrets
  BY <1>1, <1>3 DEF SetMinted, Statuses, Blames, Secrets
<1> HIDE DEF st
<1>5. /\ worker' \in Workers /\ worker'.pc = "save" /\ worker'.status = st
      /\ worker'.requeue = NextRefresh /\ worker'.spec = worker.spec /\ worker'.old = worker.old
  BY <1>2, <1>3, <1>4, ToSaveEffect
<1>6. TypeOK'
  BY <1>1, <1>4, <1>5 DEF TypeOK
<1>7. CacheInv' /\ RestInv'
  BY <1>1, <1>5 DEF CacheInv, RestInv, AtRest
<1>8. SaveInv'
  BY <1>1, <1>3, <1>5, ConstantsTyped DEF SaveInv
<1>9. BlameInv'
  BY <1>1, <1>4, <1>5 DEF BlameInv
<1> QED
  BY <1>6, <1>7, <1>8, <1>9

\* The status is written.  If that makes no event, either the token was found
\* fresh and the timer is set for it, or the same complaint was made before.
LEMMA SaveStatusStep == ASSUME IInv, SaveStatus PROVE IInv'
<1> USE DEF IInv
<1>1. /\ worker.pc = "save" /\ ~worker.old /\ spec.state # "gone" /\ status' = worker.status
      /\ requestNews' = (requestNews \/ worker.minted \/ worker.status # status)
      /\ worker' = IdleWorker
      /\ UNCHANGED <<phase, spec, secret, cache, secretNews, queued, edits, failures, crashes>>
  BY DEF SaveStatus
<1>2. /\ timer \in Nat \cup {Off} /\ worker.requeue \in Nat \cup {Off} /\ worker.status \in Statuses
      /\ requestNews \in BOOLEAN /\ worker.minted \in BOOLEAN
  BY DEF TypeOK, Workers
<1>3. /\ timer' \in Nat \cup {Off}
      /\ worker.requeue # Off => timer' \in Nat /\ timer' <= worker.requeue
  <2>1. CASE worker.requeue = Off
    BY <1>2, <2>1 DEF SaveStatus
  <2>2. CASE worker.requeue # Off /\ timer = Off
    BY <1>2, <2>2 DEF SaveStatus
  <2>3. CASE worker.requeue # Off /\ timer # Off
    <3>1. timer' = Min({timer, worker.requeue}) /\ timer \in Nat /\ worker.requeue \in Nat
      BY <1>2, <2>3 DEF SaveStatus
    <3> QED
      BY <3>1, MinOfTwo
  <2> QED
    BY <2>1, <2>2, <2>3
<1>4. TypeOK'
  BY <1>1, <1>2, <1>3, ConstantsTyped DEF TypeOK
<1>5. CacheInv' /\ SaveInv'
  BY <1>1, <1>2, ConstantsTyped DEF CacheInv, SaveInv
<1>6. BlameInv'
  BY <1>1, ConstantsTyped DEF BlameInv
<1>7. RestInv'
  <2> SUFFICES ASSUME ~queued, ~requestNews', ~secretNews, spec.state = "ok",
                      worker.status.ready = "true" \/ (Lasting /\ failures <= 1)
               PROVE  Armed(timer)'
    BY <1>1 DEF RestInv, AtRest
  <2>1. worker.status = status /\ worker.spec.state = "ok"
    BY <1>1, <1>2 DEF CacheInv
  <2>2. worker.requeue # Off
    <3>1. failures \in Nat
      BY ReconcilerAssumption DEF TypeOK
    <3> QED
      BY <1>1, <2>1, <3>1 DEF SaveInv
  <2>3. secret.exists /\ worker.requeue <= secret.left
    BY <1>1, <2>2 DEF SaveInv, Armed
  <2>4. secret.left \in Nat /\ worker.requeue \in Nat
    BY <1>2, <2>2, ReconcilerAssumption DEF TypeOK, Secrets
  <2>5. timer' \in Nat /\ timer' # Off /\ timer' <= secret.left
    BY <1>3, <2>2, <2>3, <2>4, ConstantsTyped
  <2> QED
    BY <1>1, <2>3, <2>5 DEF Armed
<1> QED
  BY <1>4, <1>5, <1>6, <1>7

LEMMA SaveFailsStep == ASSUME IInv, SaveFails PROVE IInv'
<1> USE DEF IInv, SaveFails, objects
<1>1. failures \in Nat /\ failures' \in 0..MaxFailures /\ failures' >= failures
  BY ReconcilerAssumption DEF TypeOK, MayFail
<1>2. TypeOK' /\ CacheInv'
  BY <1>1, ConstantsTyped DEF TypeOK, CacheInv
<1>3. SaveInv' /\ RestInv'
  BY ConstantsTyped DEF SaveInv, RestInv, AtRest
<1>4. BlameInv'
  BY <1>1, ConstantsTyped DEF BlameInv
<1> QED
  BY <1>2, <1>3, <1>4

-----------------------------------------------------------------------------
LEMMA SyncStep == ASSUME IInv, SyncRequest \/ SyncSecret PROVE IInv'
<1> USE DEF IInv, objects
<1>1. CASE SyncRequest
  <2>1. cache \in Caches /\ spec \in Specs /\ status \in Statuses
    BY DEF TypeOK
  <2>2. cache' \in Caches /\ cache'.spec = spec /\ cache'.status = status /\ cache'.secret = cache.secret
    BY <1>1, <2>1 DEF SyncRequest, Caches
  <2>3. TypeOK' /\ CacheInv'
    BY <1>1, <2>2 DEF SyncRequest, TypeOK, CacheInv
  <2>4. SaveInv' /\ RestInv' /\ BlameInv'
    BY <1>1, <2>2 DEF SyncRequest, SaveInv, RestInv, AtRest, BlameInv
  <2> QED
    BY <2>3, <2>4
<1>2. CASE SyncSecret
  <2>1. cache \in Caches /\ secret \in Secrets
    BY DEF TypeOK
  <2>2. /\ cache' \in Caches /\ cache'.spec = cache.spec /\ cache'.status = cache.status
        /\ cache'.secret = secret
    BY <1>2, <2>1 DEF SyncSecret, Caches
  <2>3. TypeOK' /\ CacheInv'
    BY <1>2, <2>2 DEF SyncSecret, TypeOK, CacheInv
  <2>4. SaveInv' /\ RestInv' /\ BlameInv'
    BY <1>2, <2>2 DEF SyncSecret, SaveInv, RestInv, AtRest, BlameInv
  <2> QED
    BY <2>3, <2>4
<1> QED
  BY <1>1, <1>2

LEMMA TimerFiresStep == ASSUME IInv, TimerFires PROVE IInv'
<1> USE DEF IInv, TimerFires, objects
<1>1. TypeOK' /\ CacheInv'
  BY DEF TypeOK, CacheInv
<1>2. SaveInv' /\ RestInv' /\ BlameInv'
  BY DEF SaveInv, RestInv, AtRest, BlameInv
<1> QED
  BY <1>1, <1>2

LEMMA TickStep == ASSUME IInv, Tick PROVE IInv'
<1> USE DEF IInv
<1>1. /\ worker.pc = "idle" /\ ~secretNews /\ timer # 0
      /\ phase' = (phase + 1) % TicksPerSecond
      /\ secret' = Older(secret)
      /\ cache' = [cache EXCEPT !.secret = Older(cache.secret)]
      /\ timer' = IF timer = Off THEN Off ELSE timer - 1
      /\ UNCHANGED <<spec, status, requestNews, secretNews, queued, worker,
                     edits, failures, crashes>>
  BY DEF Tick, Quiet
<1>2. phase' \in 0..(TicksPerSecond - 1)
  BY <1>1, ReconcilerAssumption DEF TypeOK
<1>3. timer' \in Nat \cup {Off}
  BY <1>1 DEF TypeOK, Off
<1>4. cache \in Caches /\ secret \in Secrets /\ cache.secret \in Secrets
  BY DEF TypeOK, Caches
<1>5. /\ secret' \in Secrets /\ secret'.exists = secret.exists
      /\ secret'.left = IF secret.left = 0 THEN 0 ELSE secret.left - 1
  BY <1>1, <1>4, OlderLeft
<1>6. /\ cache' \in Caches /\ cache'.spec = cache.spec /\ cache'.status = cache.status
      /\ cache'.secret = Older(cache.secret)
  <2>1. Older(cache.secret) \in Secrets
    BY <1>4, OlderLeft
  <2> QED
    BY <1>1, <1>4, <2>1 DEF Caches
<1>7. TypeOK'
  BY <1>1, <1>2, <1>3, <1>5, <1>6 DEF TypeOK
<1>8. CacheInv'
  BY <1>1, <1>6 DEF CacheInv
<1>9. SaveInv' /\ BlameInv'
  BY <1>1, <1>6 DEF SaveInv, BlameInv
<1>10. RestInv'
  <2>1. secret.left \in Nat /\ timer \in Nat \cup {Off}
    BY ReconcilerAssumption DEF TypeOK, Secrets
  <2>2. Armed(timer) => Armed(timer)'
    BY <1>1, <1>5, <2>1 DEF Armed, Off
  <2> QED
    BY <1>1, <2>2 DEF RestInv, AtRest
<1> QED
  BY <1>7, <1>8, <1>9, <1>10

\* Users, the garbage collector and crashes: each leaves an event behind.
LEMMA OthersStep == ASSUME IInv, CollectSecret \/ Others PROVE IInv'
<1> USE DEF IInv
<1>1. ASSUME NEW state \in SpecStates, EditSpec(state) PROVE IInv'
  <2>1. /\ spec.gen \in Nat /\ worker \in Workers /\ edits' \in 0..MaxEdits
    BY <1>1, ReconcilerAssumption DEF TypeOK, Specs, EditSpec, MayEdit
  <2>2. spec' \in Specs
    BY <1>1, <2>1 DEF EditSpec, Specs
  <2>3. /\ worker' \in Workers /\ worker'.old = TRUE /\ worker'.pc = worker.pc
        /\ worker'.spec = worker.spec /\ worker'.status = worker.status
        /\ worker'.requeue = worker.requeue
    BY <1>1, <2>1 DEF EditSpec, Workers
  <2>4. TypeOK' /\ CacheInv'
    BY <1>1, <2>1, <2>2, <2>3 DEF EditSpec, TypeOK, CacheInv
  <2>5. SaveInv'
    BY <1>1, <2>3 DEF EditSpec, SaveInv, Armed
  <2>6. RestInv' /\ BlameInv'
    BY <1>1, <2>3 DEF EditSpec, RestInv, AtRest, BlameInv
  <2> QED
    BY <2>4, <2>5, <2>6
<1>2. ASSUME NEW s \in {NoSecret, [secret EXCEPT !.left = 0]}, SpoilSecret(s) PROVE IInv'
  <2>1. s \in Secrets
    <3>1. secret \in Secrets /\ 0 \in 0..Expiration
      BY ReconcilerAssumption DEF TypeOK
    <3>2. [secret EXCEPT !.left = 0] \in Secrets
      BY <3>1 DEF Secrets
    <3> QED
      BY <3>2, ConstantsTyped
  <2>2. edits' \in 0..MaxEdits
    BY <1>2, ReconcilerAssumption DEF TypeOK, SpoilSecret, MayEdit
  <2>3. TypeOK' /\ CacheInv'
    BY <1>2, <2>1, <2>2 DEF SpoilSecret, TypeOK, CacheInv
  <2>4. SaveInv' /\ RestInv' /\ BlameInv'
    BY <1>2 DEF SpoilSecret, SaveInv, RestInv, AtRest, BlameInv
  <2> QED
    BY <2>3, <2>4
<1>3. CASE CollectSecret
  <2>1. TypeOK' /\ CacheInv'
    BY <1>3, ConstantsTyped DEF CollectSecret, TypeOK, CacheInv
  <2>2. SaveInv' /\ RestInv' /\ BlameInv'
    BY <1>3 DEF CollectSecret, SaveInv, RestInv, AtRest, BlameInv
  <2> QED
    BY <2>1, <2>2
<1>4. CASE Crash
  <2>1. /\ cache' = [spec |-> spec, status |-> status, secret |-> secret] /\ queued' = TRUE
        /\ requestNews' = FALSE /\ secretNews' = FALSE /\ timer' = Off /\ worker' = IdleWorker
        /\ crashes' = crashes + 1 /\ MayCrash
        /\ UNCHANGED <<phase, spec, status, secret, edits, failures>>
    BY <1>4 DEF Crash, objects
  <2>2. crashes' \in 0..MaxCrashes
    BY <2>1, ReconcilerAssumption DEF TypeOK, MayCrash
  <2>3. /\ cache' \in Caches /\ cache'.spec = spec /\ cache'.status = status /\ cache'.secret = secret
    BY <2>1 DEF Caches, TypeOK
  <2>4. TypeOK'
    BY <2>1, <2>2, <2>3, ConstantsTyped DEF TypeOK
  <2>5. CacheInv' /\ SaveInv' /\ RestInv'
    BY <2>1, <2>3, ConstantsTyped DEF CacheInv, SaveInv, RestInv, AtRest
  <2>6. BlameInv'
    BY <2>1, <2>3, ConstantsTyped DEF BlameInv
  <2> QED
    BY <2>4, <2>5, <2>6
<1> QED
  BY <1>1, <1>2, <1>3, <1>4 DEF Others

-----------------------------------------------------------------------------
LEMMA NextStep == IInv /\ [Next]_vars => IInv'
<1> SUFFICES ASSUME IInv, [Next]_vars PROVE IInv'
  OBVIOUS
<1>1. CASE UNCHANGED vars
  BY <1>1 DEF vars, IInv, TypeOK, CacheInv, SaveInv, BlameInv, RestInv, AtRest, Armed
<1>2. CASE Next
  BY <1>2, ReconcileStep, ReadFailsStep, StillFreshStep, MintFailsStep, UpsertStep, UpsertFailsStep,
     SaveStatusStep, SaveFailsStep, SyncStep, TimerFiresStep, TickStep, OthersStep DEF Next, Work
<1> QED
  BY <1>1, <1>2

\* The inductive invariant: how far the cache is behind, what a status that is
\* about to be written stands for, and what a controller at rest relies on.
THEOREM InvHolds == Spec => []IInv
BY InitInv, NextStep, PTL DEF Spec

\* The types of the two objects, the cache, the queue and the worker.
THEOREM TypeCorrect == Spec => []TypeOK
<1>1. IInv => TypeOK
  BY DEF IInv
<1> QED
  BY <1>1, InvHolds, PTL

\* A timer that has not run out belongs to a token that has not either.
LEMMA ArmedHasToken ==
  ASSUME IInv, timer # 0, Armed(timer)
  PROVE  HasToken
<1>1. timer \in Nat /\ secret.left \in Nat
  BY ReconcilerAssumption DEF IInv, TypeOK, Armed, Secrets
<1> QED
  BY <1>1 DEF HasToken, Armed

\* However often and wherever calls fail, a quiet controller says Ready only
\* of a token that is there: for every lifetime and threshold, those included
\* with which a new token is stale at once.
THEOREM ReadyIsBacked == Spec => []ReadyHasToken
<1>1. IInv => ReadyHasToken
  BY ArmedHasToken DEF IInv, RestInv, AtRest, ReadyHasToken, Quiet
<1> QED
  BY <1>1, InvHolds, PTL

\* A quiet controller has a token for a good request, whatever others did to
\* the objects, whenever the controller died and whichever one call failed, if
\* the lifetime is at least the second that truncation may take off.
THEOREM FreshAtRest ==
  ASSUME Expiration >= TicksPerSecond
  PROVE  Spec => []FreshWhenQuiet
<1>1. IInv => FreshWhenQuiet
  BY ArmedHasToken DEF IInv, RestInv, AtRest, FreshWhenQuiet, Quiet, Lasting
<1> QED
  BY <1>1, InvHolds, PTL
=============================================================================
