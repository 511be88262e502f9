-------------------------- MODULE RemoteJWKSProofs --------------------------
(***************************************************************************)
(* Proofs about RemoteJWKS for every set of callers, every TTL, negative   *)
(* TTL and time-out, every max-age, and any number of rotations.           *)
(***************************************************************************)
EXTENDS RemoteJWKS, TLAPS

\* refreshMu is held by the one call that is fetching.
MutexInv == \A c \in Callers : Fetching(c) <=> refreshMu = c

\* What the cache holds was published, and lapses no later than its lifetime
\* and one request after the issuer sent it.  A failure that is remembered is
\* younger than the cached set.
CacheInv ==
  /\ cached.ver <= published
  /\ cached # NoSet => /\ cached.at <= now
                       /\ expiresAt <= cached.at + cached.ttl + Timeout
  /\ lastErr => cached.at <= errAt

\* A request is no older than the client's time-out; what it brought is as
\* new as the request, and nothing newer has got into the cache since.
FetchOK(c) ==
  Fetching(c) => /\ call[c].at <= now
                 /\ now - call[c].at <= Timeout

ReplyOK(c) ==
  call[c].pc = "reply" /\ ~call[c].err =>
    /\ call[c].at <= call[c].set.at /\ call[c].set.at <= now
    /\ call[c].since <= call[c].set.ver /\ call[c].set.ver <= published
    /\ cached.ver <= call[c].set.ver

CallInv == \A c \in Callers : call[c].since <= published /\ FetchOK(c) /\ ReplyOK(c)

\* A call whose request has not ended has no error to report.
WaitInv == \A c \in Callers : call[c].pc \in {"wait", "fetch"} => ~call[c].err

IInv == /\ TypeOK /\ MutexInv /\ CacheInv /\ CallInv /\ WaitInv
        /\ BoundedStaleness /\ RefreshSeesRotation /\ NoStampede

-----------------------------------------------------------------------------
\* The lifetime doFetch settles on is no more than the configured TTL.
LEMMA LifetimeBounded ==
  ASSUME NEW ages \in {{}} \cup {{a} : a \in MaxAges}
  PROVE  Lifetime(ages) \in 0..TTL
<1> USE RemoteAssumption
<1>1. CASE ages = {}
  <2>1. {TTL} \cup ages = {TTL}
    BY <1>1
  <2>2. \A x \in {TTL} : (\A y \in {TTL} : x =< y) => x = TTL
    OBVIOUS
  <2> QED
    BY <2>1 DEF Lifetime, Min
<1>2. ASSUME NEW a \in MaxAges, ages = {a} PROVE Lifetime(ages) \in 0..TTL
  <2> DEFINE S == {TTL} \cup ages
             P(x) == x \in S /\ \A y \in S : x =< y
  <2>1. a \in Nat
    OBVIOUS
  <2>2. \E x : P(x)
    <3>1. CASE a =< TTL
      BY <1>2, <2>1, <3>1
    <3>2. CASE TTL =< a
      BY <1>2, <2>1, <3>2
    <3> QED
      BY <2>1, <3>1, <3>2
  <2>3. P(Lifetime(ages))
    BY <2>2 DEF Lifetime, Min
  <2> QED
    BY <1>2, <2>1, <2>3
<1> QED
  BY <1>1, <1>2

\* No set is a set, and a call that has not begun is a call.
LEMMA IdleTyped == NoSet \in Sets /\ Idle \in Calls
<1>1. NoSet \in Sets
  BY RemoteAssumption DEF NoSet, Sets
<1> QED
  BY <1>1, RemoteAssumption DEF Idle, Calls

\* Nobody has called and nothing is cached.
LEMMA InitInv == Init => IInv
<1> SUFFICES ASSUME Init PROVE IInv
  OBVIOUS
<1>1. TypeOK
  <2>1. call \in [Callers -> Calls] /\ cached \in Sets
    BY IdleTyped DEF Init
  <2>2. 0 \in 0..MaxTime /\ 0 \in 0..MaxRotations /\ 0 \in 0..(MaxTime + TTL)
    BY RemoteAssumption
  <2> QED
    BY <2>1, <2>2 DEF Init, TypeOK
<1>2. \A c \in Callers : call[c] = Idle
  BY DEF Init
<1>3. MutexInv /\ CallInv /\ WaitInv /\ BoundedStaleness /\ RefreshSeesRotation /\ NoStampede
  BY <1>2, RemoteAssumption
  DEF Init, MutexInv, CallInv, WaitInv, FetchOK, ReplyOK, Fetching, BoundedStaleness,
      RefreshSeesRotation, NoStampede, Idle
<1>4. CacheInv
  BY DEF Init, CacheInv, NoSet
<1> QED
  BY <1>1, <1>3, <1>4 DEF IInv

\* Every step keeps the types.
LEMMA TypeStep == TypeOK /\ [Next]_vars => TypeOK'
<1> SUFFICES ASSUME TypeOK, [Next]_vars PROVE TypeOK'
  OBVIOUS
<1> USE RemoteAssumption
<1>0. \A c \in Callers : call[c] \in Calls
  BY DEF TypeOK
<1>1. CASE Tick
  BY <1>1 DEF Tick, TypeOK
<1>2. CASE Rotate
  BY <1>2 DEF Rotate, TypeOK
<1>3. ASSUME NEW c \in Callers, KeySetHit(c) PROVE TypeOK'
  <2> DEFINE r == [Begun(FALSE) EXCEPT !.pc = "done", !.set = cached, !.at = now]
  <2>1. r \in Calls
    BY IdleTyped DEF Begun, Idle, Calls, TypeOK
  <2> QED
    BY <1>3, <2>1 DEF KeySetHit, TypeOK
<1>4. ASSUME NEW c \in Callers, KeySetMiss(c) \/ Refresh(c) PROVE TypeOK'
  <2>1. Begun(TRUE) \in Calls /\ Begun(FALSE) \in Calls
    BY IdleTyped DEF Begun, Idle, Calls, TypeOK
  <2> QED
    BY <1>4, <2>1 DEF KeySetMiss, Refresh, TypeOK
<1>5. ASSUME NEW c \in Callers, ShareCached(c) PROVE TypeOK'
  <2> DEFINE r == [call[c] EXCEPT !.pc = "done", !.set = cached, !.at = now]
  <2>1. r \in Calls
    BY <1>0 DEF Calls, TypeOK
  <2> QED
    BY <1>5, <2>1 DEF ShareCached, TypeOK
<1>6. ASSUME NEW c \in Callers, ShareError(c) PROVE TypeOK'
  <2> DEFINE r == [call[c] EXCEPT !.pc = "done", !.err = TRUE, !.at = now]
  <2>1. r \in Calls
    BY <1>0 DEF Calls, TypeOK
  <2> QED
    BY <1>6, <2>1 DEF ShareError, TypeOK
<1>7. ASSUME NEW c \in Callers, StartFetch(c) PROVE TypeOK'
  <2> DEFINE r == [call[c] EXCEPT !.pc = "fetch", !.at = now]
  <2>1. r \in Calls
    BY <1>0 DEF Calls, TypeOK
  <2> QED
    BY <1>7, <2>1 DEF StartFetch, TypeOK
<1>8. ASSUME NEW c \in Callers, NEW ages \in {{}} \cup {{a} : a \in MaxAges}, Served(c, ages)
      PROVE  TypeOK'
  <2> DEFINE s == [ver |-> published, at |-> now, ttl |-> Lifetime(ages)]
             r == [call[c] EXCEPT !.pc = "reply", !.set = s]
  <2>1. s \in Sets
    BY LifetimeBounded DEF Sets, TypeOK
  <2>2. r \in Calls
    BY <1>0, <2>1 DEF Calls
  <2> QED
    BY <1>8, <2>2 DEF Served, TypeOK
<1>9. ASSUME NEW c \in Callers, FetchFails(c) PROVE TypeOK'
  <2> DEFINE r == [call[c] EXCEPT !.pc = "reply", !.err = TRUE]
  <2>1. r \in Calls
    BY <1>0 DEF Calls
  <2> QED
    BY <1>9, <2>1 DEF FetchFails, TypeOK
<1>10. ASSUME NEW c \in Callers, Record(c) PROVE TypeOK'
  <2> DEFINE r == [call[c] EXCEPT !.pc = "done", !.at = now]
  <2>1. r \in Calls
    BY <1>0 DEF Calls, TypeOK
  <2>2. call[c].set \in Sets /\ call[c].set.ttl \in 0..TTL
    BY <1>0 DEF Calls, Sets
  <2>3. call' \in [Callers -> Calls]
    BY <1>10, <2>1 DEF Record, TypeOK
  <2>4. cached' \in Sets /\ lastErr' \in BOOLEAN /\ errAt' \in 0..MaxTime
    BY <1>10, <2>2 DEF Record, TypeOK
  <2>5. now + call[c].set.ttl \in 0..(MaxTime + TTL)
    BY <2>2 DEF TypeOK
  <2>6. expiresAt' \in 0..(MaxTime + TTL)
    BY <1>10, <2>5 DEF Record, TypeOK
  <2> QED
    BY <1>10, <2>3, <2>4, <2>6 DEF Record, TypeOK
<1>11. ASSUME NEW c \in Callers, Return(c) PROVE TypeOK'
  BY <1>11, IdleTyped DEF Return, TypeOK
<1>12. CASE UNCHANGED vars
  BY <1>12 DEF vars, TypeOK
<1> QED
  BY <1>1, <1>2, <1>3, <1>4, <1>5, <1>6, <1>7, <1>8, <1>9, <1>10, <1>11, <1>12
  DEF Next, Work, Fetch

\* A call that begins or ends leaves the cache, the lock and the other calls
\* alone, and is not fetching.
LEMMA BeginStep ==
  ASSUME TypeOK, NEW c \in Callers, KeySetHit(c) \/ KeySetMiss(c) \/ Refresh(c) \/ Return(c)
  PROVE  /\ call'[c].pc \in {"idle", "wait", "done"} /\ call'[c].since <= published
         /\ call'[c].pc = "done" => Fresh /\ ~call'[c].err /\ ~call'[c].force
                                    /\ call'[c].set = cached /\ call'[c].at = now
         /\ \A d \in Callers : d # c => call'[d] = call[d]
         /\ UNCHANGED <<now, published, cached, expiresAt, lastErr, errAt, refreshMu>>
<1>0. call \in [Callers -> Calls] /\ published \in Nat
  BY RemoteAssumption DEF TypeOK
<1>1. CASE KeySetHit(c)
  <2>1. /\ call'[c].pc = "done" /\ call'[c].since = published
        /\ ~call'[c].err /\ ~call'[c].force /\ call'[c].set = cached /\ call'[c].at = now
    BY <1>0, <1>1 DEF KeySetHit, Begun, Idle
  <2> QED
    BY <1>0, <1>1, <2>1 DEF KeySetHit, Begun
<1>2. CASE KeySetMiss(c)
  <2>1. call'[c].pc = "wait" /\ call'[c].since = published
    BY <1>0, <1>2 DEF KeySetMiss, Begun, Idle
  <2> QED
    BY <1>0, <1>2, <2>1 DEF KeySetMiss, Begun
<1>3. CASE Refresh(c)
  <2>1. call'[c].pc = "wait" /\ call'[c].since = published
    BY <1>0, <1>3 DEF Refresh, Begun, Idle
  <2> QED
    BY <1>0, <1>3, <2>1 DEF Refresh, Begun
<1>4. CASE Return(c)
  <2>1. call'[c].pc = "idle" /\ call'[c].since = 0
    BY <1>0, <1>4 DEF Return, Idle
  <2> QED
    BY <1>0, <1>4, <2>1, RemoteAssumption DEF Return
<1> QED
  BY <1>1, <1>2, <1>3, <1>4

\* refreshMu goes from nobody to the caller that fetches, and back.
LEMMA MutexStep == TypeOK /\ MutexInv /\ [Next]_vars => MutexInv'
<1> SUFFICES ASSUME TypeOK, MutexInv, [Next]_vars PROVE MutexInv'
  OBVIOUS
<1> USE RemoteAssumption DEF MutexInv, Fetching
<1>0. call \in [Callers -> Calls] /\ \A c \in Callers : call[c] \in Calls
  BY DEF TypeOK
<1>1. CASE Tick \/ Rotate \/ UNCHANGED vars
  BY <1>1 DEF Tick, Rotate, vars
<1>2. ASSUME NEW c \in Callers, KeySetHit(c) \/ KeySetMiss(c) \/ Refresh(c) PROVE MutexInv'
  BY <1>0, <1>2 DEF KeySetHit, KeySetMiss, Refresh, Begun, Idle
<1>3. ASSUME NEW c \in Callers, ShareCached(c) \/ ShareError(c) PROVE MutexInv'
  BY <1>0, <1>3 DEF ShareCached, ShareError, Calls
<1>4. ASSUME NEW c \in Callers, StartFetch(c) PROVE MutexInv'
  BY <1>0, <1>4 DEF StartFetch, Calls
<1>5. ASSUME NEW c \in Callers, Fetch(c) PROVE MutexInv'
  BY <1>0, <1>5 DEF Fetch, Served, FetchFails, Calls
<1>6. ASSUME NEW c \in Callers, Record(c) PROVE MutexInv'
  BY <1>0, <1>6 DEF Record, Calls
<1>7. ASSUME NEW c \in Callers, Return(c) PROVE MutexInv'
  BY <1>0, <1>7 DEF Return, Idle
<1> QED
  BY <1>1, <1>2, <1>3, <1>4, <1>5, <1>6, <1>7 DEF Next, Work

\* The cache is written with refreshMu held, by a reply that is not too old.
LEMMA CacheStep ==
  ASSUME TypeOK, CacheInv, CallInv, [Next]_vars PROVE CacheInv'
<1> USE RemoteAssumption
<1>0. \A c \in Callers : call[c] \in Calls /\ call[c].set \in Sets
  BY DEF TypeOK, Calls
<1>1. CASE Tick \/ Rotate
  BY <1>1 DEF Tick, Rotate, CacheInv, TypeOK, Sets
<1>2. ASSUME NEW c \in Callers, Record(c) PROVE CacheInv'
  <2>1. CASE call[c].err
    <3>1. cached.at <= now
      BY DEF CacheInv, NoSet, TypeOK
    <3> QED
      BY <1>2, <2>1, <3>1 DEF Record, CacheInv
  <2>2. CASE ~call[c].err
    <3>1. cached' = call[c].set /\ expiresAt' = now + call[c].set.ttl /\ ~lastErr'
      BY <1>2, <2>2 DEF Record
    <3>2. /\ call[c].set.ver <= published
          /\ call[c].at <= call[c].set.at /\ call[c].set.at <= now
          /\ now - call[c].at <= Timeout
      BY <1>2, <2>2 DEF Record, CallInv, ReplyOK, FetchOK, Fetching
    <3>3. expiresAt' <= call[c].set.at + call[c].set.ttl + Timeout
      BY <1>0, <3>1, <3>2 DEF Calls, Sets, TypeOK
    <3> QED
      BY <1>2, <3>1, <3>2, <3>3 DEF Record, CacheInv
  <2> QED
    BY <2>1, <2>2
<1>3. CASE UNCHANGED <<now, published, cached, expiresAt, lastErr, errAt>>
  BY <1>3 DEF CacheInv
<1> QED
  BY <1>1, <1>2, <1>3
  DEF Next, Work, Fetch, vars, KeySetHit, KeySetMiss, Refresh, ShareCached, ShareError,
      StartFetch, Served, FetchFails, Return

\* What a call has in hand.  The cache does not change under a call that
\* fetches, because it holds refreshMu.
LEMMA CallStep ==
  ASSUME TypeOK, MutexInv, CacheInv, CallInv, [Next]_vars PROVE CallInv'
<1> USE RemoteAssumption
<1>0. /\ call \in [Callers -> Calls]
      /\ \A c \in Callers : call[c] \in Calls /\ call[c].set \in Sets
      /\ cached \in Sets /\ now \in Int /\ published \in 0..MaxRotations
  BY DEF TypeOK, Calls
<1>1. CASE Tick
  BY <1>0, <1>1 DEF Tick, CallInv, FetchOK, ReplyOK, Fetching, Calls, Sets
<1>2. CASE Rotate
  BY <1>0, <1>2 DEF Rotate, CallInv, FetchOK, ReplyOK, Fetching, Calls, Sets
<1>3. ASSUME NEW c \in Callers, KeySetHit(c) \/ KeySetMiss(c) \/ Refresh(c) \/ Return(c)
      PROVE  CallInv'
  BY <1>3, BeginStep DEF CallInv, FetchOK, ReplyOK, Fetching
<1>4. ASSUME NEW c \in Callers, ShareCached(c) \/ ShareError(c) PROVE CallInv'
  BY <1>0, <1>4 DEF ShareCached, ShareError, CallInv, FetchOK, ReplyOK, Fetching, Calls
<1>5. ASSUME NEW c \in Callers, StartFetch(c) PROVE CallInv'
  BY <1>0, <1>5 DEF StartFetch, CallInv, FetchOK, ReplyOK, Fetching, Calls
<1>6. ASSUME NEW c \in Callers, NEW ages, Served(c, ages) PROVE CallInv'
  <2> DEFINE s == [ver |-> published, at |-> now, ttl |-> Lifetime(ages)]
  <2>1. /\ call'[c].pc = "reply" /\ call'[c].set = s
        /\ call'[c].since = call[c].since /\ call'[c].at = call[c].at
    BY <1>0, <1>6 DEF Served, Calls
  <2>2. \A d \in Callers : d # c => call'[d] = call[d]
    BY <1>0, <1>6 DEF Served
  <2>3. UNCHANGED <<now, published, cached>> /\ call[c].pc = "fetch"
    BY <1>6 DEF Served
  <2>4. FetchOK(c) /\ call[c].since <= published /\ cached.ver <= published
    BY DEF CallInv, CacheInv
  <2>5. call'[c].since <= published' /\ FetchOK(c)' /\ ReplyOK(c)'
    BY <1>0, <2>1, <2>3, <2>4 DEF FetchOK, ReplyOK, Fetching
  <2>6. ASSUME NEW d \in Callers, d # c
        PROVE  call'[d].since <= published' /\ FetchOK(d)' /\ ReplyOK(d)'
    BY <2>2, <2>3, <2>6 DEF CallInv, FetchOK, ReplyOK, Fetching
  <2> QED
    BY <2>5, <2>6 DEF CallInv
<1>7. ASSUME NEW c \in Callers, FetchFails(c) PROVE CallInv'
  BY <1>0, <1>7 DEF FetchFails, CallInv, FetchOK, ReplyOK, Fetching, Calls
<1>8. ASSUME NEW c \in Callers, Record(c) PROVE CallInv'
  <2>1. \A d \in Callers : d # c => ~Fetching(d)
    BY <1>8 DEF MutexInv, Record, Fetching
  <2>2. \A d \in Callers : ~Fetching(d)' /\ call'[d].since = call[d].since
    BY <1>0, <1>8, <2>1 DEF Record, Fetching, Calls
  <2> QED
    BY <1>8, <2>2 DEF Record, CallInv, FetchOK, ReplyOK, Fetching
<1>9. CASE UNCHANGED vars
  BY <1>9 DEF vars, CallInv, FetchOK, ReplyOK, Fetching
<1> QED
  BY <1>1, <1>2, <1>3, <1>4, <1>5, <1>6, <1>7, <1>8, <1>9 DEF Next, Work, Fetch

\* Errors come with the end of a call or of its request.
LEMMA WaitStep == TypeOK /\ WaitInv /\ [Next]_vars => WaitInv'
<1> SUFFICES ASSUME TypeOK, WaitInv, [Next]_vars PROVE WaitInv'
  OBVIOUS
<1> USE DEF WaitInv
<1>0. call \in [Callers -> Calls] /\ \A c \in Callers : call[c] \in Calls
  BY DEF TypeOK
<1>1. CASE Tick \/ Rotate \/ UNCHANGED vars
  BY <1>1 DEF Tick, Rotate, vars
<1>2. ASSUME NEW c \in Callers, KeySetHit(c) \/ Return(c) PROVE WaitInv'
  <2>1. /\ call'[c].pc \in {"done", "idle"}
        /\ \A d \in Callers : d # c => call'[d] = call[d]
    <3>1. CASE KeySetHit(c)
      BY <1>0, <3>1 DEF KeySetHit, Begun, Idle
    <3>2. CASE Return(c)
      BY <1>0, <3>2 DEF Return, Idle
    <3> QED
      BY <1>2, <3>1, <3>2
  <2> QED
    BY <2>1
<1>3. ASSUME NEW c \in Callers, KeySetMiss(c) \/ Refresh(c) PROVE WaitInv'
  <2>1. ~call'[c].err /\ \A d \in Callers : d # c => call'[d] = call[d]
    BY <1>0, <1>3 DEF KeySetMiss, Refresh, Begun, Idle
  <2> QED
    BY <2>1
<1>4. ASSUME NEW c \in Callers, StartFetch(c) PROVE WaitInv'
  <2>1. /\ call[c].pc = "wait" /\ call'[c].err = call[c].err
        /\ \A d \in Callers : d # c => call'[d] = call[d]
    BY <1>0, <1>4 DEF StartFetch, Calls
  <2> QED
    BY <2>1
<1>5. ASSUME NEW c \in Callers, ShareCached(c) \/ ShareError(c) \/ Fetch(c) \/ Record(c)
      PROVE  WaitInv'
  <2>1. /\ call'[c].pc \in {"done", "reply"}
        /\ \A d \in Callers : d # c => call'[d] = call[d]
    <3>1. CASE ShareCached(c)
      BY <1>0, <3>1 DEF ShareCached, Calls
    <3>2. CASE ShareError(c)
      BY <1>0, <3>2 DEF ShareError, Calls
    <3>3. CASE Fetch(c)
      BY <1>0, <3>3 DEF Fetch, Served, FetchFails, Calls
    <3>4. CASE Record(c)
      BY <1>0, <3>4 DEF Record, Calls
    <3> QED
      BY <1>5, <3>1, <3>2, <3>3, <3>4
  <2> QED
    BY <2>1
<1> QED
  BY <1>1, <1>2, <1>3, <1>4, <1>5 DEF Next, Work

\* What the finished calls returned.
LEMMA DoneStep ==
  ASSUME TypeOK, MutexInv, CacheInv, CallInv, BoundedStaleness, RefreshSeesRotation,
         [Next]_vars
  PROVE  BoundedStaleness' /\ RefreshSeesRotation'
<1> USE RemoteAssumption DEF BoundedStaleness, RefreshSeesRotation
<1>0. /\ call \in [Callers -> Calls]
      /\ \A c \in Callers : call[c] \in Calls /\ call[c].set \in Sets
      /\ cached \in Sets /\ now \in Int /\ expiresAt \in Int
  BY DEF TypeOK, Calls
<1>1. CASE Tick \/ Rotate \/ UNCHANGED vars
  BY <1>1 DEF Tick, Rotate, vars
<1>2. ASSUME Fresh PROVE now - cached.at <= cached.ttl + Timeout
  BY <1>0, <1>2 DEF Fresh, CacheInv, Sets
<1>3. ASSUME NEW c \in Callers, KeySetHit(c) \/ KeySetMiss(c) \/ Refresh(c) \/ Return(c)
      PROVE  BoundedStaleness' /\ RefreshSeesRotation'
  BY <1>2, <1>3, BeginStep
<1>4. ASSUME NEW c \in Callers, ShareCached(c) PROVE BoundedStaleness' /\ RefreshSeesRotation'
  <2>1. /\ call'[c].set = cached /\ call'[c].at = now /\ ~call'[c].force
        /\ \A d \in Callers : d # c => call'[d] = call[d]
    BY <1>0, <1>4 DEF ShareCached, Calls
  <2> QED
    BY <1>2, <1>4, <2>1 DEF ShareCached
<1>5. ASSUME NEW c \in Callers, ShareError(c) PROVE BoundedStaleness' /\ RefreshSeesRotation'
  <2>1. call'[c].err /\ \A d \in Callers : d # c => call'[d] = call[d]
    BY <1>0, <1>5 DEF ShareError, Calls
  <2> QED
    BY <2>1
<1>6. ASSUME NEW c \in Callers, StartFetch(c) \/ Fetch(c)
      PROVE  BoundedStaleness' /\ RefreshSeesRotation'
  <2>1. call'[c].pc # "done" /\ \A d \in Callers : d # c => call'[d] = call[d]
    BY <1>0, <1>6 DEF StartFetch, Fetch, Served, FetchFails, Calls
  <2> QED
    BY <2>1
<1>7. ASSUME NEW c \in Callers, Record(c) PROVE BoundedStaleness' /\ RefreshSeesRotation'
  <2>1. /\ call'[c].set = call[c].set /\ call'[c].err = call[c].err
        /\ call'[c].force = call[c].force /\ call'[c].since = call[c].since
        /\ call'[c].at = now
        /\ \A d \in Callers : d # c => call'[d] = call[d]
    BY <1>0, <1>7 DEF Record, Calls
  <2>2. ASSUME ~call[c].err
        PROVE  /\ now - call[c].set.at <= call[c].set.ttl + Timeout
               /\ call[c].since <= call[c].set.ver
    <3>1. /\ call[c].at <= call[c].set.at /\ now - call[c].at <= Timeout
          /\ call[c].since <= call[c].set.ver
      BY <1>7, <2>2 DEF Record, CallInv, FetchOK, ReplyOK, Fetching
    <3> QED
      BY <1>0, <3>1 DEF Calls, Sets
  <2>3. call[c].set.ver \in Int /\ call[c].since \in Int
    BY <1>0 DEF Calls, Sets
  <2> QED
    BY <2>1, <2>2, <2>3
<1> QED
  BY <1>1, <1>3, <1>4, <1>5, <1>6, <1>7 DEF Next, Work

\* A call of KeySet that fetches found nothing to share, and while it holds
\* refreshMu nothing is recorded.
LEMMA StampedeStep ==
  ASSUME TypeOK, MutexInv, NoStampede, [Next]_vars PROVE NoStampede'
<1> USE RemoteAssumption DEF NoStampede
<1>0. /\ call \in [Callers -> Calls] /\ \A c \in Callers : call[c] \in Calls
      /\ now \in Int /\ expiresAt \in Int /\ errAt \in Int
  BY DEF TypeOK
<1>1. CASE Tick
  BY <1>0, <1>1 DEF Tick, Fresh, Embargo
<1>2. ASSUME NEW c \in Callers, KeySetHit(c) \/ KeySetMiss(c) \/ Refresh(c) \/ Return(c)
      PROVE  NoStampede'
  <2>1. /\ call'[c].pc \notin {"fetch", "reply"} /\ \A d \in Callers : d # c => call'[d] = call[d]
        /\ Fresh' = Fresh /\ Embargo' = Embargo
    BY <1>2, BeginStep DEF Fresh, Embargo
  <2> QED
    BY <2>1
<1>3. ASSUME NEW c \in Callers, ShareCached(c) \/ ShareError(c) PROVE NoStampede'
  <2>1. /\ call'[c].pc = "done" /\ \A d \in Callers : d # c => call'[d] = call[d]
        /\ Fresh' = Fresh /\ Embargo' = Embargo
    BY <1>0, <1>3 DEF ShareCached, ShareError, Calls, Fresh, Embargo
  <2> QED
    BY <2>1
<1>4. ASSUME NEW c \in Callers, StartFetch(c) \/ Fetch(c) PROVE NoStampede'
  <2>1. /\ call'[c].force = call[c].force
        /\ \A d \in Callers : d # c => call'[d] = call[d]
        /\ Fresh' = Fresh /\ Embargo' = Embargo
    BY <1>0, <1>4 DEF StartFetch, Fetch, Served, FetchFails, Calls, Fresh, Embargo
  <2>2. call[c].force \/ (~Fresh /\ ~Embargo)
    BY <1>4 DEF StartFetch, Fetch, Served, FetchFails
  <2> QED
    BY <2>1, <2>2
<1>5. ASSUME NEW c \in Callers, Record(c) PROVE NoStampede'
  <2>1. \A d \in Callers : ~Fetching(d)'
    BY <1>0, <1>5 DEF Record, MutexInv, Fetching, Calls
  <2> QED
    BY <2>1 DEF Fetching
<1>6. CASE Rotate \/ UNCHANGED vars
  BY <1>6 DEF Rotate, vars, Fresh, Embargo
<1> QED
  BY <1>1, <1>2, <1>3, <1>4, <1>5, <1>6 DEF Next, Work

\* The inductive invariant: refreshMu is held by the one call that fetches,
\* and what the cache and the calls hold is as new as the requests that
\* brought it.
THEOREM InvHolds == Spec => []IInv
<1>1. IInv /\ [Next]_vars => IInv'
  BY TypeStep, MutexStep, CacheStep, CallStep, WaitStep, DoneStep, StampedeStep DEF IInv
<1> QED
  BY InitInv, <1>1, PTL DEF Spec

\* The types of the cache, the lock and the calls.
THEOREM TypeCorrect == Spec => []TypeOK
<1>1. IInv => TypeOK
  BY DEF IInv
<1> QED
  BY InvHolds, <1>1, PTL

\* KeySet and Refresh return no set that is older than its lifetime and one
\* request.
THEOREM StalenessBounded == Spec => []BoundedStaleness
<1>1. IInv => BoundedStaleness
  BY DEF IInv
<1> QED
  BY InvHolds, <1>1, PTL

\* Refresh returns what was published when it was called, or newer.
THEOREM RotationSeen == Spec => []RefreshSeesRotation
<1>1. IInv => RefreshSeesRotation
  BY DEF IInv
<1> QED
  BY InvHolds, <1>1, PTL

\* cachedOrFetch makes no request while it could share a result.
THEOREM StampedeAvoided == Spec => []NoStampede
<1>1. IInv => NoStampede
  BY DEF IInv
<1> QED
  BY InvHolds, <1>1, PTL

\* KeySet fails only without a fresh set, for its own failed request or for a
\* failure that is recent and has not been made up for: what it reports is
\* never older than NegativeTTL.
THEOREM ErrorsHaveCause == Spec => ErrorsJustified
<1> DEFINE Justified(c) ==
             call[c].pc # "done" /\ call'[c].pc = "done" /\ call'[c].err /\ ~call'[c].force =>
               /\ ~Fresh
               /\ Fetching(c) \/ (lastErr /\ now - errAt < NegativeTTL /\ cached.at <= errAt)
<1>1. IInv /\ [Next]_vars => [\A c \in Callers : Justified(c)]_vars
  <2> SUFFICES ASSUME IInv, [Next]_vars, NEW d \in Callers PROVE Justified(d)
    OBVIOUS
  <2>0. call \in [Callers -> Calls] /\ (\A c \in Callers : call[c] \in Calls) /\ TypeOK
    BY DEF IInv, TypeOK
  <2>1. CASE Tick \/ Rotate \/ UNCHANGED vars
    BY <2>1 DEF Tick, Rotate, vars
  <2>2. ASSUME NEW c \in Callers, KeySetHit(c) \/ KeySetMiss(c) \/ Refresh(c) \/ Return(c)
        PROVE  Justified(d)
    BY <2>0, <2>2, BeginStep
  <2>3. ASSUME NEW c \in Callers, ShareCached(c) PROVE Justified(d)
    <3>1. /\ c # d => call'[d] = call[d]
          /\ call'[c].err = call[c].err /\ call[c].pc = "wait"
      BY <2>0, <2>3 DEF ShareCached, Calls
    <3>2. ~call[c].err
      BY <3>1 DEF IInv, WaitInv
    <3> QED
      BY <3>1, <3>2
  <2>4. ASSUME NEW c \in Callers, ShareError(c) PROVE Justified(d)
    <3>1. c # d => call'[d] = call[d]
      BY <2>0, <2>4 DEF ShareError
    <3>2. ~Fresh /\ lastErr /\ now - errAt < NegativeTTL
      BY <2>4 DEF ShareError, Embargo
    <3>3. cached.at <= errAt
      BY <3>2 DEF IInv, CacheInv
    <3> QED
      BY <3>1, <3>2, <3>3
  <2>5. ASSUME NEW c \in Callers, StartFetch(c) \/ Fetch(c) PROVE Justified(d)
    <3>1. call'[c].pc # "done" /\ (c # d => call'[d] = call[d])
      BY <2>0, <2>5 DEF StartFetch, Fetch, Served, FetchFails, Calls
    <3> QED
      BY <3>1
  <2>6. ASSUME NEW c \in Callers, Record(c) PROVE Justified(d)
    <3>1. /\ c # d => call'[d] = call[d]
          /\ call'[c].force = call[c].force /\ Fetching(c) /\ call[c].pc = "reply"
      BY <2>0, <2>6 DEF Record, Calls, Fetching
    <3>2. ~call[c].force => ~Fresh
      BY <3>1 DEF IInv, NoStampede
    <3> QED
      BY <3>1, <3>2
  <2> QED
    BY <2>1, <2>2, <2>3, <2>4, <2>5, <2>6 DEF Next, Work
<1> QED
  BY InvHolds, <1>1, PTL DEF Spec, ErrorsJustified

\* fetchLocked never replaces a key set by an older one.
THEOREM CacheMovesOn == Spec => NeverBack
<1>1. IInv /\ [Next]_vars => [cached'.ver >= cached.ver]_vars
  <2> SUFFICES ASSUME IInv, [Next]_vars PROVE cached'.ver >= cached.ver
    OBVIOUS
  <2>0. cached \in Sets /\ cached.ver \in Int
    BY DEF IInv, TypeOK, Sets
  <2>1. ASSUME NEW c \in Callers, Record(c) PROVE cached'.ver >= cached.ver
    <3>1. CASE call[c].err
      BY <2>0, <2>1, <3>1 DEF Record
    <3>2. CASE ~call[c].err
      <4>1. cached' = call[c].set /\ cached.ver <= call[c].set.ver
        BY <2>1, <3>2 DEF Record, IInv, CallInv, ReplyOK
      <4>2. call[c].set.ver \in Int
        BY DEF IInv, TypeOK, Calls, Sets
      <4> QED
        BY <2>0, <4>1, <4>2
    <3> QED
      BY <3>1, <3>2
  <2>2. CASE UNCHANGED cached
    BY <2>0, <2>2
  <2> QED
    BY <2>1, <2>2
    DEF Next, Work, Fetch, vars, Tick, Rotate, KeySetHit, KeySetMiss, Refresh, ShareCached,
        ShareError, StartFetch, Served, FetchFails, Return
<1> QED
  BY InvHolds, <1>1, PTL DEF Spec, NeverBack
=============================================================================
