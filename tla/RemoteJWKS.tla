----------------------------- MODULE RemoteJWKS -----------------------------
(***************************************************************************)
(* jwks.Remote: the cache of an issuer's published key set, shared by      *)
(* goroutines that call KeySet (or PublicKey) and Refresh.                 *)
(*                                                                         *)
(* Two locks: mu guards the cache fields for an instant at a time, and     *)
(* refreshMu is held across the HTTP request.  A critical section of mu is *)
(* one action; while one caller holds refreshMu nobody else can change the *)
(* cache, so taking refreshMu and looking at the cache again is one action *)
(* too.  The issuer is external: it rotates its keys, answers with or      *)
(* without a max-age, and fails; a caller's context may be cancelled.      *)
(* A key set is its version: the number of rotations before it.            *)
(***************************************************************************)
EXTENDS Integers, FiniteSetsExt

CONSTANTS Callers,
          NoCaller,      \* nobody holds refreshMu
          TTL,           \* WithTTL
          NegativeTTL,   \* WithNegativeTTL; 0 disables the negative cache
          Timeout,       \* of the http.Client: how long a request may take
          MaxAges,       \* max-age values the issuer sends
          MaxTime, MaxRotations

ASSUME RemoteAssumption ==
  /\ NoCaller \notin Callers
  /\ TTL \in Nat \ {0} /\ NegativeTTL \in Nat /\ Timeout \in Nat
  /\ MaxAges \subseteq Nat
  /\ MaxTime \in Nat /\ MaxRotations \in Nat

VARIABLES now,
          published,     \* version the issuer serves
          cached,        \* r.cached, or NoSet
          expiresAt,     \* r.expiresAt
          lastErr,       \* r.lastErr # nil
          errAt,         \* r.errAt
          refreshMu,     \* holder of r.refreshMu
          call           \* caller -> its call

vars == <<now, published, cached, expiresAt, lastErr, errAt, refreshMu, call>>

NoSet == [ver |-> -1, at |-> -1, ttl |-> 0]
Sets  == [ver : -1..MaxRotations, at : -1..MaxTime, ttl : 0..TTL]

\* set and err are what the call has in hand, at when it got it; since is the
\* version published when the call began.
Idle == [pc |-> "idle", force |-> FALSE, set |-> NoSet, err |-> FALSE, at |-> 0, since |-> 0]

\* Mutant: a set that was fetched once is good for ever.
FreshForever == cached # NoSet

\* The tests on expiresAt and on errAt.
Fresh     == cached # NoSet /\ now < expiresAt
Embargo   == lastErr /\ NegativeTTL > 0 /\ now - errAt < NegativeTTL
Fetching(c) == call[c].pc \in {"fetch", "reply"}

Init ==
  /\ now = 0
  /\ published = 0
  /\ cached = NoSet
  /\ expiresAt = 0
  /\ lastErr = FALSE
  /\ errAt = 0
  /\ refreshMu = NoCaller
  /\ call = [c \in Callers |-> Idle]

-----------------------------------------------------------------------------
\* The http.Client gives up on a request after Timeout.
Tick ==
  /\ now < MaxTime
  /\ \A c \in Callers : Fetching(c) => now - call[c].at < Timeout
  /\ now' = now + 1
  /\ UNCHANGED <<published, cached, expiresAt, lastErr, errAt, refreshMu, call>>

Rotate ==
  /\ published < MaxRotations
  /\ published' = published + 1
  /\ UNCHANGED <<now, cached, expiresAt, lastErr, errAt, refreshMu, call>>

Begun(force) == [Idle EXCEPT !.pc = "wait", !.force = force, !.since = published]

\* KeySet, fast path: answered from the cache.
KeySetHit(c) ==
  /\ call[c].pc = "idle" /\ Fresh
  /\ call' = [call EXCEPT ![c] = [Begun(FALSE) EXCEPT !.pc = "done", !.set = cached, !.at = now]]
  /\ UNCHANGED <<now, published, cached, expiresAt, lastErr, errAt, refreshMu>>

KeySetMiss(c) ==
  /\ call[c].pc = "idle" /\ ~Fresh
  /\ call' = [call EXCEPT ![c] = Begun(FALSE)]
  /\ UNCHANGED <<now, published, cached, expiresAt, lastErr, errAt, refreshMu>>

\* Mutant: Refresh is content with a fresh cache.
RefreshLazily(c) ==
  /\ call[c].pc = "idle"
  /\ call' = [call EXCEPT ![c] = IF Fresh
                                 THEN [Begun(TRUE) EXCEPT !.pc = "done", !.set = cached, !.at = now]
                                 ELSE Begun(TRUE)]
  /\ UNCHANGED <<now, published, cached, expiresAt, lastErr, errAt, refreshMu>>

\* Refresh never looks at the cache.
Refresh(c) ==
  /\ call[c].pc = "idle"
  /\ call' = [call EXCEPT ![c] = Begun(TRUE)]
  /\ UNCHANGED <<now, published, cached, expiresAt, lastErr, errAt, refreshMu>>

\* cachedOrFetch with refreshMu held: the cache was filled meanwhile, or the
\* last failure is too recent.
ShareCached(c) ==
  /\ call[c].pc = "wait" /\ ~call[c].force /\ refreshMu = NoCaller
  /\ Fresh
  /\ call' = [call EXCEPT ![c].pc = "done", ![c].set = cached, ![c].at = now]
  /\ UNCHANGED <<now, published, cached, expiresAt, lastErr, errAt, refreshMu>>

\* Mutant: the negative cache is looked at before the cached set.
ShareErrorFirst(c) ==
  /\ call[c].pc = "wait" /\ ~call[c].force /\ refreshMu = NoCaller
  /\ Embargo
  /\ call' = [call EXCEPT ![c].pc = "done", ![c].err = TRUE, ![c].at = now]
  /\ UNCHANGED <<now, published, cached, expiresAt, lastErr, errAt, refreshMu>>

ShareError(c) ==
  /\ call[c].pc = "wait" /\ ~call[c].force /\ refreshMu = NoCaller
  /\ ~Fresh /\ Embargo
  /\ call' = [call EXCEPT ![c].pc = "done", ![c].err = TRUE, ![c].at = now]
  /\ UNCHANGED <<now, published, cached, expiresAt, lastErr, errAt, refreshMu>>

\* Mutant: no second look at the cache once the lock is held.
StartFetchUnchecked(c) ==
  /\ call[c].pc = "wait" /\ refreshMu = NoCaller
  /\ refreshMu' = c
  /\ call' = [call EXCEPT ![c].pc = "fetch", ![c].at = now]
  /\ UNCHANGED <<now, published, cached, expiresAt, lastErr, errAt>>

\* Mutant: an explicit Refresh does not wait for the fetch in flight.
StartFetchUnlocked(c) ==
  /\ call[c].pc = "wait"
  /\ \/ call[c].force /\ UNCHANGED refreshMu
     \/ ~call[c].force /\ refreshMu = NoCaller /\ ~Fresh /\ ~Embargo /\ refreshMu' = c
  /\ call' = [call EXCEPT ![c].pc = "fetch", ![c].at = now]
  /\ UNCHANGED <<now, published, cached, expiresAt, lastErr, errAt>>

\* fetchLocked begins: by KeySet if nothing can be shared, by Refresh always.
StartFetch(c) ==
  /\ call[c].pc = "wait" /\ refreshMu = NoCaller
  /\ call[c].force \/ (~Fresh /\ ~Embargo)
  /\ refreshMu' = c
  /\ call' = [call EXCEPT ![c].pc = "fetch", ![c].at = now]
  /\ UNCHANGED <<now, published, cached, expiresAt, lastErr, errAt>>

\* Mutant: the server's max-age replaces the configured TTL.
LifetimeServer(ages) == IF ages = {} THEN TTL ELSE Min(ages)

\* doFetch: the lifetime is the smaller of the configured TTL and max-age
\* (ages is empty when the header is absent, unusable or ignored).
Lifetime(ages) == Min({TTL} \cup ages)

\* The issuer answers with the set of this instant.
Served(c, ages) ==
  /\ call[c].pc = "fetch"
  /\ call' = [call EXCEPT ![c].pc = "reply",
                          ![c].set = [ver |-> published, at |-> now, ttl |-> Lifetime(ages)]]
  /\ UNCHANGED <<now, published, cached, expiresAt, lastErr, errAt, refreshMu>>

\* A network error, a bad status, an oversized or undecodable body, duplicate
\* kids; or the context of this caller ends.
FetchFails(c) ==
  /\ call[c].pc = "fetch"
  /\ call' = [call EXCEPT ![c].pc = "reply", ![c].err = TRUE]
  /\ UNCHANGED <<now, published, cached, expiresAt, lastErr, errAt, refreshMu>>

\* Mutant: an early return on the error path keeps refreshMu.
RecordKeepingLock(c) ==
  /\ call[c].pc = "reply"
  /\ IF ~call[c].err
     THEN /\ cached' = call[c].set
          /\ expiresAt' = now + call[c].set.ttl
          /\ lastErr' = FALSE
          /\ refreshMu' = NoCaller
          /\ UNCHANGED errAt
     ELSE /\ lastErr' = TRUE
          /\ errAt' = now
          /\ UNCHANGED <<cached, expiresAt, refreshMu>>
  /\ call' = [call EXCEPT ![c].pc = "done", ![c].at = now]
  /\ UNCHANGED <<now, published>>

\* fetchLocked ends: success replaces the set and clears the error, failure
\* is remembered and leaves the set alone.
Record(c) ==
  /\ call[c].pc = "reply"
  /\ IF ~call[c].err
     THEN /\ cached' = call[c].set
          /\ expiresAt' = now + call[c].set.ttl
          /\ lastErr' = FALSE
          /\ UNCHANGED errAt
     ELSE /\ lastErr' = TRUE
          /\ errAt' = now
          /\ UNCHANGED <<cached, expiresAt>>
  /\ refreshMu' = NoCaller
  /\ call' = [call EXCEPT ![c].pc = "done", ![c].at = now]
  /\ UNCHANGED <<now, published>>

Return(c) ==
  /\ call[c].pc = "done"
  /\ call' = [call EXCEPT ![c] = Idle]
  /\ UNCHANGED <<now, published, cached, expiresAt, lastErr, errAt, refreshMu>>

\* The steps that carry on a call.
Fetch(c) == \/ \E ages \in {{}} \cup {{a} : a \in MaxAges} : Served(c, ages)
            \/ FetchFails(c)
Work(c) == ShareCached(c) \/ ShareError(c) \/ StartFetch(c) \/ Fetch(c) \/ Record(c)

Next == \/ Tick
        \/ Rotate
        \/ \E c \in Callers : KeySetHit(c) \/ KeySetMiss(c) \/ Refresh(c) \/ Work(c) \/ Return(c)

Spec == Init /\ [][Next]_vars

\* The client's timeout ends every request, and Go's mutex lets every waiter
\* in, however often others get it before.
Fairness == \A c \in Callers : SF_vars(Work(c))

FairSpec == Spec /\ Fairness

-----------------------------------------------------------------------------
Calls == [pc : {"idle", "wait", "fetch", "reply", "done"}, force : BOOLEAN, set : Sets,
          err : BOOLEAN, at : 0..MaxTime, since : 0..MaxRotations]

\* Type invariant of the cache, the lock and the calls.
TypeOK ==
  /\ now \in 0..MaxTime /\ published \in 0..MaxRotations
  /\ cached \in Sets /\ expiresAt \in 0..(MaxTime + TTL)
  /\ lastErr \in BOOLEAN /\ errAt \in 0..MaxTime
  /\ refreshMu \in Callers \cup {NoCaller}
  /\ call \in [Callers -> Calls]

\* A key set is never used longer after the issuer sent it than its lifetime
\* (the smaller of TTL and max-age) and the duration of one request.
BoundedStaleness ==
  \A c \in Callers :
    call[c].pc = "done" /\ ~call[c].err =>
      call[c].at - call[c].set.at <= call[c].set.ttl + Timeout

\* Refresh is how a caller learns of a rotation: what it returns is no older
\* than what was published when it was called, whoever else is fetching.
RefreshSeesRotation ==
  \A c \in Callers :
    call[c].pc = "done" /\ call[c].force /\ ~call[c].err =>
      call[c].set.ver >= call[c].since

\* "avoiding stampedes": no KeySet caller is fetching while the cache holds a
\* fresh set, or a failure that is recent enough to be shared.
NoStampede ==
  \A c \in Callers :
    call[c].pc \in {"fetch", "reply"} /\ ~call[c].force => ~Fresh /\ ~Embargo

\* "Failed fetches are remembered for NegativeTTL": KeySet comes back with an
\* error only when no fresh set is at hand, and its own request has failed, or
\* somebody's did less than NegativeTTL ago and none has succeeded since.
ErrorsJustified ==
  [][\A c \in Callers :
       call[c].pc # "done" /\ call'[c].pc = "done" /\ call'[c].err /\ ~call'[c].force =>
         /\ ~Fresh
         /\ Fetching(c) \/ (lastErr /\ now - errAt < NegativeTTL /\ cached.at <= errAt)]_vars

\* The cache never goes back to an older key set, nor to none: a fetch that
\* began earlier cannot overwrite the result of one that began later.
NeverBack == [][cached'.ver >= cached.ver]_vars

\* Every call returns.
CallsReturn == \A c \in Callers : call[c].pc # "idle" ~> call[c].pc \in {"done", "idle"}
=============================================================================
