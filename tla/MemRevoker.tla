----------------------------- MODULE MemRevoker -----------------------------
(***************************************************************************)
(* revocation.MemRevoker: a map from revocation key to the instant its     *)
(* entry lapses (the zero time meaning never), shared by every goroutine   *)
(* that revokes, cleans up or verifies.                                    *)
(*                                                                         *)
(* Each critical section of the RWMutex is one action.  What the code does *)
(* outside them is a step of its own: Revoked reads the entry under the    *)
(* read lock and the clock after releasing it; Cleanup reads the clock     *)
(* before taking the write lock.                                           *)
(***************************************************************************)
EXTENDS Integers

CONSTANTS Keys,        \* non-empty strings used as revocation keys
          NoKey,       \* the empty string: nothing could be extracted
          NilToken,    \* stands for a nil token argument
          Readers,     \* goroutines calling Revoked
          Sweepers,    \* goroutines calling Cleanup
          MaxTime      \* bound on the clock and on every until

ASSUME RevokerAssumption ==
  /\ NoKey \notin Keys /\ NilToken \notin Keys /\ NoKey # NilToken
  /\ MaxTime \in Nat \ {0}

VARIABLES now,         \* what m.now() returns
          revoked,     \* the map m.revoked
          lookup,      \* reader -> the state of its call of Revoked
          sweep,       \* sweeper -> the clock its Cleanup read, or Asleep
          seen,        \* history: verdicts that were right during the call
          rewritten    \* history: readers whose key was written during the call

vars == <<now, revoked, lookup, sweep, seen, rewritten>>

Forever == 0     \* time.Time{}: until.IsZero()
Absent  == -1    \* no entry in the map
Asleep  == 0     \* Cleanup not running

Times  == 1..MaxTime
Untils == 0..MaxTime
Asked  == Keys \cup {NoKey, NilToken}

Idle == [pc |-> "idle", key |-> NoKey, until |-> Absent, answer |-> "clear"]

\* The expiry test that both Cleanup and Revoked apply to an entry.
Lapsed(until, t) == until # Forever /\ t >= until

\* What a lookup of k would answer if it ran in one instant.
Verdict(k) ==
  IF k = NilToken THEN "error"
  ELSE IF k = NoKey \/ revoked[k] = Absent \/ Lapsed(revoked[k], now) THEN "clear"
  ELSE "revoked"

Pending(r) == lookup[r].pc \in {"called", "read"}

\* History: every pending call sees the verdict of the new instant.
Observe ==
  seen' = [r \in Readers |-> IF Pending(r)
                             THEN seen[r] \cup {Verdict(lookup[r].key)'}
                             ELSE seen[r]]

Rewrites(k) ==
  rewritten' = rewritten \cup
                 {r \in Readers : Pending(r) /\ k \in Keys /\ lookup[r].key = k}

-----------------------------------------------------------------------------
\* NewMemRevoker: an empty map.
Init ==
  /\ now = 1
  /\ revoked = [k \in Keys |-> Absent]
  /\ lookup = [r \in Readers |-> Idle]
  /\ sweep = [s \in Sweepers |-> Asleep]
  /\ seen = [r \in Readers |-> {}]
  /\ rewritten = {}

Tick ==
  /\ now < MaxTime
  /\ now' = now + 1
  /\ UNCHANGED <<revoked, lookup, sweep, rewritten>>
  /\ Observe

\* Mutant: the until argument is taken for a lifetime.
RevokeForTTL(k, until) ==
  /\ revoked' = [j \in Keys |-> IF j = k THEN now + until ELSE revoked[j]]
  /\ UNCHANGED <<now, lookup, sweep>>
  /\ Observe
  /\ Rewrites(k)

\* RevokeUntil overwrites whatever entry the key has; Revoke is RevokeUntil
\* with the zero time.  The empty key is ignored.
RevokeUntil(k, until) ==
  /\ revoked' = [j \in Keys |-> IF j = k THEN until ELSE revoked[j]]
  /\ UNCHANGED <<now, lookup, sweep>>
  /\ Observe
  /\ Rewrites(k)

Unrevoke(k) ==
  /\ revoked' = [revoked EXCEPT ![k] = Absent]
  /\ UNCHANGED <<now, lookup, sweep>>
  /\ Observe
  /\ Rewrites(k)

\* Cleanup, first half: the clock is read before the lock is taken.
CleanupClock(s) ==
  /\ sweep[s] = Asleep
  /\ sweep' = [sweep EXCEPT ![s] = now]
  /\ UNCHANGED <<now, revoked, lookup, seen, rewritten>>

\* Mutant: Cleanup forgets that the zero time means forever.
CleanupSweepZero(s) ==
  /\ sweep[s] # Asleep
  /\ revoked' = [k \in Keys |-> IF sweep[s] >= revoked[k] THEN Absent ELSE revoked[k]]
  /\ sweep' = [sweep EXCEPT ![s] = Asleep]
  /\ UNCHANGED <<now, lookup, rewritten>>
  /\ Observe

\* Cleanup, second half: under the lock, with a clock that may be old.
CleanupSweep(s) ==
  /\ sweep[s] # Asleep
  /\ revoked' = [k \in Keys |-> IF Lapsed(revoked[k], sweep[s])
                                THEN Absent ELSE revoked[k]]
  /\ sweep' = [sweep EXCEPT ![s] = Asleep]
  /\ UNCHANGED <<now, lookup, rewritten>>
  /\ Observe

\* Revoked is entered: k is the key its token will yield.
LookupCall(r, k) ==
  /\ lookup[r].pc = "idle"
  /\ lookup' = [lookup EXCEPT ![r] = [pc |-> "called", key |-> k, until |-> Absent,
                                      answer |-> "clear"]]
  /\ seen' = [seen EXCEPT ![r] = {Verdict(k)}]
  /\ rewritten' = rewritten \ {r}
  /\ UNCHANGED <<now, revoked, sweep>>

Answered(r, a) ==
  [lookup EXCEPT ![r] = [pc |-> "done", key |-> lookup[r].key, until |-> lookup[r].until,
                         answer |-> a]]

\* The early returns: a nil token, a token without a key, no entry.
LookupMiss(r) ==
  /\ lookup[r].pc = "called"
  /\ LET k == lookup[r].key IN
     \/ /\ k = NilToken
        /\ lookup' = Answered(r, "error")
     \/ /\ \/ k = NoKey
           \/ k \in Keys /\ revoked[k] = Absent
        /\ lookup' = Answered(r, "clear")
  /\ UNCHANGED <<now, revoked, sweep, seen, rewritten>>

\* The entry is copied out under the read lock.
LookupRead(r) ==
  /\ lookup[r].pc = "called"
  /\ lookup[r].key \in Keys
  /\ revoked[lookup[r].key] # Absent
  /\ lookup' = [lookup EXCEPT ![r] = [pc |-> "read", key |-> lookup[r].key,
                                      until |-> revoked[lookup[r].key],
                                      answer |-> lookup[r].answer]]
  /\ UNCHANGED <<now, revoked, sweep, seen, rewritten>>

\* Mutant: now.After(until) for !now.Before(until).
LookupDecideAfter(r) ==
  /\ lookup[r].pc = "read"
  /\ lookup' = Answered(r, IF lookup[r].until # Forever /\ now > lookup[r].until
                           THEN "clear" ELSE "revoked")
  /\ UNCHANGED <<now, revoked, sweep, seen, rewritten>>

\* After RUnlock: the copy is compared with the clock of this later instant.
LookupDecide(r) ==
  /\ lookup[r].pc = "read"
  /\ lookup' = Answered(r, IF Lapsed(lookup[r].until, now) THEN "clear" ELSE "revoked")
  /\ UNCHANGED <<now, revoked, sweep, seen, rewritten>>

LookupReturn(r) ==
  /\ lookup[r].pc = "done"
  /\ lookup' = [lookup EXCEPT ![r] = Idle]
  /\ seen' = [seen EXCEPT ![r] = {}]
  /\ rewritten' = rewritten \ {r}
  /\ UNCHANGED <<now, revoked, sweep>>

Next ==
  \/ Tick
  \/ \E k \in Keys \cup {NoKey}, u \in Untils : RevokeUntil(k, u)
  \/ \E k \in Keys : Unrevoke(k)
  \/ \E s \in Sweepers : CleanupClock(s) \/ CleanupSweep(s)
  \/ \E r \in Readers, k \in Asked : LookupCall(r, k)
  \/ \E r \in Readers : LookupMiss(r) \/ LookupRead(r) \/ LookupDecide(r) \/ LookupReturn(r)

Spec == Init /\ [][Next]_vars

-----------------------------------------------------------------------------
\* Type invariant of the map, of the two kinds of call and of the history.
TypeOK ==
  /\ now \in Times
  /\ revoked \in [Keys -> Untils \cup {Absent}]
  /\ lookup \in [Readers -> [pc : {"idle", "called", "read", "done"}, key : Asked,
                             until : Untils \cup {Absent},
                             answer : {"revoked", "clear", "error"}]]
  /\ sweep \in [Sweepers -> Untils]
  /\ seen \in [Readers -> SUBSET {"revoked", "clear", "error"}]
  /\ rewritten \subseteq Readers

\* Revoked may interleave with RevokeUntil, Unrevoke, Cleanup and the clock:
\* whatever it answers was right at some instant of the call, except that
\* "clear" may also come from a copy of an entry that was replaced meanwhile.
LookupHonest ==
  \A r \in Readers :
    lookup[r].pc = "done" =>
      \/ lookup[r].answer \in seen[r]
      \/ lookup[r].answer = "clear" /\ r \in rewritten

\* The refinement mapping: the entries that still have effect, and the
\* answers the promise allows.  Cleanup is then a step of nobody.
Effective == [k \in Keys |-> IF Lapsed(revoked[k], now) THEN Absent ELSE revoked[k]]

AbstractCall ==
  [r \in Readers |-> [pc     |-> IF Pending(r) THEN "pending" ELSE lookup[r].pc,
                      key    |-> lookup[r].key,
                      answer |-> lookup[r].answer]]

MayAnswer == [r \in Readers |-> IF r \in rewritten THEN seen[r] \cup {"clear"} ELSE seen[r]]

Promise == INSTANCE Denylist
             WITH denied <- Effective, call <- AbstractCall, may <- MayAnswer

\* MemRevoker keeps the promise of a denylist: lapsed entries, Cleanup with
\* its old clock and the two halves of Revoked are invisible to callers.
KeepsPromise == Promise!Spec
=============================================================================
