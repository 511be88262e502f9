-------------------------- MODULE MemRevokerProofs --------------------------
(***************************************************************************)
(* Machine-checked proofs about MemRevoker, for every set of keys, readers *)
(* and sweepers and every bound on the clock.                              *)
(***************************************************************************)
EXTENDS MemRevoker, TLAPS

\* Cleanup never works with a clock from the future.
SweepClockOld == \A s \in Sweepers : sweep[s] <= now

\* A pending call has seen the verdict of the present instant.
SeesPresent == \A r \in Readers : Pending(r) => Verdict(lookup[r].key) \in seen[r]

\* What the copy of an entry, taken under the lock, still tells about the
\* map after the lock is released.
Tells(r) ==
  LET k == lookup[r].key
      u == lookup[r].until
  IN  /\ k \in Keys
      /\ u \in Untils
      /\ ~Lapsed(u, now) => "revoked" \in seen[r]
      /\ Lapsed(u, now) => "clear" \in seen[r] \/ r \in rewritten
      /\ r \notin rewritten => \/ revoked[k] = u
                               \/ revoked[k] = Absent /\ Lapsed(u, now)

CopyTells == \A r \in Readers : lookup[r].pc = "read" => Tells(r)

IInv == TypeOK /\ SweepClockOld /\ SeesPresent /\ CopyTells /\ LookupHonest

-----------------------------------------------------------------------------
\* An empty map with nobody calling satisfies the inductive invariant.
LEMMA InitInv == Init => IInv
BY RevokerAssumption
   DEF Init, IInv, TypeOK, SweepClockOld, SeesPresent, CopyTells, LookupHonest,
       Times, Untils, Asked, Idle, Absent, Asleep, Pending

\* Every step of the map, of a call and of the clock keeps the types.
LEMMA TypeStep == TypeOK /\ [Next]_vars => TypeOK'
<1> SUFFICES ASSUME TypeOK, [Next]_vars PROVE TypeOK'
  OBVIOUS
<1> USE RevokerAssumption DEF TypeOK, Times, Untils, Asked, Absent, Forever, Asleep
<1>1. \A r \in Readers : Verdict(lookup[r].key)' \in {"revoked", "clear", "error"}
  BY DEF Verdict
<1>2. CASE Tick
  BY <1>1, <1>2 DEF Tick, Observe
<1>3. ASSUME NEW k \in Keys \cup {NoKey}, NEW u \in Untils, RevokeUntil(k, u)
      PROVE  TypeOK'
  BY <1>1, <1>3 DEF RevokeUntil, Observe, Rewrites
<1>4. ASSUME NEW k \in Keys, Unrevoke(k) PROVE TypeOK'
  BY <1>1, <1>4 DEF Unrevoke, Observe, Rewrites
<1>5. ASSUME NEW s \in Sweepers, CleanupClock(s) PROVE TypeOK'
  BY <1>5 DEF CleanupClock
<1>6. ASSUME NEW s \in Sweepers, CleanupSweep(s) PROVE TypeOK'
  BY <1>1, <1>6 DEF CleanupSweep, Observe
<1>7. ASSUME NEW r \in Readers, NEW k \in Asked, LookupCall(r, k) PROVE TypeOK'
  <2>1. Verdict(k) \in {"revoked", "clear", "error"}
    BY DEF Verdict
  <2> QED
    BY <1>7, <2>1 DEF LookupCall
<1>8. ASSUME NEW r \in Readers, LookupMiss(r) PROVE TypeOK'
  BY <1>8 DEF Answered, LookupMiss
<1>9. ASSUME NEW r \in Readers, LookupRead(r) PROVE TypeOK'
  <2>1. revoked[lookup[r].key] \in Untils \cup {Absent}
    BY <1>9 DEF LookupRead
  <2> QED
    BY <1>9, <2>1 DEF LookupRead
<1>10. ASSUME NEW r \in Readers, LookupDecide(r) PROVE TypeOK'
  BY <1>10 DEF LookupDecide, Answered, Lapsed
<1>11. ASSUME NEW r \in Readers, LookupReturn(r) PROVE TypeOK'
  BY <1>11 DEF LookupReturn, Idle
<1>12. CASE UNCHANGED vars
  BY <1>12 DEF vars
<1> QED
  BY <1>2, <1>3, <1>4, <1>5, <1>6, <1>7, <1>8, <1>9, <1>10, <1>11, <1>12 DEF Next

\* The type invariant of the revocation map and of the calls on it, for any
\* number of keys and goroutines.
THEOREM TypeCorrect == Spec => []TypeOK
<1>1. Init => TypeOK
  BY InitInv DEF IInv
<1> QED
  BY <1>1, TypeStep, PTL DEF Spec

-----------------------------------------------------------------------------
\* The clock read by Cleanup stays in the past.
LEMMA SweepClockStep == IInv /\ [Next]_vars => SweepClockOld'
<1> SUFFICES ASSUME IInv, [Next]_vars PROVE SweepClockOld'
  OBVIOUS
<1> USE RevokerAssumption DEF IInv, TypeOK, SweepClockOld, Times, Untils, Asleep
<1>1. CASE Tick
  BY <1>1 DEF Tick
<1>2. ASSUME NEW s \in Sweepers, CleanupClock(s) \/ CleanupSweep(s) PROVE SweepClockOld'
  BY <1>2 DEF CleanupClock, CleanupSweep
<1>3. CASE UNCHANGED <<now, sweep>>
  BY <1>3
<1> QED
  BY <1>1, <1>2, <1>3
     DEF Next, vars, RevokeUntil, Unrevoke, LookupCall, Answered, LookupMiss, LookupRead,
         LookupDecide, LookupReturn

\* Whoever changes the map or the clock records the verdict it leaves.
LEMMA SeesPresentStep == IInv /\ [Next]_vars => SeesPresent'
<1> SUFFICES ASSUME IInv, [Next]_vars, NEW q \in Readers, Pending(q)'
             PROVE  Verdict(lookup[q].key)' \in seen'[q]
  BY DEF SeesPresent
<1> USE RevokerAssumption DEF IInv, TypeOK, SeesPresent, Pending
<1>1. CASE Tick
  BY <1>1 DEF Tick, Observe
<1>2. ASSUME NEW k \in Keys \cup {NoKey}, NEW u \in Untils, RevokeUntil(k, u)
      PROVE  Verdict(lookup[q].key)' \in seen'[q]
  BY <1>2 DEF RevokeUntil, Observe
<1>3. ASSUME NEW k \in Keys, Unrevoke(k)
      PROVE  Verdict(lookup[q].key)' \in seen'[q]
  BY <1>3 DEF Unrevoke, Observe
<1>4. ASSUME NEW s \in Sweepers, CleanupClock(s)
      PROVE  Verdict(lookup[q].key)' \in seen'[q]
  BY <1>4 DEF CleanupClock, Verdict
<1>5. ASSUME NEW s \in Sweepers, CleanupSweep(s)
      PROVE  Verdict(lookup[q].key)' \in seen'[q]
  BY <1>5 DEF CleanupSweep, Observe
<1>6. ASSUME NEW r \in Readers, NEW k \in Asked, LookupCall(r, k)
      PROVE  Verdict(lookup[q].key)' \in seen'[q]
  BY <1>6 DEF LookupCall, Verdict
<1>7. ASSUME NEW r \in Readers,
             LookupMiss(r) \/ LookupRead(r) \/ LookupDecide(r) \/ LookupReturn(r)
      PROVE  Verdict(lookup[q].key)' \in seen'[q]
  BY <1>7 DEF Answered, LookupMiss, LookupRead, LookupDecide, LookupReturn, Idle, Verdict
<1>8. CASE UNCHANGED vars
  BY <1>8 DEF vars, Verdict
<1> QED
  BY <1>1, <1>2, <1>3, <1>4, <1>5, <1>6, <1>7, <1>8 DEF Next

\* The copy of an entry: the clock may pass it, Cleanup may reap the entry it
\* was made from, a writer may replace that entry.
LEMMA CopyTellsStep == IInv /\ [Next]_vars => CopyTells'
<1> SUFFICES ASSUME IInv, [Next]_vars, NEW q \in Readers, lookup'[q].pc = "read"
             PROVE  Tells(q)'
  BY DEF CopyTells
<1> USE RevokerAssumption
    DEF IInv, TypeOK, CopyTells, Tells, Times, Untils, Absent, Forever, Lapsed
<1>1. CASE Tick
  <2>1. /\ lookup' = lookup /\ revoked' = revoked /\ rewritten' = rewritten
        /\ now' = now + 1
        /\ seen'[q] = seen[q] \cup {Verdict(lookup[q].key)'}
    BY <1>1 DEF Tick, Observe, Pending
  <2>2. q \notin rewritten /\ Lapsed(lookup[q].until, now') => Verdict(lookup[q].key)' = "clear"
    BY <2>1 DEF Verdict
  <2> QED
    BY <2>1, <2>2
<1>2. ASSUME NEW j \in Keys \cup {NoKey}, NEW v \in Untils, RevokeUntil(j, v)
      PROVE  Tells(q)'
  BY <1>2 DEF RevokeUntil, Observe, Rewrites, Pending
<1>3. ASSUME NEW j \in Keys, Unrevoke(j) PROVE Tells(q)'
  BY <1>3 DEF Unrevoke, Observe, Rewrites, Pending
<1>4. ASSUME NEW s \in Sweepers, CleanupClock(s) PROVE Tells(q)'
  BY <1>4 DEF CleanupClock
<1>5. ASSUME NEW s \in Sweepers, CleanupSweep(s) PROVE Tells(q)'
  BY <1>5 DEF CleanupSweep, Observe, Pending, SweepClockOld
<1>6. ASSUME NEW r \in Readers, NEW j \in Asked, LookupCall(r, j) PROVE Tells(q)'
  BY <1>6 DEF LookupCall
<1>7. ASSUME NEW r \in Readers, LookupRead(r) PROVE Tells(q)'
  BY <1>7 DEF LookupRead, SeesPresent, Pending, Verdict
<1>8. ASSUME NEW r \in Readers, LookupMiss(r) \/ LookupDecide(r) \/ LookupReturn(r)
      PROVE  Tells(q)'
  BY <1>8 DEF Answered, LookupMiss, LookupDecide, LookupReturn, Idle
<1>9. CASE UNCHANGED vars
  BY <1>9 DEF vars
<1> QED
  BY <1>1, <1>2, <1>3, <1>4, <1>5, <1>6, <1>7, <1>8, <1>9 DEF Next

\* An answer is given from the map or from a copy that tells about it.
LEMMA HonestStep == IInv /\ [Next]_vars => LookupHonest'
<1> SUFFICES ASSUME IInv, [Next]_vars, NEW q \in Readers, lookup'[q].pc = "done"
             PROVE  \/ lookup'[q].answer \in seen'[q]
                    \/ lookup'[q].answer = "clear" /\ q \in rewritten'
  BY DEF LookupHonest
<1> USE RevokerAssumption DEF IInv, TypeOK, LookupHonest
<1>1. ASSUME NEW r \in Readers, LookupMiss(r)
      PROVE  lookup'[q].answer \in seen'[q] \/ (lookup'[q].answer = "clear" /\ q \in rewritten')
  BY <1>1 DEF Answered, LookupMiss, SeesPresent, Pending, Verdict
<1>2. ASSUME NEW r \in Readers, LookupDecide(r)
      PROVE  lookup'[q].answer \in seen'[q] \/ (lookup'[q].answer = "clear" /\ q \in rewritten')
  BY <1>2 DEF LookupDecide, Answered, CopyTells, Tells, Lapsed
<1>3. ASSUME NEW r \in Readers, NEW j \in Asked,
             LookupCall(r, j) \/ LookupRead(r) \/ LookupReturn(r)
      PROVE  lookup'[q].answer \in seen'[q] \/ (lookup'[q].answer = "clear" /\ q \in rewritten')
  BY <1>3 DEF LookupCall, LookupRead, LookupReturn, Idle
<1>4. CASE lookup' = lookup /\ rewritten \subseteq rewritten' /\ seen[q] \subseteq seen'[q]
  BY <1>4
<1> QED
  BY <1>1, <1>2, <1>3, <1>4
     DEF Next, vars, Tick, RevokeUntil, Unrevoke, CleanupClock, CleanupSweep, Observe,
         Rewrites, Asked

\* The inductive invariant.
LEMMA InvStep == IInv /\ [Next]_vars => IInv'
BY TypeStep, SweepClockStep, SeesPresentStep, CopyTellsStep, HonestStep DEF IInv

\* The inductive invariant holds throughout: what a call of Revoked copied
\* out of the map stays true of the map, or the key was rewritten since.
THEOREM InvHolds == Spec => []IInv
BY InitInv, InvStep, PTL DEF Spec

\* Whatever interleaving of revocations, cleanups, other lookups and the
\* clock a call of Revoked meets, its answer was right at some instant of
\* the call, or is a "clear" given while its key was being rewritten.
THEOREM AnswersHonest == Spec => []LookupHonest
<1>1. IInv => LookupHonest
  BY DEF IInv
<1> QED
  BY <1>1, InvHolds, PTL

-----------------------------------------------------------------------------
\* Init of the map is Init of the promise.
LEMMA PromiseInit == Init => Promise!Init
BY RevokerAssumption
   DEF Init, Promise!Init, Effective, AbstractCall, MayAnswer, Lapsed, Pending, Idle,
       Promise!Idle, Promise!NotDenied, Absent, Forever

\* The verdict on the map is the verdict of the promise.
LEMMA SameVerdict ==
  ASSUME TypeOK, NEW k \in Asked
  PROVE  Promise!Verdict(k) = Verdict(k)
BY RevokerAssumption
   DEF TypeOK, Asked, Verdict, Promise!Verdict, Effective, Lapsed, Absent, Forever,
       Promise!NotDenied, Times, Untils

\* The same, of a pending call in the next state.
LEMMA SameVerdictNext ==
  ASSUME TypeOK', NEW r \in Readers
  PROVE  Promise!Verdict(AbstractCall[r].key)' = Verdict(lookup[r].key)'
BY RevokerAssumption
   DEF TypeOK, Asked, Verdict, Promise!Verdict, Effective, Lapsed, Absent, Forever,
       Promise!NotDenied, Times, Untils, AbstractCall

\* Recording the verdict of the new instant is what widens the promise.
LEMMA ObserveWidens ==
  ASSUME TypeOK, TypeOK', Observe, lookup' = lookup, NEW W,
         rewritten' = rewritten \cup {r \in Readers : Pending(r) /\ lookup[r].key \in W}
  PROVE  Promise!Widen(W)
<1> SUFFICES ASSUME NEW r \in Readers
             PROVE  MayAnswer'[r] =
                      IF AbstractCall[r].pc = "pending"
                      THEN MayAnswer[r] \cup {Promise!Verdict(AbstractCall[r].key)'}
                             \cup (IF AbstractCall[r].key \in W THEN {"clear"} ELSE {})
                      ELSE MayAnswer[r]
  BY DEF Promise!Widen, MayAnswer
<1>1. AbstractCall[r].key = lookup[r].key /\ (AbstractCall[r].pc = "pending" <=> Pending(r))
  BY DEF AbstractCall, Pending, TypeOK
<1>2. seen'[r] = IF Pending(r) THEN seen[r] \cup {Verdict(lookup[r].key)'} ELSE seen[r]
  BY DEF Observe
<1>3. Promise!Verdict(AbstractCall[r].key)' = Verdict(lookup[r].key)'
  BY SameVerdictNext
<1>4. /\ MayAnswer[r] = IF r \in rewritten THEN seen[r] \cup {"clear"} ELSE seen[r]
      /\ MayAnswer'[r] = IF r \in rewritten' THEN seen'[r] \cup {"clear"} ELSE seen'[r]
  BY DEF MayAnswer
<1>5. r \in rewritten' <=> r \in rewritten \/ (Pending(r) /\ lookup[r].key \in W)
  OBVIOUS
<1> QED
  BY <1>1, <1>2, <1>3, <1>4, <1>5

\* Every step of the map is a step of the promise, or leaves it alone.
LEMMA PromiseStep == IInv /\ IInv' /\ [Next]_vars => [Promise!Next]_(Promise!vars)
<1> SUFFICES ASSUME IInv, IInv', [Next]_vars
             PROVE  Promise!Next \/ UNCHANGED Promise!vars
  OBVIOUS
<1>0. TypeOK /\ TypeOK'
  BY DEF IInv
<1>1. CASE Tick
  <2>1. lookup' = lookup /\ revoked' = revoked /\ rewritten' = rewritten /\ Observe
        /\ now' = now + 1 /\ now < MaxTime
    BY <1>1 DEF Tick
  <2>2. Promise!Widen({})
    BY <1>0, <2>1, ObserveWidens
  <2>3. UNCHANGED AbstractCall
    BY <2>1 DEF AbstractCall, Pending
  <2>4. Effective' = Promise!Lapse(Effective, now')
    BY <1>0, <2>1, RevokerAssumption
       DEF Effective, Promise!Lapse, Lapsed, TypeOK, Times, Untils, Absent, Forever,
           Promise!Forever, Promise!NotDenied
  <2> QED
    BY <2>1, <2>2, <2>3, <2>4 DEF Promise!Next, Promise!Tick
<1>2. ASSUME NEW k \in Keys \cup {NoKey}, NEW u \in Untils, RevokeUntil(k, u)
      PROVE  Promise!Next \/ UNCHANGED Promise!vars
  <2>1. lookup' = lookup /\ Observe /\ now' = now
        /\ revoked' = [j \in Keys |-> IF j = k THEN u ELSE revoked[j]]
    BY <1>2 DEF RevokeUntil
  <2>2. UNCHANGED AbstractCall
    BY <2>1 DEF AbstractCall, Pending
  <2>3. CASE k \in Keys
    <3>1. rewritten' = rewritten \cup {r \in Readers : Pending(r) /\ lookup[r].key \in {k}}
      BY <1>2, <2>3 DEF RevokeUntil, Rewrites
    <3>2. Promise!Widen({k})
      BY <1>0, <2>1, <3>1, ObserveWidens
    <3>3. Effective' = Promise!Lapse([Effective EXCEPT ![k] = u], now)
      BY <1>0, <2>1, <2>3, RevokerAssumption
         DEF Effective, Promise!Lapse, Lapsed, TypeOK, Times, Untils, Absent, Forever,
             Promise!Forever, Promise!NotDenied
    <3> QED
      BY <2>1, <2>2, <2>3, <3>2, <3>3 DEF Promise!Next, Promise!Deny, Untils
  <2>4. CASE k = NoKey
    <3>1. revoked' = revoked
      BY <1>0, <2>1, <2>4, RevokerAssumption DEF TypeOK
    <3>2. rewritten' = rewritten
      BY <1>2, <2>4, RevokerAssumption DEF RevokeUntil, Rewrites
    <3>3. seen' = seen
      BY <1>0, <2>1, <3>1 DEF Observe, IInv, SeesPresent, Verdict, TypeOK
    <3> QED
      BY <2>1, <2>2, <3>1, <3>2, <3>3 DEF Promise!vars, Effective, MayAnswer
  <2> QED
    BY <2>3, <2>4
<1>3. ASSUME NEW k \in Keys, Unrevoke(k) PROVE Promise!Next
  <2>1. lookup' = lookup /\ Observe /\ now' = now /\ revoked' = [revoked EXCEPT ![k] = Absent]
        /\ rewritten' = rewritten \cup {r \in Readers : Pending(r) /\ lookup[r].key \in {k}}
    BY <1>3 DEF Unrevoke, Rewrites
  <2>2. UNCHANGED AbstractCall
    BY <2>1 DEF AbstractCall, Pending
  <2>3. Promise!Widen({k})
    BY <1>0, <2>1, ObserveWidens
  <2>4. Effective' = [Effective EXCEPT ![k] = Promise!NotDenied]
    BY <1>0, <2>1 DEF Effective, TypeOK, Promise!NotDenied, Lapsed, Absent
  <2> QED
    BY <2>1, <2>2, <2>3, <2>4 DEF Promise!Next, Promise!Allow
<1>4. ASSUME NEW s \in Sweepers, CleanupClock(s) PROVE UNCHANGED Promise!vars
  BY <1>4 DEF CleanupClock, Promise!vars, Effective, AbstractCall, MayAnswer, Pending
<1>5. ASSUME NEW s \in Sweepers, CleanupSweep(s) PROVE UNCHANGED Promise!vars
  <2>1. lookup' = lookup /\ Observe /\ now' = now /\ rewritten' = rewritten
        /\ revoked' = [k \in Keys |-> IF Lapsed(revoked[k], sweep[s])
                                      THEN Absent ELSE revoked[k]]
    BY <1>5 DEF CleanupSweep
  <2>2. Effective' = Effective
    BY <1>0, <2>1, RevokerAssumption
       DEF Effective, IInv, SweepClockOld, TypeOK, Times, Untils, Lapsed, Absent, Forever
  <2>3. \A r \in Readers : Verdict(lookup[r].key)' = Verdict(lookup[r].key)
    BY <1>0, <2>1, RevokerAssumption
       DEF Verdict, IInv, SweepClockOld, TypeOK, Times, Untils, Lapsed, Absent, Forever, Asked
  <2>4. seen' = seen
    BY <1>0, <2>1, <2>3 DEF Observe, IInv, SeesPresent, TypeOK
  <2> QED
    BY <2>1, <2>2, <2>4 DEF Promise!vars, AbstractCall, MayAnswer, Pending
<1>6. ASSUME NEW r \in Readers, NEW k \in Asked, LookupCall(r, k) PROVE Promise!Next
  <2>1. Promise!Verdict(k) = Verdict(k)
    BY <1>0, SameVerdict
  <2>2. Promise!Begin(r, k)
    BY <1>0, <1>6, <2>1
       DEF LookupCall, Promise!Begin, Effective, AbstractCall, MayAnswer, Pending, TypeOK
  <2> QED
    BY <2>2 DEF Promise!Next, Promise!Asked, Asked
<1>7. ASSUME NEW r \in Readers, LookupRead(r) PROVE UNCHANGED Promise!vars
  BY <1>0, <1>7
     DEF LookupRead, Promise!vars, Effective, AbstractCall, MayAnswer, Pending, TypeOK
<1>8. ASSUME NEW r \in Readers, LookupMiss(r) \/ LookupDecide(r) PROVE Promise!Next
  <2>1. PICK a \in {"revoked", "clear", "error"} : lookup' = Answered(r, a)
    BY <1>8 DEF LookupMiss, LookupDecide
  <2>2. Pending(r) /\ UNCHANGED <<now, revoked, seen, rewritten>>
    BY <1>8 DEF LookupMiss, LookupDecide, Pending
  <2>3. a \in MayAnswer[r]
    <3>1. lookup'[r].pc = "done" /\ lookup'[r].answer = a
      BY <1>0, <2>1 DEF Answered, TypeOK
    <3> QED
      BY <2>2, <3>1 DEF MayAnswer, IInv, LookupHonest
  <2>4. Promise!Answer(r)
    <3>1. AbstractCall' = [AbstractCall EXCEPT ![r].pc = "done", ![r].answer = a]
      BY <1>0, <2>1 DEF AbstractCall, Answered, Pending, TypeOK
    <3>2. AbstractCall[r].pc = "pending"
      BY <2>2 DEF AbstractCall
    <3>3. UNCHANGED <<now, Effective, MayAnswer>>
      BY <2>2 DEF Effective, MayAnswer
    <3> QED
      BY <2>3, <3>1, <3>2, <3>3 DEF Promise!Answer
  <2> QED
    BY <2>4 DEF Promise!Next
<1>9. ASSUME NEW r \in Readers, LookupReturn(r) PROVE Promise!Next
  <2>1. Promise!Return(r)
    BY <1>0, <1>9
       DEF LookupReturn, Promise!Return, Effective, AbstractCall, MayAnswer, Pending, TypeOK,
           Idle, Promise!Idle
  <2> QED
    BY <2>1 DEF Promise!Next
<1>10. CASE UNCHANGED vars
  BY <1>10 DEF vars, Promise!vars, Effective, AbstractCall, MayAnswer, Pending
<1> QED
  BY <1>1, <1>2, <1>3, <1>4, <1>5, <1>6, <1>7, <1>8, <1>9, <1>10 DEF Next

\* MemRevoker implements the denylist it promises: reaping lapsed entries
\* with an old clock, and reading the entry and the clock at two different
\* instants, are not visible to any caller.
THEOREM PromiseKept == Spec => KeepsPromise
BY PromiseInit, PromiseStep, InvHolds, PTL DEF Spec, KeepsPromise, Promise!Spec
=============================================================================
