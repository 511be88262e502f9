---------------------------- MODULE DaemonProofs ----------------------------
(***************************************************************************)
(* Proofs about Daemon for every set of keys, of jti values and of         *)
(* concurrent requests, every resolution of the clock and any number of    *)
(* tokens and restarts.  What the revoker does is taken from               *)
(* MemRevokerProofs, instantiated as the server uses it.                   *)
(***************************************************************************)
EXTENDS Daemon, FiniteSetTheorems, TLAPS

RP == INSTANCE MemRevokerProofs WITH Keys <- Jtis, Readers <- Requests, Sweepers <- {}

\* Chains are numbered as they begin, and keep their jti.
ChainInv ==
  /\ IsFiniteSet(issued)
  /\ \A t \in issued : t.chain < Cardinality(issued)
  /\ \A t, u \in issued : t.chain = u.chain => t.jti = u.jti

\* A chain that was revoked forever has its jti in the revoker's map.
KilledInv == \A t \in issued : t.chain \in killed => t.jti \in Jtis /\ revoked[t.jti] = R!Forever

\* No token expires before it was issued.
TimesInv == \A t \in issued : t.iat <= t.exp

\* Where the revoker is in the request of q.
LookupInv(q) ==
  /\ req[q].pc = "idle" => lookup[q].pc = "idle"
  /\ req[q].pc = "done" => lookup[q].pc \in {"idle", "done"}
  /\ lookup[q].pc # "idle" => lookup[q].key = req[q].token.jti
  /\ lookup[q].answer # "error"

\* A request on a token of a revoked chain cannot come out well.
BarredInv(q) ==
  q \in barred => /\ req[q].pc # "idle" /\ req[q].token.chain \in killed
                  /\ lookup[q].pc = "read" => lookup[q].until = R!Forever
                  /\ lookup[q].pc = "done" => lookup[q].answer # "clear"
                  /\ ~(req[q].pc = "done" /\ req[q].valid)

ReqInv == \A q \in Requests : LookupInv(q) /\ BarredInv(q)

IInv == /\ TypeOK /\ RP!IInv
        /\ ChainInv /\ KilledInv /\ TimesInv /\ ReqInv
        /\ RejectedForCause /\ WindowPreserved

-----------------------------------------------------------------------------
\* Division with remainder, and that it is unique.
LEMMA DivMod ==
  ASSUME NEW x \in Int
  PROVE  /\ x \div TicksPerSecond \in Int /\ x % TicksPerSecond \in 0..(TicksPerSecond - 1)
         /\ x = TicksPerSecond * (x \div TicksPerSecond) + (x % TicksPerSecond)
BY RulesAssumption

LEMMA Multiple ==
  ASSUME NEW n \in Nat \ {0}, NEW a \in Int, a >= 1
  PROVE  n * a >= n
OBVIOUS

LEMMA RemainderUnique ==
  ASSUME NEW n \in Nat \ {0}, NEW q \in Int, NEW r \in Int, NEW p \in Int, NEW s \in Int,
         n * q + r = n * p + s, 0 <= r, r < n, 0 <= s, s < n
  PROVE  r = s
<1>1. n * (q - p) = s - r /\ n * (p - q) = r - s
  OBVIOUS
<1>2. ~(q - p >= 1)
  BY <1>1, Multiple
<1>3. ~(p - q >= 1)
  BY <1>1, Multiple
<1> QED
  BY <1>2, <1>3

\* Adding whole seconds does not change the fraction of the second.
LEMMA SameFraction ==
  ASSUME NEW x \in Int, NEW d \in Int, d % TicksPerSecond = 0
  PROVE  (x + d) % TicksPerSecond = x % TicksPerSecond
<1> DEFINE n == TicksPerSecond
           a == x \div n
           b == d \div n
           e == (x + d) \div n
<1>1. n \in Nat \ {0}
  BY RulesAssumption
<1>2. a \in Int /\ b \in Int /\ e \in Int /\ x % n \in 0..(n - 1) /\ (x + d) % n \in 0..(n - 1)
  BY DivMod
<1>3. x = n * a + (x % n) /\ d = n * b + (d % n) /\ x + d = n * e + ((x + d) % n)
  BY DivMod
<1>4. n * e + ((x + d) % n) = n * (a + b) + (x % n)
  BY <1>1, <1>2, <1>3
<1> HIDE DEF n, a, b, e
<1> QED
  BY <1>1, <1>2, <1>4, RemainderUnique DEF n

\* jwt.NewNumericDate: a whole second, at or before the instant given, the
\* last such one, and moving with it by whole seconds.
LEMMA NumericDateRounds ==
  ASSUME NEW x \in Int
  PROVE  /\ NumericDate(x) \in Int /\ NumericDate(x) <= x
         /\ NumericDate(x) % TicksPerSecond = 0
         /\ x >= 0 => NumericDate(x) >= 0
         /\ \A d \in Int : d % TicksPerSecond = 0 => NumericDate(x + d) = NumericDate(x) + d
         /\ \A d \in Int : d % TicksPerSecond = 0 /\ d <= x => d <= NumericDate(x)
<1> DEFINE n == TicksPerSecond
<1>1. n \in Nat \ {0} /\ x % n \in 0..(n - 1)
  BY RulesAssumption, DivMod
<1>2. NumericDate(x) = x - (x % n) /\ NumericDate(x) \in Int
  BY <1>1 DEF NumericDate
<1>3. NumericDate(x) % n = 0
  <2> DEFINE z == NumericDate(x)
             a == x \div n
             b == z \div n
             r == z % n
             s == x % n
  <2>1. z \in Int /\ z = x - s
    BY <1>2
  <2>2. a \in Int /\ x = n * a + s /\ s \in 0..(n - 1)
    BY DivMod
  <2>3. b \in Int /\ r \in 0..(n - 1) /\ z = n * b + r
    BY <2>1, DivMod
  <2> HIDE DEF n, z, a, b, r, s
  <2>4. n * a + 0 = n * b + r
    BY <1>1, <2>1, <2>2, <2>3
  <2>5. 0 = r
    BY <1>1, <2>2, <2>3, <2>4, RemainderUnique
  <2> QED
    BY <2>5 DEF r, z
<1>4. ASSUME NEW d \in Int, d % n = 0 PROVE NumericDate(x + d) = NumericDate(x) + d
  <2> DEFINE r == x % n
  <2>0. r \in Int
    BY <1>1
  <2>1. (x + d) % n = r
    BY <1>4, SameFraction
  <2>2. NumericDate(x + d) = (x + d) - ((x + d) % n)
    BY DEF NumericDate
  <2>3. NumericDate(x + d) = (x + d) - r
    BY <2>1, <2>2, Zenon
  <2>4. NumericDate(x) = x - r
    BY <1>2
  <2> HIDE DEF r
  <2>5. (x + d) - r = (x - r) + d
    BY <2>0
  <2> QED
    BY <2>3, <2>4, <2>5
<1>5. ASSUME NEW d \in Int, d % n = 0, d <= x PROVE d <= NumericDate(x)
  <2> DEFINE a == d \div n
             b == x \div n
             r == x % n
  <2>1. a \in Int /\ b \in Int /\ r \in 0..(n - 1) /\ d = n * a + (d % n) /\ x = n * b + r
    BY DivMod
  <2>2. n * a \in Int /\ n * b \in Int
    BY <1>1, <2>1
  <2> HIDE DEF n, a, b, r
  <2>3. d = n * a
    BY <1>5, <2>1, <2>2
  <2>4. ~(a - b >= 1)
    <3>1. n * (a - b) = n * a - n * b
      BY <1>1, <2>1
    <3>2. n * (a - b) <= r
      BY <1>1, <1>5, <2>1, <2>2, <2>3, <3>1
    <3>3. a - b >= 1 => n * (a - b) >= n
      BY <1>1, <2>1, Multiple
    <3> QED
      BY <1>1, <2>1, <3>2, <3>3
  <2>5. n * a <= n * b
    <3>1. n * (b - a) >= 0 /\ n * (b - a) = n * b - n * a
      BY <1>1, <2>1, <2>4
    <3> QED
      BY <2>2, <3>1
  <2>6. NumericDate(x) = n * b
    <3>1. NumericDate(x) = x - r
      BY <1>2 DEF r
    <3> QED
      BY <1>1, <2>1, <2>2, <3>1
  <2> QED
    BY <2>3, <2>5, <2>6
<1>6. x >= 0 => NumericDate(x) >= 0
  <2>1. 0 % n = 0
    BY <1>1
  <2> QED
    BY <1>5, <2>1
<1> QED
  BY <1>1, <1>2, <1>3, <1>4, <1>5, <1>6

-----------------------------------------------------------------------------
\* The revoker of MemRevokerProofs is the revoker of the server.
LEMMA SameType == R!TypeOK <=> RP!TypeOK
BY DEF R!TypeOK, RP!TypeOK, R!Times, RP!Times, R!Untils, RP!Untils, R!Asked, RP!Asked,
       R!Absent, RP!Absent

\* What the server does to its revoker keeps the revoker's own invariant.
LEMMA RevokerStep ==
  ASSUME RP!IInv,
         \/ R!Tick
         \/ \E k \in Jtis \cup {NoKey}, u \in R!Untils : R!RevokeUntil(k, u)
         \/ \E q \in Requests, k \in Jtis \cup {NoKey} : R!LookupCall(q, k)
         \/ \E q \in Requests : R!LookupMiss(q) \/ R!LookupRead(q) \/ R!LookupDecide(q)
                                \/ R!LookupReturn(q)
         \/ UNCHANGED revVars
  PROVE  RP!IInv' /\ R!TypeOK'
<1> USE DEF R!Absent, RP!Absent, R!Forever, RP!Forever, R!Lapsed, RP!Lapsed, R!Verdict, RP!Verdict,
            R!Pending, RP!Pending, R!Observe, RP!Observe, R!Rewrites, RP!Rewrites
<1>0. ASSUME RP!Next \/ UNCHANGED RP!vars PROVE RP!IInv' /\ R!TypeOK'
  <2>1. RP!RevokerAssumption
    BY DaemonAssumption DEF RP!RevokerAssumption
  <2>2. RP!IInv'
    BY <1>0, <2>1, RP!InvStep
  <2> QED
    BY <2>2 DEF RP!IInv, R!TypeOK, RP!TypeOK, R!Times, RP!Times, R!Untils, RP!Untils, R!Asked, RP!Asked
<1>1. CASE R!Tick
  <2>1. RP!Tick
    BY <1>1 DEF R!Tick, RP!Tick
  <2> QED
    BY <1>0, <2>1 DEF RP!Next
<1>2. ASSUME NEW k \in Jtis \cup {NoKey}, NEW u \in R!Untils, R!RevokeUntil(k, u)
      PROVE  RP!Next
  <2>1. RP!RevokeUntil(k, u) /\ u \in RP!Untils
    BY <1>2 DEF R!RevokeUntil, RP!RevokeUntil, R!Untils, RP!Untils
  <2> QED
    BY <2>1 DEF RP!Next
<1>3. ASSUME NEW q \in Requests, NEW k \in Jtis \cup {NoKey}, R!LookupCall(q, k)
      PROVE  RP!Next
  <2>1. RP!LookupCall(q, k) /\ k \in RP!Asked
    BY <1>3 DEF R!LookupCall, RP!LookupCall, RP!Asked
  <2> QED
    BY <2>1 DEF RP!Next
<1>4. ASSUME NEW q \in Requests,
             R!LookupMiss(q) \/ R!LookupRead(q) \/ R!LookupDecide(q) \/ R!LookupReturn(q)
      PROVE  RP!Next
  <2>1. RP!LookupMiss(q) \/ RP!LookupRead(q) \/ RP!LookupDecide(q) \/ RP!LookupReturn(q)
    BY <1>4 DEF R!LookupMiss, RP!LookupMiss, R!LookupRead, RP!LookupRead, R!LookupDecide,
                RP!LookupDecide, R!LookupReturn, RP!LookupReturn, R!Answered, RP!Answered,
                R!Idle, RP!Idle
  <2> QED
    BY <2>1 DEF RP!Next
<1>5. CASE UNCHANGED revVars
  BY <1>0, <1>5 DEF revVars, RP!vars
<1> QED
  BY <1>0, <1>1, <1>2, <1>3, <1>4, <1>5

-----------------------------------------------------------------------------
\* A time claim of an instant is a whole second; one that is there is kept.
LEMMA DateWhole ==
  ASSUME NEW x \in Nat
  PROVE  NumericDate(x) \in WholeSeconds /\ NumericDate(x) <= x
BY NumericDateRounds DEF WholeSeconds

\* A whole second is read as it was written.
LEMMA ReadWhole ==
  ASSUME NEW x \in WholeSeconds
  PROVE  /\ x \in Nat /\ x % TicksPerSecond = 0 /\ Readable(x) /\ ReadTime(x) = x
<1>1. x \in Nat /\ x % TicksPerSecond = 0
  BY DEF WholeSeconds
<1>2. NumericDate(x) = x
  <2>1. x <= x
    BY <1>1
  <2>2. NumericDate(x) \in Int /\ NumericDate(x) <= x /\ x <= NumericDate(x)
    BY <1>1, <2>1, NumericDateRounds
  <2> QED
    BY <1>1, <2>2
<1> QED
  BY <1>1, <1>2 DEF Readable, ReadTime, Missing, Bad

\* signWith: what it does not refuse gets whole seconds, in order.
LEMMA SignedInOrder ==
  ASSUME NEW n \in Nat, NEW c, c.exp \in Nat \/ c.exp \in {Missing, Bad},
         c.iat \in Nat \/ c.iat \in {Missing, Bad}, c.nbf \in Nat \/ c.nbf \in {Missing, Bad},
         ~SignRefused(c, n)
  PROVE  /\ SignedTimes(c, n).exp \in WholeSeconds /\ SignedTimes(c, n).iat \in WholeSeconds
         /\ SignedTimes(c, n).nbf \in WholeSeconds
         /\ SignedTimes(c, n).iat <= SignedTimes(c, n).exp
<1> DEFINE e == IF Readable(c.exp) THEN ReadTime(c.exp) ELSE NumericDate(n + DefaultExpiration)
           i == IF Readable(c.iat) THEN ReadTime(c.iat) ELSE NumericDate(n)
           b == IF Readable(c.nbf) THEN ReadTime(c.nbf) ELSE NumericDate(n)
<1>1. SignedTimes(c, n).exp = e /\ SignedTimes(c, n).iat = i /\ SignedTimes(c, n).nbf = b
  BY DEF SignedTimes
<1>2. /\ Readable(c.exp) => c.exp \in Nat
      /\ Readable(c.iat) => c.iat \in Nat
      /\ Readable(c.nbf) => c.nbf \in Nat
      /\ n + DefaultExpiration \in Nat
  BY RulesAssumption DEF Readable
<1>3. e \in WholeSeconds /\ i \in WholeSeconds /\ b \in WholeSeconds
  BY <1>2, DateWhole DEF ReadTime
<1>4. e \in Nat /\ i \in Nat /\ i % TicksPerSecond = 0
  BY <1>3, ReadWhole
<1>5. i <= n
  BY <1>2, <1>4, DateWhole DEF SignRefused
<1>6. i <= e
  <2>1. CASE Readable(c.exp)
    BY <2>1, <1>4, <1>5 DEF SignRefused
  <2>2. CASE ~Readable(c.exp)
    <3>1. i <= n + DefaultExpiration
      BY <1>4, <1>5, RulesAssumption
    <3>2. i <= NumericDate(n + DefaultExpiration)
      <4> HIDE DEF i
      <4>1. n + DefaultExpiration \in Int /\ i \in Int
        BY <1>2, <1>4
      <4> QED
        BY <1>4, <3>1, <4>1, NumericDateRounds
    <3> QED
      BY <2>2, <3>2
  <2> QED
    BY <2>1, <2>2
<1> HIDE DEF e, i, b
<1> QED
  BY <1>1, <1>3, <1>6

\* refresh: whole seconds again, and the lifetime of the token it was given.
LEMMA RefreshKeepsWindow ==
  ASSUME NEW n \in Nat, NEW iat \in WholeSeconds, NEW old \in WholeSeconds, iat <= old,
         NEW exp \in {old, Missing}
  PROVE  /\ RefreshedTimes(iat, exp, n).exp \in WholeSeconds
         /\ RefreshedTimes(iat, exp, n).iat \in WholeSeconds
         /\ RefreshedTimes(iat, exp, n).nbf \in WholeSeconds
         /\ RefreshedTimes(iat, exp, n).iat <= RefreshedTimes(iat, exp, n).exp
         /\ exp = old => RefreshedTimes(iat, exp, n).exp - RefreshedTimes(iat, exp, n).iat = old - iat
<1> DEFINE e == RefreshedTimes(iat, exp, n).exp
           d == NumericDate(n)
<1>1. RefreshedTimes(iat, exp, n).iat = d /\ RefreshedTimes(iat, exp, n).nbf = d
  BY DEF RefreshedTimes
<1>2. /\ d \in WholeSeconds /\ d \in Nat /\ d <= n /\ d % TicksPerSecond = 0
  BY DateWhole, ReadWhole
<1>3. CASE exp = old
  <2>1. /\ iat \in Nat /\ old \in Nat /\ Readable(iat) /\ Readable(old)
        /\ ReadTime(iat) = iat /\ ReadTime(old) = old
        /\ iat % TicksPerSecond = 0 /\ old % TicksPerSecond = 0
    BY ReadWhole
  <2>2. e = NumericDate(n + (old - iat))
    BY <1>3, <2>1 DEF RefreshedTimes
  <2>3. (old - iat) % TicksPerSecond = 0
    <3>1. old - iat \in Int /\ (old - iat) + iat = old
      BY <2>1
    <3>2. ((old - iat) + iat) % TicksPerSecond = (old - iat) % TicksPerSecond
      BY <2>1, <3>1, SameFraction
    <3> QED
      BY <2>1, <3>1, <3>2
  <2>4. e = d + (old - iat)
    <3>1. old - iat \in Int
      BY <2>1
    <3> QED
      BY <2>2, <2>3, <3>1, NumericDateRounds
  <2>5. e \in WholeSeconds
    <3>1. n + (old - iat) \in Nat
      BY <2>1
    <3> QED
      BY <2>2, <3>1, DateWhole
  <2>6. d <= e /\ e - d = old - iat
    <3> HIDE DEF e, d
    <3> QED
      BY <1>2, <2>1, <2>4
  <2> QED
    BY <1>1, <1>2, <2>5, <2>6
<1>4. CASE exp = Missing
  <2>1. exp # old /\ ~Readable(exp)
    BY <1>4, ReadWhole DEF Missing, Readable
  <2>2. e = NumericDate(n + DefaultExpiration)
    BY <2>1 DEF RefreshedTimes
  <2>3. n + DefaultExpiration \in Nat /\ d <= n + DefaultExpiration
    BY <1>2, RulesAssumption
  <2>4. d <= NumericDate(n + DefaultExpiration)
    BY <1>2, <2>3, NumericDateRounds
  <2>5. e \in WholeSeconds
    BY <2>2, <2>3, DateWhole
  <2> QED
    BY <1>1, <1>2, <2>1, <2>2, <2>4, <2>5
<1> QED
  BY <1>3, <1>4

-----------------------------------------------------------------------------
LEMMA IdleTyped == IdleReq \in Reqs /\ IdleReq.pc = "idle"
<1>1. 0 \in 0..MaxTime
  BY DaemonAssumption
<1> QED
  BY <1>1 DEF IdleReq, Reqs

LEMMA InitInv == Init => IInv
<1> SUFFICES ASSUME Init PROVE IInv
  OBVIOUS
<1>1. R!TypeOK /\ RP!IInv
  <2>1. RP!RevokerAssumption
    BY DaemonAssumption DEF RP!RevokerAssumption
  <2>2. RP!Init
    BY DEF Init, R!Init, RP!Init, R!Idle, RP!Idle, R!Absent, RP!Absent, R!Asleep, RP!Asleep
  <2>3. RP!IInv
    BY <2>1, <2>2, RP!InitInv
  <2> QED
    BY <2>3, SameType DEF RP!IInv
<1>2. \A q \in Requests : req[q] = IdleReq /\ lookup[q] = R!Idle
  BY DEF Init, R!Init
<1>3. TypeOK
  <2>1. restarts \in 0..MaxRestarts
    BY DaemonAssumption DEF Init
  <2> QED
    BY <1>1, <1>2, <2>1, IdleTyped DEF Init, TypeOK
<1>4. ChainInv /\ KilledInv /\ TimesInv /\ WindowPreserved
  BY FS_EmptySet DEF Init, ChainInv, KilledInv, TimesInv, WindowPreserved
<1>5. ReqInv /\ RejectedForCause
  <2>1. R!Idle.pc = "idle" /\ R!Idle.answer = "clear"
    BY DEF R!Idle
  <2> QED
    BY <1>2, <2>1, IdleTyped DEF Init, ReqInv, LookupInv, BarredInv, RejectedForCause
<1> QED
  BY <1>1, <1>3, <1>4, <1>5 DEF IInv

\* A token is handed out: the first of a new chain, or one that goes on with
\* the jti of its chain.
LEMMA IssueStep ==
  ASSUME IInv, NEW t \in Tokens, issued' = issued \cup {t},
         UNCHANGED <<revVars, cfg, restarts, req, killed, spent, barred>>,
         t.iat <= t.exp, t.exp - t.iat = t.life,
         t.chain = Cardinality(issued) \/ \E u \in issued : u.chain = t.chain /\ u.jti = t.jti
  PROVE  IInv'
<1> USE DEF IInv
<1>1. RP!IInv' /\ R!TypeOK'
  BY RevokerStep
<1>2. TypeOK'
  BY <1>1 DEF TypeOK
<1>3. ChainInv'
  <2>1. /\ IsFiniteSet(issued') /\ Cardinality(issued) \in Nat /\ Cardinality(issued') \in Nat
        /\ Cardinality(issued') = IF t \in issued THEN Cardinality(issued) ELSE Cardinality(issued) + 1
    BY FS_AddElement, FS_CardinalityType DEF ChainInv
  <2>2. \A u \in issued : u.chain \in Nat /\ u.chain < Cardinality(issued)
    BY DEF TypeOK, Tokens, ChainInv
  <2>3. t.chain < Cardinality(issued')
    BY <2>1, <2>2
  <2>4. \A u \in issued' : u.chain < Cardinality(issued')
    BY <2>1, <2>2, <2>3
  <2>5. \A u \in issued : u.chain = t.chain => u.jti = t.jti
    BY <2>1, <2>2 DEF ChainInv
  <2>6. \A u, v \in issued' : u.chain = v.chain => u.jti = v.jti
    BY <2>5 DEF ChainInv
  <2> QED
    BY <2>1, <2>4, <2>6 DEF ChainInv
<1>4. KilledInv'
  <2>1. revoked' = revoked /\ killed' = killed
    BY DEF revVars
  <2>2. t.chain \in killed => \E u \in issued : u.chain = t.chain /\ u.jti = t.jti
    <3>1. \A u \in issued : u.chain < Cardinality(issued) /\ u.chain \in Nat
      BY DEF ChainInv, TypeOK, Tokens
    <3>2. Cardinality(issued) \in Nat
      BY FS_CardinalityType DEF ChainInv
    <3>3. t.chain \in killed => t.chain # Cardinality(issued)
      BY <3>1, <3>2 DEF TypeOK
    <3> QED
      BY <3>3
  <2> QED
    BY <2>1, <2>2 DEF KilledInv
<1>5. TimesInv' /\ WindowPreserved'
  BY DEF TimesInv, WindowPreserved
<1>6. ReqInv' /\ RejectedForCause'
  BY DEF revVars, ReqInv, LookupInv, BarredInv, RejectedForCause
<1> QED
  BY <1>1, <1>2, <1>3, <1>4, <1>5, <1>6

LEMMA SignWithStep ==
  ASSUME IInv, NEW exp, NEW iat, NEW nbf, NEW kid \in KidHeaders,
         exp \in Nat \/ exp \in {Missing, Bad}, iat \in Nat \/ iat \in {Missing, Bad},
         nbf \in Nat \/ nbf \in {Missing, Bad},
         SignWith([exp |-> exp, iat |-> iat, nbf |-> nbf], kid)
  PROVE  IInv'
<1> DEFINE c == [exp |-> exp, iat |-> iat, nbf |-> nbf]
           w == SignedTimes(c, now)
<1>1. PICK jti \in Jtis \cup {NoKey} : issued' = issued \cup {SignedToken(c, jti, kid)}
  BY DEF SignWith
<1> DEFINE t == SignedToken(c, jti, kid)
<1>2. now \in Nat
  BY DaemonAssumption DEF IInv, TypeOK, R!TypeOK, R!Times
<1>3. /\ w.exp \in WholeSeconds /\ w.iat \in WholeSeconds /\ w.nbf \in WholeSeconds
      /\ w.iat <= w.exp
  <2>1. c.exp = exp /\ c.iat = iat /\ c.nbf = nbf /\ ~SignRefused(c, now)
    BY DEF SignWith
  <2> HIDE DEF c
  <2> QED
    BY <1>2, <2>1, SignedInOrder
<1>4. w.exp \in Nat /\ w.iat \in Nat /\ w.exp - w.iat \in Nat
  <2> HIDE DEF w
  <2> QED
    BY <1>3, ReadWhole
<1>5. /\ cfg.primary \in SignKeys /\ cfg.kid \in SignKeys \cup {NoKid} /\ restarts \in 0..MaxRestarts
      /\ kid \in SignKeys \cup {NoKid} /\ Cardinality(issued) \in Nat
  BY FS_CardinalityType, DaemonAssumption DEF IInv, TypeOK, Configs, ChainInv
<1>6. t \in Tokens /\ t.iat <= t.exp /\ t.exp - t.iat = t.life /\ t.chain = Cardinality(issued)
  <2>1. t = [jti |-> jti, key |-> cfg.primary, kid |-> IF kid = NoKid THEN cfg.kid ELSE kid,
             exp |-> w.exp, iat |-> w.iat, nbf |-> w.nbf,
             chain |-> Cardinality(issued), first |-> w.iat,
             life |-> w.exp - w.iat, own |-> kid = NoKid, epoch |-> restarts]
    BY DEF SignedToken
  <2> HIDE DEF t, w
  <2>2. (kid = NoKid) \in BOOLEAN /\ (IF kid = NoKid THEN cfg.kid ELSE kid) \in SignKeys \cup {NoKid}
    BY <1>5
  <2>3. t \in Tokens
    BY <1>3, <1>4, <1>5, <2>1, <2>2 DEF Tokens
  <2> QED
    BY <1>3, <1>4, <2>1, <2>3
<1>7. UNCHANGED <<revVars, cfg, restarts, req, killed, spent, barred>>
  BY DEF SignWith
<1> HIDE DEF t, c
<1> QED
  BY <1>1, <1>6, <1>7, IssueStep DEF t

LEMMA RefreshStep ==
  ASSUME IInv, NEW t \in issued, NEW exp \in {t.exp, Missing, Bad}, Refresh(t, exp)
  PROVE  IInv'
<1> DEFINE w == RefreshedTimes(t.iat, exp, now)
           r == RefreshedToken(t, exp)
<1>1. now \in Nat
  BY DaemonAssumption DEF IInv, TypeOK, R!TypeOK, R!Times
<1>2. t \in Tokens /\ t.iat <= t.exp /\ t.exp - t.iat = t.life
  BY DEF IInv, TypeOK, TimesInv, WindowPreserved
<1>3. t.iat \in WholeSeconds /\ t.exp \in WholeSeconds /\ t.exp \in Nat /\ t.iat \in Nat
  <2>1. t.iat \in WholeSeconds /\ t.exp \in WholeSeconds
    BY <1>2 DEF Tokens
  <2> QED
    BY <2>1, ReadWhole
<1>4. exp \in {t.exp, Missing}
  BY DEF Refresh, RefreshRefused, Readable, Missing, Bad
<1>5. /\ w.exp \in WholeSeconds /\ w.iat \in WholeSeconds /\ w.nbf \in WholeSeconds
      /\ w.iat <= w.exp /\ (exp = t.exp => w.exp - w.iat = t.exp - t.iat)
  BY <1>1, <1>2, <1>3, <1>4, RefreshKeepsWindow
<1>6. w.exp \in Nat /\ w.iat \in Nat
  BY <1>5, ReadWhole
<1> HIDE DEF w
<1>7. r \in Tokens /\ r.iat <= r.exp /\ r.exp - r.iat = r.life /\ r.chain = t.chain /\ r.jti = t.jti
  <2> DEFINE l == IF exp = t.exp THEN t.life ELSE w.exp - w.iat
  <2>1. r = [jti |-> t.jti, key |-> cfg.primary, kid |-> NoKid,
             exp |-> w.exp, iat |-> w.iat, nbf |-> w.nbf,
             chain |-> t.chain, first |-> t.first, life |-> l, own |-> TRUE, epoch |-> restarts]
    BY DEF RefreshedToken, w
  <2>2. l = w.exp - w.iat /\ l \in Nat
    BY <1>2, <1>5, <1>6
  <2>3. cfg.primary \in SignKeys /\ restarts \in 0..MaxRestarts
    BY DEF IInv, TypeOK, Configs
  <2>4. t.jti \in Jtis \cup {NoKey} /\ t.chain \in Nat /\ t.first \in WholeSeconds
    BY <1>2 DEF Tokens
  <2> HIDE DEF r, l
  <2>5. r \in Tokens
    BY <1>5, <2>1, <2>2, <2>3, <2>4 DEF Tokens
  <2> QED
    BY <1>5, <1>6, <2>1, <2>2, <2>5
<1>8. issued' = issued \cup {r} /\ UNCHANGED <<revVars, cfg, restarts, req, killed, spent, barred>>
  BY DEF Refresh
<1> HIDE DEF r
<1> QED
  BY <1>7, <1>8, IssueStep

-----------------------------------------------------------------------------
\* The verdicts that a request which is over has seen are not added to.
LEMMA SeenStays ==
  ASSUME IInv, R!Observe, NEW q \in Requests, req[q].pc = "done"
  PROVE  seen'[q] = seen[q]
BY DEF IInv, ReqInv, LookupInv, R!Observe, R!Pending

LEMMA TickStep == ASSUME IInv, Tick PROVE IInv'
<1> USE DEF IInv
<1>1. R!Tick /\ UNCHANGED srvVars
  BY DEF Tick
<1>2. RP!IInv' /\ R!TypeOK' /\ R!Observe /\ UNCHANGED <<revoked, lookup>>
  BY <1>1, RevokerStep DEF R!Tick
<1>3. TypeOK'
  BY <1>1, <1>2 DEF TypeOK, srvVars
<1>4. ChainInv' /\ KilledInv' /\ TimesInv' /\ WindowPreserved' /\ ReqInv'
  BY <1>1, <1>2 DEF ChainInv, KilledInv, TimesInv, WindowPreserved, ReqInv, LookupInv, BarredInv,
                    srvVars
<1>5. RejectedForCause'
  BY <1>1, <1>2, SeenStays DEF RejectedForCause, srvVars
<1> QED
  BY <1>2, <1>3, <1>4, <1>5

\* The operator revokes: calls of the revoker that are under way keep what
\* they have read.
LEMMA RevokeStep == ASSUME IInv, NEW t \in issued, Revoke(t) PROVE IInv'
<1> USE DEF IInv
<1>1. /\ R!RevokeUntil(t.jti, R!Forever)
      /\ killed' = IF t.jti = NoKey THEN killed ELSE killed \cup {t.chain}
      /\ UNCHANGED <<cfg, restarts, issued, req, spent, barred>>
  BY DEF Revoke
<1>2. t.jti \in Jtis \cup {NoKey} /\ R!Forever \in R!Untils
  BY DaemonAssumption DEF TypeOK, Tokens, R!Forever, R!Untils
<1>3. /\ RP!IInv' /\ R!TypeOK' /\ R!Observe /\ lookup' = lookup
      /\ revoked' = [j \in Jtis |-> IF j = t.jti THEN R!Forever ELSE revoked[j]]
  BY <1>1, <1>2, RevokerStep DEF R!RevokeUntil
<1>4. TypeOK'
  BY <1>1, <1>3 DEF TypeOK
<1>5. ChainInv' /\ TimesInv' /\ WindowPreserved'
  BY <1>1 DEF ChainInv, TimesInv, WindowPreserved
<1>6. KilledInv'
  BY <1>1, <1>2, <1>3 DEF KilledInv, ChainInv
<1>7. ReqInv'
  BY <1>1, <1>3 DEF ReqInv, LookupInv, BarredInv
<1>8. RejectedForCause'
  BY <1>1, <1>3, SeenStays DEF RejectedForCause
<1> QED
  BY <1>3, <1>4, <1>5, <1>6, <1>7, <1>8

LEMMA RevokeUntilExpStep == ASSUME IInv, NEW t \in issued, RevokeUntilExp(t) PROVE IInv'
<1> USE DEF IInv
<1> DEFINE chains == {u.chain : u \in {v \in issued : v.jti = t.jti}}
<1>1. /\ t.exp \in R!Times /\ t.jti # NoKey
      /\ R!RevokeUntil(t.jti, t.exp)
      /\ killed' = killed \ chains
      /\ barred' = {q \in barred : req[q].token.chain \notin chains}
      /\ spent' = {u \in spent : u.jti # t.jti} \cup {t}
      /\ UNCHANGED <<cfg, restarts, issued, req>>
  BY DEF RevokeUntilExp
<1>2. t.jti \in Jtis \cup {NoKey} /\ t.exp \in R!Untils
  BY <1>1, DaemonAssumption DEF TypeOK, Tokens, R!Times, R!Untils
<1>3. /\ RP!IInv' /\ R!TypeOK' /\ R!Observe /\ lookup' = lookup
      /\ revoked' = [j \in Jtis |-> IF j = t.jti THEN t.exp ELSE revoked[j]]
  BY <1>1, <1>2, RevokerStep DEF R!RevokeUntil
<1>4. TypeOK'
  BY <1>1, <1>3 DEF TypeOK
<1>5. ChainInv' /\ TimesInv' /\ WindowPreserved'
  BY <1>1 DEF ChainInv, TimesInv, WindowPreserved
<1>6. KilledInv'
  <2>1. ASSUME NEW u \in issued, u.chain \in killed' PROVE u.jti # t.jti /\ u.chain \in killed
    BY <1>1, <2>1
  <2> QED
    BY <1>1, <1>3, <2>1 DEF KilledInv
<1>7. ReqInv'
  <2>1. ASSUME NEW q \in Requests PROVE (LookupInv(q) /\ BarredInv(q))'
    <3>1. LookupInv(q) /\ BarredInv(q)
      BY DEF ReqInv
    <3>2. q \in barred' => q \in barred /\ (req[q].token.chain \in killed => req[q].token.chain \in killed')
      BY <1>1
    <3> QED
      BY <1>1, <1>3, <3>1, <3>2 DEF LookupInv, BarredInv
  <2> QED
    BY <2>1 DEF ReqInv
<1>8. RejectedForCause'
  BY <1>1, <1>3, SeenStays DEF RejectedForCause
<1> QED
  BY <1>3, <1>4, <1>5, <1>6, <1>7, <1>8

-----------------------------------------------------------------------------
\* A token that no key of the server vouches for, or that is not in its time,
\* is rejected: the kid rule of several keys included.
LEMMA KeyRejected ==
  ASSUME NEW c \in Configs, NEW t \in Tokens, ~KeyAccepts(c, t)
  PROVE  t.key \notin Trusted(c) \/ (c.additional # {} /\ t.kid # t.key)
<1>1. c.primary \in SignKeys /\ c.additional \subseteq SignKeys /\ NoKid \notin SignKeys
  BY DaemonAssumption DEF Configs
<1> QED
  BY <1>1 DEF KeyAccepts, SingleKeyAccepts, MultiKeyAccepts, Trusted

\* The state that /verify requests leave alone.
LEMMA ServerStays ==
  ASSUME IInv, UNCHANGED <<revoked, issued, killed>>
  PROVE  ChainInv' /\ KilledInv' /\ TimesInv' /\ WindowPreserved'
BY DEF IInv, ChainInv, KilledInv, TimesInv, WindowPreserved

LEMMA RejectStep ==
  ASSUME IInv, NEW q \in Requests, NEW t \in issued, VerifyReject(q, t) PROVE IInv'
<1> USE DEF IInv
<1> DEFINE r == [pc |-> "done", token |-> t, at |-> now, valid |-> FALSE, spent |-> spent]
<1>1. /\ req[q].pc = "idle" /\ ~(KeyAccepts(cfg, t) /\ InWindow(t, now))
      /\ req' = [req EXCEPT ![q] = r]
      /\ UNCHANGED <<revVars, cfg, restarts, issued, killed, spent, barred>>
  BY DEF VerifyReject
<1>2. r \in Reqs /\ t \in Tokens
  <2>1. now \in 0..MaxTime /\ t \in Tokens /\ spent \in SUBSET Tokens
    BY DaemonAssumption DEF TypeOK, R!TypeOK, R!Times
  <2> QED
    BY <2>1 DEF Reqs
<1>3. RP!IInv' /\ R!TypeOK' /\ UNCHANGED <<now, revoked, lookup, seen>>
  BY <1>1, RevokerStep DEF revVars
<1>4. /\ req' \in [Requests -> Reqs] /\ req'[q] = r
      /\ \A p \in Requests : p # q => req'[p] = req[p]
  BY <1>1, <1>2 DEF TypeOK
<1>5. r.pc = "done" /\ r.token = t /\ r.at = now /\ r.valid = FALSE
  OBVIOUS
<1> HIDE DEF r
<1>6. TypeOK'
  BY <1>1, <1>3, <1>4, <1>5 DEF TypeOK
<1>7. ChainInv' /\ KilledInv' /\ TimesInv' /\ WindowPreserved'
  BY <1>1, <1>3, ServerStays
<1>8. ReqInv'
  <2>1. q \notin barred /\ lookup[q].pc = "idle" /\ lookup[q].answer # "error"
    BY <1>1 DEF ReqInv, LookupInv, BarredInv
  <2> QED
    BY <1>1, <1>3, <1>4, <1>5, <2>1 DEF ReqInv, LookupInv, BarredInv
<1>9. RejectedForCause'
  <2>1. ~InWindow(t, now) \/ t.key \notin Trusted(cfg) \/ (cfg.additional # {} /\ t.kid # t.key)
    BY <1>1, <1>2, KeyRejected DEF TypeOK
  <2>2. ASSUME NEW p \in Requests, p # q, req'[p].pc = "done", ~req'[p].valid
        PROVE  LET u == req'[p].token IN
               \/ ~InWindow(u, req'[p].at) \/ u.key \notin Trusted(cfg)
               \/ (cfg.additional # {} /\ u.kid # u.key) \/ "revoked" \in seen[p]
    BY <1>4, <2>2 DEF RejectedForCause
  <2> QED
    BY <1>1, <1>3, <1>4, <1>5, <2>1, <2>2 DEF RejectedForCause
<1> QED
  BY <1>3, <1>6, <1>7, <1>8, <1>9

LEMMA ParseStep ==
  ASSUME IInv, NEW q \in Requests, NEW t \in issued, VerifyParse(q, t) PROVE IInv'
<1> USE DEF IInv
<1> DEFINE r == [pc |-> "parsed", token |-> t, at |-> now, valid |-> FALSE, spent |-> spent]
<1>1. /\ req[q].pc = "idle"
      /\ req' = [req EXCEPT ![q] = r]
      /\ barred' = IF t.chain \in killed THEN barred \cup {q} ELSE barred
      /\ UNCHANGED <<revVars, cfg, restarts, issued, killed, spent>>
  BY DEF VerifyParse
<1>2. r \in Reqs /\ t \in Tokens
  <2>1. now \in 0..MaxTime /\ t \in Tokens /\ spent \in SUBSET Tokens
    BY DaemonAssumption DEF TypeOK, R!TypeOK, R!Times
  <2> QED
    BY <2>1 DEF Reqs
<1>3. RP!IInv' /\ R!TypeOK' /\ UNCHANGED <<now, revoked, lookup, seen>>
  BY <1>1, RevokerStep DEF revVars
<1>4. /\ req' \in [Requests -> Reqs] /\ req'[q] = r
      /\ \A p \in Requests : p # q => req'[p] = req[p]
  BY <1>1, <1>2 DEF TypeOK
<1>5. r.pc = "parsed" /\ r.token = t
  OBVIOUS
<1> HIDE DEF r
<1>6. TypeOK'
  BY <1>1, <1>3, <1>4, <1>5 DEF TypeOK
<1>7. ChainInv' /\ KilledInv' /\ TimesInv' /\ WindowPreserved'
  BY <1>1, <1>3, ServerStays
<1>8. ReqInv'
  <2>1. q \notin barred /\ lookup[q].pc = "idle" /\ lookup[q].answer # "error"
    BY <1>1 DEF ReqInv, LookupInv, BarredInv
  <2> QED
    BY <1>1, <1>3, <1>4, <1>5, <2>1 DEF ReqInv, LookupInv, BarredInv
<1>9. RejectedForCause'
  BY <1>1, <1>3, <1>4, <1>5 DEF RejectedForCause
<1> QED
  BY <1>3, <1>6, <1>7, <1>8, <1>9

\* The revoker is asked for the jti of the request's token.
LEMMA LookupStep == ASSUME IInv, NEW q \in Requests, VerifyLookup(q) PROVE IInv'
<1> USE DEF IInv
<1>1. /\ req[q].pc = "parsed" /\ UNCHANGED srvVars
      /\ \/ R!LookupCall(q, req[q].token.jti) \/ R!LookupMiss(q) \/ R!LookupRead(q) \/ R!LookupDecide(q)
  BY DEF VerifyLookup
<1>2. /\ req[q].token \in issued /\ req[q].token \in Tokens
      /\ req[q].token.jti \in Jtis \cup {NoKey} /\ req[q].token.jti # NilToken
  BY <1>1, DaemonAssumption DEF TypeOK, Tokens
<1>3. RP!IInv' /\ R!TypeOK'
  BY <1>1, <1>2, RevokerStep
<1>4. /\ revoked' = revoked /\ lookup' = [lookup EXCEPT ![q] = lookup'[q]]
      /\ \A p \in Requests : p # q => lookup'[p] = lookup[p] /\ seen'[p] = seen[p]
  BY <1>1 DEF R!LookupCall, R!LookupMiss, R!LookupRead, R!LookupDecide, R!Answered, TypeOK, R!TypeOK
<1>5. TypeOK'
  BY <1>1, <1>3 DEF TypeOK, srvVars
<1>6. ChainInv' /\ KilledInv' /\ TimesInv' /\ WindowPreserved'
  BY <1>1, <1>4, ServerStays DEF srvVars
<1>7. LookupInv(q)'
  <2>1. LookupInv(q) /\ lookup \in [Requests -> [pc : {"idle", "called", "read", "done"}, key : R!Asked,
                                                 until : R!Untils \cup {R!Absent},
                                                 answer : {"revoked", "clear", "error"}]]
    BY DEF ReqInv, TypeOK, R!TypeOK
  <2>2. lookup'[q].key = req[q].token.jti /\ lookup'[q].answer # "error"
    BY <1>1, <1>2, <2>1 DEF LookupInv, R!LookupCall, R!LookupMiss, R!LookupRead, R!LookupDecide, R!Answered
  <2> QED
    BY <1>1, <2>2 DEF LookupInv, srvVars
<1>8. BarredInv(q)'
  <2> SUFFICES ASSUME q \in barred
               PROVE  /\ lookup'[q].pc = "read" => lookup'[q].until = R!Forever
                      /\ lookup'[q].pc = "done" => lookup'[q].answer # "clear"
    BY <1>1 DEF ReqInv, BarredInv, srvVars
  <2>1. LookupInv(q) /\ BarredInv(q)
    BY DEF ReqInv
  <2>2. req[q].token.jti \in Jtis /\ revoked[req[q].token.jti] = R!Forever
    BY <1>2, <2>1 DEF BarredInv, KilledInv
  <2>3. R!Forever # R!Absent
    BY DEF R!Forever, R!Absent
  <2>4. lookup \in [Requests -> [pc : {"idle", "called", "read", "done"}, key : R!Asked,
                                 until : R!Untils \cup {R!Absent},
                                 answer : {"revoked", "clear", "error"}]]
    BY DEF TypeOK, R!TypeOK
  <2>5. CASE R!LookupCall(q, req[q].token.jti)
    BY <2>4, <2>5 DEF R!LookupCall
  <2>6. CASE R!LookupMiss(q)
    BY <1>2, <2>1, <2>2, <2>3, <2>4, <2>6, DaemonAssumption DEF LookupInv, R!LookupMiss, R!Answered
  <2>7. CASE R!LookupRead(q)
    BY <2>1, <2>2, <2>4, <2>7 DEF LookupInv, R!LookupRead
  <2>8. CASE R!LookupDecide(q)
    BY <2>1, <2>4, <2>8 DEF BarredInv, R!LookupDecide, R!Answered, R!Lapsed
  <2> QED
    BY <1>1, <2>5, <2>6, <2>7, <2>8
<1>9. ReqInv'
  BY <1>1, <1>4, <1>7, <1>8 DEF ReqInv, LookupInv, BarredInv, srvVars
<1>10. RejectedForCause'
  <2>1. \A p \in Requests : req[p].pc = "done" => p # q
    BY <1>1
  <2> QED
    BY <1>1, <1>4, <2>1 DEF RejectedForCause, srvVars
<1> QED
  BY <1>3, <1>5, <1>6, <1>9, <1>10

\* runChecks: the answer of the revoker decides.
LEMMA CheckStep == ASSUME IInv, NEW q \in Requests, VerifyCheck(q) PROVE IInv'
<1> USE DEF IInv
<1> DEFINE r == [req[q] EXCEPT !.pc = "done", !.valid = (lookup[q].answer = "clear")]
<1>1. /\ req[q].pc = "parsed" /\ lookup[q].pc = "done"
      /\ UNCHANGED <<revVars, cfg, restarts, issued, killed, spent, barred>>
  BY DEF VerifyCheck
<1>2. req \in [Requests -> Reqs] /\ req[q] \in Reqs
  BY DEF TypeOK
<1>3. r \in Reqs
  BY <1>2 DEF Reqs
<1>4. r.pc = "done" /\ r.valid = (lookup[q].answer = "clear") /\ r.token = req[q].token /\ r.at = req[q].at
  BY <1>2 DEF Reqs
<1>5. /\ req' \in [Requests -> Reqs] /\ req'[q] = r
      /\ \A p \in Requests : p # q => req'[p] = req[p]
  BY <1>2, <1>3 DEF VerifyCheck
<1> HIDE DEF r
<1>6. RP!IInv' /\ R!TypeOK' /\ UNCHANGED <<now, revoked, lookup, seen>>
  BY <1>1, RevokerStep DEF revVars
<1>7. TypeOK'
  BY <1>1, <1>4, <1>5, <1>6 DEF TypeOK
<1>8. ChainInv' /\ KilledInv' /\ TimesInv' /\ WindowPreserved'
  BY <1>1, <1>6, ServerStays
<1>9. ReqInv'
  <2>1. LookupInv(q) /\ BarredInv(q)
    BY DEF ReqInv
  <2>2. LookupInv(q)' /\ BarredInv(q)'
    BY <1>1, <1>4, <1>5, <1>6, <2>1 DEF LookupInv, BarredInv
  <2> QED
    BY <1>1, <1>5, <1>6, <2>2 DEF ReqInv, LookupInv, BarredInv
<1>10. RejectedForCause'
  <2>1. lookup[q].answer # "clear" => "revoked" \in seen[q]
    <3>1. lookup[q].answer \in {"revoked", "clear", "error"} /\ lookup[q].answer # "error"
      BY DEF TypeOK, R!TypeOK, ReqInv, LookupInv
    <3>2. lookup[q].answer \in seen[q] \/ lookup[q].answer = "clear"
      BY <1>1 DEF RP!IInv, RP!LookupHonest
    <3> QED
      BY <3>1, <3>2
  <2>2. ASSUME NEW p \in Requests, p # q, req'[p].pc = "done", ~req'[p].valid
        PROVE  LET u == req'[p].token IN
               \/ ~InWindow(u, req'[p].at) \/ u.key \notin Trusted(cfg)
               \/ (cfg.additional # {} /\ u.kid # u.key) \/ "revoked" \in seen[p]
    BY <1>5, <2>2 DEF RejectedForCause
  <2> QED
    BY <1>1, <1>4, <1>5, <1>6, <2>1, <2>2 DEF RejectedForCause
<1> QED
  BY <1>6, <1>7, <1>8, <1>9, <1>10

\* The handler returns, and with it the call of the revoker.
LEMMA DoneStep == ASSUME IInv, NEW q \in Requests, VerifyDone(q) PROVE IInv'
<1> USE DEF IInv
<1>1. /\ req[q].pc = "done"
      /\ req' = [req EXCEPT ![q] = IdleReq] /\ barred' = barred \ {q}
      /\ R!LookupReturn(q) \/ (lookup[q].pc = "idle" /\ UNCHANGED revVars)
      /\ UNCHANGED <<cfg, restarts, issued, killed, spent>>
  BY DEF VerifyDone
<1>2. RP!IInv' /\ R!TypeOK'
  BY <1>1, RevokerStep
<1>3. /\ revoked' = revoked /\ lookup'[q].pc = "idle" /\ lookup'[q].answer # "error"
      /\ \A p \in Requests : p # q => lookup'[p] = lookup[p] /\ seen'[p] = seen[p]
  BY <1>1 DEF R!LookupReturn, R!Idle, revVars, TypeOK, R!TypeOK, ReqInv, LookupInv
<1>4. /\ req' \in [Requests -> Reqs] /\ req'[q] = IdleReq
      /\ \A p \in Requests : p # q => req'[p] = req[p]
  BY <1>1, IdleTyped DEF TypeOK
<1>5. TypeOK'
  BY <1>1, <1>2, <1>4, IdleTyped DEF TypeOK
<1>6. ChainInv' /\ KilledInv' /\ TimesInv' /\ WindowPreserved'
  BY <1>1, <1>3, ServerStays
<1>7. ReqInv'
  BY <1>1, <1>3, <1>4, IdleTyped DEF ReqInv, LookupInv, BarredInv
<1>8. RejectedForCause'
  BY <1>1, <1>3, <1>4, IdleTyped DEF RejectedForCause
<1> QED
  BY <1>2, <1>5, <1>6, <1>7, <1>8

\* A restart forgets requests and revocations, never tokens.
LEMMA RestartStep == ASSUME IInv, NEW c \in Configs, Restart(c) PROVE IInv'
<1> USE DEF IInv
<1>1. /\ restarts < MaxRestarts /\ restarts' = restarts + 1 /\ cfg' = c
      /\ req' = [q \in Requests |-> IdleReq] /\ lookup' = [q \in Requests |-> R!Idle]
      /\ killed' = {} /\ spent' = {} /\ barred' = {} /\ UNCHANGED <<now, sweep, issued>>
      /\ revoked' = [j \in Jtis |-> R!Absent]
      /\ seen' = [q \in Requests |-> {}] /\ rewritten' = {}
  BY DEF Restart
<1>2. \A q \in Requests : req'[q] = IdleReq /\ lookup'[q] = R!Idle
  BY <1>1
<1>3. R!Idle.pc = "idle" /\ R!Idle.answer = "clear"
  BY DEF R!Idle
<1>4. R!TypeOK'
  BY <1>1, DaemonAssumption DEF TypeOK, R!TypeOK, R!Idle, R!Asked, R!Absent, R!Untils, R!Times
<1>5. RP!IInv'
  <2>1. RP!TypeOK'
    BY <1>4 DEF R!TypeOK, RP!TypeOK, R!Times, RP!Times, R!Untils, RP!Untils, R!Asked, RP!Asked,
                R!Absent, RP!Absent
  <2>2. RP!SweepClockOld' /\ RP!SeesPresent' /\ RP!CopyTells' /\ RP!LookupHonest'
    BY <1>2, <1>3 DEF RP!SweepClockOld, RP!SeesPresent, RP!CopyTells, RP!LookupHonest, RP!Pending
  <2> QED
    BY <2>1, <2>2 DEF RP!IInv
<1>6. TypeOK'
  <2>1. restarts + 1 \in 0..MaxRestarts
    BY <1>1, DaemonAssumption DEF TypeOK
  <2> QED
    BY <1>1, <1>2, <1>4, <2>1, IdleTyped DEF TypeOK
<1>7. ChainInv' /\ KilledInv' /\ TimesInv' /\ WindowPreserved'
  BY <1>1 DEF ChainInv, KilledInv, TimesInv, WindowPreserved
<1>8. ReqInv' /\ RejectedForCause'
  BY <1>1, <1>2, <1>3, IdleTyped DEF ReqInv, LookupInv, BarredInv, RejectedForCause
<1> QED
  BY <1>5, <1>6, <1>7, <1>8

-----------------------------------------------------------------------------
LEMMA NextStep == IInv /\ [Next]_vars => IInv'
<1> SUFFICES ASSUME IInv, [Next]_vars PROVE IInv'
  OBVIOUS
<1>1. CASE UNCHANGED vars
  <2>1. UNCHANGED revVars
    BY <1>1 DEF vars, revVars
  <2>2. RP!IInv' /\ R!TypeOK'
    BY <2>1, RevokerStep DEF IInv
  <2>3. TypeOK'
    BY <1>1, <2>2 DEF vars, IInv, TypeOK
  <2> QED
    BY <1>1, <2>2, <2>3 DEF vars, IInv, ChainInv, KilledInv, TimesInv, ReqInv, LookupInv, BarredInv,
                            RejectedForCause, WindowPreserved
<1>2. ASSUME NEW exp \in Exps, NEW iat \in Iats, NEW nbf \in Nbfs, NEW kid \in KidHeaders,
             Sign(exp, iat, nbf, kid)
      PROVE  IInv'
  BY <1>2, SignWithStep, DaemonAssumption DEF Sign
<1>3. ASSUME NEW d \in Lifetimes, NEW iat \in Iats, NEW nbf \in Nbfs, NEW kid \in KidHeaders,
             SignFor(d, iat, nbf, kid)
      PROVE  IInv'
  <2>1. now + d \in Nat
    BY <1>3, DaemonAssumption DEF SignFor, IInv, TypeOK, R!TypeOK, R!Times
  <2>2. NumericDate(now + d) \in Nat
    BY <2>1, DateWhole, ReadWhole
  <2>3. SignWith([exp |-> NumericDate(now + d), iat |-> iat, nbf |-> nbf], kid)
    BY <1>3 DEF SignFor
  <2> QED
    BY <2>2, <2>3, SignWithStep, DaemonAssumption
<1>4. CASE Tick
  BY <1>4, TickStep
<1>5. ASSUME NEW t \in issued,
             (\E exp \in {t.exp, Missing, Bad} : Refresh(t, exp)) \/ Revoke(t) \/ RevokeUntilExp(t)
      PROVE  IInv'
  BY <1>5, RefreshStep, RevokeStep, RevokeUntilExpStep
<1>6. ASSUME NEW q \in Requests,
             \/ \E t \in issued : VerifyReject(q, t) \/ VerifyParse(q, t)
             \/ VerifyLookup(q) \/ VerifyCheck(q) \/ VerifyDone(q)
      PROVE  IInv'
  BY <1>6, RejectStep, ParseStep, LookupStep, CheckStep, DoneStep
<1>7. ASSUME NEW c \in Configs, Restart(c) PROVE IInv'
  BY <1>7, RestartStep
<1> QED
  BY <1>1, <1>2, <1>3, <1>4, <1>5, <1>6, <1>7 DEF Next

\* The inductive invariant: which jti a chain keeps, what the revoker holds
\* for it, and how far a request has got with the revoker.
THEOREM InvHolds == Spec => []IInv
BY InitInv, NextStep, PTL DEF Spec

\* The types of the server's state; every time claim handed out by /sign and
\* /refresh is a whole second.
THEOREM TypeCorrect == Spec => []TypeOK
<1>1. IInv => TypeOK
  BY DEF IInv
<1> QED
  BY <1>1, InvHolds, PTL

\* Revoking a token's jti forever silences its refresh chain for every later
\* /verify, whatever else is signed, refreshed, revoked or looked up meanwhile.
THEOREM ChainSilenced == Spec => []ChainRevoked
<1>1. IInv => ChainRevoked
  BY DEF IInv, ReqInv, BarredInv, ChainRevoked
<1> QED
  BY <1>1, InvHolds, PTL

\* /verify rejects only for a cause: time, key, kid or the revoker.
THEOREM RejectsForCause == Spec => []RejectedForCause
<1>1. IInv => RejectedForCause
  BY DEF IInv
<1> QED
  BY <1>1, InvHolds, PTL

\* However often a token is refreshed, and wherever in a second, its lifetime
\* is the one it was signed with, for every resolution of the clock.
THEOREM WindowKept == Spec => []WindowPreserved
<1>1. IInv => WindowPreserved
  BY DEF IInv
<1> QED
  BY <1>1, InvHolds, PTL
=============================================================================
