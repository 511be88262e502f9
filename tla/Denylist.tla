------------------------------ MODULE Denylist ------------------------------
(***************************************************************************)
(* What a revocation list promises to its callers, with no map, no locks   *)
(* and no housekeeping: at every instant each key either is denied (until  *)
(* an instant, or forever) or is not, and a lookup that runs while other   *)
(* goroutines change the list answers with a verdict that was right at     *)
(* some instant of the call.  The one licence it takes is the one the      *)
(* implementation needs: when the looked-up key is rewritten during the    *)
(* call, "clear" is allowed too.                                           *)
(***************************************************************************)
EXTENDS Integers

CONSTANTS Keys,        \* the revocation keys (jti or sub values)
          NoKey,       \* the empty key: what extraction yields when it fails
          NilToken,    \* a nil *jwt.Token handed to the lookup
          Readers,     \* goroutines that look keys up
          MaxTime      \* bound on the clock

VARIABLES now,         \* the clock
          denied,      \* key -> NotDenied, Forever, or an instant still ahead
          call,        \* reader -> the call it is making
          may          \* reader -> the answers its call may return

vars == <<now, denied, call, may>>

Forever   == 0
NotDenied == -1
Answers   == {"revoked", "clear", "error"}
Asked     == Keys \cup {NoKey, NilToken}

Idle == [pc |-> "idle", key |-> NoKey, answer |-> "clear"]

Verdict(k) == IF k = NilToken THEN "error"
              ELSE IF k = NoKey \/ denied[k] = NotDenied THEN "clear"
              ELSE "revoked"

\* What is still denied at time t of a list d.
Lapse(d, t) == [k \in Keys |-> IF d[k] = Forever \/ t < d[k] THEN d[k] ELSE NotDenied]

\* Every pending call may return the verdict of the new instant; a call
\* whose key is in the set W rewritten by the step may return "clear" too.
Widen(W) ==
  may' = [r \in Readers |->
            IF call[r].pc = "pending"
            THEN may[r] \cup {Verdict(call[r].key)'}
                        \cup (IF call[r].key \in W THEN {"clear"} ELSE {})
            ELSE may[r]]

Init == /\ now = 1
        /\ denied = [k \in Keys |-> NotDenied]
        /\ call = [r \in Readers |-> Idle]
        /\ may = [r \in Readers |-> {}]

Tick == /\ now < MaxTime
        /\ now' = now + 1
        /\ denied' = Lapse(denied, now')
        /\ UNCHANGED call
        /\ Widen({})

Deny(k, until) ==
        /\ denied' = Lapse([denied EXCEPT ![k] = until], now)
        /\ UNCHANGED <<now, call>>
        /\ Widen({k})

Allow(k) ==
        /\ denied' = [denied EXCEPT ![k] = NotDenied]
        /\ UNCHANGED <<now, call>>
        /\ Widen({k})

Begin(r, k) ==
        /\ call[r].pc = "idle"
        /\ call' = [call EXCEPT ![r] = [pc |-> "pending", key |-> k, answer |-> "clear"]]
        /\ may' = [may EXCEPT ![r] = {Verdict(k)}]
        /\ UNCHANGED <<now, denied>>

Answer(r) ==
        /\ call[r].pc = "pending"
        /\ \E a \in may[r] :
             call' = [call EXCEPT ![r].pc = "done", ![r].answer = a]
        /\ UNCHANGED <<now, denied, may>>

Return(r) ==
        /\ call[r].pc = "done"
        /\ call' = [call EXCEPT ![r] = Idle]
        /\ may' = [may EXCEPT ![r] = {}]
        /\ UNCHANGED <<now, denied>>

Next == \/ Tick
        \/ \E k \in Keys : Allow(k) \/ \E u \in 0..MaxTime : Deny(k, u)
        \/ \E r \in Readers : Answer(r) \/ Return(r) \/ \E k \in Asked : Begin(r, k)

Spec == Init /\ [][Next]_vars
=============================================================================
