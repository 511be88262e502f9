------------------------- MODULE TokenSourceProofs --------------------------
(***************************************************************************)
(* Proofs about TokenSource for every set of goroutines, every TTL,        *)
(* refresh interval and delay, and any number of rewritings of the file.   *)
(***************************************************************************)
EXTENDS TokenSource, TLAPS

\* Who may be where, and who holds which lock.
Places == /\ \A g \in Direct : call[g].pc \in {"idle", "flock", "read", "done"}
          /\ mu \in Clients \cup {Nobody}
          /\ \A g \in Goroutines : call[g].err => call[g].pc = "done"

\* FileTokenSource: the cached token was read at most MaxDelay before it was
\* stored.
FileInv ==
  /\ fcached.ver <= file
  /\ fcached # NoToken => /\ fcachedAt <= now
                          /\ fcachedAt - fcached.at <= MaxDelay

\* CachedTokenSource: the value came through the file source, and lapses TTL
\* after the two delays; while mu is held, it has lapsed.
MaxAge == Interval - 1 + 2 * MaxDelay

StoreInv ==
  /\ value.ver <= fcached.ver
  /\ value = NoToken \/ mu # Nobody => expireAt <= now
  /\ value # NoToken => expireAt <= value.at + MaxAge + TTL

\* A call that has loaded the value, one that reads the file, and one that
\* has a new token for the cache.
LoadedOK(g) ==
  call[g].pc = "loaded" =>
    /\ last[g] <= call[g].tok.ver /\ call[g].tok.ver <= value.ver
    /\ ~call[g].replaced => call[g].tok \in {value, NoToken}

ReadOK(g) ==
  call[g].pc = "read" =>
    /\ call[g].tok.at = call[g].since /\ call[g].since <= now /\ now - call[g].since <= MaxDelay
    /\ fcached.ver <= call[g].tok.ver /\ call[g].tok.ver <= file

ValueOK(g) ==
  call[g].pc \in {"value", "expiry"} =>
    /\ call[g].since <= now /\ now - call[g].since <= MaxDelay
    /\ call[g].since - call[g].tok.at <= Interval - 1 + MaxDelay
    /\ value.ver <= call[g].tok.ver /\ call[g].tok.ver <= fcached.ver
    /\ call[g].pc = "expiry" => value = call[g].tok

\* Nobody was given a newer token than the cache he asks holds.
LastOK(g) == last[g] <= IF g \in Direct THEN fcached.ver ELSE value.ver

CallInv == \A g \in Goroutines : LoadedOK(g) /\ ReadOK(g) /\ ValueOK(g) /\ LastOK(g)

IInv == TypeOK /\ Places /\ LocksReleased /\ FileInv /\ StoreInv /\ CallInv /\ TokenAge

-----------------------------------------------------------------------------
\* No token is a token, and a call that has not begun is a call.
LEMMA IdleTyped == NoToken \in Tokens /\ Idle \in Calls
<1>1. NoToken \in Tokens
  BY SourceAssumption DEF NoToken, Tokens
<1> QED
  BY <1>1, SourceAssumption DEF Idle, Calls, Steps

\* What the steps of a call do to the calls: goes on, ends, fails.
LEMMA GotoEffect ==
  ASSUME TypeOK, NEW g \in Goroutines, NEW pc \in Steps, NEW tok \in Tokens, Goto(g, pc, tok)
  PROVE  /\ call' \in [Goroutines -> Calls]
         /\ call'[g].pc = pc /\ call'[g].tok = tok
         /\ call'[g].since = IF pc \in {"read", "value"} THEN now ELSE 0
         /\ ~call'[g].replaced /\ call'[g].err = call[g].err
         /\ \A h \in Goroutines : h # g => call'[h] = call[h]
<1> DEFINE t == IF pc \in {"read", "value"} THEN now ELSE 0
           r == [call[g] EXCEPT !.pc = pc, !.tok = tok, !.replaced = FALSE, !.since = t]
<1>1. call \in [Goroutines -> Calls] /\ t \in 0..MaxTime
  BY SourceAssumption DEF TypeOK
<1>2. r \in Calls
  BY <1>1 DEF Calls
<1>3. call' = [call EXCEPT ![g] = r]
  BY <1>1 DEF Goto
<1>4. /\ r.pc = pc /\ r.tok = tok /\ r.since = t
      /\ ~r.replaced /\ r.err = call[g].err
  BY <1>1 DEF Calls
<1> QED
  BY <1>1, <1>2, <1>3, <1>4

LEMMA FinishEffect ==
  ASSUME TypeOK, NEW g \in Goroutines, NEW tok \in Tokens, Finish(g, tok)
  PROVE  /\ call' \in [Goroutines -> Calls] /\ last' \in [Goroutines -> -1..MaxVersion]
         /\ call'[g].pc = "done" /\ call'[g].tok = tok /\ call'[g].since = now
         /\ call'[g].replaced = call[g].replaced /\ call'[g].err = call[g].err
         /\ last'[g] = tok.ver
         /\ \A h \in Goroutines : h # g => call'[h] = call[h] /\ last'[h] = last[h]
<1> DEFINE r == [call[g] EXCEPT !.pc = "done", !.tok = tok, !.since = now]
<1>1. call \in [Goroutines -> Calls] /\ now \in 0..MaxTime /\ last \in [Goroutines -> -1..MaxVersion]
  BY DEF TypeOK
<1>2. r \in Calls /\ tok.ver \in -1..MaxVersion
  BY <1>1 DEF Calls, Steps, Tokens
<1>3. call' = [call EXCEPT ![g] = r] /\ last' = [last EXCEPT ![g] = tok.ver]
  BY <1>1 DEF Finish
<1>4. /\ r.pc = "done" /\ r.tok = tok /\ r.since = now
      /\ r.replaced = call[g].replaced /\ r.err = call[g].err
  BY <1>1 DEF Calls
<1> QED
  BY <1>1, <1>2, <1>3, <1>4

LEMMA FailEffect ==
  ASSUME TypeOK, NEW g \in Goroutines, Fail(g)
  PROVE  /\ call' \in [Goroutines -> Calls] /\ last' = last
         /\ call'[g].pc = "done" /\ call'[g].err
         /\ \A h \in Goroutines : h # g => call'[h] = call[h]
<1> DEFINE r == [call[g] EXCEPT !.pc = "done", !.tok = NoToken, !.err = TRUE, !.since = 0]
<1>1. call \in [Goroutines -> Calls]
  BY DEF TypeOK
<1>2. r \in Calls
  <2>1. call[g] \in Calls /\ 0 \in 0..MaxTime /\ NoToken \in Tokens /\ "done" \in Steps
    BY <1>1, IdleTyped, SourceAssumption DEF Steps
  <2> QED
    BY <2>1 DEF Calls
<1>3. call' = [call EXCEPT ![g] = r]
  BY <1>1 DEF Fail
<1>4. r.pc = "done" /\ r.err
  BY <1>1 DEF Calls
<1> QED
  BY <1>1, <1>2, <1>3, <1>4 DEF Fail

\* A new token for the cache is stored: calls that hold the old one are told.
LEMMA StoreEffect ==
  ASSUME TypeOK, NEW g \in Goroutines, StoreValue(g)
  PROVE  /\ call' \in [Goroutines -> Calls]
         /\ call'[g].pc = "expiry" /\ call'[g].tok = call[g].tok /\ call'[g].since = call[g].since
         /\ \A h \in Goroutines : h # g =>
              /\ call'[h].pc = call[h].pc /\ call'[h].tok = call[h].tok
              /\ call'[h].err = call[h].err /\ call'[h].since = call[h].since
              /\ call[h].replaced => call'[h].replaced
              /\ call[h].pc # "loaded" => call'[h] = call[h]
              /\ call[h].pc = "loaded" /\ call[h].tok # NoToken => call'[h].replaced
<1>1. call \in [Goroutines -> Calls]
  BY DEF TypeOK
<1>2. ASSUME NEW h \in Goroutines
      PROVE  /\ [call[h] EXCEPT !.pc = "expiry"] \in Calls
             /\ [call[h] EXCEPT !.replaced = TRUE] \in Calls
             /\ call[h] \in Calls
  BY <1>1 DEF Calls, Steps
<1>3. call' \in [Goroutines -> Calls]
  BY <1>2 DEF StoreValue
<1> QED
  BY <1>1, <1>3 DEF StoreValue, Calls

-----------------------------------------------------------------------------
LEMMA InitInv == Init => IInv
<1> SUFFICES ASSUME Init PROVE IInv
  OBVIOUS
<1>1. \A g \in Goroutines : call[g] = Idle /\ last[g] = -1
  BY DEF Init
<1>2. TypeOK
  <2>1. call \in [Goroutines -> Calls] /\ fcached \in Tokens /\ value \in Tokens
    BY IdleTyped DEF Init
  <2>2. /\ now \in 0..MaxTime /\ file \in 0..MaxVersion /\ fcachedAt \in 0..MaxTime
        /\ expireAt \in 0..(MaxTime + TTL) /\ last \in [Goroutines -> -1..MaxVersion]
    BY SourceAssumption DEF Init
  <2> QED
    BY <1>1, <2>1, <2>2 DEF Init, TypeOK, Locks, Idle
<1>3. Places /\ LocksReleased /\ TokenAge
  BY <1>1, SourceAssumption DEF Init, Places, LocksReleased, TokenAge, Idle, Goroutines
<1>4. FileInv /\ StoreInv
  BY SourceAssumption DEF Init, FileInv, StoreInv, NoToken
<1>5. CallInv
  BY <1>1 DEF Init, CallInv, LoadedOK, ReadOK, ValueOK, LastOK, Idle, NoToken
<1> QED
  BY <1>2, <1>3, <1>4, <1>5 DEF IInv

\* The facts about the numbers in a state that the steps below use.
LEMMA Numbers ==
  ASSUME TypeOK
  PROVE  /\ now \in Int /\ file \in Int /\ fcachedAt \in Int /\ expireAt \in Int
         /\ fcached.ver \in Int /\ fcached.at \in Int /\ value.ver \in Int /\ value.at \in Int
         /\ \A g \in Goroutines : /\ call[g].tok.ver \in Int /\ call[g].tok.at \in Int
                                  /\ call[g].since \in Int /\ last[g] \in Int
                                  /\ call[g].tok \in Tokens /\ call[g] \in Calls
         /\ TTL \in Int /\ TTL > 0 /\ Interval \in Int /\ Interval > 0
         /\ MaxDelay \in Int /\ MaxDelay >= 0
<1>1. ASSUME NEW g \in Goroutines
      PROVE  call[g].tok \in Tokens /\ call[g].since \in 0..MaxTime /\ call[g] \in Calls
  BY DEF TypeOK, Calls
<1> QED
  BY <1>1, SourceAssumption DEF TypeOK, Tokens

LEMMA TickStep == ASSUME IInv, Tick PROVE IInv'
<1> USE DEF Tick, files, store, IInv
<1>1. TypeOK'
  BY SourceAssumption DEF TypeOK
<1>2. Places' /\ LocksReleased' /\ TokenAge'
  BY DEF Places, LocksReleased, TokenAge
<1>3. FileInv' /\ StoreInv'
  BY Numbers DEF FileInv, StoreInv, MaxAge
<1>4. CallInv'
  BY Numbers DEF CallInv, LoadedOK, ReadOK, ValueOK, LastOK
<1> QED
  BY <1>1, <1>2, <1>3, <1>4

LEMMA RotateStep == ASSUME IInv, Rotate PROVE IInv'
<1> USE DEF Rotate, files, store, IInv
<1>1. TypeOK'
  BY SourceAssumption DEF TypeOK
<1>2. Places' /\ LocksReleased' /\ TokenAge'
  BY DEF Places, LocksReleased, TokenAge
<1>3. FileInv' /\ StoreInv'
  BY Numbers DEF FileInv, StoreInv, MaxAge
<1>4. CallInv'
  BY Numbers DEF CallInv, LoadedOK, ReadOK, ValueOK, LastOK
<1> QED
  BY <1>1, <1>2, <1>3, <1>4

LEMMA LoadStep == ASSUME IInv, NEW g \in Goroutines, Load(g) PROVE IInv'
<1> USE DEF Load, files, store, IInv
<1>1. /\ call' \in [Goroutines -> Calls]
      /\ call'[g].pc = "loaded" /\ call'[g].tok = value /\ call'[g].err = call[g].err
      /\ \A h \in Goroutines : h # g => call'[h] = call[h]
  <2>1. value \in Tokens /\ "loaded" \in Steps
    BY DEF TypeOK, Steps
  <2> QED
    BY <2>1, GotoEffect
<1>2. g \notin Direct /\ call[g].pc = "idle"
  BY SourceAssumption DEF Goroutines
<1>3. TypeOK'
  BY <1>1 DEF TypeOK
<1>4. Places'
  BY <1>1, <1>2 DEF Places, Goroutines
<1>5. LocksReleased'
  BY <1>1, <1>2 DEF LocksReleased, Goroutines
<1>6. FileInv' /\ StoreInv'
  BY DEF FileInv, StoreInv, MaxAge
<1>7. CallInv'
  <2>1. LastOK(g) /\ value.ver \in Int
    BY Numbers DEF CallInv
  <2> QED
    BY <1>1, <1>2, <2>1 DEF CallInv, LoadedOK, ReadOK, ValueOK, LastOK
<1>8. TokenAge'
  BY <1>1 DEF TokenAge
<1> QED
  BY <1>3, <1>4, <1>5, <1>6, <1>7, <1>8

LEMMA CheckStep == ASSUME IInv, NEW g \in Goroutines, CheckLoaded(g) PROVE IInv'
<1> USE DEF files, store, IInv
<1>1. /\ call[g].pc = "loaded" /\ g \notin Direct /\ call[g].tok \in Tokens
      /\ UNCHANGED <<now, file, fcached, fcachedAt, fmu, value, expireAt, mu>>
  BY Numbers DEF CheckLoaded, Places
<1>2. FileInv' /\ StoreInv'
  BY <1>1 DEF FileInv, StoreInv, MaxAge
<1>3. CASE Reusable(call[g].tok) /\ Finish(g, call[g].tok)
  <2>1. /\ call' \in [Goroutines -> Calls] /\ last' \in [Goroutines -> -1..MaxVersion]
        /\ call'[g].pc = "done" /\ call'[g].tok = call[g].tok /\ call'[g].since = now
        /\ call'[g].replaced = call[g].replaced /\ call'[g].err = call[g].err
        /\ last'[g] = call[g].tok.ver
        /\ \A h \in Goroutines : h # g => call'[h] = call[h] /\ last'[h] = last[h]
    BY <1>1, <1>3, FinishEffect
  <2>2. call[g].tok # NoToken /\ now < expireAt
    BY <1>3 DEF Reusable
  <2>3. TypeOK'
    BY <1>1, <2>1, <2>2 DEF TypeOK
  <2>4. Places' /\ LocksReleased'
    BY <1>1, <2>1 DEF Places, LocksReleased, Goroutines
  <2>5. CallInv'
    BY <1>1, <2>1, Numbers DEF CallInv, LoadedOK, ReadOK, ValueOK, LastOK
  <2>6. TokenAge'
    <3>1. ~call[g].replaced => call[g].tok = value
      BY <1>1, <2>2 DEF CallInv, LoadedOK
    <3>2. ~call[g].replaced => now - call[g].tok.at <= Interval - 1 + TTL - 1 + 2 * MaxDelay
      BY <2>2, <3>1, Numbers DEF StoreInv, MaxAge
    <3> QED
      BY <1>1, <2>1, <3>2 DEF TokenAge
  <2> QED
    BY <1>2, <2>3, <2>4, <2>5, <2>6
<1>4. CASE Goto(g, "lock", NoToken) /\ UNCHANGED last
  <2>1. /\ call' \in [Goroutines -> Calls]
        /\ call'[g].pc = "lock" /\ call'[g].err = call[g].err
        /\ \A h \in Goroutines : h # g => call'[h] = call[h]
    <3>1. NoToken \in Tokens /\ "lock" \in Steps
      BY IdleTyped DEF Steps
    <3> QED
      BY <1>4, <3>1, GotoEffect
  <2>3. TypeOK'
    BY <1>1, <1>4, <2>1 DEF TypeOK
  <2>4. Places' /\ LocksReleased'
    BY <1>1, <2>1 DEF Places, LocksReleased, Goroutines
  <2>5. CallInv'
    BY <1>1, <1>4, <2>1, Numbers DEF CallInv, LoadedOK, ReadOK, ValueOK, LastOK
  <2>6. TokenAge'
    BY <2>1 DEF TokenAge
  <2> QED
    BY <1>2, <2>3, <2>4, <2>5, <2>6
<1> QED
  BY <1>3, <1>4 DEF CheckLoaded

LEMMA LockStep == ASSUME IInv, NEW g \in Goroutines, Lock(g) PROVE IInv'
<1> USE DEF files, store, IInv
<1>1. /\ call[g].pc = "lock" /\ g \in Clients /\ g \notin Direct /\ value \in Tokens /\ mu = Nobody
      /\ UNCHANGED <<now, file, fcached, fcachedAt, fmu, value, expireAt>>
  BY DEF Lock, Places, Goroutines, TypeOK
<1>2. FileInv'
  BY <1>1 DEF FileInv
<1>3. CASE Reusable(value) /\ Finish(g, value) /\ UNCHANGED mu
  <2>1. /\ call' \in [Goroutines -> Calls] /\ last' \in [Goroutines -> -1..MaxVersion]
        /\ call'[g].pc = "done" /\ call'[g].tok = value /\ call'[g].since = now
        /\ call'[g].replaced = call[g].replaced /\ call'[g].err = call[g].err
        /\ last'[g] = value.ver
        /\ \A h \in Goroutines : h # g => call'[h] = call[h] /\ last'[h] = last[h]
    BY <1>1, <1>3, FinishEffect
  <2>2. value # NoToken /\ now < expireAt
    BY <1>3 DEF Reusable
  <2>3. TypeOK'
    BY <1>1, <1>3, <2>1, <2>2 DEF TypeOK
  <2>4. Places' /\ LocksReleased'
    BY <1>1, <1>3, <2>1 DEF Places, LocksReleased, Goroutines
  <2>5. CallInv'
    BY <1>1, <2>1, Numbers DEF CallInv, LoadedOK, ReadOK, ValueOK, LastOK
  <2>6. TokenAge'
    <3>1. now - value.at <= Interval - 1 + TTL - 1 + 2 * MaxDelay
      BY <2>2, Numbers DEF StoreInv, MaxAge
    <3> QED
      BY <1>1, <2>1, <3>1 DEF TokenAge
  <2>7. StoreInv'
    BY <1>1, <1>3 DEF StoreInv, MaxAge
  <2> QED
    BY <1>2, <2>3, <2>4, <2>5, <2>6, <2>7
<1>4. CASE ~Reusable(value) /\ Goto(g, "ask", NoToken) /\ mu' = g /\ UNCHANGED last
  <2>1. /\ call' \in [Goroutines -> Calls]
        /\ call'[g].pc = "ask" /\ call'[g].err = call[g].err
        /\ \A h \in Goroutines : h # g => call'[h] = call[h]
    <3>1. NoToken \in Tokens /\ "ask" \in Steps
      BY IdleTyped DEF Steps
    <3> QED
      BY <1>4, <3>1, GotoEffect
  <2>3. TypeOK'
    BY <1>1, <1>4, <2>1 DEF TypeOK, Locks
  <2>4. Places' /\ LocksReleased'
    BY <1>1, <1>4, <2>1, SourceAssumption DEF Places, LocksReleased, Goroutines
  <2>5. CallInv'
    BY <1>1, <1>4, <2>1, Numbers DEF CallInv, LoadedOK, ReadOK, ValueOK, LastOK
  <2>6. TokenAge'
    BY <2>1 DEF TokenAge
  <2>7. StoreInv'
    BY <1>1, <1>4, Numbers DEF StoreInv, MaxAge, Reusable
  <2> QED
    BY <1>2, <2>3, <2>4, <2>5, <2>6, <2>7
<1> QED
  BY <1>3, <1>4 DEF Lock

LEMMA ReturnStep == ASSUME IInv, NEW g \in Goroutines, Return(g) PROVE IInv'
<1> USE DEF Return, files, store, IInv
<1>1. /\ call' \in [Goroutines -> Calls]
      /\ call'[g] = Idle
      /\ \A h \in Goroutines : h # g => call'[h] = call[h]
  BY IdleTyped DEF TypeOK
<1>2. Idle.pc = "idle" /\ Idle.err = FALSE
  BY DEF Idle
<1>3. TypeOK'
  BY <1>1, <1>2 DEF TypeOK
<1>4. Places' /\ LocksReleased'
  BY <1>1, <1>2 DEF Places, LocksReleased, Goroutines
<1>5. FileInv' /\ StoreInv'
  BY DEF FileInv, StoreInv, MaxAge
<1>6. CallInv'
  BY <1>1, <1>2 DEF CallInv, LoadedOK, ReadOK, ValueOK, LastOK
<1>7. TokenAge'
  BY <1>1, <1>2 DEF TokenAge
<1> QED
  BY <1>3, <1>4, <1>5, <1>6, <1>7

\* The file source gives a token to its caller.
LEMMA ReturnsEffect ==
  ASSUME TypeOK, NEW g \in Goroutines, NEW tok \in Tokens, FileReturns(g, tok)
  PROVE  /\ call' \in [Goroutines -> Calls] /\ last' \in [Goroutines -> -1..MaxVersion]
         /\ call'[g].pc = IF g \in Direct THEN "done" ELSE "value"
         /\ call'[g].tok = tok /\ call'[g].since = now
         /\ call'[g].err = call[g].err
         /\ last'[g] = IF g \in Direct THEN tok.ver ELSE last[g]
         /\ \A h \in Goroutines : h # g => call'[h] = call[h] /\ last'[h] = last[h]
<1>1. CASE g \in Direct
  BY <1>1, FinishEffect DEF FileReturns
<1>2. CASE g \notin Direct
  <2>1. "value" \in Steps /\ Goto(g, "value", tok) /\ last' = last
    BY <1>2 DEF Steps, FileReturns
  <2>2. last \in [Goroutines -> -1..MaxVersion]
    BY DEF TypeOK
  <2> QED
    BY <1>2, <2>1, <2>2, GotoEffect
<1> QED
  BY <1>1, <1>2

\* What a fresh token of the file source's cache is worth.
LEMMA FreshToken ==
  ASSUME IInv, FileFresh
  PROVE  /\ fcached \in Tokens /\ fcached # NoToken
         /\ now - fcached.at <= Interval - 1 + MaxDelay
<1>1. fcached # NoToken /\ now - fcachedAt < Interval /\ fcachedAt - fcached.at <= MaxDelay
  BY DEF IInv, FileFresh, FileInv
<1> QED
  BY <1>1, Numbers DEF IInv, TypeOK

\* A token is given out that is not too old and not older than what the caches
\* had, while the cache of the file source holds it.
LEMMA ReturnsStep ==
  ASSUME IInv, NEW g \in Goroutines, NEW tok \in Tokens, FileReturns(g, tok),
         call[g].pc \in {"ask", "flock", "read"} \/ (g \in Direct /\ call[g].pc = "idle"),
         tok # NoToken, now - tok.at <= Interval - 1 + MaxDelay,
         tok = fcached', fcached.ver <= fcached'.ver,
         fmu = Nobody \/ fmu = g, fmu' = Nobody,
         UNCHANGED <<now, file, value, expireAt, mu>>
  PROVE  /\ call' \in [Goroutines -> Calls] /\ last' \in [Goroutines -> -1..MaxVersion]
         /\ \A h \in Goroutines : call'[h].pc \in {"value", "expiry", "done"} =>
                                    call'[h].err \/ call'[h].tok # NoToken
         /\ Places' /\ LocksReleased' /\ CallInv' /\ TokenAge'
<1> USE DEF IInv
<1>1. /\ call' \in [Goroutines -> Calls] /\ last' \in [Goroutines -> -1..MaxVersion]
      /\ call'[g].pc = IF g \in Direct THEN "done" ELSE "value"
      /\ call'[g].tok = tok /\ call'[g].since = now
      /\ call'[g].err = call[g].err
      /\ last'[g] = IF g \in Direct THEN tok.ver ELSE last[g]
      /\ \A h \in Goroutines : h # g => call'[h] = call[h] /\ last'[h] = last[h]
  BY ReturnsEffect
<1>2. g \in Direct \/ (g \in Clients /\ g \notin Direct /\ call[g].pc # "idle" /\ mu = g)
  BY SourceAssumption DEF LocksReleased, Goroutines
<1>3. tok.ver \in Int /\ tok.at \in Int /\ fcached.ver <= tok.ver
  BY SourceAssumption DEF Tokens
<1>4. \A h \in Goroutines : call'[h].pc \in {"value", "expiry", "done"} =>
                              call'[h].err \/ call'[h].tok # NoToken
  BY <1>1 DEF TypeOK
<1>5. Places'
  BY <1>1, <1>2 DEF Places, Goroutines
<1>6. LocksReleased'
  <2>1. ASSUME NEW h \in Goroutines PROVE (fmu' = h <=> call'[h].pc = "read")
    BY <1>1, SourceAssumption DEF LocksReleased
  <2>2. ASSUME NEW h \in Clients
        PROVE  mu' = h <=> call'[h].pc \in {"ask", "flock", "read", "value", "expiry"}
    <3>1. h \in Goroutines /\ h \notin Direct
      BY SourceAssumption DEF Goroutines
    <3> QED
      BY <1>1, <1>2, <3>1 DEF LocksReleased
  <2> QED
    BY <2>1, <2>2 DEF LocksReleased
<1>7. CallInv'
  <2>1. ASSUME NEW h \in Goroutines, h # g
        PROVE  (LoadedOK(h) /\ ReadOK(h) /\ ValueOK(h) /\ LastOK(h))'
    <3>1. LoadedOK(h) /\ ReadOK(h) /\ ValueOK(h) /\ LastOK(h) /\ call[h].pc # "read"
      BY <2>1, SourceAssumption DEF CallInv, LocksReleased
    <3>2. fcached.ver \in Int /\ last[h] \in Int /\ call[h].tok.ver \in Int
      BY Numbers
    <3> QED
      BY <1>1, <1>3, <2>1, <3>1, <3>2 DEF LoadedOK, ReadOK, ValueOK, LastOK
  <2>2. (LoadedOK(g) /\ ReadOK(g) /\ ValueOK(g) /\ LastOK(g))'
    <3>1. LastOK(g) /\ value.ver <= fcached.ver
      BY DEF CallInv, StoreInv
    <3> QED
      BY <1>1, <1>3, <3>1, Numbers DEF LoadedOK, ReadOK, ValueOK, LastOK
  <2> QED
    BY <2>1, <2>2 DEF CallInv
<1>8. TokenAge'
  BY <1>1 DEF TokenAge
<1> QED
  BY <1>1, <1>4, <1>5, <1>6, <1>7, <1>8

LEMMA FileLookStep == ASSUME IInv, NEW g \in Goroutines, FileLook(g) PROVE IInv'
<1> USE DEF files, store, IInv
<1>1. /\ Asks(g) /\ fmu = Nobody
      /\ UNCHANGED <<now, file, fcached, fcachedAt, fmu, value, expireAt, mu>>
  BY DEF FileLook
<1>2. FileInv' /\ StoreInv'
  BY <1>1 DEF FileInv, StoreInv, MaxAge
<1>3. CASE FileFresh /\ FileReturns(g, fcached)
  <2>1. fcached.ver <= fcached.ver
    BY Numbers
  <2>2. /\ call' \in [Goroutines -> Calls] /\ last' \in [Goroutines -> -1..MaxVersion]
        /\ \A h \in Goroutines : call'[h].pc \in {"value", "expiry", "done"} =>
                                   call'[h].err \/ call'[h].tok # NoToken
        /\ Places' /\ LocksReleased' /\ CallInv' /\ TokenAge'
    BY <1>1, <1>3, <2>1, FreshToken, ReturnsStep DEF Asks
  <2>3. TypeOK'
    BY <1>1, <2>2 DEF TypeOK
  <2> QED
    BY <1>2, <2>2, <2>3
<1>4. CASE Goto(g, "flock", NoToken) /\ UNCHANGED last
  <2>1. /\ call' \in [Goroutines -> Calls]
        /\ call'[g].pc = "flock" /\ call'[g].err = call[g].err
        /\ \A h \in Goroutines : h # g => call'[h] = call[h]
    <3>1. NoToken \in Tokens /\ "flock" \in Steps
      BY IdleTyped DEF Steps
    <3> QED
      BY <1>4, <3>1, GotoEffect
  <2>2. call[g].pc = "ask" \/ (g \in Direct /\ g \notin Clients /\ call[g].pc = "idle")
    BY <1>1, SourceAssumption DEF Asks
  <2>3. TypeOK'
    BY <1>1, <1>4, <2>1 DEF TypeOK
  <2>4. Places' /\ LocksReleased'
    BY <1>1, <2>1, <2>2 DEF Places, LocksReleased, Goroutines
  <2>5. CallInv'
    BY <1>1, <1>4, <2>1, Numbers DEF CallInv, LoadedOK, ReadOK, ValueOK, LastOK
  <2>6. TokenAge'
    BY <2>1 DEF TokenAge
  <2> QED
    BY <1>2, <2>3, <2>4, <2>5, <2>6
<1> QED
  BY <1>3, <1>4 DEF FileLook

LEMMA FileReadStep == ASSUME IInv, NEW g \in Goroutines, FileRead(g) PROVE IInv'
<1> USE DEF files, store, IInv
<1>1. /\ call[g].pc = "flock" /\ fmu = Nobody
      /\ UNCHANGED <<now, file, fcached, fcachedAt, value, expireAt, mu>>
  BY DEF FileRead
<1>2. FileInv' /\ StoreInv'
  BY <1>1 DEF FileInv, StoreInv, MaxAge
<1>3. CASE FileFresh /\ FileReturns(g, fcached) /\ UNCHANGED fmu
  <2>1. fcached.ver <= fcached.ver
    BY Numbers
  <2>2. /\ call' \in [Goroutines -> Calls] /\ last' \in [Goroutines -> -1..MaxVersion]
        /\ \A h \in Goroutines : call'[h].pc \in {"value", "expiry", "done"} =>
                                   call'[h].err \/ call'[h].tok # NoToken
        /\ Places' /\ LocksReleased' /\ CallInv' /\ TokenAge'
    BY <1>1, <1>3, <2>1, FreshToken, ReturnsStep
  <2>3. TypeOK'
    BY <1>1, <1>3, <2>2 DEF TypeOK
  <2> QED
    BY <1>2, <2>2, <2>3
<1>4. CASE Goto(g, "read", [ver |-> file, at |-> now]) /\ fmu' = g /\ UNCHANGED last
  <2> DEFINE tok == [ver |-> file, at |-> now]
  <2>1. /\ call' \in [Goroutines -> Calls]
        /\ call'[g].pc = "read" /\ call'[g].tok = tok /\ call'[g].since = now
        /\ call'[g].err = call[g].err
        /\ \A h \in Goroutines : h # g => call'[h] = call[h]
    <3>1. tok \in Tokens /\ "read" \in Steps
      BY SourceAssumption DEF Steps, TypeOK, Tokens
    <3> HIDE DEF tok
    <3>2. Goto(g, "read", tok)
      BY <1>4 DEF tok
    <3> QED
      BY <3>1, <3>2, GotoEffect
  <2>2. \A h \in Goroutines : call[h].pc # "read"
    BY <1>1, SourceAssumption DEF LocksReleased
  <2>3. TypeOK'
    BY <1>1, <1>4, <2>1 DEF TypeOK, Locks
  <2>4. Places'
    BY <1>1, <2>1 DEF Places, Goroutines
  <2>5. LocksReleased'
    BY <1>1, <1>4, <2>1, <2>2 DEF LocksReleased, Goroutines
  <2>6. CallInv'
    <3>1. tok.ver = file /\ tok.at = now /\ fcached.ver <= file
      BY DEF FileInv
    <3> QED
      BY <1>1, <1>4, <2>1, <3>1, Numbers, SourceAssumption
         DEF CallInv, LoadedOK, ReadOK, ValueOK, LastOK
  <2>7. TokenAge'
    BY <2>1 DEF TokenAge
  <2> QED
    BY <1>2, <2>3, <2>4, <2>5, <2>6, <2>7
<1> QED
  BY <1>3, <1>4 DEF FileRead

LEMMA FileStoreStep == ASSUME IInv, NEW g \in Goroutines, FileStore(g) PROVE IInv'
<1> USE DEF store, IInv
<1>1. /\ call[g].pc = "read" /\ fcached' = call[g].tok /\ fcachedAt' = now /\ fmu' = Nobody
      /\ FileReturns(g, call[g].tok)
      /\ UNCHANGED <<now, file, value, expireAt, mu>>
  BY DEF FileStore
<1>2. fmu = g /\ ReadOK(g)
  BY <1>1 DEF LocksReleased, CallInv
<1>3. /\ call[g].tok.at = call[g].since /\ now - call[g].tok.at <= MaxDelay
      /\ fcached.ver <= call[g].tok.ver /\ call[g].tok.ver <= file
      /\ call[g].tok \in Tokens
  BY <1>1, <1>2, Numbers DEF ReadOK
<1>4. call[g].tok # NoToken /\ now - call[g].tok.at <= Interval - 1 + MaxDelay
  <2>1. call[g].since >= 0
    BY SourceAssumption DEF TypeOK, Calls
  <2> QED
    BY <1>3, <2>1, Numbers DEF NoToken
<1>5. /\ call' \in [Goroutines -> Calls] /\ last' \in [Goroutines -> -1..MaxVersion]
      /\ \A h \in Goroutines : call'[h].pc \in {"value", "expiry", "done"} =>
                                 call'[h].err \/ call'[h].tok # NoToken
      /\ Places' /\ LocksReleased' /\ CallInv' /\ TokenAge'
  BY <1>1, <1>2, <1>3, <1>4, ReturnsStep
<1>6. TypeOK'
  BY <1>1, <1>3, <1>5 DEF TypeOK, Locks
<1>7. FileInv'
  BY <1>1, <1>3, Numbers DEF FileInv
<1>8. StoreInv'
  BY <1>1, <1>3, Numbers DEF StoreInv, MaxAge
<1> QED
  BY <1>5, <1>6, <1>7, <1>8

LEMMA FileFailsStep == ASSUME IInv, NEW g \in Goroutines, FileFails(g) PROVE IInv'
<1> USE DEF IInv
<1>1. /\ call[g].pc = "read" /\ fmu' = Nobody /\ mu' = (IF mu = g THEN Nobody ELSE mu)
      /\ Fail(g)
      /\ UNCHANGED <<now, file, fcached, fcachedAt, value, expireAt>>
  BY DEF FileFails
<1>2. /\ call' \in [Goroutines -> Calls] /\ last' = last
      /\ call'[g].pc = "done" /\ call'[g].err
      /\ \A h \in Goroutines : h # g => call'[h] = call[h]
  BY <1>1, FailEffect
<1>3. fmu = g /\ (g \in Clients => mu = g) /\ (g \notin Clients => mu # g)
  BY <1>1, SourceAssumption DEF LocksReleased, Goroutines, Places
<1>4. TypeOK'
  BY <1>1, <1>2 DEF TypeOK, Locks
<1>5. Places'
  BY <1>1, <1>2 DEF Places, Goroutines
<1>6. LocksReleased'
  <2>1. ASSUME NEW h \in Goroutines PROVE (fmu' = h <=> call'[h].pc = "read")
    BY <1>1, <1>2, <1>3, SourceAssumption DEF LocksReleased
  <2>2. ASSUME NEW h \in Clients
        PROVE  mu' = h <=> call'[h].pc \in {"ask", "flock", "read", "value", "expiry"}
    <3>1. h \in Goroutines /\ h # Nobody
      BY SourceAssumption DEF Goroutines
    <3> QED
      BY <1>1, <1>2, <1>3, <3>1 DEF LocksReleased
  <2> QED
    BY <2>1, <2>2 DEF LocksReleased
<1>7. FileInv' /\ StoreInv'
  BY <1>1, <1>3 DEF FileInv, StoreInv, MaxAge
<1>8. CallInv'
  BY <1>1, <1>2 DEF CallInv, LoadedOK, ReadOK, ValueOK, LastOK
<1>9. TokenAge'
  BY <1>2 DEF TokenAge
<1> QED
  BY <1>4, <1>5, <1>6, <1>7, <1>8, <1>9

LEMMA StoreValueStep == ASSUME IInv, NEW g \in Goroutines, StoreValue(g) PROVE IInv'
<1> USE DEF IInv
<1>1. /\ call[g].pc = "value" /\ value' = call[g].tok
      /\ UNCHANGED <<now, file, fcached, fcachedAt, fmu, expireAt, mu, last>>
  BY DEF StoreValue, files
<1>2. /\ call' \in [Goroutines -> Calls]
      /\ call'[g].pc = "expiry" /\ call'[g].tok = call[g].tok /\ call'[g].since = call[g].since
      /\ \A h \in Goroutines : h # g =>
           /\ call'[h].pc = call[h].pc /\ call'[h].tok = call[h].tok
           /\ call'[h].err = call[h].err /\ call'[h].since = call[h].since
           /\ call[h].replaced => call'[h].replaced
           /\ call[h].pc # "loaded" => call'[h] = call[h]
           /\ call[h].pc = "loaded" /\ call[h].tok # NoToken => call'[h].replaced
  BY StoreEffect
<1>3. call'[g].err = call[g].err
  BY DEF StoreValue, TypeOK, Calls
<1>4. g \in Clients /\ g \notin Direct /\ mu = g /\ mu # Nobody /\ ValueOK(g)
  BY <1>1, SourceAssumption DEF Places, LocksReleased, Goroutines, CallInv
<1>5. /\ call[g].since <= now /\ now - call[g].since <= MaxDelay
      /\ call[g].since - call[g].tok.at <= Interval - 1 + MaxDelay
      /\ value.ver <= call[g].tok.ver /\ call[g].tok.ver <= fcached.ver
      /\ call[g].tok \in Tokens
  BY <1>1, <1>4, Numbers DEF ValueOK
<1>6. \A h \in Goroutines : h # g => call[h].pc \notin {"value", "expiry"}
  BY <1>4, SourceAssumption DEF LocksReleased, Places, Goroutines
<1>7. TypeOK'
  BY <1>1, <1>2, <1>3, <1>5 DEF TypeOK
<1>8. Places'
  BY <1>1, <1>2, <1>3, <1>4 DEF Places, Goroutines
<1>9. LocksReleased'
  BY <1>1, <1>2, <1>4 DEF LocksReleased, Goroutines
<1>10. FileInv'
  BY <1>1 DEF FileInv
<1>11. StoreInv'
  BY <1>1, <1>4, <1>5, Numbers DEF StoreInv, MaxAge
<1>12. CallInv'
  <2>1. ASSUME NEW h \in Goroutines, h # g
        PROVE  (LoadedOK(h) /\ ReadOK(h) /\ ValueOK(h) /\ LastOK(h))'
    <3>1. LoadedOK(h) /\ ReadOK(h) /\ LastOK(h)
      BY DEF CallInv
    <3>2. LoadedOK(h)'
      BY <1>1, <1>2, <1>5, <2>1, <3>1, Numbers DEF LoadedOK
    <3>3. ReadOK(h)' /\ ValueOK(h)'
      BY <1>1, <1>2, <1>6, <2>1, <3>1 DEF ReadOK, ValueOK
    <3>4. LastOK(h)'
      BY <1>1, <1>5, <3>1, Numbers DEF LastOK
    <3> QED
      BY <3>2, <3>3, <3>4
  <2>2. (LoadedOK(g) /\ ReadOK(g) /\ ValueOK(g) /\ LastOK(g))'
    <3>1. LastOK(g) /\ call[g].tok.ver <= call[g].tok.ver
      BY Numbers DEF CallInv
    <3> QED
      BY <1>1, <1>2, <1>4, <1>5, <3>1, Numbers DEF LoadedOK, ReadOK, ValueOK, LastOK
  <2> QED
    BY <2>1, <2>2 DEF CallInv
<1>13. TokenAge'
  <2>1. ASSUME NEW h \in Goroutines, call'[h].pc = "done" PROVE call'[h] = call[h]
    BY <1>2, <2>1
  <2> QED
    BY <2>1 DEF TokenAge
<1> QED
  BY <1>7, <1>8, <1>9, <1>10, <1>11, <1>12, <1>13

LEMMA StoreExpiryStep == ASSUME IInv, NEW g \in Goroutines, StoreExpiry(g) PROVE IInv'
<1> USE DEF IInv
<1>1. /\ call[g].pc = "expiry" /\ expireAt' = now + TTL /\ mu' = Nobody
      /\ Finish(g, call[g].tok)
      /\ UNCHANGED <<now, file, fcached, fcachedAt, fmu, value>>
  BY DEF StoreExpiry, files
<1>2. call[g].tok \in Tokens
  BY Numbers
<1>3. /\ call' \in [Goroutines -> Calls] /\ last' \in [Goroutines -> -1..MaxVersion]
      /\ call'[g].pc = "done" /\ call'[g].tok = call[g].tok /\ call'[g].since = now
      /\ call'[g].replaced = call[g].replaced /\ call'[g].err = call[g].err
      /\ last'[g] = call[g].tok.ver
      /\ \A h \in Goroutines : h # g => call'[h] = call[h] /\ last'[h] = last[h]
  BY <1>1, <1>2, FinishEffect
<1>4. g \in Clients /\ g \notin Direct /\ mu = g /\ ValueOK(g)
  BY <1>1, SourceAssumption DEF Places, LocksReleased, Goroutines, CallInv
<1>5. /\ call[g].since <= now /\ now - call[g].since <= MaxDelay
      /\ call[g].since - call[g].tok.at <= Interval - 1 + MaxDelay
      /\ value = call[g].tok
  BY <1>1, <1>4 DEF ValueOK
<1>6. value # NoToken
  BY <1>1, <1>5 DEF TypeOK, Places
<1>7. now - value.at <= MaxAge
  BY <1>5, Numbers DEF MaxAge
<1>8. TypeOK'
  <2>1. now + TTL \in 0..(MaxTime + TTL)
    BY SourceAssumption DEF TypeOK
  <2> QED
    BY <1>1, <1>3, <1>5, <1>6, <2>1 DEF TypeOK, Locks
<1>9. Places'
  BY <1>1, <1>3, <1>4 DEF Places, Goroutines
<1>10. LocksReleased'
  BY <1>1, <1>3, <1>4, SourceAssumption DEF LocksReleased, Goroutines
<1>11. FileInv'
  BY <1>1 DEF FileInv
<1>12. StoreInv'
  BY <1>1, <1>6, <1>7, Numbers DEF StoreInv, MaxAge
<1>13. CallInv'
  BY <1>1, <1>3, <1>4, <1>5, Numbers DEF CallInv, LoadedOK, ReadOK, ValueOK, LastOK
<1>14. TokenAge'
  <2>1. now - value.at <= Interval - 1 + TTL - 1 + 2 * MaxDelay
    BY <1>7, Numbers DEF MaxAge
  <2> QED
    BY <1>3, <1>4, <1>5, <2>1 DEF TokenAge
<1> QED
  BY <1>8, <1>9, <1>10, <1>11, <1>12, <1>13, <1>14

-----------------------------------------------------------------------------
LEMMA NextStep == IInv /\ [Next]_vars => IInv'
<1> SUFFICES ASSUME IInv, [Next]_vars PROVE IInv'
  OBVIOUS
<1>1. CASE UNCHANGED vars
  BY <1>1 DEF vars, IInv, TypeOK, Places, LocksReleased, FileInv, StoreInv, MaxAge, CallInv,
              LoadedOK, ReadOK, ValueOK, LastOK, TokenAge
<1>2. CASE Next
  BY <1>2, TickStep, RotateStep, LoadStep, CheckStep, LockStep, FileLookStep, FileReadStep,
     FileStoreStep, FileFailsStep, StoreValueStep, StoreExpiryStep, ReturnStep DEF Next
<1> QED
  BY <1>1, <1>2

\* The inductive invariant holds throughout: what is in the caches, in what
\* order it got there, and what the calls between two locks hold.
THEOREM InvHolds == Spec => []IInv
  BY InitInv, NextStep, PTL DEF Spec

\* The caches, locks and calls keep their types.
THEOREM TypeCorrect == Spec => []TypeOK
<1>1. IInv => TypeOK
  BY DEF IInv
<1> QED
  BY <1>1, InvHolds, PTL

\* Whatever way FileTokenSource.Token and CachedTokenSource.Token end, the
\* locks they took are given up.
THEOREM LocksGivenUp == Spec => []LocksReleased
<1>1. IInv => LocksReleased
  BY DEF IInv
<1> QED
  BY <1>1, InvHolds, PTL

\* A token that is handed out is not older than the two caches allow, the
\* call whose value was replaced between its two loads excepted.
THEOREM AgeBounded == Spec => []TokenAge
<1>1. IInv => TokenAge
  BY DEF IInv
<1> QED
  BY <1>1, InvHolds, PTL

\* No goroutine is given an older token than before, even the one that
\* combines an old value with a new expiry.
THEOREM TokensMoveOn == Spec => NeverOlder
<1>1. IInv /\ [Next]_vars => [\A g \in Goroutines : last'[g] >= last[g]]_vars
  <2> SUFFICES ASSUME IInv, Next PROVE \A g \in Goroutines : last'[g] >= last[g]
    BY DEF vars
  <2>1. CASE last' = last
    BY <2>1, Numbers DEF IInv
  <2>2. ASSUME NEW g \in Goroutines, NEW tok \in Tokens, Finish(g, tok), last[g] <= tok.ver
        PROVE  \A h \in Goroutines : last'[h] >= last[h]
    <3>1. /\ last'[g] = tok.ver
          /\ \A h \in Goroutines : h # g => last'[h] = last[h]
      BY <2>2, FinishEffect DEF IInv
    <3>2. \A h \in Goroutines : last[h] \in Int
      BY Numbers DEF IInv
    <3>3. tok.ver \in Int
      BY SourceAssumption DEF Tokens
    <3> QED
      BY <2>2, <3>1, <3>2, <3>3
  <2>3. ASSUME NEW g \in Goroutines,
               CheckLoaded(g) \/ Lock(g) \/ FileLook(g) \/ FileRead(g) \/ FileStore(g) \/ StoreExpiry(g)
        PROVE  last' = last \/ \E tok \in Tokens : Finish(g, tok) /\ last[g] <= tok.ver
    <3>1. /\ value \in Tokens /\ fcached \in Tokens /\ call[g].tok \in Tokens
          /\ LoadedOK(g) /\ ReadOK(g) /\ ValueOK(g) /\ LastOK(g)
          /\ last[g] \in Int /\ value.ver \in Int /\ fcached.ver \in Int /\ call[g].tok.ver \in Int
      BY Numbers DEF IInv, TypeOK, CallInv
    <3>2. call[g].pc \in {"loaded", "lock", "expiry"} => g \notin Direct
      BY DEF IInv, Places
    <3>3. CASE CheckLoaded(g)
      BY <3>1, <3>3 DEF CheckLoaded, LoadedOK
    <3>4. CASE Lock(g)
      BY <3>1, <3>2, <3>4 DEF Lock, LastOK
    <3>5. CASE FileLook(g) \/ FileRead(g)
      BY <3>1, <3>5 DEF FileLook, FileRead, FileReturns, LastOK
    <3>6. CASE FileStore(g)
      BY <3>1, <3>6 DEF FileStore, FileReturns, LastOK, ReadOK
    <3>7. CASE StoreExpiry(g)
      BY <3>1, <3>2, <3>7 DEF StoreExpiry, LastOK, ValueOK
    <3> QED
      BY <2>3, <3>3, <3>4, <3>5, <3>6, <3>7
  <2>4. CASE Tick \/ Rotate \/ \E g \in Goroutines : Load(g) \/ FileFails(g) \/ StoreValue(g) \/ Return(g)
    <3>1. last' = last
      BY <2>4 DEF Tick, Rotate, Load, FileFails, Fail, StoreValue, Return
    <3> QED
      BY <3>1, <2>1
  <2> QED
    BY <2>1, <2>2, <2>3, <2>4 DEF Next
<1> QED
  BY <1>1, InvHolds, PTL DEF Spec, NeverOlder
=============================================================================
