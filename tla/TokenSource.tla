---------------------------- MODULE TokenSource -----------------------------
(***************************************************************************)
(* The token sources of an outbound client: FileTokenSource, which caches  *)
(* a Secret-mounted file for RefreshInterval, and CachedTokenSource, which *)
(* caches what it gets from a source (here the FileTokenSource) for TTL.   *)
(*                                                                         *)
(* FileTokenSource looks twice, under the read lock and under the write    *)
(* lock that it keeps while reading the file.  CachedTokenSource looks     *)
(* twice too, first without any lock: it loads the value, and then, in a   *)
(* separate atomic load, its expiry.  Storing them is two steps as well.   *)
(* A token is the version of the file it came from and the instant it was  *)
(* read there.                                                             *)
(***************************************************************************)
EXTENDS Integers

CONSTANTS Clients,       \* goroutines that ask the CachedTokenSource
          Direct,        \* goroutines that ask the FileTokenSource
          Nobody,        \* the lock is free
          TTL,           \* CachedTokenSource.TTL
          Interval,      \* FileTokenSource.RefreshInterval
          MaxDelay,      \* how long reading and storing may take
          MaxTime, MaxVersion

Goroutines == Clients \cup Direct

ASSUME SourceAssumption ==
  /\ Nobody \notin Goroutines /\ Clients \cap Direct = {}
  /\ TTL \in Nat \ {0} /\ Interval \in Nat \ {0} /\ MaxDelay \in Nat
  /\ MaxTime \in Nat /\ MaxVersion \in Nat

VARIABLES now,
          file,                    \* version of the mounted token
          fcached, fcachedAt, fmu, \* FileTokenSource: cached, cachedAt, mu
          value, expireAt, mu,     \* CachedTokenSource: value, expireAt, mu
          call,                    \* goroutine -> its call of Token
          last                     \* history: newest version it was given

files == <<fcached, fcachedAt, fmu>>
store == <<value, expireAt, mu>>
vars  == <<now, file, fcached, fcachedAt, fmu, value, expireAt, mu, call, last>>

NoToken == [ver |-> -1, at |-> -1]
Tokens  == [ver : -1..MaxVersion, at : -1..MaxTime]
Idle    == [pc |-> "idle", tok |-> NoToken, err |-> FALSE, since |-> 0, replaced |-> FALSE]

\* Mutant: an empty cache passes for a fresh one.
FileFreshEmpty == now - fcachedAt < Interval

\* The tests on cachedAt and on expireAt.
FileFresh == fcached # NoToken /\ now - fcachedAt < Interval
Reusable(v) == v # NoToken /\ now < expireAt

Init ==
  /\ now = 0
  /\ file = 0
  /\ fcached = NoToken /\ fcachedAt = 0 /\ fmu = Nobody
  /\ value = NoToken /\ expireAt = 0 /\ mu = Nobody
  /\ call = [g \in Goroutines |-> Idle]
  /\ last = [g \in Goroutines |-> -1]

\* The call of g goes on at pc: with token tok in hand, or without one.  What
\* it loaded before is of no account any more.
Goto(g, pc, tok) ==
  call' = [call EXCEPT ![g].pc = pc, ![g].tok = tok, ![g].replaced = FALSE,
                       ![g].since = IF pc \in {"read", "value"} THEN now ELSE 0]

\* The call of g is over.
Finish(g, tok) ==
  /\ call' = [call EXCEPT ![g].pc = "done", ![g].tok = tok, ![g].since = now]
  /\ last' = [last EXCEPT ![g] = tok.ver]

Fail(g) == /\ call' = [call EXCEPT ![g].pc = "done", ![g].tok = NoToken, ![g].err = TRUE,
                                  ![g].since = 0]
           /\ UNCHANGED last

-----------------------------------------------------------------------------
\* What goes on with locks held is not delayed for ever.
Tick ==
  /\ now < MaxTime
  /\ \A g \in Goroutines : call[g].pc \in {"read", "value", "expiry"}
                             => now - call[g].since < MaxDelay
  /\ now' = now + 1
  /\ UNCHANGED <<file, files, store, call, last>>

\* kubelet replaces the file.
Rotate ==
  /\ file < MaxVersion
  /\ file' = file + 1
  /\ UNCHANGED <<now, files, store, call, last>>

\* CachedTokenSource.Token, first look: the value is loaded ...
Load(g) ==
  /\ g \in Clients /\ call[g].pc = "idle"
  /\ Goto(g, "loaded", value)
  /\ UNCHANGED <<now, file, files, store, last>>

\* ... and then the expiry, which may be that of a newer value.
CheckLoaded(g) ==
  /\ call[g].pc = "loaded"
  /\ IF Reusable(call[g].tok) THEN Finish(g, call[g].tok)
     ELSE Goto(g, "lock", NoToken) /\ UNCHANGED last
  /\ UNCHANGED <<now, file, files, store>>

\* Second look, with mu held.
Lock(g) ==
  /\ call[g].pc = "lock" /\ mu = Nobody
  /\ IF Reusable(value) THEN Finish(g, value) /\ UNCHANGED mu
     ELSE Goto(g, "ask", NoToken) /\ mu' = g /\ UNCHANGED last
  /\ UNCHANGED <<now, file, files, value, expireAt>>

\* FileTokenSource.Token begins, called by a Direct goroutine or with mu held.
Asks(g) == call[g].pc = "ask" \/ (g \in Direct /\ call[g].pc = "idle")

\* It returns tok: to its caller, or to CachedTokenSource.Token.
FileReturns(g, tok) ==
  IF g \in Direct THEN Finish(g, tok) ELSE Goto(g, "value", tok) /\ UNCHANGED last

\* Mutant: a cached token is good for ever.
FileLookForever(g) ==
  /\ Asks(g) /\ fmu = Nobody
  /\ IF fcached # NoToken THEN FileReturns(g, fcached)
     ELSE Goto(g, "flock", NoToken) /\ UNCHANGED last
  /\ UNCHANGED <<now, file, files, store>>

\* First look, under the read lock.
FileLook(g) ==
  /\ Asks(g) /\ fmu = Nobody
  /\ IF FileFresh THEN FileReturns(g, fcached)
     ELSE Goto(g, "flock", NoToken) /\ UNCHANGED last
  /\ UNCHANGED <<now, file, files, store>>

\* Mutant: the file is read before the write lock is taken.
FileReadUnlocked(g) ==
  /\ call[g].pc = "flock"
  /\ Goto(g, "read", [ver |-> file, at |-> now])
  /\ UNCHANGED <<now, file, files, store, last>>

\* Second look, under the write lock, which is kept while the file is read.
FileRead(g) ==
  /\ call[g].pc = "flock" /\ fmu = Nobody
  /\ IF FileFresh THEN FileReturns(g, fcached) /\ UNCHANGED fmu
     ELSE /\ Goto(g, "read", [ver |-> file, at |-> now])
          /\ fmu' = g
          /\ UNCHANGED last
  /\ UNCHANGED <<now, file, fcached, fcachedAt, store>>

\* The file was read: the token is cached from now on.
FileStore(g) ==
  /\ call[g].pc = "read"
  /\ fcached' = call[g].tok /\ fcachedAt' = now /\ fmu' = Nobody
  /\ FileReturns(g, call[g].tok)
  /\ UNCHANGED <<now, file, store>>

\* Mutant: the error path of CachedTokenSource.Token keeps its lock.
FileFailsLocked(g) ==
  /\ call[g].pc = "read"
  /\ fmu' = Nobody
  /\ Fail(g)
  /\ UNCHANGED <<now, file, fcached, fcachedAt, store>>

\* The file cannot be read or is empty: an error, and both locks are given up.
FileFails(g) ==
  /\ call[g].pc = "read"
  /\ fmu' = Nobody
  /\ mu' = IF mu = g THEN Nobody ELSE mu
  /\ Fail(g)
  /\ UNCHANGED <<now, file, fcached, fcachedAt, value, expireAt>>

\* CachedTokenSource.Token stores the value.  History: calls that hold
\* another value learn that theirs was replaced.
StoreValue(g) ==
  /\ call[g].pc = "value"
  /\ value' = call[g].tok
  /\ call' = [h \in Goroutines |->
                CASE h = g -> [call[g] EXCEPT !.pc = "expiry"]
                  [] call[h].pc = "loaded" /\ call[h].tok # NoToken -> [call[h] EXCEPT !.replaced = TRUE]
                  [] OTHER -> call[h]]
  /\ UNCHANGED <<now, file, files, expireAt, mu, last>>

\* ... and then its expiry, and returns.
StoreExpiry(g) ==
  /\ call[g].pc = "expiry"
  /\ expireAt' = now + TTL
  /\ mu' = Nobody
  /\ Finish(g, call[g].tok)
  /\ UNCHANGED <<now, file, files, value>>

\* The token is sent in an Authorization header, or the error is returned.
Return(g) ==
  /\ call[g].pc = "done"
  /\ call' = [call EXCEPT ![g] = Idle]
  /\ UNCHANGED <<now, file, files, store, last>>

Next == \/ Tick
        \/ Rotate
        \/ \E g \in Goroutines : \/ Load(g) \/ CheckLoaded(g) \/ Lock(g)
                                 \/ FileLook(g) \/ FileRead(g) \/ FileStore(g) \/ FileFails(g)
                                 \/ StoreValue(g) \/ StoreExpiry(g) \/ Return(g)

Spec == Init /\ [][Next]_vars

-----------------------------------------------------------------------------
Locks == Goroutines \cup {Nobody}
Steps == {"idle", "loaded", "lock", "ask", "flock", "read", "value", "expiry", "done"}
Calls == [pc : Steps, tok : Tokens, err : BOOLEAN, since : 0..MaxTime, replaced : BOOLEAN]

\* Type invariant of the two caches, their locks and the calls.
TypeOK ==
  /\ now \in 0..MaxTime /\ file \in 0..MaxVersion
  /\ fcached \in Tokens /\ fcachedAt \in 0..MaxTime /\ fmu \in Locks
  /\ value \in Tokens /\ expireAt \in 0..(MaxTime + TTL) /\ mu \in Locks
  /\ call \in [Goroutines -> Calls]
  /\ last \in [Goroutines -> -1..MaxVersion]
  /\ \A g \in Goroutines : call[g].pc \in {"value", "expiry", "done"} =>
                             call[g].err \/ call[g].tok # NoToken

\* The age of a token that is handed out stays below the sum of the intervals
\* of the caches it went through (each is compared strictly, hence the ticks
\* taken off) and of the delays under their locks.  The exception is a call
\* that loaded a value which was replaced before it looked at the expiry: it
\* takes the new expiry for the old value's.
TokenAge ==
  \A g \in Goroutines :
    call[g].pc = "done" /\ ~call[g].err /\ ~call[g].replaced =>
      call[g].since - call[g].tok.at <=
        IF g \in Direct THEN Interval - 1 + MaxDelay
        ELSE Interval - 1 + TTL - 1 + 2 * MaxDelay

\* No goroutine is given an older token than the one it was given before,
\* whoever else refreshes the caches meanwhile.
NeverOlder == [][\A g \in Goroutines : last'[g] >= last[g]]_vars

\* A lock is in the hands of a call that is still on its way to give it up,
\* whichever way the calls end: nobody waits for a goroutine that has left.
LocksReleased ==
  /\ \A g \in Goroutines : fmu = g <=> call[g].pc = "read"
  /\ \A g \in Clients : mu = g <=> call[g].pc \in {"ask", "flock", "read", "value", "expiry"}
=============================================================================
