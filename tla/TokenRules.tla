----------------------------- MODULE TokenRules -----------------------------
(***************************************************************************)
(* The arithmetic of a token's times and the tests a token has to pass:    *)
(* what signing writes into exp, iat and nbf, what refreshing makes of     *)
(* them, and when a verifier lets them through.                            *)
(*                                                                         *)
(* Instants are ticks; a second has TicksPerSecond of them, so that the    *)
(* truncation every time claim undergoes is not lost.  Tick 0 is a whole   *)
(* second long after 1970: the values that TimeFromFloat refuses for being *)
(* less than 1 are among the Bad ones.                                     *)
(***************************************************************************)
EXTENDS Integers

CONSTANTS TicksPerSecond,     \* resolution of the clock
          DefaultExpiration,  \* lifetime given when none is asked for
          MaxAge,             \* refresh.WithMaxAge; 0 disables the cap
          Leeway,             \* verification.WithLeeway, DefaultLeeway unless set
          NoKid               \* a token without a kid header

ASSUME RulesAssumption ==
  /\ TicksPerSecond \in Nat \ {0}
  /\ DefaultExpiration \in Nat \ {0}
  /\ MaxAge \in Nat
  /\ Leeway \in Nat

Missing == -1      \* the claim is not there (pkgerr.ErrNotFound)
Bad     == -2      \* the claim is there and cannot be read as a time

\* Mutant: the claim keeps the fraction of the second.
RawDate(t) == t

\* jwt.NewNumericDate: whole seconds, rounded down.
NumericDate(t) == t - (t % TicksPerSecond)

\* readTime: a missing and an unreadable claim are errors.
Readable(v) == v \notin {Missing, Bad}
ReadTime(v) == NumericDate(v)

-----------------------------------------------------------------------------
\* signWith: the claims c may carry exp, iat and nbf of the caller's choice.
SignRefused(c, now) ==
  \/ Readable(c.exp) /\ ReadTime(c.exp) < now     \* ErrExpired
  \/ Readable(c.iat) /\ ReadTime(c.iat) > now     \* ErrNotReady

SignedTimes(c, now) ==
  [exp |-> IF Readable(c.exp) THEN ReadTime(c.exp) ELSE NumericDate(now + DefaultExpiration),
   iat |-> IF Readable(c.iat) THEN ReadTime(c.iat) ELSE NumericDate(now),
   nbf |-> IF Readable(c.nbf) THEN ReadTime(c.nbf) ELSE NumericDate(now)]

-----------------------------------------------------------------------------
\* refresh: iat is read from the token, exp from what the resolver returned.
RefreshRefused(iat, exp, now) ==
  \/ MaxAge > 0 /\ ~Readable(iat)
  \/ MaxAge > 0 /\ now - ReadTime(iat) > MaxAge
  \/ ~Readable(exp) /\ exp # Missing

\* Mutant: the new token always gets the default lifetime.
RefreshedDefault(iat, exp, now) ==
  [exp |-> NumericDate(now + DefaultExpiration), iat |-> NumericDate(now), nbf |-> NumericDate(now)]

RefreshedTimes(iat, exp, now) ==
  [exp |-> IF Readable(iat) /\ Readable(exp)
           THEN NumericDate(now + (ReadTime(exp) - ReadTime(iat)))
           ELSE NumericDate(now + DefaultExpiration),
   iat |-> NumericDate(now),
   nbf |-> NumericDate(now)]

-----------------------------------------------------------------------------
\* The registered-claims validation of the jwt parser, with leeway.
InWindow(t, now) == t.nbf - Leeway <= now /\ now < t.exp + Leeway

\* The keys of a server; a key's kid is its own name, and all have one method,
\* as jwtmintd configures them.
Trusted(cfg) == {cfg.primary} \cup cfg.additional

\* One key: it is used whatever the kid header says.
SingleKeyAccepts(cfg, t) == t.key = cfg.primary

\* Several keys: the kid header selects the one the signature must match.
MultiKeyAccepts(cfg, t) ==
  /\ t.kid # NoKid
  /\ t.kid \in Trusted(cfg)
  /\ t.key = t.kid

KeyAccepts(cfg, t) ==
  IF cfg.additional = {} THEN SingleKeyAccepts(cfg, t) ELSE MultiKeyAccepts(cfg, t)
=============================================================================
