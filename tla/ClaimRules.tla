----------------------------- MODULE ClaimRules -----------------------------
(***************************************************************************)
(* What package claims reads out of a token and the checks that are built  *)
(* on it; what the admission policy allows a requester to ask for; and the *)
(* claims that the controller mints from what was asked.                   *)
(*                                                                         *)
(* A string is a word as it stands, or the word with blanks around it or   *)
(* slashes behind it: normalization tells no more apart.  A list of        *)
(* strings is the set of them, since nothing here depends on their order.  *)
(* Reading returns a set: the empty one stands for every error, because a  *)
(* missing, an empty and an unreadable claim fail a check alike.           *)
(***************************************************************************)
EXTENDS Integers, Sequences, FiniteSets

CONSTANT Empty    \* the empty string, as a word

Plain(w) == [word |-> w, form |-> "plain"]

TrimSpace(s) == IF s.form = "padded" THEN Plain(s.word) ELSE s

\* normalizeString: blanks and trailing slashes go.
NormalizeString(s) == Plain(s.word)

\* The JSON value of a claim.  A string may hold several comma-separated ones.
Absent    == [kind |-> "absent", of |-> {}]
Text(s)   == [kind |-> "string", of |-> {s}]
List(S)   == [kind |-> "list", of |-> S]
Number    == [kind |-> "other", of |-> {}]
NotJSON   == [kind |-> "invalid", of |-> {}]

\* Claim keys; "team" stands for all that no helper knows, and the registered
\* keys that carry times and ids are TokenRules' concern.
ClaimKeys        == {"sub", "iss", "aud", "groups", "roles", "entitlements", "team"}
RegisteredClaims == {"sub", "iss", "aud"}

ReadString(v)      == IF v.kind = "string" THEN v.of \ {Plain(Empty)} ELSE {}
ReadStringSlice(v) ==
  IF v.kind \in {"string", "list"} /\ v # Text(Plain(Empty)) THEN v.of ELSE {}

\* Mutant: strings are compared as they stand.
MatchingExact(have, want) == have \cap want

Matching(have, want) ==
  {NormalizeString(s) : s \in have} \cap {NormalizeString(s) : s \in want}

MatchingAudience(c, want)     == Matching(ReadStringSlice(c["aud"]), want)
MatchingGroups(c, want)       == Matching(ReadStringSlice(c["groups"]), want)
MatchingRoles(c, want)        == Matching(ReadStringSlice(c["roles"]), want)

-----------------------------------------------------------------------------
\* The check functions.  One match is enough; an issuer must match exactly.
CheckAudience(c, want)     == MatchingAudience(c, want) # {}
CheckHasGroups(c, want)    == MatchingGroups(c, want) # {}
CheckHasRoles(c, want)     == MatchingRoles(c, want) # {}
CheckIssuer(c, want)       == ReadString(c["iss"]) \cap want # {}
CheckRequiredKeys(c, keys) == \A k \in keys : c[k].kind # "absent"

\* A configured check says what it is on and what it wants to find there.
Passes(check, c) ==
  CASE check.on = "aud"    -> CheckAudience(c, check.want)
    [] check.on = "groups" -> CheckHasGroups(c, check.want)
    [] check.on = "roles"  -> CheckHasRoles(c, check.want)
    [] check.on = "iss"    -> CheckIssuer(c, check.want)
    [] check.on = "keys"   -> CheckRequiredKeys(c, check.want)

\* CheckClaims and the loops over checks: the first error ends them.
AllPass(checks, c) == \A i \in DOMAIN checks : Passes(checks[i], c)

-----------------------------------------------------------------------------
AllowAny == Plain("*")

StringSet(S) == {TrimSpace(s) : s \in S} \ {Plain(Empty)}

\* isAdmin: user names and configured groups as they stand, the requester's
\* groups trimmed.
IsAdmin(p, u) ==
  \/ u.name \in p.adminUsers
  \/ StringSet(u.groups) \cap p.adminGroups # {}

\* checkAllowedList and checkAllowedKeys: an empty list denies everything.
CheckAllowedList(requested, allowed) ==
  requested = {} \/ AllowAny \in allowed \/ requested \subseteq StringSet(allowed)

\* SelfOnlyPolicy.Allow, for requester u and the spec of a JWTRequest.
Allow(p, u, spec) ==
  \/ IsAdmin(p, u)
  \/ /\ spec.subject \in {Plain(Empty), u.name}
     /\ spec.groups \subseteq StringSet(u.groups)
     /\ CheckAllowedList(spec.audience, p.audiences)
     /\ CheckAllowedList(spec.entitlements, p.entitlements)
     /\ CheckAllowedList(spec.roles, p.roles)
     /\ CheckAllowedList({Plain(k) : k \in DOMAIN spec.extra}, p.extraKeys)

-----------------------------------------------------------------------------
TextOrAbsent(s) == IF s = Plain(Empty) THEN Absent ELSE Text(s)
ListOrAbsent(S) == IF S = {} THEN Absent ELSE List(S)

\* What the dedicated fields of a spec put into the claims; the signer adds
\* its own issuer if there is none.
FieldClaims(spec, defaultIssuer) ==
  [k \in ClaimKeys |->
     CASE k = "sub"          -> TextOrAbsent(spec.subject)
       [] k = "iss"          -> IF spec.issuer = Plain(Empty) THEN Text(defaultIssuer)
                                                              ELSE Text(spec.issuer)
       [] k = "aud"          -> ListOrAbsent(spec.audience)
       [] k = "groups"       -> ListOrAbsent(spec.groups)
       [] k = "roles"        -> ListOrAbsent(spec.roles)
       [] k = "entitlements" -> ListOrAbsent(spec.entitlements)
       [] k = "team"         -> Absent]

\* Mutant: registered claims are not kept apart.
EveryExtraUsed(spec) == {k \in DOMAIN spec.extra : spec.extra[k] # NotJSON}

\* Registered keys and values that are not JSON are dropped.
ExtraUsed(spec) ==
  {k \in DOMAIN spec.extra : k \notin RegisteredClaims /\ spec.extra[k] # NotJSON}

\* mint: extraClaims come last and replace what a field has set.
Mint(spec, defaultIssuer) ==
  [k \in ClaimKeys |-> IF k \in ExtraUsed(spec) THEN spec.extra[k]
                                                ELSE FieldClaims(spec, defaultIssuer)[k]]

-----------------------------------------------------------------------------
\* DefaultUserInfoMapper.  Claims that cannot be read are left out; without a
\* user name it fails.
UserInfo(c) ==
  [names  |-> ReadString(c["sub"]),
   groups |-> ReadStringSlice(c["groups"]),
   extra  |-> {k \in {"aud"} : ReadStringSlice(c[k]) # {}} \cup
              {k \in ClaimKeys \ (RegisteredClaims \cup {"groups"}) : c[k].of # {}}]
=============================================================================
