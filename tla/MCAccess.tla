------------------------------ MODULE MCAccess ------------------------------
(***************************************************************************)
(* Users, specs, policies and configurations for checking Access.          *)
(***************************************************************************)
EXTENDS Access

Padded(w)  == [word |-> w, form |-> "padded"]
Slashed(w) == [word |-> w, form |-> "slashed"]
NoExtra    == [k \in {} |-> Absent]

Alice == [name |-> Plain("alice"), groups |-> {Padded("devs")}]
Bob   == [name |-> Plain("bob"), groups |-> {Plain("wheel")}]

BaseSpec == [subject |-> Plain("alice"), issuer |-> Plain(Empty), groups |-> {},
             audience |-> {}, entitlements |-> {}, roles |-> {}, extra |-> NoExtra]

Ask(u, spec) == [user |-> u, spec |-> spec]

\* Their own, by way of extraClaims, without a subject, and what only an
\* administrator gets.
MCAsks ==
  { Ask(Alice, [BaseSpec EXCEPT !.groups = {Plain("devs")}, !.audience = {Plain("api")}]),
    Ask(Alice, [BaseSpec EXCEPT !.audience = {Slashed("api")},
                                !.extra = [k \in {"sub", "groups", "team"} |->
                                             CASE k = "sub" -> Text(Plain("bob"))
                                               [] k = "groups" -> List({Plain("wheel")})
                                               [] k = "team" -> NotJSON]]),
    Ask(Alice, [BaseSpec EXCEPT !.subject = Plain(Empty), !.audience = {Plain("db")}]),
    Ask(Alice, [BaseSpec EXCEPT !.groups = {Plain("wheel")}, !.audience = {Plain("api")}]),
    Ask(Alice, [BaseSpec EXCEPT !.audience = {Plain("api")}, !.entitlements = {Plain("root")}]),
    Ask(Bob,   [BaseSpec EXCEPT !.groups = {Plain("wheel")}, !.issuer = Plain("other")]),
    Ask(Bob,   [BaseSpec EXCEPT !.subject = Plain("bob"), !.groups = {Plain("wheel")},
                                !.audience = {Plain("db")}, !.roles = {Plain("ops")}]) }

\* What the controller's flags can say, and what only a Go program can.
MCPolicies ==
  { [audiences |-> {Padded("api")}, entitlements |-> {}, roles |-> {}, extraKeys |-> {},
     adminUsers |-> {}, adminGroups |-> {Plain("wheel")}],
    [audiences |-> {AllowAny}, entitlements |-> {}, roles |-> {Padded("ops")},
     extraKeys |-> {AllowAny}, adminUsers |-> {}, adminGroups |-> {}] }

MCWants == {{}, {Plain("api")}, {Plain("db")}}

\* jwtmintd builds the handler without checks; three that were added one by
\* one leave room behind them.
ThreeChecks == << [on |-> "iss", want |-> {Plain("jwtmint")}],
                  [on |-> "keys", want |-> {"sub"}],
                  [on |-> "aud", want |-> {Plain("api"), Plain("db")}] >>

ServiceAccounts(S) == [mode |-> "sa", allowed |-> S, secret |-> Plain(Empty)]
Secret(mode, w)    == [mode |-> mode, allowed |-> {}, secret |-> Plain(w)]

Program == [daemon |-> FALSE, reviews |-> FALSE, review |-> <<>>, door |-> "", app |-> <<>>,
            auth |-> Secret("none", Empty)]
Daemon  == [Program EXCEPT !.daemon = TRUE]

MCConfigs ==
  { [Program EXCEPT !.reviews = TRUE, !.review = ThreeChecks],
    [Program EXCEPT !.door = "http", !.app = << [on |-> "groups", want |-> {Slashed("devs")}] >>],
    [Program EXCEPT !.door = "grpc", !.app = << [on |-> "roles", want |-> {Plain("ops")}] >>],
    [Daemon EXCEPT !.reviews = TRUE, !.auth = Secret("static", Empty)],
    [Daemon EXCEPT !.auth = Secret("", "sa1")],
    [Daemon EXCEPT !.auth = ServiceAccounts({Plain("sa1"), Plain(Empty)})],
    [Daemon EXCEPT !.auth = ServiceAccounts({Plain(Empty)})] }

MCStores   == {"cache", "store"}
MCRevokers == <<"cache", Nil, "store">>
MCAccounts == {Plain("sa1"), Plain("sa2")}
MCIssuer   == Plain("jwtmint")
=============================================================================
