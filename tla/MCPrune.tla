------------------------------ MODULE MCPrune ------------------------------
EXTENDS Prune

CONSTANTS a1, a2, alice, bob, reader, cron, api, other

MCAttempts  == {a1, a2}
OneAttempt  == {a1}
Scopes      == {"archview:read", "endpoints:admin"}

Token(kind, email, sub, client, scopes) ==
  [kind |-> kind, email |-> email, username |-> NoValue, sub |-> sub,
   client |-> client, grant |-> kind = "bearer" /\ email = NoValue,
   scopes |-> scopes, aud |-> {api}]

Nothing == Token("none", NoValue, NoValue, NoValue, {})

\* An administrator of each kind, one for each mode, and somebody who is none.
Alice == Token("session", alice, alice, NoValue, {})
Bob   == Token("session", bob, bob, NoValue, {})
Cron  == Token("bearer", NoValue, cron, cron, Scopes)

Request(who, method, key, all) ==
  [who |-> who, method |-> method, key |-> key, all |-> all]

FewRequests ==
  {Request(Alice, "POST", e, "true") : e \in Endpoints} \union
  {Request(Cron, "POST", e, "false") : e \in Endpoints} \union
  {Request(Bob, "POST", e, "true") : e \in Endpoints}

\* Every combination of claims.
AllCredentials ==
  {Nothing} \union
  {Token("session", e, e, NoValue, {}) : e \in {alice, bob}} \union
  [kind     : {"bearer"},
   email    : {NoValue, alice, bob},
   username : {NoValue, bob},
   sub      : {NoValue, alice, cron},
   client   : {NoValue, reader, cron},
   grant    : BOOLEAN,
   scopes   : SUBSET Scopes,
   aud      : SUBSET {api, other}]

AllRequests == [who    : AllCredentials,
                method : {"POST", "GET"},
                key    : Endpoints \union {Unknown},
                all    : {"false", "true", "invalid"}]
=============================================================================
