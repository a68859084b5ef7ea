---------------------------- MODULE MCBearerAuth ----------------------------
EXTENDS BearerAuth

CONSTANTS k1, k2, forger, alice, cron, api, idp, rogue

Claims(email, client, aud) ==
  [kind |-> "bearer", email |-> email, username |-> NoValue,
   sub |-> IF email # NoValue THEN email ELSE client, client |-> client,
   grant |-> email = NoValue, scopes |-> {}, aud |-> aud]
Alice == Claims(alice, NoValue, {api})
Cron  == Claims(NoValue, cron, {api})

JWT(kid, signer, exp, iss) ==
  [form |-> "jwt", sound |-> TRUE, kid |-> kid, signer |-> signer, iss |-> iss,
   exp |-> exp, nbf |-> 0, iat |-> 1, relative |-> FALSE, claims |-> Alice]
Opaque(exp, nbf, relative) ==
  [form |-> "opaque", sound |-> FALSE, kid |-> NoKid, signer |-> forger, iss |-> NoIssuer,
   exp |-> exp, nbf |-> nbf, iat |-> 0, relative |-> relative, claims |-> Cron]

\* With OAUTH_ISSUER and without.
MCIssuerURLs == {idp, NoIssuer}

\* One token for each way a check can go.
MCTokens ==
  {JWT(k1, k1, 2, idp), JWT(k1, forger, 9, idp), JWT(NoKid, k1, 9, idp),
   JWT(k1, k1, 9, rogue), [JWT(k1, k1, 9, idp) EXCEPT !.sound = FALSE],
   [JWT(k1, k1, 9, idp) EXCEPT !.nbf = 4, !.iat = 5], JWT(k1, k1, 0, idp),
   [JWT(k1, k1, 9, idp) EXCEPT !.claims = Claims(alice, NoValue, {})],
   Opaque(2, 0, FALSE), Opaque(2, 0, TRUE), Opaque(0, 0, FALSE), Opaque(9, 4, FALSE)}
=============================================================================
