---------------------------- MODULE MCLoginFlow ----------------------------
(* Instances of LoginFlow for TLC. *)
EXTENDS LoginFlow, TLC

CONSTANTS b1, b2, t1, t2, t3, f1, f2, alice, bob

\* Two tabs of one browser and one of another; the two can be exchanged, and
\* so can the logins and the accounts.
ThreeTabs == t1 :> b1 @@ t2 :> b1 @@ t3 :> b2
Symmetry == Permutations({t1, t2}) \union Permutations({f1, f2})
              \union Permutations({alice, bob})

AllOrNone == {{}, Users}
Everybody == {Users}

\* OpenID Connect with a provider that ignores verifiers, and any link; plain
\* OAuth2 with such a provider, and links as the provider made them.
NonceOrState == {[pkce |-> FALSE, oidc |-> TRUE, mixed |-> TRUE],
                 [pkce |-> FALSE, oidc |-> FALSE, mixed |-> FALSE]}

\* Plain OAuth2 with a provider that compares verifiers, and any link.
Verifier == {[pkce |-> TRUE, oidc |-> FALSE, mixed |-> TRUE]}

OneTab == t1 :> b1
=============================================================================
