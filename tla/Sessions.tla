------------------------------ MODULE Sessions ------------------------------
(***************************************************************************)
(* What signing in promises, with no cookie, handler, clock or link in     *)
(* sight: a login belongs to the browser that began it; the provider       *)
(* authenticates one account in it; a session of the login is of that      *)
(* account and stays so; and a browser is signed in only through a login   *)
(* of its own that has a session.                                          *)
(***************************************************************************)
CONSTANTS Browsers, Logins, Users,
          None,    \* no login
          Nobody   \* no account

VARIABLES began,          \* began[l]: the browser that began the login
          authenticated,  \* authenticated[l]: the account authenticated in it
          account,        \* account[l]: the account of its session
          signedIn        \* signedIn[b]: the login browser b is signed in through

vars == <<began, authenticated, account, signedIn>>

Init ==
  /\ began \in [Logins -> Browsers]
  /\ authenticated = [l \in Logins |-> Nobody]
  /\ account = [l \in Logins |-> Nobody]
  /\ signedIn = [b \in Browsers |-> None]

\* A login that no browser is signed in through is begun anew.
Begin(b, l) ==
  /\ \A c \in Browsers : signedIn[c] # l
  /\ began' = [began EXCEPT ![l] = b]
  /\ authenticated' = [authenticated EXCEPT ![l] = Nobody]
  /\ account' = [account EXCEPT ![l] = Nobody]
  /\ UNCHANGED signedIn

\* The provider authenticates one account in a login.
Authenticate(l, u) ==
  /\ authenticated[l] = Nobody
  /\ authenticated' = [authenticated EXCEPT ![l] = u]
  /\ UNCHANGED <<began, account, signedIn>>

\* A login is given a session, once, and of the account authenticated in it.
Give(l) ==
  /\ account[l] = Nobody
  /\ authenticated[l] # Nobody
  /\ account' = [account EXCEPT ![l] = authenticated[l]]
  /\ UNCHANGED <<began, authenticated, signedIn>>

SignIn(b, l) ==
  /\ began[l] = b
  /\ account[l] # Nobody
  /\ signedIn' = [signedIn EXCEPT ![b] = l]
  /\ UNCHANGED <<began, authenticated, account>>

SignOut(b) ==
  /\ signedIn' = [signedIn EXCEPT ![b] = None]
  /\ UNCHANGED <<began, authenticated, account>>

Next ==
  \/ \E b \in Browsers, l \in Logins : Begin(b, l) \/ SignIn(b, l)
  \/ \E l \in Logins : Give(l) \/ \E u \in Users : Authenticate(l, u)
  \/ \E b \in Browsers : SignOut(b)

Spec == Init /\ [][Next]_vars
=============================================================================
