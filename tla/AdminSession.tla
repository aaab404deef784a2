---------------------------- MODULE AdminSession ----------------------------
(***************************************************************************)
(* The session of the admin client: the token in sessionStorage, the login  *)
(* page, the gate in front of every other page (RequireAuth.tsx) and what a *)
(* 401 does to them (client.ts).  ProductListPage composes it with a page   *)
(* and the requests under way.                                              *)
(*                                                                         *)
(* A token is named by the login attempt it answers.  Password checking and *)
(* the signature are the server's business: a login is granted or refused,  *)
(* and a token is accepted until it expires.                                *)
(***************************************************************************)
CONSTANTS
    Tokens,     \* one for each login attempt (bound: as many as there are)
    NoToken

VARIABLES
    stored,     \* sessionStorage[ACCESS_TOKEN_KEY]
    screen,     \* the page shown: the login page, the product list or another
    submitting, \* the attempt the login page shown waits for
    logins,     \* how far each attempt got
    expired     \* tokens the server accepts no more

session == <<stored, screen, submitting, logins, expired>>

Screens == {"login", "list", "away"}
Steps == {"unused", "asked", "granted", "done"}

SessionInit ==
    /\ stored = NoToken /\ screen = "login" /\ submitting = NoToken
    /\ logins = [t \in Tokens |-> "unused"]
    /\ expired = {}

SessionTypeOK ==
    /\ stored \in Tokens \cup {NoToken}
    /\ screen \in Screens
    /\ submitting \in Tokens \cup {NoToken}
    /\ logins \in [Tokens -> Steps]
    /\ expired \subseteq {t \in Tokens : logins[t] \in {"granted", "done"}}
-----------------------------------------------------------------------------
\* The operator sends the login form; its button is disabled meanwhile.
handleSubmit(t) ==
    /\ screen = "login" /\ submitting = NoToken /\ logins[t] = "unused"
    /\ submitting' = t
    /\ logins' = [logins EXCEPT ![t] = "asked"]
    /\ UNCHANGED <<stored, screen, expired>>

\* Back or forward leads to a page the gate turns away from: a new login page,
\* which knows nothing of the attempt under way.
Reopen ==
    /\ screen = "login" /\ submitting # NoToken
    /\ submitting' = NoToken
    /\ UNCHANGED <<stored, screen, logins, expired>>

\* The server grants a token.
LoginServed(t) ==
    /\ logins[t] = "asked"
    /\ logins' = [logins EXCEPT ![t] = "granted"]
    /\ UNCHANGED <<stored, screen, submitting, expired>>

\* The credentials are wrong or the request fails: the login page says so.  A login
\* carries no token, so its 401 clears nothing.
LoginFailed(t) ==
    /\ logins[t] \in {"asked", "granted"}
    /\ logins' = [logins EXCEPT ![t] = "done"]
    /\ submitting' = IF submitting = t THEN NoToken ELSE submitting
    /\ UNCHANGED <<stored, screen, expired>>

\* The token is stored, whatever page is shown by now, and the browser goes to the
\* page the gate had turned away.
LoggedIn(t, destination) ==
    /\ logins[t] = "granted"
    /\ logins' = [logins EXCEPT ![t] = "done"]
    /\ stored' = t
    /\ screen' = destination
    /\ submitting' = NoToken
    /\ UNCHANGED expired

\* exp is reached.
Expire(t) ==
    /\ logins[t] \in {"granted", "done"} /\ t \notin expired
    /\ expired' = expired \cup {t}
    /\ UNCHANGED <<stored, screen, submitting, logins>>

\* Mutant: any 401 ends the session.
EndsAny(token) == stored # NoToken

\* Whether a 401 to a request with this token ends the session.
Ends(token) == token # NoToken /\ stored = token

\* clearUnauthorizedSession, and the gate that hears of it.
clearUnauthorizedSession ==
    /\ stored' = NoToken
    /\ screen' = "login"
    /\ submitting' = NoToken
    /\ UNCHANGED <<logins, expired>>

\* A link, or back and forward, between the pages behind the gate.
Goto(s) ==
    /\ screen' = s
    /\ UNCHANGED <<stored, submitting, logins, expired>>
=============================================================================
