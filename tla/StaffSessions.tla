----------------------------- MODULE StaffSessions -----------------------------
(***************************************************************************)
(* Accounts and the sessions of those who use them: service.AuthService,   *)
(* service.UserService, middleware.JWT and RequireRole.                    *)
(*                                                                         *)
(* A session is two signed tokens that only the browser keeps: an access   *)
(* token in memory, sent with every request, and a refresh token in a      *)
(* cookie, good for a new pair.  The middleware trusts what an access      *)
(* token says of its user's role; the account itself is read at login and  *)
(* refresh only, and an admin may change or delete it at any time.         *)
(*                                                                         *)
(* Passwords and e-mail addresses are left out: whoever logs in here knows *)
(* the password.                                                           *)
(***************************************************************************)
EXTENDS Integers

CONSTANTS
  Users,
  Browsers,
  AccessTTL, RefreshTTL,   \* accessTokenTTL and refreshTokenTTL, in clock ticks
  Horizon,                 \* bound on the clock
  Gone,                    \* an account that is not in the table
  NoToken, NoRequest

ASSUME SessionAssumption ==
  /\ AccessTTL \in Nat \ {0} /\ RefreshTTL \in Nat \ {0} /\ Horizon \in Nat
  /\ Gone \notin [role : {"admin", "staff"}, active : BOOLEAN]

VARIABLES
  time,
  account,    \* the users table
  access,     \* the access token each browser has in memory
  cookie,     \* its refresh_token cookie
  login,      \* the row a login or refresh under way has read
  admitted,   \* the last request of each browser that reached a protected handler
  lastHeld    \* history: when each user last was active in each role; -1 if never

sessionVars == <<time, account, access, cookie, login, admitted, lastHeld>>

Roles == {"admin", "staff"}

Account == [role : Roles, active : BOOLEAN]

Token == [type : {"access", "refresh"}, sub : Users, role : Roles,
          iat : 0 .. Horizon, readAt : 0 .. Horizon]

SessionTypeOK ==
  /\ time \in 0 .. Horizon
  /\ account \in [Users -> Account \cup {Gone}]
  /\ access \in [Browsers -> Token \cup {NoToken}]
  /\ cookie \in [Browsers -> Token \cup {NoToken}]
  /\ login \in [Browsers -> [sub : Users, role : Roles, readAt : 0 .. Horizon] \cup {NoRequest}]
  /\ admitted \in [Browsers -> [token : Token, route : Roles, at : 0 .. Horizon] \cup {NoRequest}]
  /\ lastHeld \in [Users -> [Roles -> -1 .. Horizon]]

\* Whether user u is active in a role in the accounts a.
Holds(a, u, role) == a[u] = [role |-> role, active |-> TRUE]

\* The history after a step that leaves the accounts as a and the clock at t.
HeldUntil(a, t) ==
  [u \in Users |-> [role \in Roles |-> IF Holds(a, u, role) THEN t ELSE lastHeld[u][role]]]

\* The accounts of a server that has been in use; nobody is logged in.
SessionInit ==
  /\ time = 0
  /\ account \in [Users -> Account \cup {Gone}]
  /\ access = [b \in Browsers |-> NoToken]
  /\ cookie = [b \in Browsers |-> NoToken]
  /\ login = [b \in Browsers |-> NoRequest]
  /\ admitted = [b \in Browsers |-> NoRequest]
  /\ lastHeld = [u \in Users |-> [role \in Roles |-> IF Holds(account, u, role) THEN 0 ELSE -1]]

Expired(token) ==
  time >= token.iat + IF token.type = "access" THEN AccessTTL ELSE RefreshTTL

-------------------------------------------------------------------------------
(* Login and Refresh.                                                        *)

\* FindByEmail.  The password is compared before the tokens are signed.
Login(b, u) ==
  /\ login[b] = NoRequest
  /\ account[u] # Gone /\ account[u].active
  /\ login' = [login EXCEPT ![b] = [sub |-> u, role |-> account[u].role, readAt |-> time]]
  /\ UNCHANGED <<time, account, access, cookie, admitted, lastHeld>>

RefreshFromClaims(b) ==
  /\ login[b] = NoRequest
  /\ cookie[b] # NoToken /\ ~Expired(cookie[b])
  /\ login' = [login EXCEPT ![b] =
                 [sub |-> cookie[b].sub, role |-> cookie[b].role, readAt |-> time]]
  /\ UNCHANGED <<time, account, access, cookie, admitted, lastHeld>>

\* FindByID(claims.sub) of an unexpired refresh token.
Refresh(b) ==
  /\ login[b] = NoRequest
  /\ cookie[b] # NoToken /\ ~Expired(cookie[b])
  /\ LET u == cookie[b].sub IN
       /\ account[u] # Gone /\ account[u].active
       /\ login' = [login EXCEPT ![b] = [sub |-> u, role |-> account[u].role, readAt |-> time]]
  /\ UNCHANGED <<time, account, access, cookie, admitted, lastHeld>>

\* The token is refused, the account is gone or inactive, or the database fails: whichever it
\* is, the handler clears the cookie.
RefreshRefused(b) ==
  /\ login[b] = NoRequest
  /\ cookie[b] # NoToken
  /\ cookie' = [cookie EXCEPT ![b] = NoToken]
  /\ UNCHANGED <<time, account, access, login, admitted, lastHeld>>

\* issueSession: both tokens are signed from the row that was read.
Issue(b) ==
  /\ login[b] # NoRequest
  /\ LET token(kind) == [type |-> kind, sub |-> login[b].sub, role |-> login[b].role,
                         iat |-> time, readAt |-> login[b].readAt] IN
       /\ access' = [access EXCEPT ![b] = token("access")]
       /\ cookie' = [cookie EXCEPT ![b] = token("refresh")]
  /\ login' = [login EXCEPT ![b] = NoRequest]
  /\ UNCHANGED <<time, account, admitted, lastHeld>>

\* The password does not match, or the request is cut off.
LoginFails(b) ==
  /\ login[b] # NoRequest
  /\ login' = [login EXCEPT ![b] = NoRequest]
  /\ UNCHANGED <<time, account, access, cookie, admitted, lastHeld>>

\* Logout, and ChangePassword when it succeeds: only the browser forgets its refresh token.
ClearCookie(b) ==
  /\ cookie' = [cookie EXCEPT ![b] = NoToken]
  /\ UNCHANGED <<time, account, access, login, admitted, lastHeld>>

-------------------------------------------------------------------------------
(* Protected routes.                                                         *)

\* middleware.JWT: signature and expiry, and the type unless it is empty, which no token's is.
Accepted(token) == token # NoToken /\ ~Expired(token) /\ token.type = "access"

\* middleware.RequireRole("admin"); the other protected routes ask for no role.
Allows(route, role) == route = "admin" => role = "admin"

\* A request reaches its handler.  Clients may send either token as the bearer token.
Enter(b, token, route) ==
  /\ Accepted(token)
  /\ Allows(route, token.role)
  /\ admitted' = [admitted EXCEPT ![b] = [token |-> token, route |-> route, at |-> time]]
  /\ UNCHANGED <<time, account, access, cookie, login, lastHeld>>

-------------------------------------------------------------------------------
(* UserService.                                                              *)

\* Create and Update; Update writes the columns it was given.
WriteAccount(u) ==
  /\ \E row \in Account : account' = [account EXCEPT ![u] = row]
  /\ lastHeld' = HeldUntil(account', time)
  /\ UNCHANGED <<time, access, cookie, login, admitted>>

\* Delete; a foreign key may refuse it.
DeleteAccount(u) ==
  /\ account' = [account EXCEPT ![u] = Gone]
  /\ UNCHANGED <<time, access, cookie, login, admitted, lastHeld>>

SessionTick ==
  /\ time < Horizon
  /\ time' = time + 1
  /\ lastHeld' = HeldUntil(account, time')
  /\ UNCHANGED <<account, access, cookie, login, admitted>>

SessionNext ==
  \/ \E b \in Browsers :
       \/ \E u \in Users : Login(b, u)
       \/ Refresh(b) \/ RefreshRefused(b) \/ Issue(b) \/ LoginFails(b) \/ ClearCookie(b)
       \/ \E token \in {access[b], cookie[b]}, route \in Roles : Enter(b, token, route)
  \/ \E u \in Users : WriteAccount(u) \/ DeleteAccount(u)
  \/ SessionTick

SessionSpec == SessionInit /\ [][SessionNext]_sessionVars

-------------------------------------------------------------------------------
(* Properties.                                                               *)

(***************************************************************************)
(* An account that is changed, deactivated or deleted gets no new token by *)
(* a request that reads it afterwards: whoever reached a handler was       *)
(* active in the role the token gives, and in role admin on an admin       *)
(* route, when the login or refresh that issued the token read the account *)
(* or later, and that token was issued less than AccessTTL ago, however    *)
(* often it was refreshed.  How long before its issue the account was read *)
(* is not bounded.                                                         *)
(***************************************************************************)
AuthorityIsRecent ==
  \A b \in Browsers : admitted[b] # NoRequest =>
    LET a == admitted[b] IN
      /\ a.at - a.token.iat < AccessTTL
      /\ lastHeld[a.token.sub][IF a.route = "admin" THEN "admin" ELSE a.token.role]
           >= a.token.readAt

===============================================================================
