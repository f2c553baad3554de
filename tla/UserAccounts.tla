----------------------------- MODULE UserAccounts -----------------------------
(***************************************************************************)
(* The users table statement by statement: service.UserService and the     *)
(* password check of service.AuthService, over repository.UserRepository.  *)
(*                                                                         *)
(* Login and ChangePassword read a row, spend the time bcrypt takes on     *)
(* comparing and hashing, and then sign tokens or update the row, while    *)
(* admins patch, deactivate or delete it.  An update is a lookup, an       *)
(* UPDATE of the columns given, and a lookup for the answer.  StaffSessions *)
(* follows the tokens that a login signs.                                  *)
(*                                                                         *)
(* A hash is represented by its password; an account is reduced to it and  *)
(* is_active, and is looked up by key, which stands for the unique e-mail  *)
(* address at login.  Keys are random and never given twice.               *)
(***************************************************************************)
CONSTANTS
  Accounts, Passwords,
  Petitions,          \* HTTP requests
  Vacant, Deleted,    \* a key not given yet, or deleted
  NoPetition

VARIABLES
  users,      \* the table
  phase,      \* the statement each request is at
  petition,   \* what it was asked for, until it is over
  row,        \* the row that a login or a password change has read
  held,       \* history: what each request under way says, where it was true since it came in
  unfounded   \* history: requests that were answered with what was never true meanwhile

accountVars == <<users, phase, petition, row, held, unfounded>>

User == [password : Passwords, active : BOOLEAN]

\* userBody: a column and its new value, or a body that changes none.
Change ==
  [column : {"password"}, to : Passwords] \cup [column : {"active"}, to : BOOLEAN] \cup [column : {"none"}]

Petition ==
  [op : {"create"}, id : Accounts, user : User]
    \cup [op : {"update"}, id : Accounts, patch : Change]
    \cup [op : {"delete"}, id : Accounts]
    \cup [op : {"login"}, id : Accounts, password : Passwords]
    \cup [op : {"change"}, id : Accounts, current : Passwords,
          patch : [column : {"password"}, to : Passwords]]

ASSUME AccountAssumption ==
  Vacant # Deleted /\ User \cap {Vacant, Deleted} = {} /\ NoPetition \notin Petition

Present(id) == users[id] \notin {Vacant, Deleted}

AccountTypeOK ==
  /\ users \in [Accounts -> User \cup {Vacant, Deleted}]
  /\ phase \in [Petitions -> {"new", "read", "compare", "find", "write", "get", "over"}]
  /\ petition \in [Petitions -> Petition \cup {NoPetition}]
  /\ row \in [Petitions -> User \cup {NoPetition}]
  /\ held \subseteq Petitions \X {"credentials", "result"}
  /\ unfounded \subseteq Petitions

AccountInit ==
  /\ users \in [Accounts -> User \cup {Vacant}]
  /\ phase = [r \in Petitions |-> "new"]
  /\ petition = [r \in Petitions |-> NoPetition]
  /\ row = [r \in Petitions |-> NoPetition]
  /\ held = {} /\ unfounded = {}

InPhase(r, p, ops) == phase[r] = p /\ petition[r].op \in ops

\* The request goes on to statement p, and is forgotten when it is over.
Reach(r, p) ==
  /\ phase' = [phase EXCEPT ![r] = p]
  /\ petition' = IF p = "over" THEN [petition EXCEPT ![r] = NoPetition] ELSE petition

\* What success says: that the credentials were good, and that the result was there.
Says(q) ==
  {what \in {"credentials", "result"} :
     q.op \in IF what = "credentials" THEN {"login", "change"} ELSE {"create", "update", "change"}}

IsTrue(q, what) ==
  IF what = "credentials" /\ q.op = "login"
  THEN users[q.id] = [password |-> q.password, active |-> TRUE]
  ELSE /\ Present(q.id)
       /\ what = "credentials" => users[q.id].password = q.current
       /\ what = "result" /\ q.op # "create" /\ q.patch.column # "none" =>
            users[q.id][q.patch.column] = q.patch.to

\* The requests that say something true now, and what.
Truths ==
  {h \in Petitions \X {"credentials", "result"} :
     LET q == petition[h[1]] IN q # NoPetition /\ h[2] \in Says(q) /\ IsTrue(q, h[2])}

\* The request is answered with success.
Succeed(r) ==
  /\ Reach(r, "over")
  /\ unfounded' = IF \A what \in Says(petition[r]) : <<r, what>> \in held THEN unfounded
                  ELSE unfounded \cup {r}

Arrive(r, q) ==
  /\ phase[r] = "new"
  /\ petition' = [petition EXCEPT ![r] = q]
  /\ phase' = [phase EXCEPT ![r] = CASE q.op = "update" -> "find"
                                     [] q.op \in {"login", "change"} -> "read"
                                     [] OTHER -> "write"]
  /\ UNCHANGED <<users, row, unfounded>>

-------------------------------------------------------------------------------
(* Login and ChangePassword: the row is read, and then compared.             *)

\* FindByEmail or FindByID; only a login asks whether the account is active.
ReadRow(r) ==
  /\ phase[r] = "read"
  /\ LET q == petition[r] IN
       IF Present(q.id) /\ (q.op = "login" => users[q.id].active)
       THEN row' = [row EXCEPT ![r] = users[q.id]] /\ Reach(r, "compare")
       ELSE UNCHANGED row /\ Reach(r, "over")
  /\ UNCHANGED <<users, unfounded>>

\* bcrypt.CompareHashAndPassword: tokens are signed for a login, a new hash is made for a change.
ComparePassword(r) ==
  /\ phase[r] = "compare"
  /\ LET q == petition[r] IN
       \/ /\ q.op = "login" /\ row[r].password = q.password
          /\ Succeed(r)
       \/ /\ q.op = "change" /\ row[r].password = q.current
          /\ Reach(r, "find") /\ UNCHANGED unfounded
       \/ /\ row[r].password # IF q.op = "login" THEN q.password ELSE q.current
          /\ Reach(r, "over") /\ UNCHANGED unfounded
  /\ row' = IF phase'[r] = "over" THEN [row EXCEPT ![r] = NoPetition] ELSE row
  /\ UNCHANGED users

-------------------------------------------------------------------------------
(* Create, Update and Delete.                                                *)

\* INSERT INTO users; refused when the address is taken.
InsertUser(r) ==
  /\ InPhase(r, "write", {"create"})
  /\ IF users[petition[r].id] = Vacant
     THEN users' = [users EXCEPT ![petition[r].id] = petition[r].user] /\ Reach(r, "get")
     ELSE UNCHANGED users /\ Reach(r, "over")
  /\ UNCHANGED <<row, unfounded>>

\* FindByID of Update; with no column to change, FindByID again is all there is.
FindUser(r) ==
  /\ phase[r] = "find"
  /\ LET q == petition[r] IN
       Reach(r, IF ~Present(q.id) THEN "over"
                ELSE IF q.patch.column = "none" THEN "get" ELSE "write")
  /\ row' = IF phase'[r] = "over" THEN [row EXCEPT ![r] = NoPetition] ELSE row
  /\ UNCHANGED <<users, unfounded>>

\* An UPDATE of all the columns of a row read earlier.
SaveUser(r) ==
  /\ InPhase(r, "write", {"update", "change"})
  /\ LET q == petition[r] IN
       users' = IF Present(q.id)
                THEN [users EXCEPT ![q.id] = [(IF row[r] = NoPetition THEN @ ELSE row[r])
                                                EXCEPT ![q.patch.column] = q.patch.to]]
                ELSE users
  /\ row' = [row EXCEPT ![r] = NoPetition]
  /\ Reach(r, "get")
  /\ UNCHANGED unfounded

\* UPDATE users SET the columns given WHERE id; no row is affected when the account has gone.
UpdateUser(r) ==
  /\ InPhase(r, "write", {"update", "change"})
  /\ LET q == petition[r] IN
       users' = IF Present(q.id) THEN [users EXCEPT ![q.id][q.patch.column] = q.patch.to] ELSE users
  /\ row' = [row EXCEPT ![r] = NoPetition]
  /\ Reach(r, "get")
  /\ UNCHANGED unfounded

\* DELETE FROM users; a ticket that names the user refuses it.
DropUser(r) ==
  /\ InPhase(r, "write", {"delete"})
  /\ \/ ~Present(petition[r].id) /\ UNCHANGED users
     \/ Present(petition[r].id) /\ users' = [users EXCEPT ![petition[r].id] = Deleted]
  /\ Reach(r, "over")
  /\ UNCHANGED <<row, unfounded>>

\* An answer without the lookup.
AnswerUnread(r) ==
  /\ phase[r] = "get"
  /\ Succeed(r)
  /\ UNCHANGED <<users, row>>

\* FindByID, the answer of Create and Update: not found when the account was deleted meanwhile.
AnswerUser(r) ==
  /\ phase[r] = "get"
  /\ IF Present(petition[r].id) THEN Succeed(r) ELSE Reach(r, "over") /\ UNCHANGED unfounded
  /\ UNCHANGED <<users, row>>

\* A statement or bcrypt fails, a foreign key refuses, or the caller has left.
AccountStatementFails(r) ==
  /\ phase[r] \in {"read", "compare", "find", "write", "get"}
  /\ Reach(r, "over")
  /\ row' = [row EXCEPT ![r] = NoPetition]
  /\ UNCHANGED <<users, unfounded>>

PetitionStep(r) ==
  \/ \E q \in Petition : Arrive(r, q)
  \/ ReadRow(r) \/ ComparePassword(r)
  \/ InsertUser(r) \/ FindUser(r) \/ UpdateUser(r) \/ DropUser(r) \/ AnswerUser(r)
  \/ AccountStatementFails(r)

AccountNext ==
  \E r \in Petitions :
    PetitionStep(r) /\ held' = {h \in held : petition'[h[1]] # NoPetition} \cup Truths'

AccountSpec == AccountInit /\ [][AccountNext]_accountVars

-------------------------------------------------------------------------------
(* Properties.                                                               *)

(***************************************************************************)
(* Whatever admins do to an account while bcrypt is at work, an answer     *)
(* tells what was true at some time after the request came in: a login     *)
(* and a password change that succeed had the password of an account that  *)
(* was there (and active, for a login), and a change or a new account that *)
(* is reported was in the table.                                           *)
(***************************************************************************)
AnswersAreFounded == unfounded = {}

(***************************************************************************)
(* A password change does not undo what an admin did to the account since  *)
(* its row was read, nor do two admins undo each other's work: is_active   *)
(* and the password change only by a request that was given that column,   *)
(* and a deleted account does not come back.                               *)
(***************************************************************************)
AccountColumnsAreKept ==
  [][\A id \in Accounts : Present(id) /\ users'[id] # users[id] =>
       \E r \in Petitions :
         /\ phase[r] = "write" /\ petition[r].id = id /\ phase'[r] # "write"
         /\ IF users'[id] = Deleted THEN petition[r].op = "delete"
            ELSE /\ petition[r].op \in {"update", "change"}
                 /\ \A column \in {"password", "active"} \ {petition[r].patch.column} :
                      users'[id][column] = users[id][column]]_accountVars

===============================================================================
