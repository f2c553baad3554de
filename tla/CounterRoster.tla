----------------------------- MODULE CounterRoster -----------------------------
(***************************************************************************)
(* The counters an admin keeps and the staff assigned to them              *)
(* (service.CounterService, repository.CounterRepository), the list of     *)
(* both that Display TVs poll, and the calls a counter's staff make.       *)
(*                                                                         *)
(* The list is cached under one key and shows each counter with the name   *)
(* of its user, read by a join.  Changes of a counter end with an          *)
(* Invalidate; changes of a user, made by another service, do not.         *)
(* PostgreSQL keeps the references: staff_id is set to NULL when the user  *)
(* is deleted, while a counter or a user that a ticket names cannot be     *)
(* deleted.                                                                *)
(*                                                                         *)
(* Every statement is one step.  A counter's columns are its staff_id and  *)
(* one other, a user's only its name; serial and random keys are never     *)
(* given twice.  Of CallNext there is the check of the caller and the      *)
(* commit, which TicketDesk models in full; admins, who are not checked,   *)
(* are left out.                                                           *)
(***************************************************************************)
CONSTANTS
  Counters, Staff, Names,
  Desks,                \* HTTP requests
  Unborn, Removed,      \* a key not given yet, or deleted
  Nobody,               \* staff_id NULL
  NoDesk, NoRoster

VARIABLES
  counter,      \* the counters table
  person,       \* the names in the users table
  named,        \* the counters and users that tickets refer to
  rosterCache,  \* CounterService.listCache
  at,           \* the statement each request is at
  asked,        \* what it was asked for, until it is over
  fetched,      \* what a list fetched
  owned,        \* history: calls under way whose user had the counter since they came in
  strangers,    \* history: calls that called a ticket without
  excuse        \* history: why a fetched list, and the cached one (NoDesk), may differ from the tables

rosterVars == <<counter, person, named, rosterCache, at, asked, fetched, owned, strangers, excuse>>

Columns == [staff : Staff \cup {Nobody}, open : BOOLEAN]

\* counterBody: a column and its new value, null clearing staff_id, or a body that changes none.
Body ==
  [column : {"staff"}, to : Staff \cup {Nobody}] \cup [column : {"open"}, to : BOOLEAN]
    \cup [column : {"none"}]

Asked ==
  [op : {"create"}, c : Counters, row : Columns]
    \cup [op : {"update"}, c : Counters, body : Body]
    \cup [op : {"delete"}, c : Counters]
    \cup [op : {"list"}]
    \cup [op : {"rename"}, u : Staff, name : Names]
    \cup [op : {"dismiss"}, u : Staff]
    \cup [op : {"call"}, c : Counters, u : Staff]

\* A row of the list.
Shown == [c : Counters, row : Columns, name : Names \cup {Nobody}]

ASSUME RosterAssumption ==
  /\ Unborn # Removed /\ Columns \cap {Unborn, Removed} = {}
  /\ Removed \notin Names /\ Nobody \notin Staff
  /\ Counters \cap Staff = {}   \* `named` has keys of both
  /\ NoDesk \notin Desks \cup Asked /\ \A roster \in SUBSET Shown : roster # NoRoster

Exists(c) == counter[c] \notin {Unborn, Removed}

\* counterSelect: the counters LEFT JOIN the users.
Roster ==
  {[c |-> c, row |-> counter[c],
    name |-> IF counter[c].staff = Nobody THEN Nobody ELSE person[counter[c].staff]] :
     c \in {x \in Counters : Exists(x)}}

\* A change that no Invalidate followed; an Invalidate since the fetch; a change of a user since.
Excuses == {"lost", "late", "user"}

RosterTypeOK ==
  /\ counter \in [Counters -> Columns \cup {Unborn, Removed}]
  /\ person \in [Staff -> Names \cup {Removed}]
  /\ \A c \in Counters : Exists(c) /\ counter[c].staff # Nobody => person[counter[c].staff] # Removed
  /\ named \subseteq Counters \cup Staff
  /\ \A c \in Counters \cap named : Exists(c)
  /\ \A u \in Staff \cap named : person[u] # Removed
  /\ rosterCache \in {NoRoster} \cup SUBSET Shown
  /\ at \in [Desks -> {"new", "find", "write", "get", "invalidate", "cache", "fetch", "store", "over"}]
  /\ asked \in [Desks -> Asked \cup {NoDesk}]
  /\ fetched \in [Desks -> {NoRoster} \cup SUBSET Shown]
  /\ owned \subseteq Desks /\ strangers \subseteq Desks
  /\ excuse \in [Desks \cup {NoDesk} -> SUBSET Excuses]

\* Counters and users as the server finds them.
RosterInit ==
  /\ counter \in [Counters -> Columns \cup {Unborn}]
  /\ person \in [Staff -> Names]
  /\ named = {}
  /\ rosterCache = NoRoster
  /\ at = [r \in Desks |-> "new"]
  /\ asked = [r \in Desks |-> NoDesk]
  /\ fetched = [r \in Desks |-> NoRoster]
  /\ owned = {} /\ strangers = {}
  /\ excuse = [r \in Desks \cup {NoDesk} |-> {}]

\* The calls under way whose user has the counter now.
Owners ==
  {r \in Desks : /\ asked[r] # NoDesk /\ asked[r].op = "call" /\ Exists(asked[r].c)
                 /\ counter[asked[r].c].staff = asked[r].u}

AtDesk(r, step, op) == at[r] = step /\ asked[r].op = op

Continue(r, step) ==
  /\ at' = [at EXCEPT ![r] = step]
  /\ asked' = IF step = "over" THEN [asked EXCEPT ![r] = NoDesk] ELSE asked

\* The lists held, by the cache and by requests that have still to store theirs.
Held == {k \in DOMAIN excuse : IF k = NoDesk THEN rosterCache # NoRoster ELSE fetched[k] # NoRoster}

Excuse(why) == excuse' = [k \in DOMAIN excuse |-> IF k \in Held THEN excuse[k] \cup {why} ELSE {}]

Come(r, q) ==
  /\ at[r] = "new"
  /\ asked' = [asked EXCEPT ![r] = q]
  /\ at' = [at EXCEPT ![r] = CASE q.op = "list" -> "cache"
                               [] q.op \in {"update", "call"} -> "find"
                               [] OTHER -> "write"]
  /\ UNCHANGED <<counter, person, named, rosterCache, fetched, strangers, excuse>>

-------------------------------------------------------------------------------
(* Changes of counters.                                                      *)

\* INSERT INTO counters, with a new id; the user must exist.
CreateCounter(r) ==
  /\ AtDesk(r, "write", "create")
  /\ LET c == asked[r].c
         u == asked[r].row.staff IN
       IF counter[c] = Unborn /\ (u # Nobody => person[u] # Removed)
       THEN counter' = [counter EXCEPT ![c] = asked[r].row] /\ Continue(r, "get")
       ELSE UNCHANGED counter /\ Continue(r, "over")
  /\ UNCHANGED <<person, named, rosterCache, fetched, strangers, excuse>>

\* Get(id) of Update; with no column to change, Get(id) again is all there is.
FindCounter(r) ==
  /\ AtDesk(r, "find", "update")
  /\ Continue(r, IF ~Exists(asked[r].c) THEN "over"
                 ELSE IF asked[r].body.column = "none" THEN "get" ELSE "write")
  /\ UNCHANGED <<counter, person, named, rosterCache, fetched, strangers, excuse>>

\* The row with the column that the body gives.
Patched(row, body) ==
  IF body.column = "staff" THEN [row EXCEPT !.staff = body.to] ELSE [row EXCEPT !.open = body.to]

\* An UPDATE of all columns, those not given as the cached list has them.
UpdateCounterFromList(r) ==
  /\ AtDesk(r, "write", "update")
  /\ LET c == asked[r].c
         known == {x.row : x \in {y \in IF rosterCache = NoRoster THEN {} ELSE rosterCache : y.c = c}} IN
       counter' = IF Exists(c)
                  THEN [counter EXCEPT ![c] = Patched(IF known = {} THEN @ ELSE CHOOSE k \in known : TRUE,
                                                      asked[r].body)]
                  ELSE counter
  /\ Continue(r, "get")
  /\ UNCHANGED <<person, named, rosterCache, fetched, strangers, excuse>>

\* UPDATE counters SET ... WHERE id: no row is affected when the counter has gone.
UpdateCounter(r) ==
  /\ AtDesk(r, "write", "update")
  /\ LET c == asked[r].c
         b == asked[r].body IN
       IF ~Exists(c) THEN UNCHANGED counter /\ Continue(r, "get")
       ELSE IF b.column = "staff" /\ b.to # Nobody /\ person[b.to] = Removed
            THEN UNCHANGED counter /\ Continue(r, "over")
       ELSE counter' = [counter EXCEPT ![c] = Patched(@, b)] /\ Continue(r, "get")
  /\ UNCHANGED <<person, named, rosterCache, fetched, strangers, excuse>>

\* DELETE FROM counters; its acknowledgement may be lost.
DeleteCounter(r) ==
  /\ AtDesk(r, "write", "delete")
  /\ LET c == asked[r].c IN
       IF ~Exists(c) \/ c \in named
       THEN UNCHANGED <<counter, excuse>> /\ Continue(r, "over")
       ELSE /\ counter' = [counter EXCEPT ![c] = Removed]
            /\ \/ Continue(r, "invalidate") /\ UNCHANGED excuse
               \/ Continue(r, "over") /\ Excuse("lost")
  /\ UNCHANGED <<person, named, rosterCache, fetched, strangers>>

\* Get(id), the answer: another request may have deleted the counter.
AnswerCounter(r) ==
  /\ at[r] = "get"
  /\ Continue(r, IF Exists(asked[r].c) THEN "invalidate" ELSE "over")
  /\ UNCHANGED <<counter, person, named, rosterCache, fetched, strangers, excuse>>

\* listCache.Invalidate().
InvalidateRoster(r) ==
  /\ at[r] = "invalidate"
  /\ rosterCache' = NoRoster
  /\ excuse' = [k \in DOMAIN excuse |->
                  IF k # NoDesk /\ k \in Held THEN excuse[k] \cup {"late"} ELSE {}]
  /\ Continue(r, "over")
  /\ UNCHANGED <<counter, person, named, fetched, strangers>>

-------------------------------------------------------------------------------
(* The list.                                                                 *)

LookUpRoster(r) ==
  /\ at[r] = "cache"
  /\ Continue(r, IF rosterCache = NoRoster THEN "fetch" ELSE "over")
  /\ UNCHANGED <<counter, person, named, rosterCache, fetched, strangers, excuse>>

FetchRoster(r) ==
  /\ at[r] = "fetch"
  /\ fetched' = [fetched EXCEPT ![r] = Roster]
  /\ excuse' = [excuse EXCEPT ![r] = {}]
  /\ Continue(r, "store")
  /\ UNCHANGED <<counter, person, named, rosterCache, strangers>>

\* listCache.Set("all", v).
StoreRoster(r) ==
  /\ at[r] = "store"
  /\ rosterCache' = fetched[r]
  /\ fetched' = [fetched EXCEPT ![r] = NoRoster]
  /\ excuse' = [excuse EXCEPT ![NoDesk] = excuse[r], ![r] = {}]
  /\ Continue(r, "over")
  /\ UNCHANGED <<counter, person, named, strangers>>

-------------------------------------------------------------------------------
(* Changes of users, of which nobody tells the list.                         *)

RenameUser(r) ==
  /\ AtDesk(r, "write", "rename")
  /\ IF person[asked[r].u] = Removed THEN UNCHANGED <<person, excuse>>
     ELSE person' = [person EXCEPT ![asked[r].u] = asked[r].name] /\ Excuse("user")
  /\ Continue(r, "over")
  /\ UNCHANGED <<counter, named, rosterCache, fetched, strangers>>

\* ON DELETE CASCADE.
DeleteUserAndCounters(r) ==
  /\ AtDesk(r, "write", "dismiss")
  /\ LET u == asked[r].u IN
       IF person[u] = Removed \/ u \in named THEN UNCHANGED <<counter, person, excuse>>
       ELSE /\ person' = [person EXCEPT ![u] = Removed]
            /\ counter' = [c \in Counters |-> IF Exists(c) /\ counter[c].staff = u THEN Removed ELSE counter[c]]
            /\ Excuse("user")
  /\ Continue(r, "over")
  /\ UNCHANGED <<named, rosterCache, fetched, strangers>>

\* DELETE FROM users: ON DELETE SET NULL in counters, refused by a ticket.
DeleteUser(r) ==
  /\ AtDesk(r, "write", "dismiss")
  /\ LET u == asked[r].u IN
       IF person[u] = Removed \/ u \in named THEN UNCHANGED <<counter, person, excuse>>
       ELSE /\ person' = [person EXCEPT ![u] = Removed]
            /\ counter' = [c \in Counters |-> IF Exists(c) /\ counter[c].staff = u
                                               THEN [counter[c] EXCEPT !.staff = Nobody] ELSE counter[c]]
            /\ Excuse("user")
  /\ Continue(r, "over")
  /\ UNCHANGED <<named, rosterCache, fetched, strangers>>

-------------------------------------------------------------------------------
(* CallNext, and failures.                                                   *)

\* The owner as the cached list has it.
CheckCallerInList(r) ==
  /\ AtDesk(r, "find", "call")
  /\ LET c == asked[r].c
         owner == IF rosterCache # NoRoster /\ \E x \in rosterCache : x.c = c
                  THEN (CHOOSE x \in rosterCache : x.c = c).row.staff
                  ELSE IF Exists(c) THEN counter[c].staff ELSE Nobody IN
       Continue(r, IF owner = asked[r].u THEN "write" ELSE "over")
  /\ UNCHANGED <<counter, person, named, rosterCache, fetched, strangers, excuse>>

\* CounterStaffID(counterID): forbidden unless it is the caller.
CheckCaller(r) ==
  /\ AtDesk(r, "find", "call")
  /\ LET c == asked[r].c IN
       Continue(r, IF Exists(c) /\ counter[c].staff = asked[r].u THEN "write" ELSE "over")
  /\ UNCHANGED <<counter, person, named, rosterCache, fetched, strangers, excuse>>

\* The transaction that writes counter_id and user_id into a ticket.
CommitCall(r) ==
  /\ AtDesk(r, "write", "call")
  /\ LET c == asked[r].c
         u == asked[r].u IN
       IF Exists(c) /\ person[u] # Removed
       THEN named' = named \cup {c, u} /\ strangers' = strangers \cup ({r} \ owned)
       ELSE UNCHANGED <<named, strangers>>
  /\ Continue(r, "over")
  /\ UNCHANGED <<counter, person, rosterCache, fetched, excuse>>

\* A statement fails, its caller has left, or there is no ticket to call.
RosterStatementFails(r) ==
  /\ at[r] \in {"find", "write", "get", "fetch"}
  /\ IF at[r] = "get" THEN Excuse("lost") ELSE UNCHANGED excuse
  /\ Continue(r, "over")
  /\ UNCHANGED <<counter, person, named, rosterCache, fetched, strangers>>

RosterStep(r) ==
  \/ \E q \in Asked : Come(r, q)
  \/ CreateCounter(r) \/ FindCounter(r) \/ UpdateCounter(r) \/ DeleteCounter(r)
  \/ AnswerCounter(r) \/ InvalidateRoster(r)
  \/ LookUpRoster(r) \/ FetchRoster(r) \/ StoreRoster(r)
  \/ RenameUser(r) \/ DeleteUser(r)
  \/ CheckCaller(r) \/ CommitCall(r) \/ RosterStatementFails(r)

RosterNext == \E r \in Desks : RosterStep(r) /\ owned' = {q \in owned : at'[q] # "over"} \cup Owners'

RosterSpec == RosterInit /\ [][RosterNext]_rosterVars

-------------------------------------------------------------------------------
(* Properties.                                                               *)

\* A list without what it shows of users.
Bare(list) == {[c |-> x.c, open |-> x.row.open] : x \in list}

(***************************************************************************)
(* A cached list differs from the tables in what it shows of the counters  *)
(* only while a change is on its way to Invalidate, or after one failed on *)
(* that way, or when it had been fetched before an Invalidate that its     *)
(* storing follows; and in the users it shows, for these reasons or        *)
(* because a user was renamed or deleted since it was fetched.             *)
(***************************************************************************)
RosterStaleIsExplained ==
  LET changing == \E r \in Desks : at[r] \in {"get", "invalidate"}
      missed == excuse[NoDesk] \cap {"lost", "late"} # {} IN
    rosterCache # NoRoster =>
      /\ Bare(rosterCache) # Bare(Roster) => changing \/ missed
      /\ rosterCache # Roster => changing \/ missed \/ "user" \in excuse[NoDesk]

(***************************************************************************)
(* The counter may be given to somebody else between the check of a call   *)
(* and its commit, but nobody calls at a counter he did not have at some   *)
(* time after his request came in: an assignment that ended before it has  *)
(* no effect on it.                                                        *)
(***************************************************************************)
OwnershipIsRecent == strangers = {}

(***************************************************************************)
(* Admins who change a counter at the same time do not undo each other's   *)
(* work: whatever came between the Get and the UPDATE of a request, a      *)
(* column changes only by a request that was given that column, and a      *)
(* counter loses its staff to the deletion of the user, not its row.       *)
(***************************************************************************)
ColumnsAreKept ==
  [][\A c \in Counters : Exists(c) =>
       LET by(op) == {r \in Desks : AtDesk(r, "write", op) /\ asked[r].c = c /\ at'[r] # "write"} IN
         /\ ~Exists(c)' => by("delete") # {}
         /\ Exists(c)' =>
              /\ counter'[c].open # counter[c].open =>
                   \E r \in by("update") : asked[r].body.column = "open"
              /\ counter'[c].staff # counter[c].staff =>
                   \/ \E r \in by("update") : asked[r].body.column = "staff"
                   \/ counter'[c].staff = Nobody /\ person'[counter[c].staff] = Removed]_rosterVars

===============================================================================
