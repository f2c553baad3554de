-------------------------- MODULE CounterRosterProofs --------------------------
(***************************************************************************)
(* Proofs about CounterRoster, for every set of counters, users and        *)
(* requests: who may call at a counter, which columns a change leaves, and *)
(* what the cached list may hide.                                          *)
(***************************************************************************)
EXTENDS CounterRoster, TLAPS

\* The types that the proofs need, and what a request that has come was asked for.
DeskTypes ==
  /\ counter \in [Counters -> Columns \cup {Unborn, Removed}]
  /\ person \in [Staff -> Names \cup {Removed}]
  /\ at \in [Desks -> {"new", "find", "write", "get", "invalidate", "cache", "fetch", "store", "over"}]
  /\ asked \in [Desks -> Asked \cup {NoDesk}]
  /\ \A r \in Desks :
       /\ at[r] \notin {"new", "over"} => asked[r] \in Asked
       /\ at[r] = "find" => asked[r].op \in {"update", "call"}
       /\ at[r] = "write" /\ asked[r].op = "update" => asked[r].body.column # "none"

\* A call that passed the check has owned its counter, and every owner is on record.
CallersOwned ==
  /\ Owners \subseteq owned
  /\ \A r \in Desks : at[r] = "write" /\ asked[r].op = "call" => r \in owned

DeskInv == DeskTypes /\ CallersOwned /\ OwnershipIsRecent

\* What the requests ask for.
LEMMA AskedFields ==
  ASSUME NEW q \in Asked
  PROVE  /\ q.op \in {"create", "update", "delete", "list", "rename", "dismiss", "call"}
         /\ q.op \in {"create", "update", "delete", "call"} => q.c \in Counters
         /\ q.op = "create" => q.row \in Columns
         /\ q.op \in {"rename", "dismiss", "call"} => q.u \in Staff
         /\ q.op = "rename" => q.name \in Names
         /\ q.op = "update" => /\ q.body.column \in {"staff", "open", "none"}
                               /\ q.body.column = "staff" => q.body.to \in Staff \cup {Nobody}
                               /\ q.body.column = "open" => q.body.to \in BOOLEAN
  BY DEF Asked, Body

\* An update changes one column of one row.
LEMMA PatchedRow ==
  ASSUME NEW row \in Columns, NEW body,
         body.column = "staff" => body.to \in Staff \cup {Nobody},
         body.column # "staff" => body.to \in BOOLEAN
  PROVE  /\ Patched(row, body) \in Columns
         /\ body.column # "staff" => Patched(row, body).staff = row.staff
         /\ body.column = "staff" => Patched(row, body).open = row.open
  BY DEF Patched, Columns

LEMMA UpdatedCounter ==
  ASSUME DeskTypes, NEW r \in Desks, UpdateCounter(r)
  PROVE  /\ counter' \in [Counters -> Columns \cup {Unborn, Removed}]
         /\ asked[r].c \in Counters /\ asked[r].body.column \in {"staff", "open"}
         /\ \A c \in Counters \ {asked[r].c} : counter'[c] = counter[c]
         /\ \A c \in Counters : Exists(c) => Exists(c)'
         /\ \A c \in {asked[r].c} : Exists(c) =>
              /\ asked[r].body.column # "staff" => counter'[c].staff = counter[c].staff
              /\ asked[r].body.column = "staff" => counter'[c].open = counter[c].open
<1> DEFINE c0 == asked[r].c
           b == asked[r].body
<1>1. /\ c0 \in Counters
      /\ b.column \in {"staff", "open"}
      /\ b.column = "staff" => b.to \in Staff \cup {Nobody}
      /\ b.column # "staff" => b.to \in BOOLEAN
  BY AskedFields DEF UpdateCounter, AtDesk, DeskTypes
<1>2. CASE counter' = counter
  BY <1>1, <1>2 DEF DeskTypes, Exists
<1>3. CASE Exists(c0) /\ counter' = [counter EXCEPT ![c0] = Patched(counter[c0], b)]
  <2>1. counter[c0] \in Columns
    BY <1>1, <1>3 DEF DeskTypes, Exists
  <2>2. /\ Patched(counter[c0], b) \in Columns
        /\ b.column # "staff" => Patched(counter[c0], b).staff = counter[c0].staff
        /\ b.column = "staff" => Patched(counter[c0], b).open = counter[c0].open
    BY <1>1, <2>1, PatchedRow
  <2> HIDE DEF c0, b
  <2>3. /\ counter'[c0] = Patched(counter[c0], b)
        /\ \A c \in Counters \ {c0} : counter'[c] = counter[c]
        /\ counter' \in [Counters -> Columns \cup {Unborn, Removed}]
    BY <1>1, <1>3, <2>2 DEF DeskTypes
  <2>4. \A c \in Counters : Exists(c) => Exists(c)'
    BY <1>1, <2>2, <2>3, RosterAssumption DEF Exists
  <2>5. QED
    BY <1>1, <2>2, <2>3, <2>4 DEF c0, b
<1>4. QED
  BY <1>2, <1>3 DEF UpdateCounter

\* Every step keeps the types; `owned` and `strangers` have no part in them.
LEMMA DeskTypeStep == ASSUME DeskTypes, NEW r \in Desks, RosterStep(r) PROVE DeskTypes'
<1> USE RosterAssumption DEF DeskTypes, Continue, AtDesk
<1>1. ASSUME NEW q \in Asked, Come(r, q) PROVE DeskTypes'
  BY <1>1, AskedFields DEF Come
<1>2. CASE CreateCounter(r)
  BY <1>2, AskedFields DEF CreateCounter
<1>3. CASE FindCounter(r)
  BY <1>3, AskedFields DEF FindCounter
<1>4. CASE UpdateCounter(r)
  BY <1>4, UpdatedCounter DEF UpdateCounter
<1>5. CASE DeleteCounter(r)
  BY <1>5, AskedFields DEF DeleteCounter
<1>6. CASE AnswerCounter(r) \/ InvalidateRoster(r)
  BY <1>6 DEF AnswerCounter, InvalidateRoster
<1>7. CASE LookUpRoster(r) \/ FetchRoster(r) \/ StoreRoster(r)
  BY <1>7 DEF LookUpRoster, FetchRoster, StoreRoster
<1>8. CASE RenameUser(r)
  BY <1>8, AskedFields DEF RenameUser
<1>9. CASE DeleteUser(r)
  <2>1. \A c \in Counters : Exists(c) => [counter[c] EXCEPT !.staff = Nobody] \in Columns
    BY DEF Exists, Columns
  <2>2. counter' \in [Counters -> Columns \cup {Unborn, Removed}] /\ person' \in [Staff -> Names \cup {Removed}]
    BY <1>9, <2>1, AskedFields DEF DeleteUser
  <2>3. QED
    BY <1>9, <2>2 DEF DeleteUser
<1>10. CASE CheckCaller(r)
  BY <1>10 DEF CheckCaller
<1>11. CASE CommitCall(r)
  BY <1>11 DEF CommitCall
<1>12. CASE RosterStatementFails(r)
  BY <1>12 DEF RosterStatementFails
<1>13. QED
  BY <1>1, <1>2, <1>3, <1>4, <1>5, <1>6, <1>7, <1>8, <1>9, <1>10, <1>11, <1>12 DEF RosterStep

\* Of the steps that write, a call comes only from the check of its caller.
LEMMA CallStep ==
  ASSUME DeskTypes, NEW r \in Desks, RosterStep(r)
  PROVE  /\ \A q \in Desks \ {r} : at'[q] = at[q] /\ asked'[q] = asked[q]
         /\ at'[r] = "write" /\ asked'[r].op = "call" => r \in Owners
         /\ strangers' = strangers \/ (AtDesk(r, "write", "call") /\ strangers' = strangers \cup ({r} \ owned))
<1> USE RosterAssumption DEF DeskTypes, Continue, AtDesk
<1>1. ASSUME NEW q \in Asked, Come(r, q)
      PROVE  /\ \A o \in Desks \ {r} : at'[o] = at[o] /\ asked'[o] = asked[o]
             /\ ~(at'[r] = "write" /\ asked'[r].op = "call") /\ strangers' = strangers
  BY <1>1, AskedFields DEF Come
<1>2. ASSUME CreateCounter(r) \/ FindCounter(r) \/ UpdateCounter(r) \/ DeleteCounter(r)
               \/ AnswerCounter(r) \/ InvalidateRoster(r)
      PROVE  /\ \A o \in Desks \ {r} : at'[o] = at[o] /\ asked'[o] = asked[o]
             /\ ~(at'[r] = "write" /\ asked'[r].op = "call") /\ strangers' = strangers
  BY <1>2 DEF CreateCounter, FindCounter, UpdateCounter, DeleteCounter, AnswerCounter, InvalidateRoster
<1>3. ASSUME LookUpRoster(r) \/ FetchRoster(r) \/ StoreRoster(r) \/ RenameUser(r) \/ DeleteUser(r)
               \/ RosterStatementFails(r)
      PROVE  /\ \A o \in Desks \ {r} : at'[o] = at[o] /\ asked'[o] = asked[o]
             /\ at'[r] # "write" /\ strangers' = strangers
  BY <1>3 DEF LookUpRoster, FetchRoster, StoreRoster, RenameUser, DeleteUser, RosterStatementFails
<1>4. ASSUME CheckCaller(r)
      PROVE  /\ \A o \in Desks \ {r} : at'[o] = at[o] /\ asked'[o] = asked[o]
             /\ at'[r] = "write" => r \in Owners
             /\ strangers' = strangers
  BY <1>4 DEF CheckCaller, Owners
<1>5. ASSUME CommitCall(r)
      PROVE  /\ \A o \in Desks \ {r} : at'[o] = at[o] /\ asked'[o] = asked[o]
             /\ at'[r] # "write"
             /\ strangers' = strangers \/ strangers' = strangers \cup ({r} \ owned)
  BY <1>5 DEF CommitCall
<1>6. QED
  BY <1>1, <1>2, <1>3, <1>4, <1>5 DEF RosterStep, CommitCall

LEMMA DeskStep == ASSUME DeskInv, [RosterNext]_rosterVars PROVE DeskInv'
<1>1. CASE UNCHANGED rosterVars
  BY <1>1 DEF rosterVars, DeskInv, DeskTypes, CallersOwned, OwnershipIsRecent, Owners, Exists
<1>2. ASSUME NEW r \in Desks, RosterStep(r), owned' = {q \in owned : at'[q] # "over"} \cup Owners'
      PROVE  DeskInv'
  <2>1. DeskTypes'
    BY <1>2, DeskTypeStep DEF DeskInv
  <2>2. OwnershipIsRecent'
    BY <1>2, CallStep DEF DeskInv, CallersOwned, OwnershipIsRecent, AtDesk
  <2>3. ASSUME NEW q \in Desks, at'[q] = "write", asked'[q].op = "call" PROVE q \in owned'
    BY <1>2, <2>3, CallStep DEF DeskInv, CallersOwned
  <2>4. Owners' \subseteq owned'
    BY <1>2
  <2>5. QED
    BY <2>1, <2>2, <2>3, <2>4 DEF DeskInv, CallersOwned
<1>3. QED
  BY <1>1, <1>2 DEF RosterNext

LEMMA DeskInvariant == RosterSpec => []DeskInv
<1>1. RosterInit => DeskInv
  BY DEF RosterInit, DeskInv, DeskTypes, CallersOwned, OwnershipIsRecent, Owners
<1>2. QED
  BY <1>1, DeskStep, PTL DEF RosterSpec

\* Nobody calls at a counter he has not had since his request came in.
THEOREM RecentOwnership == RosterSpec => []OwnershipIsRecent
  BY DeskInvariant, PTL DEF DeskInv

-------------------------------------------------------------------------------
(* Columns.                                                                  *)

\* What a step does to the counters that exist.
CountersKept ==
  \A c \in Counters : Exists(c) =>
    LET by(op) == {r \in Desks : AtDesk(r, "write", op) /\ asked[r].c = c /\ at'[r] # "write"} IN
      /\ ~Exists(c)' => by("delete") # {}
      /\ Exists(c)' =>
           /\ counter'[c].open # counter[c].open =>
                \E r \in by("update") : asked[r].body.column = "open"
           /\ counter'[c].staff # counter[c].staff =>
                \/ \E r \in by("update") : asked[r].body.column = "staff"
                \/ counter'[c].staff = Nobody /\ person'[counter[c].staff] = Removed

\* A step that leaves the counters that exist as they are.
LEMMA UntouchedCounters ==
  ASSUME \A c \in Counters : Exists(c) => counter'[c] = counter[c]
  PROVE  CountersKept
  BY DEF CountersKept, Exists

LEMMA KeptStep == ASSUME DeskTypes, [RosterNext]_rosterVars PROVE CountersKept
<1> USE DEF DeskTypes
<1>1. CASE UNCHANGED rosterVars
  BY <1>1, UntouchedCounters DEF rosterVars
<1>2. ASSUME NEW r \in Desks, CreateCounter(r) PROVE CountersKept
  BY <1>2, UntouchedCounters, AskedFields DEF CreateCounter, AtDesk, Exists
<1>3. ASSUME NEW r \in Desks, UpdateCounter(r) PROVE CountersKept
  <2>1. AtDesk(r, "write", "update") /\ at'[r] # "write"
    BY <1>3 DEF UpdateCounter, Continue, AtDesk
  <2>2. QED
    BY <1>3, <2>1, UpdatedCounter DEF CountersKept
<1>4. ASSUME NEW r \in Desks, DeleteCounter(r) PROVE CountersKept
  <2>1. /\ AtDesk(r, "write", "delete") /\ at'[r] # "write" /\ asked[r].c \in Counters
        /\ counter' = counter \/ counter' = [counter EXCEPT ![asked[r].c] = Removed]
    BY <1>4, AskedFields DEF DeleteCounter, Continue, AtDesk
  <2>2. QED
    BY <2>1 DEF CountersKept, Exists
<1>5. ASSUME NEW r \in Desks, DeleteUser(r) PROVE CountersKept
  <2>1. CASE counter' = counter
    BY <2>1, UntouchedCounters
  <2>2. CASE /\ person' = [person EXCEPT ![asked[r].u] = Removed]
             /\ counter' = [c \in Counters |-> IF Exists(c) /\ counter[c].staff = asked[r].u
                                                THEN [counter[c] EXCEPT !.staff = Nobody] ELSE counter[c]]
    <3>1. asked[r].u \in Staff
      BY <1>5, AskedFields DEF DeleteUser, AtDesk
    <3>2. ASSUME NEW c \in Counters, Exists(c)
          PROVE  \/ counter'[c] = counter[c]
                 \/ /\ counter'[c].open = counter[c].open /\ counter'[c].staff = Nobody
                    /\ person'[counter[c].staff] = Removed /\ Exists(c)'
      <4>1. counter[c] \in Columns /\ [counter[c] EXCEPT !.staff = Nobody] \in Columns
        BY <3>2 DEF Exists, Columns
      <4>2. /\ [counter[c] EXCEPT !.staff = Nobody].staff = Nobody
            /\ [counter[c] EXCEPT !.staff = Nobody].open = counter[c].open
        BY <4>1 DEF Columns
      <4>3. QED
        BY <2>2, <3>1, <3>2, <4>1, <4>2, RosterAssumption DEF Exists
    <3>3. QED
      BY <3>2 DEF CountersKept, Exists
  <2>3. QED
    BY <1>5, <2>1, <2>2 DEF DeleteUser
<1>6. ASSUME NEW r \in Desks, RosterStep(r), counter' = counter PROVE CountersKept
  BY <1>6, UntouchedCounters
<1>7. QED
  BY <1>1, <1>2, <1>3, <1>4, <1>5, <1>6
  DEF RosterNext, RosterStep, Come, FindCounter, AnswerCounter, InvalidateRoster, LookUpRoster,
      FetchRoster, StoreRoster, RenameUser, CheckCaller, CommitCall, RosterStatementFails

\* Whatever came between its Get and its UPDATE, a change leaves the other columns as they are.
THEOREM KeptColumns == RosterSpec => ColumnsAreKept
<1>1. DeskInv /\ [RosterNext]_rosterVars => [CountersKept]_rosterVars
  BY KeptStep DEF DeskInv
<1>2. QED
  BY <1>1, DeskInvariant, PTL DEF RosterSpec, ColumnsAreKept, CountersKept

-------------------------------------------------------------------------------
(* The list.                                                                 *)

\* The rows a list can have.
Rows == [c : Counters, row : Columns, name : Names \cup {Removed, Nobody}]

Rosters == {NoRoster} \cup SUBSET Rows

ListTypes ==
  /\ rosterCache \in Rosters
  /\ fetched \in [Desks -> Rosters]
  /\ excuse \in [Desks \cup {NoDesk} -> SUBSET Excuses]

\* A change of this counter has still to reach Invalidate, and will unless the counter is deleted.
Changing(c) ==
  \E q \in Desks :
    /\ at[q] \in {"get", "invalidate"} /\ asked[q].c = c
    /\ at[q] = "get" => Exists(c)

\* A list has the counter as the table has it, without and with what it shows of the user.
BareMatches(list, c) ==
  \A b \in BOOLEAN : [c |-> c, open |-> b] \in Bare(list) <=> Exists(c) /\ counter[c].open = b

Matches(list, c) == \A x \in Rows : x.c = c => (x \in list <=> x \in Roster)

\* A list differs from the table only in counters being changed, or its holder has an excuse.
Explained(list, k) ==
  list # NoRoster /\ excuse[k] \cap {"lost", "late"} = {} =>
    \A c \in Counters : \/ Changing(c)
                        \/ /\ BareMatches(list, c)
                           /\ "user" \in excuse[k] \/ Matches(list, c)

ListsExplained == Explained(rosterCache, NoDesk) /\ \A r \in Desks : Explained(fetched[r], r)

ListInv == DeskTypes /\ ListTypes /\ ListsExplained

\* The row the list has for a counter that exists.
RowOf(c) ==
  [c |-> c, row |-> counter[c],
   name |-> IF counter[c].staff = Nobody THEN Nobody ELSE person[counter[c].staff]]

\* A counter and its column are in what a list shows of the counters when a row of it has them.
LEMMA BareRows ==
  ASSUME NEW list, NEW c, NEW b
  PROVE  [c |-> c, open |-> b] \in Bare(list) <=> \E x \in list : x.c = c /\ x.row.open = b
<1>1. ASSUME NEW x, [c |-> c, open |-> b] = [c |-> x.c, open |-> x.row.open]
      PROVE  x.c = c /\ x.row.open = b
  <2>1. /\ [c |-> c, open |-> b].c = [c |-> x.c, open |-> x.row.open].c
        /\ [c |-> c, open |-> b].open = [c |-> x.c, open |-> x.row.open].open
    BY <1>1
  <2>2. QED
    BY <2>1
<1>2. QED
  BY <1>1 DEF Bare

\* What the list has, as a query of the tables would find it.
LEMMA RosterRows ==
  ASSUME DeskTypes
  PROVE  /\ Roster \in SUBSET Rows
         /\ \A x \in Rows : x \in Roster <=> Exists(x.c) /\ x = RowOf(x.c)
         /\ \A c \in Counters, b \in BOOLEAN :
              [c |-> c, open |-> b] \in Bare(Roster) <=> Exists(c) /\ counter[c].open = b
<1>1. \A x : x \in Roster <=> \E c \in Counters : Exists(c) /\ x = RowOf(c)
  BY DEF Roster, RowOf
<1>2. ASSUME NEW c \in Counters, Exists(c)
      PROVE  RowOf(c) \in Rows /\ RowOf(c).c = c /\ RowOf(c).row = counter[c]
  <2>1. counter[c] \in Columns /\ counter[c].staff \in Staff \cup {Nobody}
    BY <1>2 DEF DeskTypes, Exists, Columns
  <2>2. counter[c].staff # Nobody => person[counter[c].staff] \in Names \cup {Removed}
    BY <2>1 DEF DeskTypes
  <2>3. QED
    BY <2>1, <2>2 DEF RowOf, Rows
<1>3. Roster \in SUBSET Rows
  BY <1>1, <1>2
<1>4. ASSUME NEW x \in Rows PROVE x \in Roster <=> Exists(x.c) /\ x = RowOf(x.c)
  <2>1. x.c \in Counters
    BY DEF Rows
  <2>2. QED
    BY <1>1, <1>2, <2>1
<1>5. ASSUME NEW c \in Counters, NEW b \in BOOLEAN
      PROVE  [c |-> c, open |-> b] \in Bare(Roster) <=> Exists(c) /\ counter[c].open = b
  <2>1. CASE Exists(c)
    <3>1. \A x \in Roster : x.c = c => x = RowOf(c)
      BY <1>1, <1>2
    <3>2. RowOf(c) \in Roster
      BY <1>1, <2>1
    <3>3. (\E x \in Roster : x.c = c /\ x.row.open = b) <=> counter[c].open = b
      BY <1>2, <2>1, <3>1, <3>2
    <3>4. QED
      BY <2>1, <3>3, BareRows
  <2>2. CASE ~Exists(c)
    <3>1. \A x \in Roster : x.c # c
      BY <1>1, <1>2, <2>2
    <3>2. QED
      BY <2>2, <3>1, BareRows
  <2>3. QED
    BY <2>1, <2>2
<1>6. QED
  BY <1>3, <1>4, <1>5

\* A counter that a step leaves alone is matched as before.
LEMMA SameMatches ==
  ASSUME NEW c \in Counters, NEW list, counter'[c] = counter[c], person' = person
  PROVE  (BareMatches(list, c) => BareMatches(list, c)') /\ (Matches(list, c) => Matches(list, c)')
<1>1. Exists(c)' <=> Exists(c)
  BY DEF Exists
<1>2. RowOf(c)' = RowOf(c)
  BY DEF RowOf
<1>3. ASSUME NEW x, x.c = c PROVE x \in Roster <=> Exists(c) /\ x = RowOf(c)
  <2>1. x \in Roster <=> \E d \in Counters : Exists(d) /\ x = RowOf(d)
    BY DEF Roster, RowOf
  <2>2. \A d : RowOf(d).c = d
    BY DEF RowOf
  <2>3. QED
    BY <1>3, <2>1, <2>2
<1>4. ASSUME NEW x, x.c = c PROVE x \in Roster' <=> Exists(c)' /\ x = RowOf(c)'
  <2>1. x \in Roster' <=> \E d \in Counters : Exists(d)' /\ x = RowOf(d)'
    BY DEF Roster, RowOf
  <2>2. \A d : RowOf(d)'.c = d
    BY DEF RowOf
  <2>3. QED
    BY <1>4, <2>1, <2>2
<1>5. Matches(list, c) => Matches(list, c)'
  BY <1>1, <1>2, <1>3, <1>4 DEF Matches
<1>6. QED
  BY <1>1, <1>5 DEF BareMatches

LEMMA ListTypeStep ==
  ASSUME DeskTypes, ListTypes, NEW r \in Desks, RosterStep(r) PROVE ListTypes'
<1> USE DEF ListTypes, Excuse
<1>1. Roster \in Rosters /\ NoRoster \in Rosters
  BY RosterRows DEF Rosters
<1>2. {"lost"} \subseteq Excuses /\ {"late"} \subseteq Excuses /\ {"user"} \subseteq Excuses
  BY DEF Excuses
<1> HIDE DEF ListTypes
<1>3. ASSUME UNCHANGED <<rosterCache, fetched, excuse>> PROVE ListTypes'
  BY <1>3 DEF ListTypes
<1>4. ASSUME NEW why \in Excuses, Excuse(why), UNCHANGED <<rosterCache, fetched>> PROVE ListTypes'
  <2>1. excuse' \in [Desks \cup {NoDesk} -> SUBSET Excuses]
    BY <1>4 DEF Excuse, ListTypes
  <2>2. QED
    BY <1>4, <2>1 DEF ListTypes
<1>5. "lost" \in Excuses /\ "user" \in Excuses
  BY <1>2
<1>6. CASE InvalidateRoster(r)
  <2>1. excuse' \in [Desks \cup {NoDesk} -> SUBSET Excuses]
    BY <1>2, <1>6 DEF InvalidateRoster, ListTypes
  <2>2. QED
    BY <1>1, <1>6, <2>1 DEF InvalidateRoster, ListTypes
<1>7. CASE FetchRoster(r)
  BY <1>1, <1>7 DEF FetchRoster, ListTypes
<1>8. CASE StoreRoster(r)
  <2>1. excuse' \in [Desks \cup {NoDesk} -> SUBSET Excuses]
    BY <1>8 DEF StoreRoster, ListTypes
  <2>2. QED
    BY <1>1, <1>8, <2>1 DEF StoreRoster, ListTypes
<1>9. CASE DeleteCounter(r)
  BY <1>3, <1>4, <1>5, <1>9 DEF DeleteCounter
<1>10. CASE RenameUser(r)
  BY <1>3, <1>4, <1>5, <1>10 DEF RenameUser
<1>11. CASE DeleteUser(r)
  BY <1>3, <1>4, <1>5, <1>11 DEF DeleteUser
<1>12. CASE RosterStatementFails(r)
  BY <1>3, <1>4, <1>5, <1>12 DEF RosterStatementFails
<1>13. ASSUME NEW q \in Asked, Come(r, q) PROVE ListTypes'
  BY <1>3, <1>13 DEF Come
<1>14. CASE CreateCounter(r) \/ FindCounter(r) \/ UpdateCounter(r) \/ AnswerCounter(r)
  BY <1>3, <1>14 DEF CreateCounter, FindCounter, UpdateCounter, AnswerCounter
<1>15. CASE LookUpRoster(r) \/ CheckCaller(r) \/ CommitCall(r)
  BY <1>3, <1>15 DEF LookUpRoster, CheckCaller, CommitCall
<1>16. QED
  BY <1>6, <1>7, <1>8, <1>9, <1>10, <1>11, <1>12, <1>13, <1>14, <1>15 DEF RosterStep

\* Who holds a list.
LEMMA HeldLists ==
  ASSUME ListTypes
  PROVE  /\ DOMAIN excuse = Desks \cup {NoDesk}
         /\ NoDesk \in Held <=> rosterCache # NoRoster
         /\ \A r \in Desks : r \in Held <=> fetched[r] # NoRoster
  BY RosterAssumption DEF ListTypes, Held

\* Whoever holds a list is excused for a change that Invalidate will not follow.
LEMMA LostStep ==
  ASSUME ListTypes, UNCHANGED <<rosterCache, fetched>>, Excuse("lost") PROVE ListsExplained'
<1>1. \A k \in Held : "lost" \in excuse'[k]
  BY HeldLists DEF Excuse, Held
<1>2. QED
  BY <1>1, HeldLists DEF ListsExplained, Explained

\* A change of users leaves what the list shows of the counters.
LEMMA UserStep ==
  ASSUME ListTypes, ListsExplained, UNCHANGED <<rosterCache, fetched>>, Excuse("user"),
         \A c \in Counters : /\ Exists(c)' <=> Exists(c)
                             /\ Exists(c) => counter'[c].open = counter[c].open
                             /\ Changing(c) => Changing(c)'
  PROVE  ListsExplained'
<1>1. \A k \in Held : excuse'[k] = excuse[k] \cup {"user"}
  BY HeldLists DEF Excuse, Held
<1>2. ASSUME NEW c \in Counters, NEW list, BareMatches(list, c) PROVE BareMatches(list, c)'
  BY <1>2 DEF BareMatches
<1>3. ASSUME NEW k \in Held, NEW list, Explained(list, k) PROVE Explained(list, k)'
  BY <1>1, <1>2, <1>3 DEF Explained
<1>4. Explained(rosterCache, NoDesk)'
  BY <1>3, HeldLists DEF ListsExplained, Explained
<1>5. ASSUME NEW q \in Desks PROVE Explained(fetched[q], q)'
  BY <1>3, HeldLists DEF ListsExplained, Explained
<1>6. QED
  BY <1>4, <1>5 DEF ListsExplained

\* A step that leaves the users, and each counter that is not being changed after it.
LEMMA ChangeStep ==
  ASSUME ListsExplained, UNCHANGED <<person, rosterCache, fetched, excuse>>,
         \A c \in Counters : \/ Changing(c)'
                             \/ counter'[c] = counter[c] /\ ~Changing(c)
  PROVE  ListsExplained'
<1>1. ASSUME NEW c \in Counters, NEW list, counter'[c] = counter[c]
      PROVE  (BareMatches(list, c) => BareMatches(list, c)') /\ (Matches(list, c) => Matches(list, c)')
  BY <1>1, SameMatches
<1>2. ASSUME NEW k, NEW list, Explained(list, k) PROVE Explained(list, k)'
  BY <1>1, <1>2 DEF Explained
<1>3. QED
  BY <1>2 DEF ListsExplained

LEMMA ListStep ==
  ASSUME ListInv, DeskTypes', NEW r \in Desks, RosterStep(r) PROVE ListsExplained'
<1> USE DEF ListInv
<1>1. ASSUME UNCHANGED <<counter, person, rosterCache, fetched, excuse>>,
             at[r] \notin {"get", "invalidate"}, NEW where, Continue(r, where) \/ \E q \in Asked : Come(r, q)
      PROVE  ListsExplained'
  <2>1. ASSUME NEW c \in Counters, Changing(c) PROVE Changing(c)'
    <3>1. PICK q \in Desks : /\ at[q] \in {"get", "invalidate"} /\ asked[q].c = c
                             /\ at[q] = "get" => Exists(c)
      BY <2>1 DEF Changing
    <3>2. at'[q] = at[q] /\ asked'[q] = asked[q]
      BY <1>1, <3>1 DEF Continue, Come, DeskTypes
    <3>3. QED
      BY <1>1, <3>1, <3>2 DEF Changing, Exists
  <2>2. QED
    BY <1>1, <2>1, ChangeStep
<1>2. ASSUME NEW q \in Asked, Come(r, q) PROVE ListsExplained'
  BY <1>1, <1>2 DEF Come
<1>3. CASE FindCounter(r) \/ LookUpRoster(r) \/ CheckCaller(r) \/ CommitCall(r)
  <2>1. PICK where : Continue(r, where)
    BY <1>3 DEF FindCounter, LookUpRoster, CheckCaller, CommitCall
  <2>2. QED
    BY <1>1, <1>3, <2>1 DEF FindCounter, LookUpRoster, CheckCaller, CommitCall, AtDesk
\* A write of the counter that the request then announces.
<1>4. ASSUME UNCHANGED <<person, rosterCache, fetched, excuse>>, asked[r].c \in Counters,
             at[r] = "write", NEW where \in {"get", "invalidate"}, Continue(r, where),
             \A c \in {asked[r].c} : where = "get" => Exists(c)',
             \A c \in Counters \ {asked[r].c} : counter'[c] = counter[c]
      PROVE  ListsExplained'
  <2>1. at'[r] = where /\ asked' = asked
    BY <1>4 DEF Continue, DeskTypes
  <2>2. \A c \in {asked[r].c} : Changing(c)'
    BY <1>4, <2>1 DEF Changing
  <2>3. ASSUME NEW c \in Counters \ {asked[r].c}, Changing(c) PROVE Changing(c)'
    <3>1. PICK q \in Desks : /\ at[q] \in {"get", "invalidate"} /\ asked[q].c = c
                             /\ at[q] = "get" => Exists(c)
      BY <2>3 DEF Changing
    <3>2. at'[q] = at[q]
      BY <1>4, <3>1 DEF Continue, DeskTypes
    <3>3. QED
      BY <1>4, <2>1, <2>3, <3>1, <3>2 DEF Changing, Exists
  <2>4. \A c \in Counters : Changing(c)' \/ (counter'[c] = counter[c] /\ ~Changing(c))
    BY <1>4, <2>2, <2>3
  <2>5. QED
    BY <1>4, <2>4, ChangeStep
<1>5. CASE CreateCounter(r)
  <2>1. asked[r].c \in Counters /\ asked[r].row \in Columns /\ at[r] = "write"
    BY <1>5, AskedFields DEF CreateCounter, AtDesk, DeskTypes
  <2>2. CASE counter' = [counter EXCEPT ![asked[r].c] = asked[r].row] /\ Continue(r, "get")
    <3>1. \A c \in {asked[r].c} : Exists(c)'
      BY <2>1, <2>2, RosterAssumption DEF DeskTypes, Exists
    <3>2. \A c \in Counters \ {asked[r].c} : counter'[c] = counter[c]
      BY <2>1, <2>2 DEF DeskTypes
    <3>3. QED
      BY <1>4, <1>5, <2>1, <2>2, <3>1, <3>2 DEF CreateCounter
  <2>3. CASE counter' = counter /\ Continue(r, "over")
    BY <1>1, <1>5, <2>1, <2>3 DEF CreateCounter
  <2>4. QED
    BY <1>5, <2>2, <2>3 DEF CreateCounter
<1>6. CASE UpdateCounter(r)
  <2>1. at[r] = "write" /\ UNCHANGED <<person, rosterCache, fetched, excuse>>
    BY <1>6 DEF UpdateCounter, AtDesk
  <2>2. PICK where : Continue(r, where)
    BY <1>6 DEF UpdateCounter
  <2>3. CASE counter' = counter
    BY <1>1, <2>1, <2>2, <2>3
  <2>4. CASE counter' # counter
    <3>1. Exists(asked[r].c) /\ Continue(r, "get")
      BY <1>6, <2>4 DEF UpdateCounter
    <3>2. /\ asked[r].c \in Counters /\ \A c \in {asked[r].c} : Exists(c)'
          /\ \A c \in Counters \ {asked[r].c} : counter'[c] = counter[c]
      BY <1>6, <3>1, UpdatedCounter
    <3>3. QED
      BY <1>4, <2>1, <3>1, <3>2
  <2>5. QED
    BY <2>3, <2>4
<1>7. CASE DeleteCounter(r)
  <2>1. asked[r].c \in Counters /\ at[r] = "write" /\ UNCHANGED <<person, rosterCache, fetched>>
    BY <1>7, AskedFields DEF DeleteCounter, AtDesk, DeskTypes
  <2>2. CASE UNCHANGED <<counter, excuse>> /\ Continue(r, "over")
    BY <1>1, <2>1, <2>2
  <2>3. CASE /\ counter' = [counter EXCEPT ![asked[r].c] = Removed]
             /\ Continue(r, "invalidate") /\ UNCHANGED excuse
    BY <1>4, <2>1, <2>3 DEF DeskTypes
  <2>4. CASE Excuse("lost")
    BY <2>1, <2>4, LostStep
  <2>5. QED
    BY <1>7, <2>2, <2>3, <2>4 DEF DeleteCounter
<1>8. CASE AnswerCounter(r)
  <2>1. ASSUME NEW c \in Counters, Changing(c) PROVE Changing(c)'
    <3>1. PICK q \in Desks : /\ at[q] \in {"get", "invalidate"} /\ asked[q].c = c
                             /\ at[q] = "get" => Exists(c)
      BY <2>1 DEF Changing
    <3>2. CASE q = r
      <4>1. at'[r] = "invalidate" /\ asked' = asked
        BY <1>8, <3>1, <3>2 DEF AnswerCounter, Continue, DeskTypes
      <4>2. QED
        BY <3>1, <3>2, <4>1 DEF Changing
    <3>3. CASE q # r
      <4>1. at'[q] = at[q] /\ asked'[q] = asked[q] /\ counter' = counter
        BY <1>8, <3>3 DEF AnswerCounter, Continue, DeskTypes
      <4>2. QED
        BY <3>1, <4>1 DEF Changing, Exists
    <3>4. QED
      BY <3>2, <3>3
  <2>2. QED
    BY <1>8, <2>1, ChangeStep DEF AnswerCounter
\* The cache is empty, and whoever still holds a list is late.
<1>9. CASE InvalidateRoster(r)
  <2>1. rosterCache' = NoRoster /\ fetched' = fetched
    BY <1>9 DEF InvalidateRoster
  <2>2. \A q \in Desks : fetched[q] # NoRoster => "late" \in excuse'[q]
    BY <1>9, HeldLists, RosterAssumption DEF InvalidateRoster
  <2>3. QED
    BY <2>1, <2>2 DEF ListsExplained, Explained
\* A list is as the table when it is fetched.
<1>10. CASE FetchRoster(r)
  <2>1. /\ UNCHANGED <<counter, person, rosterCache>> /\ at[r] = "fetch" /\ Continue(r, "store")
        /\ fetched' = [fetched EXCEPT ![r] = Roster] /\ excuse' = [excuse EXCEPT ![r] = {}]
    BY <1>10 DEF FetchRoster
  <2>2. ASSUME NEW c \in Counters, Changing(c) PROVE Changing(c)'
    <3>1. PICK q \in Desks : /\ at[q] \in {"get", "invalidate"} /\ asked[q].c = c
                             /\ at[q] = "get" => Exists(c)
      BY <2>2 DEF Changing
    <3>2. at'[q] = at[q] /\ asked'[q] = asked[q]
      BY <2>1, <3>1 DEF Continue, DeskTypes
    <3>3. QED
      BY <2>1, <3>1, <3>2 DEF Changing, Exists
  <2>3. ASSUME NEW c \in Counters, NEW list
        PROVE  (BareMatches(list, c) => BareMatches(list, c)') /\ (Matches(list, c) => Matches(list, c)')
    BY <2>1, SameMatches
  <2>4. ASSUME NEW k, NEW list, Explained(list, k), excuse'[k] = excuse[k] PROVE Explained(list, k)'
    BY <2>2, <2>3, <2>4 DEF Explained
  <2>5. excuse'[NoDesk] = excuse[NoDesk] /\ \A q \in Desks \ {r} : excuse'[q] = excuse[q]
    BY <2>1, RosterAssumption DEF ListTypes
  <2>6. \A q \in Desks \ {r} : fetched'[q] = fetched[q]
    BY <2>1 DEF ListTypes
  <2>7. Explained(rosterCache, NoDesk)'
    BY <2>1, <2>4, <2>5 DEF ListsExplained, Explained
  <2>8. ASSUME NEW q \in Desks \ {r} PROVE Explained(fetched[q], q)'
    BY <2>4, <2>5, <2>6 DEF ListsExplained, Explained
  <2>9. Explained(fetched[r], r)'
    <3>1. fetched'[r] = Roster
      BY <2>1 DEF ListTypes
    <3>2. \A c \in Counters : BareMatches(Roster, c) /\ Matches(Roster, c)
      BY RosterRows DEF BareMatches, Matches
    <3>3. \A c \in Counters : BareMatches(fetched[r], c)' /\ Matches(fetched[r], c)'
      <4>1. counter' = counter /\ Roster' = Roster
        BY <2>1 DEF Roster, Exists
      <4>2. QED
        BY <3>1, <3>2, <4>1 DEF BareMatches, Matches, Exists
    <3>4. QED
      BY <3>3 DEF Explained
  <2>10. QED
    BY <2>7, <2>8, <2>9 DEF ListsExplained
\* The cache has the list with the excuses that came on its way.
<1>11. CASE StoreRoster(r)
  <2>1. /\ UNCHANGED <<counter, person>> /\ at[r] = "store" /\ Continue(r, "over")
        /\ rosterCache' = fetched[r] /\ fetched' = [fetched EXCEPT ![r] = NoRoster]
        /\ excuse' = [excuse EXCEPT ![NoDesk] = excuse[r], ![r] = {}]
    BY <1>11 DEF StoreRoster
  <2>2. ASSUME NEW c \in Counters, Changing(c) PROVE Changing(c)'
    <3>1. PICK q \in Desks : /\ at[q] \in {"get", "invalidate"} /\ asked[q].c = c
                             /\ at[q] = "get" => Exists(c)
      BY <2>2 DEF Changing
    <3>2. at'[q] = at[q] /\ asked'[q] = asked[q]
      BY <2>1, <3>1 DEF Continue, DeskTypes
    <3>3. QED
      BY <2>1, <3>1, <3>2 DEF Changing, Exists
  <2>3. ASSUME NEW c \in Counters, NEW list
        PROVE  (BareMatches(list, c) => BareMatches(list, c)') /\ (Matches(list, c) => Matches(list, c)')
    BY <2>1, SameMatches
  <2>4. excuse'[NoDesk] = excuse[r] /\ \A q \in Desks \ {r} : excuse'[q] = excuse[q]
    BY <2>1, RosterAssumption DEF ListTypes
  <2>5. \A q \in Desks \ {r} : fetched'[q] = fetched[q]
    BY <2>1 DEF ListTypes
  <2>6. Explained(rosterCache, NoDesk)'
    BY <2>1, <2>2, <2>3, <2>4 DEF ListsExplained, Explained
  <2>7. ASSUME NEW q \in Desks \ {r} PROVE Explained(fetched[q], q)'
    BY <2>2, <2>3, <2>4, <2>5 DEF ListsExplained, Explained
  <2>8. Explained(fetched[r], r)'
    BY <2>1 DEF Explained, ListTypes
  <2>9. QED
    BY <2>6, <2>7, <2>8 DEF ListsExplained
<1>12. ASSUME UNCHANGED <<rosterCache, fetched>>, at[r] = "write", Continue(r, "over"), Excuse("user"),
              \A c \in Counters : (Exists(c)' <=> Exists(c)) /\ (Exists(c) => counter'[c].open = counter[c].open)
       PROVE  ListsExplained'
  <2>1. ASSUME NEW c \in Counters, Changing(c) PROVE Changing(c)'
    <3>1. PICK q \in Desks : /\ at[q] \in {"get", "invalidate"} /\ asked[q].c = c
                             /\ at[q] = "get" => Exists(c)
      BY <2>1 DEF Changing
    <3>2. at'[q] = at[q] /\ asked'[q] = asked[q]
      BY <1>12, <3>1 DEF Continue, DeskTypes
    <3>3. QED
      BY <1>12, <3>1, <3>2 DEF Changing
  <2>2. QED
    BY <1>12, <2>1, UserStep
<1>13. CASE RenameUser(r)
  <2>1. CASE UNCHANGED <<person, excuse>>
    BY <1>1, <1>13, <2>1 DEF RenameUser, AtDesk
  <2>2. CASE Excuse("user")
    BY <1>12, <1>13, <2>2 DEF RenameUser, AtDesk, Exists
  <2>3. QED
    BY <1>13, <2>1, <2>2 DEF RenameUser
<1>14. CASE DeleteUser(r)
  <2>1. CASE UNCHANGED <<counter, person, excuse>>
    BY <1>1, <1>14, <2>1 DEF DeleteUser, AtDesk
  <2>2. CASE /\ Excuse("user")
             /\ counter' = [c \in Counters |-> IF Exists(c) /\ counter[c].staff = asked[r].u
                                                THEN [counter[c] EXCEPT !.staff = Nobody] ELSE counter[c]]
    <3>1. ASSUME NEW c \in Counters
          PROVE  (Exists(c)' <=> Exists(c)) /\ (Exists(c) => counter'[c].open = counter[c].open)
      <4>1. Exists(c) => counter[c] \in Columns /\ [counter[c] EXCEPT !.staff = Nobody] \in Columns
        BY DEF Exists, Columns, DeskTypes
      <4>2. Exists(c) => [counter[c] EXCEPT !.staff = Nobody].open = counter[c].open
        BY <4>1 DEF Columns
      <4>3. QED
        BY <2>2, <4>1, <4>2, RosterAssumption DEF Exists
    <3>2. QED
      BY <1>12, <1>14, <2>2, <3>1 DEF DeleteUser, AtDesk
  <2>3. QED
    BY <1>14, <2>1, <2>2 DEF DeleteUser
<1>15. CASE RosterStatementFails(r)
  <2>1. CASE at[r] = "get"
    BY <1>15, <2>1, LostStep DEF RosterStatementFails
  <2>2. CASE at[r] # "get"
    BY <1>1, <1>15, <2>2 DEF RosterStatementFails
  <2>3. QED
    BY <2>1, <2>2
<1>16. QED
  BY <1>2, <1>3, <1>5, <1>6, <1>7, <1>8, <1>9, <1>10, <1>11, <1>13, <1>14, <1>15 DEF RosterStep

LEMMA ListInvariant == RosterSpec => []ListInv
<1>1. RosterInit => ListInv
  <2> SUFFICES ASSUME RosterInit PROVE ListInv
    OBVIOUS
  <2>1. DeskTypes
    BY DEF RosterInit, DeskTypes
  <2>2. ListTypes /\ ListsExplained
    BY DEF RosterInit, ListTypes, Rosters, ListsExplained, Explained
  <2>3. QED
    BY <2>1, <2>2 DEF ListInv
<1>2. ListInv /\ [RosterNext]_rosterVars => ListInv'
  <2>1. CASE UNCHANGED rosterVars
    <3>1. Roster' = Roster
      BY <2>1 DEF rosterVars, Roster, Exists
    <3>2. QED
      BY <2>1, <3>1 DEF rosterVars, ListInv, DeskTypes, ListTypes, ListsExplained, Explained, BareMatches,
                       Matches, Changing, Exists
  <2>2. ASSUME ListInv, NEW r \in Desks, RosterStep(r) PROVE ListInv'
    <3>1. DeskTypes' /\ ListTypes'
      BY <2>2, DeskTypeStep, ListTypeStep DEF ListInv
    <3>2. QED
      BY <2>2, <3>1, ListStep DEF ListInv
  <2>3. QED
    BY <2>1, <2>2 DEF RosterNext
<1>3. QED
  BY <1>1, <1>2, PTL DEF RosterSpec

(***************************************************************************)
(* A cached list of counters that differs from the tables differs in some  *)
(* counter, so a change of it is on its way to Invalidate, or the list has *)
(* an excuse; a change of a user excuses only what the list shows of       *)
(* users.                                                                  *)
(***************************************************************************)
THEOREM StaleRosters == RosterSpec => []RosterStaleIsExplained
<1>1. ASSUME ListInv PROVE RosterStaleIsExplained
  <2> USE <1>1 DEF ListInv
  <2>1. SUFFICES ASSUME rosterCache # NoRoster, excuse[NoDesk] \cap {"lost", "late"} = {},
                        \A r \in Desks : at[r] \notin {"get", "invalidate"}
                 PROVE  /\ Bare(rosterCache) = Bare(Roster)
                        /\ rosterCache = Roster \/ "user" \in excuse[NoDesk]
    BY DEF RosterStaleIsExplained
  <2>2. rosterCache \in SUBSET Rows /\ Roster \in SUBSET Rows
    BY <2>1, RosterRows DEF ListTypes, Rosters
  <2>3. /\ \A c \in Counters : BareMatches(rosterCache, c)
        /\ "user" \in excuse[NoDesk] \/ \A c \in Counters : Matches(rosterCache, c)
    BY <2>1 DEF ListsExplained, Explained, Changing
  <2>4. ASSUME NEW list \in SUBSET Rows, NEW e \in Bare(list)
        PROVE  \E c \in Counters, b \in BOOLEAN : e = [c |-> c, open |-> b]
    <3>1. PICK x \in list : e = [c |-> x.c, open |-> x.row.open]
      BY DEF Bare
    <3>2. x.c \in Counters /\ x.row.open \in BOOLEAN
      BY DEF Rows, Columns
    <3>3. QED
      BY <3>1, <3>2
  <2>5. Bare(rosterCache) = Bare(Roster)
    <3>1. \A c \in Counters, b \in BOOLEAN :
            [c |-> c, open |-> b] \in Bare(rosterCache) <=> [c |-> c, open |-> b] \in Bare(Roster)
      BY <2>3, RosterRows DEF BareMatches
    <3>2. QED
      BY <2>2, <2>4, <3>1
  <2>6. "user" \in excuse[NoDesk] \/ rosterCache = Roster
    <3>1. \A x \in Rows : x.c \in Counters
      BY DEF Rows
    <3>2. QED
      BY <2>2, <2>3, <3>1 DEF Matches
  <2>7. QED
    BY <2>5, <2>6
<1>2. QED
  BY <1>1, ListInvariant, PTL

-------------------------------------------------------------------------------
(* The references.                                                           *)

\* What PostgreSQL keeps: no counter names a deleted user, and no ticket a deleted counter or user.
ReferencesHold ==
  /\ \A c \in Counters : Exists(c) /\ counter[c].staff # Nobody => person[counter[c].staff] # Removed
  /\ named \subseteq Counters \cup Staff
  /\ \A c \in Counters \cap named : Exists(c)
  /\ \A u \in Staff \cap named : person[u] # Removed

RosterInv ==
  /\ DeskTypes /\ ListTypes /\ ReferencesHold
  /\ rosterCache \in {NoRoster} \cup SUBSET Shown
  /\ fetched \in [Desks -> {NoRoster} \cup SUBSET Shown]
  /\ owned \subseteq Desks /\ strangers \subseteq Desks

\* A list fetched now shows no name of a deleted user.
LEMMA ShownRoster == ASSUME DeskTypes, ReferencesHold PROVE Roster \in SUBSET Shown
<1>1. ASSUME NEW c \in Counters, Exists(c) PROVE RowOf(c) \in Shown
  <2>1. counter[c] \in Columns
    BY <1>1 DEF DeskTypes, Exists
  <2>2. counter[c].staff # Nobody => person[counter[c].staff] \in Names
    <3>1. counter[c].staff \in Staff \cup {Nobody}
      BY <2>1 DEF Columns
    <3>2. QED
      BY <1>1, <3>1 DEF ReferencesHold, DeskTypes
  <2>3. QED
    BY <2>1, <2>2 DEF RowOf, Shown
<1>2. QED
  BY <1>1 DEF Roster, RowOf

LEMMA ReferenceStep ==
  ASSUME DeskTypes, ReferencesHold, NEW r \in Desks, RosterStep(r) PROVE ReferencesHold'
<1> USE RosterAssumption DEF ReferencesHold
<1>1. ASSUME UNCHANGED <<counter, person, named>> PROVE ReferencesHold'
  BY <1>1 DEF Exists
<1> USE DEF AtDesk, DeskTypes
<1>2. CASE CreateCounter(r)
  <2>1. /\ asked[r].c \in Counters /\ asked[r].row \in Columns /\ named' = named /\ person' = person
        /\ \/ counter' = counter
           \/ /\ counter' = [counter EXCEPT ![asked[r].c] = asked[r].row]
              /\ asked[r].row.staff # Nobody => person[asked[r].row.staff] # Removed
    BY <1>2, AskedFields DEF CreateCounter
  <2>2. CASE counter' # counter
    <3>1. ASSUME NEW c \in Counters, c # asked[r].c PROVE counter'[c] = counter[c]
      BY <2>1, <3>1
    <3>2. counter'[asked[r].c] = asked[r].row
      BY <2>1, <2>2
    <3>3. \A c \in Counters : Exists(c) => Exists(c)'
      BY <2>1, <3>1, <3>2 DEF Exists
    <3>4. ASSUME NEW c \in Counters, Exists(c)', counter'[c].staff # Nobody PROVE person[counter'[c].staff] # Removed
      BY <2>1, <2>2, <3>1, <3>2, <3>4 DEF Exists
    <3>5. QED
      BY <2>1, <3>3, <3>4
  <2>3. QED
    BY <1>1, <2>1, <2>2
<1>3. CASE UpdateCounter(r)
  <2>1. /\ asked[r].c \in Counters /\ asked[r].body.column \in {"staff", "open"}
        /\ named' = named /\ person' = person
        /\ \A c \in Counters \ {asked[r].c} : counter'[c] = counter[c]
        /\ \A c \in Counters : Exists(c) => Exists(c)'
    BY <1>3, UpdatedCounter DEF UpdateCounter
  <2>2. CASE counter' # counter
    <3>1. /\ Exists(asked[r].c)
          /\ counter'[asked[r].c] = Patched(counter[asked[r].c], asked[r].body)
          /\ asked[r].body.column = "staff" /\ asked[r].body.to # Nobody => person[asked[r].body.to] # Removed
      BY <1>3, <2>1, <2>2 DEF UpdateCounter
    <3>2. counter[asked[r].c] \in Columns
      BY <2>1, <3>1 DEF Exists
    <3>3. counter'[asked[r].c].staff =
            IF asked[r].body.column = "staff" THEN asked[r].body.to ELSE counter[asked[r].c].staff
      BY <3>1, <3>2 DEF Patched, Columns
    <3>4. ASSUME NEW c \in Counters, Exists(c)', counter'[c].staff # Nobody PROVE person[counter'[c].staff] # Removed
      <4>1. CASE c = asked[r].c
        BY <3>1, <3>3, <3>4, <4>1
      <4>2. CASE c # asked[r].c
        BY <2>1, <3>4, <4>2 DEF Exists
      <4>3. QED
        BY <4>1, <4>2
    <3>5. QED
      BY <2>1, <3>4
  <2>3. QED
    BY <1>1, <2>1, <2>2
<1>4. CASE DeleteCounter(r)
  BY <1>4, AskedFields DEF DeleteCounter, Exists
<1>5. CASE RenameUser(r)
  <2>1. /\ named' = named /\ counter' = counter
        /\ \A u \in Staff : person[u] # Removed => person'[u] # Removed
    BY <1>5, AskedFields DEF RenameUser
  <2>2. ASSUME NEW c \in Counters, Exists(c) PROVE counter[c].staff \in Staff \cup {Nobody}
    BY <2>2 DEF Exists, Columns
  <2>3. QED
    BY <2>1, <2>2 DEF Exists
<1>6. CASE DeleteUser(r)
  <2>1. CASE UNCHANGED <<counter, person>>
    BY <1>1, <1>6, <2>1 DEF DeleteUser
  <2>2. CASE /\ asked[r].u \notin named
             /\ person' = [person EXCEPT ![asked[r].u] = Removed]
             /\ counter' = [c \in Counters |-> IF Exists(c) /\ counter[c].staff = asked[r].u
                                               THEN [counter[c] EXCEPT !.staff = Nobody] ELSE counter[c]]
    <3>1. named' = named /\ asked[r].u \in Staff
      BY <1>6, AskedFields DEF DeleteUser
    <3>2. \A u \in Staff : u # asked[r].u => person'[u] = person[u]
      BY <2>2
    <3>3. ASSUME NEW c \in Counters, Exists(c)
          PROVE  /\ counter'[c] \in Columns
                 /\ counter'[c].staff # Nobody => person'[counter'[c].staff] # Removed
      <4>1. counter[c] \in Columns /\ counter[c].staff \in Staff \cup {Nobody}
        BY <3>3 DEF Exists, Columns
      <4>2. CASE counter[c].staff = asked[r].u
        <5>1. counter'[c] = [counter[c] EXCEPT !.staff = Nobody]
          BY <2>2, <3>3, <4>2
        <5>2. counter'[c] \in Columns /\ counter'[c].staff = Nobody
          BY <4>1, <5>1 DEF Columns
        <5>3. QED
          BY <5>2
      <4>3. CASE counter[c].staff # asked[r].u
        <5>1. counter'[c] = counter[c]
          BY <2>2, <4>3
        <5>2. QED
          BY <3>2, <3>3, <4>1, <4>3, <5>1
      <4>4. QED
        BY <4>2, <4>3
    <3>4. \A c \in Counters : ~Exists(c) => ~Exists(c)'
      BY <2>2 DEF Exists
    <3>5. \A c \in Counters : Exists(c) => Exists(c)'
      BY <3>3 DEF Exists
    <3>6. \A c \in Counters : Exists(c)' /\ counter'[c].staff # Nobody => person'[counter'[c].staff] # Removed
      BY <3>3, <3>4
    <3>7. \A u \in Staff \cap named' : person'[u] # Removed
      BY <2>2, <3>1, <3>2
    <3>8. QED
      BY <3>1, <3>5, <3>6, <3>7
  <2>3. QED
    BY <1>6, <2>1, <2>2 DEF DeleteUser
<1>7. CASE CommitCall(r)
  BY <1>7, AskedFields DEF CommitCall, Exists
<1>8. ASSUME NEW q \in Asked, Come(r, q) PROVE ReferencesHold'
  BY <1>1, <1>8 DEF Come
<1>9. CASE FindCounter(r) \/ AnswerCounter(r) \/ InvalidateRoster(r) \/ CheckCaller(r)
  BY <1>1, <1>9 DEF FindCounter, AnswerCounter, InvalidateRoster, CheckCaller
<1>10. CASE LookUpRoster(r) \/ FetchRoster(r) \/ StoreRoster(r) \/ RosterStatementFails(r)
  BY <1>1, <1>10 DEF LookUpRoster, FetchRoster, StoreRoster, RosterStatementFails
<1>11. QED
  BY <1>2, <1>3, <1>4, <1>5, <1>6, <1>7, <1>8, <1>9, <1>10 DEF RosterStep

LEMMA RosterInvStep == ASSUME RosterInv, [RosterNext]_rosterVars PROVE RosterInv'
<1>1. CASE UNCHANGED rosterVars
  BY <1>1 DEF rosterVars, RosterInv, DeskTypes, ListTypes, ReferencesHold, Exists
<1>2. ASSUME NEW r \in Desks, RosterStep(r), owned' = {q \in owned : at'[q] # "over"} \cup Owners'
      PROVE  RosterInv'
  <2>1. DeskTypes' /\ ListTypes' /\ ReferencesHold'
    BY <1>2, DeskTypeStep, ListTypeStep, ReferenceStep DEF RosterInv
  <2>2. owned' \subseteq Desks /\ strangers' \subseteq Desks
    BY <1>2, CallStep DEF RosterInv, Owners
  <2>3. /\ rosterCache' \in {NoRoster} \cup SUBSET Shown
        /\ fetched' \in [Desks -> {NoRoster} \cup SUBSET Shown]
    <3>1. CASE UNCHANGED <<rosterCache, fetched>>
      BY <3>1 DEF RosterInv
    <3>2. CASE InvalidateRoster(r)
      BY <3>2 DEF InvalidateRoster, RosterInv
    <3>3. CASE FetchRoster(r)
      BY <3>3, ShownRoster DEF FetchRoster, RosterInv
    <3>4. CASE StoreRoster(r)
      BY <3>4 DEF StoreRoster, RosterInv
    <3>5. QED
      BY <1>2, <3>1, <3>2, <3>3, <3>4
         DEF RosterStep, Come, CreateCounter, FindCounter, UpdateCounter, DeleteCounter, AnswerCounter,
             LookUpRoster, RenameUser, DeleteUser, CheckCaller, CommitCall, RosterStatementFails
  <2>4. QED
    BY <2>1, <2>2, <2>3 DEF RosterInv
<1>3. QED
  BY <1>1, <1>2 DEF RosterNext

(***************************************************************************)
(* The types of the counters' part, among them that a counter's user and   *)
(* the counter and user a ticket names are there, which the deletions of   *)
(* users and counters, the assignments and the calls of any number of      *)
(* requests keep.                                                          *)
(***************************************************************************)
THEOREM RosterTypes == RosterSpec => []RosterTypeOK
<1>1. RosterInit => RosterInv
  <2> SUFFICES ASSUME RosterInit PROVE RosterInv
    OBVIOUS
  <2>1. DeskTypes /\ ListTypes
    BY DEF RosterInit, DeskTypes, ListTypes, Rosters
  <2>2. ASSUME NEW c \in Counters, Exists(c), counter[c].staff # Nobody PROVE person[counter[c].staff] # Removed
    <3>1. counter[c] \in Columns
      BY <2>2 DEF RosterInit, Exists
    <3>2. counter[c].staff \in Staff
      BY <2>2, <3>1 DEF Columns
    <3>3. QED
      BY <3>2, RosterAssumption DEF RosterInit
  <2>3. QED
    BY <2>1, <2>2 DEF RosterInit, RosterInv, ReferencesHold
<1>2. RosterInv => RosterTypeOK
  BY DEF RosterInv, DeskTypes, ListTypes, ReferencesHold, RosterTypeOK
<1>3. QED
  BY <1>1, <1>2, RosterInvStep, PTL DEF RosterSpec

===============================================================================
