--------------------------- MODULE QueueServiceProofs ---------------------------
(***************************************************************************)
(* Proofs about QueueService, for every set of requests, tickets, users    *)
(* and keys: when a cached list may differ from the table, and that no     *)
(* change is forgotten before it is published.                             *)
(***************************************************************************)
EXTENDS QueueService, TLAPS

-------------------------------------------------------------------------------
(* Rows, inputs and steps.                                                   *)

\* The kinds of input: a read names a key, a change of a given ticket names it, a call its user.
LEMMA InputKinds ==
  ASSUME NEW in \in Input
  PROVE  /\ in.op = "read" => in \in [op : {"read"}, key : Keys]
         /\ in.op \in Changes => in.ticket \in Tickets
         /\ in.op = "rate" => in.rating \in Ratings
         /\ in.op = "call" => in.user \in Users
         /\ in.op \in Changes \cup {"call", "read"}
BY DEF Input, Changes

\* What a request reads back or fetches are rows.
LEMMA RowsRead ==
  ASSUME TypeOK
  PROVE  /\ \A t \in Tickets : RowOf(t) \in Rows
         /\ \A k \in Keys : Read(k) \in Lists
<1>1. \A t \in Tickets : RowOf(t) \in Rows
  BY DEF TypeOK, RowOf, Columns, StaffOf, Rows
<1>2. ASSUME NEW k \in Keys PROVE Read(k) \in Lists
  <2>1. Shown(k) \in SUBSET Tickets
    BY DEF Shown
  <2>2. Read(k) \in [Shown(k) -> Rows]
    BY <1>1, <2>1 DEF Read
  <2>3. QED
    BY <2>1, <2>2 DEF Lists
<1>3. QED
  BY <1>1, <1>2

\* A repository operation keeps the table a table.
LEMMA StoreKeepsTable ==
  ASSUME TypeOK, NEW r \in Requests, NEW t \in Tickets, asked[r] \in Input,
         asked[r].op \in Changes \cup {"call"}, StoreStep(r, t)
  PROVE  /\ status' \in [Tickets -> Store!Statuses]
         /\ rating' \in [Tickets -> Ratings \cup {Null}]
         /\ caller' \in [Tickets -> Users \cup {Null}]
         /\ called' \in [Requests -> Tickets \cup {NoTicket}]
<1> USE InputKinds DEF TypeOK, Store!Statuses
<1>1. CASE asked[r].op = "call"
  BY <1>1 DEF StoreStep, Store!Call, Store!Move
<1>2. CASE asked[r].op = "create"
  BY <1>2 DEF StoreStep, Store!Arrive, Store!Move
<1>3. CASE asked[r].op = "complete"
  BY <1>3 DEF StoreStep, Store!Complete, Store!Move
<1>4. CASE asked[r].op = "skip"
  BY <1>4 DEF StoreStep, Store!Skip, Store!Move
<1>5. CASE asked[r].op = "recall"
  BY <1>5 DEF StoreStep, Store!Recall, Store!Move
<1>6. CASE asked[r].op = "rate"
  BY <1>6 DEF StoreStep, Store!Rate
<1>7. QED
  BY <1>1, <1>2, <1>3, <1>4, <1>5, <1>6 DEF Changes

-------------------------------------------------------------------------------
(* Types.                                                                    *)

\* Every step keeps the type invariant.
LEMMA TypeStep == ASSUME TypeOK, AtOwnStep, [Next]_vars PROVE TypeOK'
<1> USE DEF TypeOK, Goto, Return, table, history, Mutating, Reading
<1>1. ASSUME NEW r \in Requests, NEW in \in Input, Submit(r, in) PROVE TypeOK'
  BY <1>1, InputKinds DEF Submit
<1>2. ASSUME NEW r \in Requests, Look(r) PROVE TypeOK'
  <2>1. target[r] \in Tickets
    BY <1>2 DEF Look, AtOwnStep
  <2>2. QED
    BY <1>2, <2>1, RowsRead DEF Look
<1>3. ASSUME NEW r \in Requests, Commit(r) PROVE TypeOK'
  <2>1. asked[r] \in Input /\ asked[r].op \in Changes \cup {"call"}
    BY <1>3, InputKinds DEF Commit, AtOwnStep
  <2>2. PICK t \in Tickets : /\ StoreStep(r, t)
                             /\ target' = [target EXCEPT ![r] = t]
                             /\ settled' = settled \ {t}
    BY <1>3 DEF Commit
  <2>3. QED
    BY <1>3, <2>1, <2>2, StoreKeepsTable DEF Commit
<1>4. ASSUME NEW r \in Requests, NoChange(r) PROVE TypeOK'
  BY <1>4 DEF NoChange
<1>5. ASSUME NEW r \in Requests, ReadBack(r) PROVE TypeOK'
  <2>1. target[r] \in Tickets
    BY <1>5 DEF ReadBack, AtOwnStep
  <2>2. QED
    BY <1>5, <2>1, RowsRead DEF ReadBack
<1>6. ASSUME NEW r \in Requests, Invalidate(r) PROVE TypeOK'
  BY <1>6 DEF Invalidate
<1>7. ASSUME NEW r \in Requests, Publish(r) PROVE TypeOK'
  <2>1. target[r] \in Tickets
    BY <1>7 DEF Publish, AtOwnStep
  <2>2. QED
    BY <1>7, <2>1 DEF Publish
<1>8. ASSUME NEW r \in Requests, Lookup(r) PROVE TypeOK'
  BY <1>8 DEF Lookup
<1>9. ASSUME NEW r \in Requests, Fetch(r) PROVE TypeOK'
  <2>1. asked[r].key \in Keys
    BY <1>9 DEF Fetch, AtOwnStep
  <2>2. QED
    BY <1>9, <2>1, RowsRead DEF Fetch
<1>10. ASSUME NEW r \in Requests, Fill(r) PROVE TypeOK'
  <2>1. asked[r].key \in Keys
    BY <1>10 DEF Fill, AtOwnStep
  <2>2. QED
    BY <1>10, <2>1 DEF Fill
<1>11. ASSUME NEW r \in Requests, Fail(r) PROVE TypeOK'
  <2>1. pc[r] = "get" => target[r] \in Tickets
    BY DEF AtOwnStep
  <2>2. QED
    BY <1>11, <2>1 DEF Fail
<1>12. CASE Restart
  <2>1. \A o \in Requests : pc[o] \in {"get", "invalidate", "publish"} => target[o] \in Tickets
    BY DEF AtOwnStep
  <2>2. settled' \subseteq Tickets
    BY <1>12, <2>1 DEF Restart
  <2>3. cache' \in [Keys -> Lists \cup {NoEntry}]
    BY <1>12 DEF Restart
  <2>4. QED
    BY <1>12, <2>2, <2>3 DEF Restart
<1>13. ASSUME NEW u \in Users, NEW n \in Names, RenameUser(u, n) PROVE TypeOK'
  BY <1>13 DEF RenameUser
<1>14. CASE UNCHANGED vars
  BY <1>14 DEF vars
<1>15. QED
  BY <1>1, <1>2, <1>3, <1>4, <1>5, <1>6, <1>7, <1>8, <1>9, <1>10, <1>11, <1>12, <1>13, <1>14
  DEF Next, Progress

-------------------------------------------------------------------------------
(* Control.                                                                  *)

\* Every step keeps every request at a step of its own operation.
LEMMA OwnStep == ASSUME TypeOK, AtOwnStep, [Next]_vars PROVE AtOwnStep'
<1> USE DEF TypeOK, AtOwnStep, Goto, Return, Mutating, Reading
<1>1. ASSUME NEW r \in Requests, NEW in \in Input, Submit(r, in) PROVE AtOwnStep'
  <2>1. /\ pc' = [pc EXCEPT ![r] = pc'[r]]
        /\ target' = [target EXCEPT ![r] = target'[r]]
        /\ asked' = [asked EXCEPT ![r] = in]
        /\ pc[r] = "idle"
    BY <1>1 DEF Submit
  <2>2. CASE in.op = "read"
    <3>1. pc'[r] = "lookup"
      BY <1>1, <2>2 DEF Submit
    <3>2. QED
      BY <2>1, <2>2, <3>1, InputKinds
  <2>3. CASE in.op \in Changes
    <3>1. pc'[r] \in {"look", "commit"} /\ target'[r] = in.ticket
      BY <1>1, <2>3 DEF Submit, Changes
    <3>2. in.op # "read" /\ in.ticket \in Tickets
      BY <2>3, InputKinds DEF Changes
    <3>3. QED
      BY <2>1, <3>1, <3>2
  <2>4. CASE in.op = "call"
    <3>1. pc'[r] = "commit"
      BY <1>1, <2>4 DEF Submit
    <3>2. QED
      BY <2>1, <2>4, <3>1
  <2>5. QED
    BY <2>2, <2>3, <2>4, InputKinds
<1>2. ASSUME NEW r \in Requests, Look(r) PROVE AtOwnStep'
  BY <1>2 DEF Look
<1>3. ASSUME NEW r \in Requests, Commit(r) PROVE AtOwnStep'
  BY <1>3 DEF Commit
<1>4. ASSUME NEW r \in Requests, NoChange(r) PROVE AtOwnStep'
  BY <1>4 DEF NoChange
<1>5. ASSUME NEW r \in Requests, ReadBack(r) \/ Invalidate(r) \/ Publish(r) PROVE AtOwnStep'
  BY <1>5 DEF ReadBack, Invalidate, Publish
<1>6. ASSUME NEW r \in Requests, Lookup(r) \/ Fetch(r) \/ Fill(r) PROVE AtOwnStep'
  BY <1>6 DEF Lookup, Fetch, Fill
<1>7. ASSUME NEW r \in Requests, Fail(r) PROVE AtOwnStep'
  BY <1>7 DEF Fail
<1>8. CASE Restart
  BY <1>8 DEF Restart, Active
<1>9. ASSUME NEW u \in Users, NEW n \in Names, RenameUser(u, n) PROVE AtOwnStep'
  BY <1>9 DEF RenameUser
<1>10. CASE UNCHANGED vars
  BY <1>10 DEF vars
<1>11. QED
  BY <1>1, <1>2, <1>3, <1>4, <1>5, <1>6, <1>7, <1>8, <1>9, <1>10 DEF Next, Progress

-------------------------------------------------------------------------------
(* Staleness.                                                                *)

\* Something accounts for a difference between the table and what was read from it.
Excused == missed \/ \E o \in Requests : Pending(o)

\* The names that have changed are those of renamed users.
NamesFollow ==
  /\ renamed \subseteq renamed'
  /\ \A u \in Users : name'[u] = name[u] \/ u \in renamed'

\* Only a commit changes the tickets of a list and their columns.
LEMMA SameTable ==
  ASSUME TypeOK, UNCHANGED table, NamesFollow
  PROVE  /\ \A k \in Keys : Shown(k)' = Shown(k) /\ Shown(k) \subseteq Tickets
         /\ \A t \in Tickets : Columns(t)' = Columns(t)
         /\ \A t \in Tickets : StaffOf(t)' = StaffOf(t) \/ caller'[t] \in renamed'
         /\ caller' = caller /\ renamed \subseteq renamed'
<1>1. \A k \in Keys : Shown(k)' = Shown(k) /\ Shown(k) \subseteq Tickets
  BY DEF table, Shown
<1>2. \A t \in Tickets : Columns(t)' = Columns(t)
  BY DEF table, Columns
<1>3. \A t \in Tickets : StaffOf(t)' = StaffOf(t) \/ caller'[t] \in renamed'
  BY DEF TypeOK, table, StaffOf, NamesFollow
<1>4. QED
  BY <1>1, <1>2, <1>3 DEF table, NamesFollow

\* A list that has just been fetched has the names of the moment.
LEMMA FreshRead == ASSUME NEW k \in Keys PROVE UpToNames(Read(k), k)
  BY DEF UpToNames, Read, RowOf, Shown

(***************************************************************************)
(* A step that leaves the table, the cache and the fetched lists alone     *)
(* keeps the explanations if it keeps the excuse.                          *)
(***************************************************************************)
LEMMA Unmoved ==
  ASSUME IInv, UNCHANGED <<table, cache, lateFill>>, NamesFollow, Excused => Excused',
         \A r \in Requests :
           pc'[r] = "store" /\ r \notin overtaken' =>
             /\ pc[r] = "store" /\ r \notin overtaken
             /\ fetched'[r] = fetched[r] /\ asked'[r] = asked[r] /\ asked[r].key \in Keys
  PROVE  FetchIsExplained' /\ StaleIsExplained'
<1> USE SameTable DEF IInv, UpToNames
<1>1. FetchIsExplained'
  BY DEF FetchIsExplained, Excused
<1>2. StaleIsExplained'
  BY DEF StaleIsExplained, Excused
<1>3. QED
  BY <1>1, <1>2

\* Every step keeps the explanation of what is fetched and of what is cached.
LEMMA ExplainedStep ==
  ASSUME IInv, [Next]_vars PROVE FetchIsExplained' /\ StaleIsExplained'
<1> USE DEF IInv, TypeOK, Goto, Mutating, Reading
<1>1. \A r \in Requests : pc[r] \in Reading => asked[r].key \in Keys
  BY DEF AtOwnStep
<1>2. ASSUME NEW r \in Requests,
             \/ \E in \in Input : Submit(r, in)
             \/ Look(r) \/ NoChange(r) \/ ReadBack(r) \/ Publish(r) \/ Lookup(r)
      PROVE  FetchIsExplained' /\ StaleIsExplained'
  <2>1. /\ UNCHANGED <<table, name, renamed, cache, lateFill, missed>>
        /\ overtaken' \cup {r} = overtaken \cup {r}
        /\ \A o \in Requests \ {r} : fetched'[o] = fetched[o] /\ asked'[o] = asked[o]
        /\ pc' = [pc EXCEPT ![r] = pc'[r]]
        /\ pc[r] \notin {"store", "invalidate"} /\ pc'[r] # "store"
        /\ pc[r] = "get" => pc'[r] = "invalidate"
    BY <1>2 DEF Submit, Look, NoChange, ReadBack, Publish, Lookup, Return, history
  <2>2. Excused => Excused'
    BY <2>1 DEF Excused, Pending
  <2>3. QED
    BY <1>1, <2>1, <2>2, Unmoved DEF NamesFollow
<1>3. ASSUME NEW r \in Requests, Commit(r) PROVE FetchIsExplained' /\ StaleIsExplained'
  <2>1. Pending(r)'
    BY <1>3 DEF Commit, Pending
  <2>2. QED
    BY <2>1 DEF FetchIsExplained, StaleIsExplained
<1>4. ASSUME NEW r \in Requests, Invalidate(r) PROVE FetchIsExplained' /\ StaleIsExplained'
  <2>1. \A k \in Keys : cache'[k] = NoEntry
    BY <1>4 DEF Invalidate
  <2>2. \A o \in Requests : pc'[o] = "store" => o \in overtaken'
    BY <1>4 DEF Invalidate
  <2>3. QED
    BY <2>1, <2>2 DEF FetchIsExplained, StaleIsExplained
<1>5. ASSUME NEW r \in Requests, Fetch(r) PROVE FetchIsExplained' /\ StaleIsExplained'
  <2>1. /\ UNCHANGED <<table, name, renamed, cache, lateFill, overtaken, missed, asked>>
        /\ pc' = [pc EXCEPT ![r] = "store"] /\ pc[r] = "fetch"
        /\ fetched' = [fetched EXCEPT ![r] = Read(asked[r].key)]
    BY <1>5 DEF Fetch, history
  <2>2. Excused => Excused'
    BY <2>1 DEF Excused, Pending
  <2>3. NamesFollow
    BY <2>1 DEF NamesFollow
  <2>4. UpToNames(Read(asked[r].key), asked[r].key)
    BY <1>1, <2>1, FreshRead
  <2>5. FetchIsExplained'
    BY <1>1, <2>1, <2>2, <2>3, <2>4, SameTable DEF FetchIsExplained, Excused, UpToNames
  <2>6. StaleIsExplained'
    BY <2>1, <2>2, <2>3, SameTable DEF StaleIsExplained, Excused, UpToNames
  <2>7. QED
    BY <2>5, <2>6
<1>6. ASSUME NEW r \in Requests, Fill(r) PROVE FetchIsExplained' /\ StaleIsExplained'
  <2>1. /\ UNCHANGED <<table, name, renamed, missed>>
        /\ overtaken' = overtaken \ {r}
        /\ \A o \in Requests \ {r} : fetched'[o] = fetched[o] /\ asked'[o] = asked[o]
        /\ pc' = [pc EXCEPT ![r] = "over"] /\ pc[r] = "store"
        /\ cache' = [cache EXCEPT ![asked[r].key] = fetched[r]]
        /\ lateFill' = IF r \in overtaken THEN lateFill \cup {asked[r].key}
                       ELSE lateFill \ {asked[r].key}
    BY <1>6 DEF Fill, Return
  <2>2. Excused => Excused'
    BY <2>1 DEF Excused, Pending
  <2>3. NamesFollow
    BY <2>1 DEF NamesFollow
  <2>4. FetchIsExplained'
    BY <1>1, <2>1, <2>2, <2>3, SameTable DEF FetchIsExplained, Excused, UpToNames
  <2>5. ASSUME NEW k \in Keys, cache'[k] # NoEntry, ~UpToNames(cache[k], k)', ~Excused'
        PROVE  k \in lateFill'
    <3>1. CASE k = asked[r].key
      <4>1. cache'[k] = fetched[r]
        BY <2>1, <3>1
      <4>2. ~UpToNames(fetched[r], k)
        BY <2>1, <2>3, <2>5, <4>1, SameTable DEF UpToNames
      <4>3. r \in overtaken
        BY <2>1, <2>2, <2>5, <3>1, <4>2 DEF FetchIsExplained, Excused
      <4>4. QED
        BY <2>1, <3>1, <4>3
    <3>2. CASE k # asked[r].key
      <4>1. cache'[k] = cache[k]
        BY <2>1, <3>2
      <4>2. ~UpToNames(cache[k], k)
        BY <2>1, <2>3, <2>5, <4>1, SameTable DEF UpToNames
      <4>3. k \in lateFill
        BY <2>2, <2>5, <4>1, <4>2 DEF StaleIsExplained, Excused
      <4>4. QED
        BY <2>1, <3>2, <4>3
    <3>3. QED
      BY <3>1, <3>2
  <2>6. StaleIsExplained'
    BY <2>5 DEF StaleIsExplained, Excused
  <2>7. QED
    BY <2>4, <2>6
<1>7. ASSUME NEW r \in Requests, Fail(r) PROVE FetchIsExplained' /\ StaleIsExplained'
  <2>1. /\ UNCHANGED <<table, name, renamed, cache, lateFill>>
        /\ overtaken' = overtaken \ {r}
        /\ \A o \in Requests \ {r} : fetched'[o] = fetched[o] /\ asked'[o] = asked[o]
        /\ pc' = [pc EXCEPT ![r] = "over"] /\ pc[r] \notin {"store", "invalidate"}
        /\ missed' = (missed \/ pc[r] = "get")
    BY <1>7 DEF Fail, Return
  <2>2. Excused => Excused'
    BY <2>1 DEF Excused, Pending
  <2>3. QED
    BY <1>1, <2>1, <2>2, Unmoved DEF NamesFollow
<1>8. CASE Restart
  <2>1. \A k \in Keys : cache'[k] = NoEntry
    BY <1>8 DEF Restart
  <2>2. \A o \in Requests : pc'[o] # "store"
    BY <1>8 DEF Restart, Active
  <2>3. QED
    BY <2>1, <2>2 DEF FetchIsExplained, StaleIsExplained
<1>9. ASSUME NEW u \in Users, NEW n \in Names, RenameUser(u, n)
      PROVE  FetchIsExplained' /\ StaleIsExplained'
  <2>1. /\ UNCHANGED <<table, cache, lateFill, pc, fetched, asked, overtaken, missed>>
        /\ NamesFollow
    BY <1>9 DEF RenameUser, NamesFollow
  <2>2. Excused => Excused'
    BY <2>1 DEF Excused, Pending
  <2>3. QED
    BY <1>1, <2>1, <2>2, Unmoved
<1>10. CASE UNCHANGED vars
  <2>1. (Excused => Excused') /\ NamesFollow
    BY <1>10 DEF vars, history, Excused, Pending, NamesFollow
  <2>2. QED
    BY <1>1, <1>10, <2>1, Unmoved DEF vars, history
<1>11. QED
  BY <1>2, <1>3, <1>4, <1>5, <1>6, <1>7, <1>8, <1>9, <1>10 DEF Next, Progress

-------------------------------------------------------------------------------
(* Announcements.                                                            *)

\* A request that has still to publish the columns ticket t has, or to read them back.
Carries(r, t) ==
  /\ target[r] = t
  /\ pc[r] = "get" \/ (pc[r] \in {"invalidate", "publish"} /\ payload[r].ticket = Columns(t))

(***************************************************************************)
(* A step that leaves the columns of the tickets alone, and the requests   *)
(* that carry them where they carry them, keeps the changes announced.     *)
(***************************************************************************)
LEMMA CarriersKept ==
  ASSUME ChangeIsAnnounced, settled \subseteq settled',
         \A o \in Requests, t \in Tickets : Carries(o, t) => Carries(o, t)' \/ t \in settled'
  PROVE  ChangeIsAnnounced'
  BY DEF ChangeIsAnnounced, Carries

\* An operation changes the columns of its ticket only.
LEMMA OtherRows ==
  ASSUME TypeOK, NEW r \in Requests, NEW t \in Tickets, StoreStep(r, t), NEW u \in Tickets \ {t}
  PROVE  Columns(u)' = Columns(u)
  BY DEF TypeOK, StoreStep, Columns, Store!Call, Store!Arrive, Store!Complete, Store!Skip,
         Store!Recall, Store!Rate, Store!Move

LEMMA AnnouncedStep == ASSUME IInv, ChangeIsAnnounced, [Next]_vars PROVE ChangeIsAnnounced'
<1> USE DEF IInv, TypeOK, Goto, Return
<1>1. ASSUME NEW r \in Requests, NEW in \in Input, Submit(r, in) PROVE ChangeIsAnnounced'
  <2>1. \A o \in Requests, t \in Tickets : Carries(o, t) => Carries(o, t)'
    BY <1>1 DEF Submit, Carries, Columns, table
  <2>2. QED
    BY <1>1, <2>1, CarriersKept DEF Submit, history
<1>2. ASSUME NEW r \in Requests, Look(r) \/ NoChange(r) \/ Lookup(r) \/ Fetch(r) \/ Fill(r)
      PROVE  ChangeIsAnnounced'
  <2>1. /\ UNCHANGED <<table, settled>>
        /\ \A o \in Requests \ {r} : /\ pc'[o] = pc[o] /\ target'[o] = target[o]
                                     /\ payload'[o] = payload[o]
        /\ pc[r] \notin {"get", "invalidate", "publish"}
    BY <1>2 DEF Look, NoChange, Lookup, Fetch, Fill, history
  <2>2. \A o \in Requests, t \in Tickets : Carries(o, t) => Carries(o, t)'
    BY <2>1 DEF Carries, Columns, table
  <2>3. QED
    BY <2>1, <2>2, CarriersKept
<1>3. ASSUME NEW r \in Requests, Commit(r) PROVE ChangeIsAnnounced'
  <2>1. PICK t \in Tickets : /\ StoreStep(r, t)
                             /\ target' = [target EXCEPT ![r] = t]
                             /\ settled' = settled \ {t}
    BY <1>3 DEF Commit
  <2>2. pc' = [pc EXCEPT ![r] = "get"] /\ pc[r] = "commit" /\ payload' = payload
    BY <1>3 DEF Commit
  <2>3. Carries(r, t)'
    BY <2>1, <2>2 DEF Carries
  <2>4. ASSUME NEW u \in Tickets \ {t}, NEW o \in Requests, Carries(o, u) PROVE Carries(o, u)'
    <3>1. o # r /\ Columns(u)' = Columns(u)
      BY <2>1, <2>2, <2>4, OtherRows DEF Carries
    <3>2. QED
      BY <2>1, <2>2, <2>4, <3>1 DEF Carries
  <2>5. QED
    BY <2>1, <2>3, <2>4 DEF ChangeIsAnnounced, Carries
<1>4. ASSUME NEW r \in Requests, ReadBack(r) PROVE ChangeIsAnnounced'
  <2>1. /\ UNCHANGED <<table, target, settled>>
        /\ pc' = [pc EXCEPT ![r] = "invalidate"] /\ pc[r] = "get"
        /\ payload' = [payload EXCEPT ![r] = RowOf(target[r])]
    BY <1>4 DEF ReadBack, history
  <2>2. payload'[r].ticket = Columns(target[r])
    BY <2>1 DEF RowOf
  <2>3. \A o \in Requests, t \in Tickets : Carries(o, t) => Carries(o, t)'
    BY <2>1, <2>2 DEF Carries, Columns, table
  <2>4. QED
    BY <2>1, <2>3, CarriersKept
<1>5. ASSUME NEW r \in Requests, Invalidate(r) PROVE ChangeIsAnnounced'
  <2>1. \A o \in Requests, t \in Tickets : Carries(o, t) => Carries(o, t)'
    BY <1>5 DEF Invalidate, Carries, Columns, table
  <2>2. QED
    BY <1>5, <2>1, CarriersKept DEF Invalidate
<1>6. ASSUME NEW r \in Requests, Publish(r) PROVE ChangeIsAnnounced'
  <2>1. \A o \in Requests, t \in Tickets : Carries(o, t) => Carries(o, t)' \/ t \in settled'
    BY <1>6 DEF Publish, Carries, Columns, table
  <2>2. QED
    BY <1>6, <2>1, CarriersKept DEF Publish
<1>7. ASSUME NEW r \in Requests, Fail(r) PROVE ChangeIsAnnounced'
  <2>1. \A o \in Requests, t \in Tickets : Carries(o, t) => Carries(o, t)' \/ t \in settled'
    BY <1>7 DEF Fail, Carries, Columns, table
  <2>2. QED
    BY <1>7, <2>1, CarriersKept DEF Fail
<1>8. CASE Restart
  <2>1. \A o \in Requests, t \in Tickets : Carries(o, t) => t \in settled'
    BY <1>8 DEF Restart, Carries
  <2>2. QED
    BY <1>8, <2>1, CarriersKept DEF Restart
<1>9. ASSUME NEW u \in Users, NEW n \in Names, RenameUser(u, n) PROVE ChangeIsAnnounced'
  <2>1. \A o \in Requests, t \in Tickets : Carries(o, t) => Carries(o, t)'
    BY <1>9 DEF RenameUser, Carries, Columns, table
  <2>2. QED
    BY <1>9, <2>1, CarriersKept DEF RenameUser
<1>10. CASE UNCHANGED vars
  BY <1>10 DEF vars, table, history, ChangeIsAnnounced, Columns
<1>11. QED
  BY <1>1, <1>2, <1>3, <1>4, <1>5, <1>6, <1>7, <1>8, <1>9, <1>10 DEF Next, Progress

-------------------------------------------------------------------------------
(* The theorems.                                                             *)

LEMMA InitIInv == ASSUME Init PROVE IInv
<1>1. TypeOK
  BY DEF Init, TypeOK, Store!Init, Lists
<1>2. AtOwnStep
  BY DEF Init, AtOwnStep, Mutating, Reading
<1>3. FetchIsExplained /\ StaleIsExplained
  BY DEF Init, FetchIsExplained, StaleIsExplained
<1>4. QED
  BY <1>1, <1>2, <1>3 DEF IInv

LEMMA Invariance == Spec => []IInv
<1>1. IInv /\ [Next]_vars => IInv'
  BY TypeStep, OwnStep, ExplainedStep DEF IInv
<1>2. QED
  BY <1>1, InitIInv, PTL DEF Spec

(***************************************************************************)
(* Type correctness of the service layer, its cache and its history.       *)
(***************************************************************************)
THEOREM ServiceTyping == Spec => []TypeOK
  BY Invariance, PTL DEF IInv

(***************************************************************************)
(* Whatever mutations, reads, renamings, failures and restarts interleave, *)
(* a cached list differs from the table in its tickets or their columns    *)
(* only for one of the three stated reasons, and in the name of a caller   *)
(* only for one of them or because that user was renamed.                  *)
(***************************************************************************)
THEOREM StalenessExplained == Spec => []StaleIsExplained
  BY Invariance, PTL DEF IInv

(***************************************************************************)
(* The last change of every ticket has been published, is being carried to *)
(* Publish, or was made by a request that failed or ended with the server. *)
(***************************************************************************)
THEOREM ChangesAnnounced == Spec => []ChangeIsAnnounced
<1>1. Init => ChangeIsAnnounced
  BY DEF Init, ChangeIsAnnounced
<1>2. IInv /\ ChangeIsAnnounced /\ [Next]_vars => ChangeIsAnnounced'
  BY AnnouncedStep
<1>3. QED
  BY <1>1, <1>2, Invariance, PTL DEF Spec

===============================================================================
