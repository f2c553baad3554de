--------------------------- MODULE BackOfficeProofs ---------------------------
(***************************************************************************)
(* Proofs about ServiceCatalog, StaffSessions, UserAccounts,               *)
(* SpeechEndpoint and MigrationRunner, for every set of services, users,   *)
(* browsers, requests and runs, all lifetimes of tokens, any limit and     *)
(* window of the limiter, any size of the audio cache and any number of    *)
(* migration files; and about these parts and CounterRoster beside each    *)
(* other.                                                                  *)
(***************************************************************************)
EXTENDS MCBackOffice, CounterRosterProofs,
        OrderLemmas, SequenceTheorems, TLAPS

-------------------------------------------------------------------------------
(* ServiceCatalog.                                                           *)

\* A request is at a statement of its own operation; one that issued a ticket is over.
CallsMatch ==
  \A r \in Calls :
    /\ step[r] \in Running => request[r] \in Request
    /\ step[r] = "lookup" => request[r].op \in {"update", "delete", "issue"}
    /\ step[r] = "count" => request[r].op = "delete"
    /\ step[r] = "write" => request[r].op \in {"create", "update", "delete", "issue"}
    /\ step[r] \in {"get", "invalidate"} => request[r].op \in {"create", "update", "delete"}
    /\ step[r] \in {"cache", "fetch", "store"} => request[r].op = "list"
    /\ r \in issued => step[r] = "over" /\ request[r] \in Request /\ request[r].op = "issue"

\* A request that deletes found no ticket, so those there are came since; a request that issues
\* one found its service, so if that is gone it has gone since.
CountIsRaced ==
  /\ \A q \in Calls, r \in issued :
       Is(q, "write", "delete") /\ request[q].svc = request[r].svc => r \in raced
  /\ \A r \in Calls : Is(r, "write", "issue") /\ catalog[request[r].svc] = NoRow => r \in raced

\* A change is on its way to Invalidate, or failed on that way.
Stirred == unannounced \/ \E r \in Calls : step[r] \in {"get", "invalidate"}

\* What a list has loaded is explained as the cache is, while no Invalidate follows.
LoadedIsExplained ==
  \A r \in Calls :
    step[r] = "store" /\ r \notin behind /\ loaded[r] # Listed(request[r].activeOnly) => Stirred

CatalogInv ==
  CatalogTypeOK /\ CallsMatch /\ CountIsRaced /\ OrphansOnlyByRace
    /\ LoadedIsExplained /\ CatalogStaleIsExplained

\* What the requests ask for.
LEMMA RequestFields ==
  ASSUME NEW q \in Request
  PROVE  /\ q # NoCall /\ q.op \in {"create", "update", "delete", "issue", "list"}
         /\ q.op # "list" => q.svc \in Services
         /\ q.op = "create" => q.row \in Row
         /\ q.op = "update" => /\ q.patch.column = "active" => q.patch.to \in BOOLEAN
                               /\ q.patch.column # "active" => q.patch.to \in Labels
         /\ q.op = "list" => q.activeOnly \in BOOLEAN
  BY CatalogAssumption DEF Request, Patch

\* A list has rows of the table.
LEMMA ListedRows ==
  ASSUME CatalogTypeOK, NEW key \in BOOLEAN PROVE Listed(key) \in SUBSET (Services \X Row)
<1>1. \A s \in Services : catalog[s] # NoRow => catalog[s] \in Row
  BY DEF CatalogTypeOK
<1>2. QED
  BY <1>1 DEF Listed

\* An UPDATE neither adds nor removes a service.
LEMMA UpdatedService ==
  ASSUME CatalogTypeOK, CallsMatch, NEW r \in Calls, UpdateService(r)
  PROVE  /\ catalog' \in [Services -> Row \cup {NoRow}]
         /\ \A s \in Services : catalog'[s] = NoRow <=> catalog[s] = NoRow
<1> DEFINE s == request[r].svc
           p == request[r].patch
           updated == IF p.column = "active" THEN [catalog[s] EXCEPT !.active = p.to]
                      ELSE [catalog[s] EXCEPT !.label = p.to]
<1>1. /\ s \in Services
      /\ p.column = "active" => p.to \in BOOLEAN
      /\ p.column # "active" => p.to \in Labels
  BY RequestFields DEF UpdateService, Is, CallsMatch, Running
<1>2. CASE catalog[s] = NoRow
  BY <1>2 DEF UpdateService, CatalogTypeOK
<1>3. CASE catalog[s] # NoRow
  <2>1. catalog[s] \in Row
    BY <1>1, <1>3 DEF CatalogTypeOK
  <2>2. updated \in Row
    BY <1>1, <2>1 DEF Row
  <2>3. catalog' = [catalog EXCEPT ![s] = updated]
    BY <1>3 DEF UpdateService
  <2> HIDE DEF s, updated
  <2>4. QED
    BY <1>1, <1>3, <2>2, <2>3, CatalogAssumption DEF CatalogTypeOK
<1>4. QED
  BY <1>2, <1>3

LEMMA CatalogTypeStep ==
  ASSUME CatalogTypeOK, CallsMatch, [CatalogNext]_catalogVars PROVE CatalogTypeOK' /\ CallsMatch'
<1> USE CatalogAssumption DEF CatalogTypeOK, CallsMatch, Move, Is, Running
<1>1. ASSUME NEW r \in Calls, NEW q \in Request, Receive(r, q) PROVE CatalogTypeOK' /\ CallsMatch'
  BY <1>1, RequestFields DEF Receive
<1>2. ASSUME NEW r \in Calls, FindService(r) \/ CountTickets(r) \/ GetAnswer(r) \/ CachedList(r)
      PROVE  CatalogTypeOK' /\ CallsMatch'
  BY <1>2, RequestFields DEF FindService, CountTickets, GetAnswer, CachedList
<1>3. ASSUME NEW r \in Calls, InsertService(r) PROVE CatalogTypeOK' /\ CallsMatch'
  BY <1>3, RequestFields DEF InsertService
<1>4. ASSUME NEW r \in Calls, UpdateService(r) PROVE CatalogTypeOK' /\ CallsMatch'
  <2>1. catalog' \in [Services -> Row \cup {NoRow}]
    BY <1>4, UpdatedService
  <2>2. QED
    BY <1>4, <2>1 DEF UpdateService
<1>5. ASSUME NEW r \in Calls, DeleteService(r) PROVE CatalogTypeOK' /\ CallsMatch'
  <2>1. PICK where \in {"invalidate", "over"} : Move(r, where)
    BY <1>5 DEF DeleteService
  <2>2. /\ request[r].op = "delete" /\ request[r] \in Request /\ r \notin issued
        /\ step' = [step EXCEPT ![r] = where] /\ request' \in [Calls -> Request \cup {NoCall}]
        /\ request'[r] \in {request[r], NoCall} /\ (where = "invalidate" => request'[r] = request[r])
        /\ \A q \in Calls \ {r} : request'[q] = request[q]
    BY <1>5, <2>1 DEF DeleteService
  <2>3. catalog' \in [Services -> Row \cup {NoRow}] /\ UNCHANGED <<issued, listCache, loaded>>
    BY <1>5 DEF DeleteService
  <2>4. CatalogTypeOK'
    BY <2>2, <2>3
  <2>5. CallsMatch'
    BY <2>2, <2>3
  <2>6. QED
    BY <2>4, <2>5
<1>6. ASSUME NEW r \in Calls, InvalidateList(r) PROVE CatalogTypeOK' /\ CallsMatch'
  BY <1>6 DEF InvalidateList
<1>7. ASSUME NEW r \in Calls, InsertTicket(r) PROVE CatalogTypeOK' /\ CallsMatch'
  BY <1>7 DEF InsertTicket
<1>8. ASSUME NEW r \in Calls, FetchList(r) PROVE CatalogTypeOK' /\ CallsMatch'
  BY <1>8, RequestFields, ListedRows DEF FetchList
<1>9. ASSUME NEW r \in Calls, StoreList(r) PROVE CatalogTypeOK' /\ CallsMatch'
  BY <1>9, RequestFields DEF StoreList
<1>10. ASSUME NEW r \in Calls, StatementFails(r) PROVE CatalogTypeOK' /\ CallsMatch'
  BY <1>10 DEF StatementFails
<1>11. CASE UNCHANGED catalogVars
  BY <1>11 DEF catalogVars
<1>12. QED
  BY <1>1, <1>2, <1>3, <1>4, <1>5, <1>6, <1>7, <1>8, <1>9, <1>10, <1>11 DEF CatalogNext

(***************************************************************************)
(* Orphans: a step that neither issues nor removes keeps what is raced, if *)
(* no request comes to its INSERT or DELETE unfounded.                     *)
(***************************************************************************)
LEMMA OrphanStep ==
  ASSUME CatalogInv, [CatalogNext]_catalogVars PROVE CountIsRaced' /\ OrphansOnlyByRace'
<1> USE CatalogAssumption DEF CatalogInv, CatalogTypeOK, CallsMatch, CountIsRaced, OrphansOnlyByRace, Move, Is, Running
<1>1. ASSUME NEW r \in Calls, NEW q \in Request, Receive(r, q) PROVE CountIsRaced' /\ OrphansOnlyByRace'
  BY <1>1, RequestFields DEF Receive
<1>2. ASSUME NEW r \in Calls, FindService(r) PROVE CountIsRaced' /\ OrphansOnlyByRace'
  BY <1>2, RequestFields DEF FindService
<1>3. ASSUME NEW r \in Calls, CountTickets(r) PROVE CountIsRaced' /\ OrphansOnlyByRace'
  BY <1>3, RequestFields DEF CountTickets
<1>4. ASSUME NEW r \in Calls, InsertService(r) PROVE CountIsRaced' /\ OrphansOnlyByRace'
  BY <1>4, RequestFields DEF InsertService
<1>5. ASSUME NEW r \in Calls, UpdateService(r) PROVE CountIsRaced' /\ OrphansOnlyByRace'
  <2>1. \A s \in Services : catalog'[s] = NoRow <=> catalog[s] = NoRow
    BY <1>5, UpdatedService
  <2>2. \A q \in Calls : q \in issued \/ Is(q, "write", "issue") => request[q].svc \in Services
    BY RequestFields
  <2>3. QED
    BY <1>5, <2>1, <2>2 DEF UpdateService
<1>6. ASSUME NEW r \in Calls, DeleteService(r) PROVE CountIsRaced' /\ OrphansOnlyByRace'
  BY <1>6, RequestFields DEF DeleteService
<1>7. ASSUME NEW r \in Calls, InsertTicket(r) PROVE CountIsRaced' /\ OrphansOnlyByRace'
  BY <1>7, RequestFields DEF InsertTicket
<1>8. ASSUME NEW r \in Calls, GetAnswer(r) \/ InvalidateList(r) \/ CachedList(r) \/ FetchList(r) \/ StoreList(r)
               \/ StatementFails(r)
      PROVE  CountIsRaced' /\ OrphansOnlyByRace'
  BY <1>8 DEF GetAnswer, InvalidateList, CachedList, FetchList, StoreList, StatementFails
<1>9. CASE UNCHANGED catalogVars
  BY <1>9 DEF catalogVars
<1>10. QED
  BY <1>1, <1>2, <1>3, <1>4, <1>5, <1>6, <1>7, <1>8, <1>9 DEF CatalogNext

\* A step that leaves the table and the lists alone keeps the explanations if it stays stirred.
LEMMA UnstirredStep ==
  ASSUME CatalogInv, UNCHANGED <<catalog, listCache, loaded, behind, storedLate>>, Stirred => Stirred',
         \A r \in Calls : step'[r] = "store" => step[r] = "store" /\ request'[r] = request[r]
  PROVE  LoadedIsExplained' /\ CatalogStaleIsExplained'
  BY DEF CatalogInv, LoadedIsExplained, CatalogStaleIsExplained, Stirred, Listed

\* After a step that stirs, everything is explained.
LEMMA StirredStep == ASSUME Stirred' PROVE LoadedIsExplained' /\ CatalogStaleIsExplained'
  BY DEF Stirred, LoadedIsExplained, CatalogStaleIsExplained

LEMMA CatalogListStep ==
  ASSUME CatalogInv, [CatalogNext]_catalogVars PROVE LoadedIsExplained' /\ CatalogStaleIsExplained'
<1> USE DEF CatalogInv, CatalogTypeOK, Move, Is
<1>1. ASSUME NEW r \in Calls, NEW q \in Request, Receive(r, q)
      PROVE  LoadedIsExplained' /\ CatalogStaleIsExplained'
  BY <1>1, UnstirredStep DEF Receive, Stirred
<1>2. ASSUME NEW r \in Calls, FindService(r) \/ CountTickets(r) \/ GetAnswer(r) \/ CachedList(r)
               \/ InsertTicket(r) \/ StatementFails(r)
      PROVE  LoadedIsExplained' /\ CatalogStaleIsExplained'
  <2>1. UNCHANGED <<catalog, listCache, loaded, behind, storedLate>>
    BY <1>2 DEF FindService, CountTickets, GetAnswer, CachedList, InsertTicket, StatementFails
  <2>2. Stirred => Stirred'
    BY <1>2 DEF FindService, CountTickets, GetAnswer, CachedList, InsertTicket, StatementFails, Stirred
  <2>3. \A q \in Calls : step'[q] = "store" => step[q] = "store" /\ request'[q] = request[q]
    BY <1>2 DEF FindService, CountTickets, GetAnswer, CachedList, InsertTicket, StatementFails
  <2>4. QED
    BY <2>1, <2>2, <2>3, UnstirredStep
<1>3. ASSUME NEW r \in Calls, InsertService(r) PROVE LoadedIsExplained' /\ CatalogStaleIsExplained'
  <2>1. CASE step'[r] = "get"
    BY <2>1, StirredStep DEF Stirred
  <2>2. CASE UNCHANGED catalog /\ Move(r, "over")
    BY <1>3, <2>2, UnstirredStep DEF InsertService, Stirred
  <2>3. QED
    BY <1>3, <2>1, <2>2 DEF InsertService
<1>4. ASSUME NEW r \in Calls, UpdateService(r) \/ DeleteService(r)
      PROVE  LoadedIsExplained' /\ CatalogStaleIsExplained'
  BY <1>4, StirredStep DEF UpdateService, DeleteService, Stirred
<1>5. ASSUME NEW r \in Calls, InvalidateList(r) PROVE LoadedIsExplained' /\ CatalogStaleIsExplained'
  BY <1>5 DEF InvalidateList, LoadedIsExplained, CatalogStaleIsExplained
<1>6. ASSUME NEW r \in Calls, FetchList(r) PROVE LoadedIsExplained' /\ CatalogStaleIsExplained'
  BY <1>6 DEF FetchList, LoadedIsExplained, CatalogStaleIsExplained, Stirred, Listed
<1>7. ASSUME NEW r \in Calls, StoreList(r) PROVE LoadedIsExplained' /\ CatalogStaleIsExplained'
  <2>1. request[r].activeOnly \in BOOLEAN
    BY <1>7, RequestFields DEF StoreList, CallsMatch, Running
  <2>2. /\ UNCHANGED <<catalog, unannounced>>
        /\ step' = [step EXCEPT ![r] = "over"] /\ step[r] = "store"
        /\ listCache' = [listCache EXCEPT ![request[r].activeOnly] = loaded[r]]
        /\ loaded' = [loaded EXCEPT ![r] = NoList] /\ behind' = behind \ {r}
        /\ storedLate' = IF r \in behind THEN storedLate \cup {request[r].activeOnly}
                         ELSE storedLate \ {request[r].activeOnly}
    BY <1>7 DEF StoreList
  <2>3. Stirred => Stirred'
    BY <2>2 DEF Stirred
  <2>4. \A key \in BOOLEAN : Listed(key)' = Listed(key)
    BY <2>2 DEF Listed
  <2>5. LoadedIsExplained'
    BY <1>7, <2>2, <2>3, <2>4 DEF StoreList, LoadedIsExplained, CallsMatch, Listed
  <2>6. ASSUME NEW key \in BOOLEAN, listCache'[key] \notin {NoList, Listed(key)'}, ~Stirred'
        PROVE  key \in storedLate'
    <3>1. CASE key = request[r].activeOnly
      BY <2>2, <2>3, <2>4, <2>6, <3>1 DEF LoadedIsExplained
    <3>2. CASE key # request[r].activeOnly
      BY <2>2, <2>3, <2>4, <2>6, <3>2 DEF CatalogStaleIsExplained, Stirred
    <3>3. QED
      BY <3>1, <3>2
  <2>7. CatalogStaleIsExplained'
    BY <2>6 DEF CatalogStaleIsExplained, Stirred
  <2>8. QED
    BY <2>5, <2>7
<1>8. CASE UNCHANGED catalogVars
  BY <1>8, UnstirredStep DEF catalogVars, Stirred
<1>9. QED
  BY <1>1, <1>2, <1>3, <1>4, <1>5, <1>6, <1>7, <1>8 DEF CatalogNext

LEMMA CatalogInvariant == CatalogSpec => []CatalogInv
<1>1. ASSUME CatalogInit PROVE CatalogInv
  <2>1. CatalogTypeOK
    BY <1>1 DEF CatalogInit, CatalogTypeOK
  <2>2. CallsMatch /\ CountIsRaced
    BY <1>1 DEF CatalogInit, CallsMatch, CountIsRaced, Is, Running
  <2>3. OrphansOnlyByRace /\ LoadedIsExplained /\ CatalogStaleIsExplained
    BY <1>1 DEF CatalogInit, OrphansOnlyByRace, LoadedIsExplained, CatalogStaleIsExplained
  <2>4. QED
    BY <2>1, <2>2, <2>3 DEF CatalogInv
<1>2. CatalogInv /\ [CatalogNext]_catalogVars => CatalogInv'
  BY CatalogTypeStep, OrphanStep, CatalogListStep DEF CatalogInv
<1>3. QED
  BY <1>1, <1>2, PTL DEF CatalogSpec

(***************************************************************************)
(* A ticket whose service is gone was inserted after the count of the      *)
(* request that deleted it, however many requests delete and create it.    *)
(***************************************************************************)
THEOREM OrphansAreRaced == CatalogSpec => []OrphansOnlyByRace
  BY CatalogInvariant, PTL DEF CatalogInv

(***************************************************************************)
(* A cached list of services that differs from the table has one of the    *)
(* stated reasons.                                                         *)
(***************************************************************************)
THEOREM StaleServices == CatalogSpec => []CatalogStaleIsExplained
  BY CatalogInvariant, PTL DEF CatalogInv

-------------------------------------------------------------------------------
(* StaffSessions.                                                            *)

\* Whoever holds a role now is on record as holding it now; nothing is on record for the future.
HistoryIsTrue ==
  \A u \in Users, role \in Roles :
    /\ lastHeld[u][role] <= time
    /\ Holds(account, u, role) => lastHeld[u][role] = time

\* Logins under way, and tokens, were read from an account that was active in their role.
Backed(x) == lastHeld[x.sub][x.role] >= x.readAt

TokensAreBacked ==
  \A b \in Browsers :
    /\ login[b] # NoRequest => Backed(login[b])
    /\ access[b] # NoToken => Backed(access[b])
    /\ cookie[b] # NoToken => Backed(cookie[b])

SessionInv == SessionTypeOK /\ HistoryIsTrue /\ TokensAreBacked /\ AuthorityIsRecent

LEMMA SessionInitially == SessionInit => SessionInv
<1> SUFFICES ASSUME SessionInit PROVE SessionInv
  OBVIOUS
<1>1. SessionTypeOK
  BY SessionAssumption DEF SessionInit, SessionTypeOK
<1>2. HistoryIsTrue
  BY DEF SessionInit, HistoryIsTrue, Roles
<1>3. TokensAreBacked /\ AuthorityIsRecent
  BY DEF SessionInit, TokensAreBacked, AuthorityIsRecent
<1>4. QED
  BY <1>1, <1>2, <1>3 DEF SessionInv

(***************************************************************************)
(* Accounts and the clock move only with the history, which never goes     *)
(* back, so that what is backed stays backed.                              *)
(***************************************************************************)
LEMMA HistoryStep ==
  ASSUME SessionInv, UNCHANGED <<access, cookie, login, admitted>>,
         time' \in time .. Horizon, account' \in [Users -> Account \cup {Gone}],
         \/ lastHeld' = HeldUntil(account', time')
         \/ lastHeld' = lastHeld /\ time' = time /\ \A u \in Users : account'[u] \in {account[u], Gone}
  PROVE  SessionInv'
<1> USE SessionAssumption DEF SessionInv
<1>1. time \in 0 .. Horizon /\ time' \in 0 .. Horizon
  BY DEF SessionTypeOK
<1>2. \A u \in Users, role \in Roles :
        /\ lastHeld'[u][role] \in -1 .. Horizon
        /\ lastHeld'[u][role] >= lastHeld[u][role]
        /\ lastHeld'[u][role] <= time'
        /\ Holds(account', u, role) => lastHeld'[u][role] = time'
  <2>1. CASE lastHeld' = HeldUntil(account', time')
    BY <1>1, <2>1 DEF HeldUntil, HistoryIsTrue, SessionTypeOK
  <2>2. CASE lastHeld' = lastHeld /\ time' = time /\ \A u \in Users : account'[u] \in {account[u], Gone}
    <3>1. \A u \in Users, role \in Roles : Holds(account', u, role) => Holds(account, u, role)
      <4>1. \A role \in Roles : [role |-> role, active |-> TRUE] # Gone
        <5>1. \A role \in Roles : [role |-> role, active |-> TRUE] \in [role : {"admin", "staff"}, active : BOOLEAN]
          BY DEF Roles
        <5>2. QED
          BY <5>1
      <4>2. QED
        BY <2>2, <4>1 DEF Holds
    <3>2. QED
      BY <1>1, <2>2, <3>1 DEF HistoryIsTrue, SessionTypeOK
  <2>3. QED
    BY <2>1, <2>2
<1>3. lastHeld' \in [Users -> [Roles -> -1 .. Horizon]]
  BY <1>2 DEF HeldUntil, SessionTypeOK
<1>4. SessionTypeOK'
  BY <1>1, <1>3 DEF SessionTypeOK
<1>5. HistoryIsTrue'
  BY <1>2 DEF HistoryIsTrue, Holds
<1>6. ASSUME NEW x, x.sub \in Users, x.role \in Roles, x.readAt \in Int, Backed(x)
      PROVE  lastHeld'[x.sub][x.role] >= x.readAt
  BY <1>2, <1>3, <1>6 DEF Backed, SessionTypeOK
<1>7. TokensAreBacked'
  BY <1>6 DEF TokensAreBacked, Backed, SessionTypeOK, Token
<1>8. AuthorityIsRecent'
  <2>1. ASSUME NEW b \in Browsers, admitted[b] # NoRequest
        PROVE  lastHeld'[admitted[b].token.sub][IF admitted[b].route = "admin" THEN "admin" ELSE admitted[b].token.role]
                 >= admitted[b].token.readAt
    <3>1. /\ admitted[b].token.sub \in Users /\ admitted[b].token.role \in Roles
          /\ admitted[b].token.readAt \in Int /\ "admin" \in Roles
      <4>1. admitted[b].token \in Token
        BY <2>1 DEF SessionTypeOK
      <4>2. QED
        BY <4>1 DEF Token, Roles
    <3>2. QED
      BY <1>2, <1>3, <2>1, <3>1 DEF AuthorityIsRecent, SessionTypeOK
  <2>2. QED
    BY <2>1 DEF AuthorityIsRecent
<1>9. QED
  BY <1>4, <1>5, <1>7, <1>8

LEMMA SessionStep == ASSUME SessionInv, [SessionNext]_sessionVars PROVE SessionInv'
<1> USE SessionAssumption DEF SessionInv
<1>1. ASSUME NEW b \in Browsers, NEW u \in Users,
             account[u] # Gone /\ account[u].active,
             login' = [login EXCEPT ![b] = [sub |-> u, role |-> account[u].role, readAt |-> time]],
             UNCHANGED <<time, account, access, cookie, admitted, lastHeld>>
      PROVE  SessionInv'
  <2>1. account[u].role \in Roles /\ Holds(account, u, account[u].role)
    BY <1>1 DEF SessionTypeOK, Account, Holds
  <2>2. lastHeld[u][account[u].role] = time
    BY <2>1 DEF HistoryIsTrue
  <2>3. SessionTypeOK'
    BY <1>1, <2>1 DEF SessionTypeOK
  <2>4. TokensAreBacked'
    BY <1>1, <2>1, <2>2 DEF TokensAreBacked, Backed, SessionTypeOK
  <2>5. QED
    BY <1>1, <2>3, <2>4 DEF HistoryIsTrue, Holds, AuthorityIsRecent
<1>2. ASSUME NEW b \in Browsers, NEW u \in Users, Login(b, u) PROVE SessionInv'
  BY <1>1, <1>2 DEF Login
<1>3. ASSUME NEW b \in Browsers, Refresh(b) PROVE SessionInv'
  <2>1. cookie[b].sub \in Users
    BY <1>3 DEF Refresh, SessionTypeOK, Token
  <2>2. QED
    BY <1>1, <1>3, <2>1 DEF Refresh
<1>4. ASSUME NEW b \in Browsers, RefreshRefused(b) \/ ClearCookie(b) \/ LoginFails(b) PROVE SessionInv'
  <2>1. SessionTypeOK'
    BY <1>4 DEF RefreshRefused, ClearCookie, LoginFails, SessionTypeOK
  <2>2. TokensAreBacked'
    BY <1>4 DEF RefreshRefused, ClearCookie, LoginFails, SessionTypeOK, TokensAreBacked, Backed
  <2>3. HistoryIsTrue' /\ AuthorityIsRecent'
    BY <1>4 DEF RefreshRefused, ClearCookie, LoginFails, HistoryIsTrue, Holds, AuthorityIsRecent
  <2>4. QED
    BY <2>1, <2>2, <2>3
<1>5. ASSUME NEW b \in Browsers, Issue(b) PROVE SessionInv'
  <2> DEFINE token(kind) == [type |-> kind, sub |-> login[b].sub, role |-> login[b].role,
                             iat |-> time, readAt |-> login[b].readAt]
  <2>1. /\ access' = [access EXCEPT ![b] = token("access")]
        /\ cookie' = [cookie EXCEPT ![b] = token("refresh")]
        /\ login' = [login EXCEPT ![b] = NoRequest]
        /\ UNCHANGED <<time, account, admitted, lastHeld>>
    BY <1>5 DEF Issue
  <2>2. \A kind \in {"access", "refresh"} : token(kind) \in Token /\ Backed(token(kind))
    BY <1>5 DEF Issue, SessionTypeOK, Token, TokensAreBacked, Backed
  <2> HIDE DEF token
  <2>3. SessionTypeOK'
    BY <2>1, <2>2 DEF SessionTypeOK
  <2>4. TokensAreBacked'
    BY <2>1, <2>2 DEF TokensAreBacked, Backed, SessionTypeOK
  <2>5. QED
    BY <2>1, <2>3, <2>4 DEF HistoryIsTrue, Holds, AuthorityIsRecent
<1>6. ASSUME NEW b \in Browsers, NEW token \in {access[b], cookie[b]}, NEW route \in Roles,
             Enter(b, token, route)
      PROVE  SessionInv'
  <2>1. /\ token \in Token /\ Backed(token) /\ time - token.iat < AccessTTL
        /\ route = "admin" => token.role = "admin"
    BY <1>6 DEF Enter, Accepted, Expired, Allows, SessionTypeOK, TokensAreBacked, Token
  <2>2. /\ admitted' = [admitted EXCEPT ![b] = [token |-> token, route |-> route, at |-> time]]
        /\ UNCHANGED <<time, account, access, cookie, login, lastHeld>>
    BY <1>6 DEF Enter
  <2>3. SessionTypeOK'
    BY <2>1, <2>2 DEF SessionTypeOK
  <2>4. AuthorityIsRecent'
    BY <2>1, <2>2 DEF AuthorityIsRecent, Backed, SessionTypeOK
  <2>5. QED
    BY <2>2, <2>3, <2>4 DEF HistoryIsTrue, Holds, TokensAreBacked, Backed
<1>7. ASSUME NEW u \in Users, WriteAccount(u) \/ DeleteAccount(u) PROVE SessionInv'
  <2>1. /\ account' \in [Users -> Account \cup {Gone}] /\ time' = time
        /\ UNCHANGED <<access, cookie, login, admitted>>
        /\ \/ lastHeld' = HeldUntil(account', time')
           \/ lastHeld' = lastHeld /\ \A w \in Users : account'[w] \in {account[w], Gone}
    BY <1>7 DEF WriteAccount, DeleteAccount, SessionTypeOK
  <2>2. time' \in time .. Horizon
    BY <2>1 DEF SessionTypeOK
  <2>3. QED
    BY <2>1, <2>2, HistoryStep
<1>8. CASE SessionTick
  <2>1. time' \in time .. Horizon
    BY <1>8 DEF SessionTick, SessionTypeOK
  <2>2. QED
    BY <1>8, <2>1, HistoryStep DEF SessionTick, SessionTypeOK
<1>9. CASE UNCHANGED sessionVars
  BY <1>9 DEF sessionVars, SessionTypeOK, HistoryIsTrue, Holds, TokensAreBacked, Backed, AuthorityIsRecent
<1>10. QED
  BY <1>2, <1>3, <1>4, <1>5, <1>6, <1>7, <1>8, <1>9 DEF SessionNext

(***************************************************************************)
(* Whoever acts had his role when his token was read, not longer ago than  *)
(* the token is old, and no token that acts is as old as AccessTTL.        *)
(***************************************************************************)
THEOREM RecentAuthority == SessionSpec => []AuthorityIsRecent
  BY SessionInitially, SessionStep, PTL DEF SessionSpec, SessionInv

-------------------------------------------------------------------------------
(* UserAccounts.                                                             *)

LEMMA PetitionFacts ==
  ASSUME NEW q \in Petition
  PROVE  /\ q # NoPetition /\ q.id \in Accounts
         /\ q.op \in {"create", "update", "delete", "login", "change"}
         /\ q.op = "create" => q.user \in User
         /\ q.op \in {"update", "change"} => q.patch \in Change
         /\ q.op = "change" => q.patch.column = "password"
  BY AccountAssumption DEF Petition, Change

LEMMA PatchedUser ==
  ASSUME NEW u \in User, NEW b \in Change, b.column # "none"
  PROVE  /\ b.column \in {"password", "active"}
         /\ [u EXCEPT ![b.column] = b.to] \in User
         /\ [u EXCEPT ![b.column] = b.to][b.column] = b.to
         /\ \A column \in {"password", "active"} \ {b.column} :
              [u EXCEPT ![b.column] = b.to][column] = u[column]
<1>1. CASE b.column = "password"
  BY <1>1 DEF User, Change
<1>2. CASE b.column = "active"
  BY <1>2 DEF User, Change
<1>3. QED
  BY <1>1, <1>2 DEF Change

\* What each request under way has found out, statement by statement.
Founded(r) ==
  LET q == petition[r] IN
    /\ phase[r] \notin {"new", "over"} => q \in Petition
    /\ phase[r] \in {"new", "over"} => q = NoPetition
    /\ phase[r] = "read" => q.op \in {"login", "change"}
    /\ phase[r] = "compare" =>
         /\ q.op \in {"login", "change"} /\ row[r] \in User
         /\ row[r].password = (IF q.op = "login" THEN q.password ELSE q.current) =>
              <<r, "credentials">> \in held
    /\ phase[r] \in {"find", "get"} => q.op \notin {"login", "delete"}
    /\ phase[r] = "find" => q.op # "create"
    /\ phase[r] = "write" => q.op # "login"
    /\ phase[r] = "write" /\ q.op \in {"update", "change"} =>
         q.patch.column # "none" /\ users[q.id] # Vacant
    /\ phase[r] \in {"find", "write", "get"} /\ q.op = "change" => <<r, "credentials">> \in held
    /\ phase[r] = "get" => <<r, "result">> \in held \/ users[q.id] = Deleted

AccountInv == AccountTypeOK /\ AnswersAreFounded /\ \A r \in Petitions : Founded(r)

LEMMA AccountInitially == AccountInit => AccountInv
<1> SUFFICES ASSUME AccountInit PROVE AccountInv
  OBVIOUS
<1>1. AccountTypeOK /\ AnswersAreFounded
  BY DEF AccountInit, AccountTypeOK, AnswersAreFounded
<1>2. \A r \in Petitions : Founded(r)
  BY DEF AccountInit, Founded
<1>3. QED
  BY <1>1, <1>2 DEF AccountInv

(***************************************************************************)
(* What a step must show for the request that takes it: the others keep    *)
(* what they have found out, as their history does, and a key that is not  *)
(* vacant stays so, and a deleted one deleted.                             *)
(***************************************************************************)
LEMMA OthersAreFounded ==
  ASSUME AccountInv, NEW r \in Petitions,
         users' \in [Accounts -> User \cup {Vacant, Deleted}],
         \A id \in Accounts :
           /\ users[id] # Vacant => users'[id] # Vacant
           /\ users[id] = Deleted => users'[id] = Deleted,
         phase' \in [Petitions -> {"new", "read", "compare", "find", "write", "get", "over"}],
         petition' \in [Petitions -> Petition \cup {NoPetition}],
         row' \in [Petitions -> User \cup {NoPetition}],
         \A o \in Petitions \ {r} : phase'[o] = phase[o] /\ petition'[o] = petition[o] /\ row'[o] = row[o],
         held' = {h \in held : petition'[h[1]] # NoPetition} \cup Truths',
         unfounded' = {}, Founded(r)'
  PROVE  AccountInv'
<1>1. AccountTypeOK'
  BY DEF AccountInv, AccountTypeOK, Truths
<1>2. AnswersAreFounded'
  BY DEF AnswersAreFounded
<1>3. ASSUME NEW o \in Petitions \ {r} PROVE Founded(o)'
  <2>1. Founded(o) /\ phase'[o] = phase[o] /\ petition'[o] = petition[o] /\ row'[o] = row[o]
    BY DEF AccountInv
  <2>2. petition[o] \in Petition =>
          /\ petition[o] # NoPetition /\ petition[o].id \in Accounts
          /\ \A what \in {"credentials", "result"} : <<o, what>> \in held => <<o, what>> \in held'
    BY <2>1, PetitionFacts
  <2>3. QED
    BY <2>1, <2>2 DEF Founded
<1>4. QED
  BY <1>1, <1>2, <1>3 DEF AccountInv

LEMMA Reached ==
  ASSUME AccountInv, NEW r \in Petitions, NEW p \in {"read", "compare", "find", "write", "get", "over"},
         Reach(r, p)
  PROVE  /\ phase' \in [Petitions -> {"new", "read", "compare", "find", "write", "get", "over"}]
         /\ petition' \in [Petitions -> Petition \cup {NoPetition}]
         /\ \A o \in Petitions \ {r} : phase'[o] = phase[o] /\ petition'[o] = petition[o]
         /\ phase'[r] = p
         /\ petition'[r] = IF p = "over" THEN NoPetition ELSE petition[r]
  BY DEF AccountInv, AccountTypeOK, Reach

\* What was known stays known, and what is true becomes known.
LEMMA HeldStep ==
  ASSUME NEW r \in Petitions, NEW q \in Petition, petition'[r] = q,
         held' = {h \in held : petition'[h[1]] # NoPetition} \cup Truths',
         NEW what \in {"credentials", "result"}
  PROVE  /\ <<r, what>> \in held => <<r, what>> \in held'
         /\ what \in Says(q) /\ IsTrue(q, what)' => <<r, what>> \in held'
  BY PetitionFacts DEF Truths, Says, IsTrue, Present

LEMMA ActiveUser ==
  ASSUME NEW u \in User, u.active, NEW x
  PROVE  u = [password |-> x, active |-> TRUE] <=> u.password = x
<1>1. u = [password |-> u.password, active |-> u.active] /\ u.active = TRUE
  BY DEF User
<1>2. QED
  BY <1>1

LEMMA AccountStep == ASSUME AccountInv, [AccountNext]_accountVars PROVE AccountInv'
<1> USE AccountAssumption
<1>1. CASE UNCHANGED accountVars
  BY <1>1 DEF accountVars, AccountInv, AccountTypeOK, AnswersAreFounded, Founded
<1>2. ASSUME NEW r \in Petitions, NEW q, q = petition[r], PetitionStep(r),
             held' = {h \in held : petition'[h[1]] # NoPetition} \cup Truths'
      PROVE  AccountInv'
  <2>1. /\ users \in [Accounts -> User \cup {Vacant, Deleted}]
        /\ row \in [Petitions -> User \cup {NoPetition}]
        /\ unfounded = {} /\ Founded(r) /\ q = petition[r]
        /\ phase \in [Petitions -> {"new", "read", "compare", "find", "write", "get", "over"}]
        /\ petition \in [Petitions -> Petition \cup {NoPetition}]
    BY <1>2 DEF AccountInv, AccountTypeOK, AnswersAreFounded
  <2>2. ASSUME NEW x \in Petition, Arrive(r, x) PROVE AccountInv'
    <3>1. /\ phase'[r] \in {"find", "read", "write"} /\ petition'[r] = x /\ users' = users
          /\ phase'[r] = "find" => x.op = "update"
          /\ phase'[r] = "read" => x.op \in {"login", "change"}
          /\ phase'[r] = "write" => x.op \in {"create", "delete"}
      BY <2>1, <2>2, PetitionFacts DEF Arrive
    <3>2. Founded(r)'
      BY <3>1 DEF Founded
    <3>3. QED
      BY <1>2, <2>1, <2>2, <3>1, <3>2, OthersAreFounded DEF Arrive
  <2>3. ASSUME q \in Petition PROVE q.id \in Accounts /\ users[q.id] \in User \cup {Vacant, Deleted}
    BY <2>1, <2>3, PetitionFacts
  <2>4. CASE ReadRow(r)
    <3>1. q \in Petition /\ q.op \in {"login", "change"}
      BY <2>1, <2>4 DEF Founded, ReadRow
    <3>2. CASE Present(q.id) /\ (q.op = "login" => users[q.id].active)
      <4>1. row' = [row EXCEPT ![r] = users[q.id]] /\ Reach(r, "compare") /\ UNCHANGED <<users, unfounded>>
        BY <2>1, <2>4, <3>2 DEF ReadRow
      <4>2. users[q.id] \in User
        BY <2>3, <3>1, <3>2 DEF Present
      <4>3. /\ IsTrue(q, "credentials")' <=>
                 users[q.id].password = (IF q.op = "login" THEN q.password ELSE q.current)
            /\ "credentials" \in Says(q)
        <5>1. CASE q.op = "login"
          <6>1. users[q.id] = [password |-> q.password, active |-> TRUE] <=> users[q.id].password = q.password
            BY <3>2, <4>2, <5>1, ActiveUser
          <6>2. QED
            BY <4>1, <5>1, <6>1 DEF IsTrue, Says
        <5>2. CASE q.op = "change"
          BY <3>2, <4>1, <5>2 DEF IsTrue, Says, Present
        <5>3. QED
          BY <3>1, <5>1, <5>2
      <4>4. Founded(r)'
        BY <1>2, <2>1, <3>1, <4>1, <4>2, <4>3, HeldStep, Reached DEF Founded
      <4>5. QED
        BY <1>2, <2>1, <4>1, <4>2, <4>4, OthersAreFounded, Reached
    <3>3. CASE ~(Present(q.id) /\ (q.op = "login" => users[q.id].active))
      <4>1. Reach(r, "over") /\ UNCHANGED <<users, unfounded, row>>
        BY <2>1, <2>4, <3>3 DEF ReadRow
      <4>2. Founded(r)'
        BY <4>1, Reached DEF Founded
      <4>3. QED
        BY <1>2, <2>1, <4>1, <4>2, OthersAreFounded, Reached
    <3>4. QED
      BY <3>2, <3>3
  <2>5. CASE ComparePassword(r)
    <3>1. /\ q \in Petition /\ q.op \in {"login", "change"} /\ row[r] \in User /\ users' = users
          /\ row[r].password = (IF q.op = "login" THEN q.password ELSE q.current) =>
               <<r, "credentials">> \in held
      BY <2>1, <2>5 DEF Founded, ComparePassword
    <3>2. CASE q.op = "login" /\ row[r].password = q.password /\ Succeed(r)
      <4>1. Reach(r, "over") /\ unfounded' = {} /\ row' = [row EXCEPT ![r] = NoPetition]
        <5>1. \A what \in Says(q) : <<r, what>> \in held
          BY <3>1, <3>2 DEF Says
        <5>2. Reach(r, "over") /\ unfounded' = {}
          BY <2>1, <3>2, <5>1 DEF Succeed
        <5>3. QED
          BY <2>5, <5>2, Reached DEF ComparePassword
      <4>2. Founded(r)'
        BY <4>1, Reached DEF Founded
      <4>3. QED
        BY <1>2, <2>1, <3>1, <4>1, <4>2, OthersAreFounded, Reached
    <3>3. CASE q.op = "change" /\ row[r].password = q.current /\ Reach(r, "find") /\ UNCHANGED unfounded
      <4>1. row' = row
        BY <2>5, <3>3, Reached DEF ComparePassword
      <4>2. Founded(r)'
        BY <1>2, <2>1, <3>1, <3>3, HeldStep, Reached DEF Founded
      <4>3. QED
        BY <1>2, <2>1, <3>1, <3>3, <4>1, <4>2, OthersAreFounded, Reached
    <3>4. CASE Reach(r, "over") /\ UNCHANGED unfounded
      <4>1. row' = [row EXCEPT ![r] = NoPetition]
        BY <2>5, <3>4, Reached DEF ComparePassword
      <4>2. Founded(r)'
        BY <3>4, Reached DEF Founded
      <4>3. QED
        BY <1>2, <2>1, <3>1, <3>4, <4>1, <4>2, OthersAreFounded, Reached
    <3>5. QED
      BY <2>1, <2>5, <3>2, <3>3, <3>4 DEF ComparePassword
  <2>6. CASE InsertUser(r)
    <3>1. q \in Petition /\ q.op = "create" /\ q.user \in User /\ q.id \in Accounts
      BY <2>1, <2>6, PetitionFacts DEF Founded, InsertUser, InPhase
    <3>2. CASE users[q.id] = Vacant
      <4>1. users' = [users EXCEPT ![q.id] = q.user] /\ Reach(r, "get") /\ UNCHANGED <<row, unfounded>>
        BY <2>1, <2>6, <3>2 DEF InsertUser
      <4>2. "result" \in Says(q) /\ IsTrue(q, "result")'
        BY <2>1, <3>1, <4>1 DEF Says, IsTrue, Present
      <4>3. Founded(r)'
        BY <1>2, <2>1, <3>1, <4>1, <4>2, HeldStep, Reached DEF Founded
      <4>4. QED
        BY <1>2, <2>1, <3>1, <3>2, <4>1, <4>3, OthersAreFounded, Reached
    <3>3. CASE users[q.id] # Vacant
      <4>1. Reach(r, "over") /\ UNCHANGED <<users, row, unfounded>>
        BY <2>1, <2>6, <3>3 DEF InsertUser
      <4>2. Founded(r)'
        BY <4>1, Reached DEF Founded
      <4>3. QED
        BY <1>2, <2>1, <4>1, <4>2, OthersAreFounded, Reached
    <3>4. QED
      BY <3>2, <3>3
  <2>7. CASE FindUser(r)
    <3>1. /\ q \in Petition /\ q.op \in {"update", "change"} /\ users' = users /\ unfounded' = {}
          /\ q.id \in Accounts /\ q.patch \in Change
      BY <2>1, <2>7, PetitionFacts DEF Founded, FindUser
    <3>2. PICK p \in {"over", "get", "write"} :
            /\ Reach(r, p)
            /\ p # "over" => Present(q.id)
            /\ p = "get" => q.patch.column = "none"
            /\ p = "write" => q.patch.column # "none"
      <4>1. CASE ~Present(q.id)
        BY <2>1, <2>7, <4>1 DEF FindUser
      <4>2. CASE Present(q.id) /\ q.patch.column = "none"
        BY <2>1, <2>7, <4>2 DEF FindUser
      <4>3. CASE Present(q.id) /\ q.patch.column # "none"
        BY <2>1, <2>7, <4>3 DEF FindUser
      <4>4. QED
        BY <4>1, <4>2, <4>3
    <3>3. row' = IF p = "over" THEN [row EXCEPT ![r] = NoPetition] ELSE row
      BY <2>7, <3>2, Reached DEF FindUser
    <3>4. p = "get" => "result" \in Says(q) /\ IsTrue(q, "result")'
      BY <3>1, <3>2 DEF Says, IsTrue, Present
    <3>5. Founded(r)'
      <4>1. /\ phase[r] = "find" /\ phase'[r] = p
            /\ petition'[r] = IF p = "over" THEN NoPetition ELSE q
        BY <2>1, <2>7, <3>2, Reached DEF FindUser
      <4>2. p # "over" /\ q.op = "change" => <<r, "credentials">> \in held'
        BY <1>2, <2>1, <3>1, <4>1, HeldStep DEF Founded
      <4>3. p = "get" => <<r, "result">> \in held'
        BY <1>2, <3>1, <3>4, <4>1, HeldStep
      <4>4. QED
        BY <3>1, <3>2, <4>1, <4>2, <4>3 DEF Founded, Present
    <3>6. QED
      BY <1>2, <2>1, <3>1, <3>2, <3>3, <3>5, OthersAreFounded, Reached
  <2>8. CASE UpdateUser(r)
    <3>1. /\ q \in Petition /\ q.op \in {"update", "change"} /\ q.id \in Accounts /\ q.patch \in Change
          /\ q.patch.column # "none" /\ users[q.id] # Vacant
          /\ Reach(r, "get") /\ row' = [row EXCEPT ![r] = NoPetition] /\ unfounded' = {}
      BY <2>1, <2>8, PetitionFacts DEF Founded, UpdateUser, InPhase
    <3>2. /\ phase'[r] = "get" /\ petition'[r] = q
          /\ q.op = "change" => <<r, "credentials">> \in held'
      <4>1. phase[r] = "write" /\ phase'[r] = "get" /\ petition'[r] = q
        BY <2>1, <2>8, <3>1, Reached DEF UpdateUser, InPhase
      <4>2. QED
        BY <1>2, <2>1, <3>1, <4>1, HeldStep DEF Founded
    <3>3. CASE Present(q.id)
      <4>1. users' = [users EXCEPT ![q.id] = [users[q.id] EXCEPT ![q.patch.column] = q.patch.to]]
        BY <2>1, <2>8, <3>3 DEF UpdateUser
      <4>2. /\ users[q.id] \in User
            /\ [users[q.id] EXCEPT ![q.patch.column] = q.patch.to] \in User
            /\ [users[q.id] EXCEPT ![q.patch.column] = q.patch.to][q.patch.column] = q.patch.to
        BY <2>3, <3>1, <3>3, PatchedUser DEF Present
      <4>3. "result" \in Says(q) /\ IsTrue(q, "result")'
        BY <2>1, <3>1, <4>1, <4>2 DEF Says, IsTrue, Present
      <4>4. Founded(r)'
        BY <1>2, <3>1, <3>2, <4>3, HeldStep DEF Founded
      <4>5. /\ users' \in [Accounts -> User \cup {Vacant, Deleted}]
            /\ \A id \in Accounts : /\ users[id] # Vacant => users'[id] # Vacant
                                    /\ users[id] = Deleted => users'[id] = Deleted
        BY <2>1, <3>1, <3>3, <4>1, <4>2 DEF Present
      <4>6. QED
        BY <1>2, <2>1, <3>1, <4>4, <4>5, OthersAreFounded, Reached
    <3>4. CASE ~Present(q.id)
      <4>1. users' = users /\ users[q.id] = Deleted
        BY <2>1, <2>8, <3>1, <3>4 DEF UpdateUser, Present
      <4>2. Founded(r)'
        BY <3>1, <3>2, <4>1 DEF Founded
      <4>3. QED
        BY <1>2, <2>1, <3>1, <4>1, <4>2, OthersAreFounded, Reached
    <3>5. QED
      BY <3>3, <3>4
  <2>9. CASE DropUser(r)
    <3>1. /\ q \in Petition /\ q.id \in Accounts
          /\ Reach(r, "over") /\ UNCHANGED <<row, unfounded>>
          /\ \/ users' = users
             \/ Present(q.id) /\ users' = [users EXCEPT ![q.id] = Deleted]
      BY <2>1, <2>9, PetitionFacts DEF Founded, DropUser, InPhase
    <3>2. Founded(r)'
      BY <3>1, Reached DEF Founded
    <3>3. /\ users' \in [Accounts -> User \cup {Vacant, Deleted}]
          /\ \A id \in Accounts : /\ users[id] # Vacant => users'[id] # Vacant
                                  /\ users[id] = Deleted => users'[id] = Deleted
      BY <2>1, <3>1
    <3>4. QED
      BY <1>2, <2>1, <3>1, <3>2, <3>3, OthersAreFounded, Reached
  <2>10. CASE AnswerUser(r)
    <3>1. /\ q \in Petition /\ UNCHANGED <<users, row>>
          /\ Present(q.id) => \A what \in Says(q) : <<r, what>> \in held
      BY <2>1, <2>10 DEF Founded, AnswerUser, Says, Present
    <3>2. Reach(r, "over") /\ unfounded' = {}
      BY <2>1, <2>10, <3>1 DEF AnswerUser, Succeed
    <3>3. Founded(r)'
      BY <3>2, Reached DEF Founded
    <3>4. QED
      BY <1>2, <2>1, <3>1, <3>2, <3>3, OthersAreFounded, Reached
  <2>11. CASE AccountStatementFails(r)
    <3>1. Reach(r, "over") /\ row' = [row EXCEPT ![r] = NoPetition] /\ UNCHANGED <<users, unfounded>>
      BY <2>11 DEF AccountStatementFails
    <3>2. Founded(r)'
      BY <3>1, Reached DEF Founded
    <3>3. QED
      BY <1>2, <2>1, <3>1, <3>2, OthersAreFounded, Reached
  <2>12. QED
    BY <1>2, <2>2, <2>4, <2>5, <2>6, <2>7, <2>8, <2>9, <2>10, <2>11 DEF PetitionStep
<1>3. QED
  BY <1>1, <1>2 DEF AccountNext

(***************************************************************************)
(* For any accounts, passwords and requests: a login or a password change  *)
(* that succeeds had the password of the account at some time after it     *)
(* came in, and a change reported as made was in the table.                *)
(***************************************************************************)
THEOREM FoundedAnswers == AccountSpec => []AnswersAreFounded
  BY AccountInitially, AccountStep, PTL DEF AccountSpec, AccountInv

(***************************************************************************)
(* For any accounts, passwords and requests: a column of an account is     *)
(* changed only by a request that was given that column, and an account is *)
(* lost only to a request that deletes it.                                 *)
(***************************************************************************)
THEOREM KeptAccounts == AccountSpec => AccountColumnsAreKept
<1> DEFINE Kept ==
      \A id \in Accounts : Present(id) /\ users'[id] # users[id] =>
        \E r \in Petitions :
          /\ phase[r] = "write" /\ petition[r].id = id /\ phase'[r] # "write"
          /\ IF users'[id] = Deleted THEN petition[r].op = "delete"
             ELSE /\ petition[r].op \in {"update", "change"}
                  /\ \A column \in {"password", "active"} \ {petition[r].patch.column} :
                       users'[id][column] = users[id][column]
<1>1. ASSUME AccountInv, [AccountNext]_accountVars PROVE [Kept]_accountVars
  <2>1. CASE UNCHANGED accountVars
    BY <2>1
  <2>2. ASSUME NEW r \in Petitions, PetitionStep(r) PROVE Kept
    <3>1. /\ users \in [Accounts -> User \cup {Vacant, Deleted}] /\ Founded(r)
          /\ phase \in [Petitions -> {"new", "read", "compare", "find", "write", "get", "over"}]
      BY <1>1 DEF AccountInv, AccountTypeOK
    <3>2. CASE UNCHANGED users
      BY <3>2
    <3>3. CASE InsertUser(r)
      BY <3>1, <3>3 DEF InsertUser, Present
    <3>4. CASE DropUser(r)
      <4>1. phase[r] = "write" /\ petition[r].op = "delete" /\ Reach(r, "over")
        BY <3>4 DEF DropUser, InPhase
      <4>2. phase'[r] # "write"
        BY <1>1, <4>1, Reached
      <4>3. QED
        BY <3>1, <3>4, <4>1, <4>2 DEF DropUser
    <3>5. CASE UpdateUser(r)
      <4>1. /\ phase[r] = "write" /\ petition[r].op \in {"update", "change"} /\ Reach(r, "get")
            /\ petition[r] \in Petition /\ petition[r].patch \in Change
            /\ petition[r].patch.column # "none" /\ petition[r].id \in Accounts
        BY <3>1, <3>5, PetitionFacts DEF Founded, UpdateUser, InPhase
      <4>2. phase'[r] # "write"
        BY <1>1, <4>1, Reached
      <4>3. ASSUME NEW id \in Accounts, Present(id), users'[id] # users[id]
            PROVE  /\ id = petition[r].id /\ users[id] \in User
                   /\ users'[id] = [users[id] EXCEPT ![petition[r].patch.column] = petition[r].patch.to]
        BY <3>1, <3>5, <4>1, <4>3 DEF UpdateUser, Present
      <4>4. ASSUME NEW id \in Accounts, Present(id), users'[id] # users[id]
            PROVE  /\ users'[id] # Deleted
                   /\ \A column \in {"password", "active"} \ {petition[r].patch.column} :
                        users'[id][column] = users[id][column]
        <5>1. /\ users[id] \in User
              /\ users'[id] = [users[id] EXCEPT ![petition[r].patch.column] = petition[r].patch.to]
          BY <4>3, <4>4
        <5>2. users'[id] \in User
          BY <4>1, <5>1, PatchedUser
        <5>3. users'[id] # Deleted
          BY <5>2, AccountAssumption
        <5>4. QED
          BY <4>1, <5>1, <5>3, PatchedUser
      <4>5. QED
        BY <4>1, <4>2, <4>3, <4>4
    <3>6. QED
      BY <2>2, <3>2, <3>3, <3>4, <3>5
         DEF PetitionStep, Arrive, ReadRow, ComparePassword, FindUser, AnswerUser, AccountStatementFails
  <2>3. QED
    BY <1>1, <2>1, <2>2 DEF AccountNext
<1>2. QED
  BY <1>1, AccountInitially, AccountStep, PTL DEF AccountSpec, AccountColumnsAreKept

-------------------------------------------------------------------------------
(* SpeechEndpoint.                                                           *)

\* A request on its way asks for a text.
SpeechInv ==
  /\ order \in Seq(Texts)
  /\ stage \in [Listeners -> {"new", "lookup", "speak", "store", "done"}]
  /\ text \in [Listeners -> Texts \cup {NoText}]
  /\ \A l \in Listeners : stage[l] \notin {"new", "done"} => text[l] \in Texts
  /\ EvictionOrderIsExact

\* Appending what the order lacks.
LEMMA AppendedOrder ==
  ASSUME NEW s \in Seq(Texts), IsInjective(s), NEW t \in Texts, t \notin ToSet(s)
  PROVE  /\ Append(s, t) \in Seq(Texts) /\ Len(Append(s, t)) = Len(s) + 1
         /\ IsInjective(Append(s, t)) /\ ToSet(Append(s, t)) = ToSet(s) \cup {t}
<1> DEFINE z == Append(s, t)
<1>1. /\ Len(s) \in Nat /\ DOMAIN s = 1 .. Len(s) /\ DOMAIN z = 1 .. Len(s) + 1
      /\ z \in Seq(Texts) /\ Len(z) = Len(s) + 1
      /\ \A i \in 1 .. Len(s) : z[i] = s[i]
      /\ z[Len(s) + 1] = t
  BY AppendProperties, LenProperties
<1> HIDE DEF z
<1>2. ToSet(z) = ToSet(s) \cup {t}
  BY <1>1 DEF ToSet
<1>3. ASSUME NEW a \in DOMAIN z, NEW b \in DOMAIN z, z[a] = z[b] PROVE a = b
  BY <1>1, <1>3 DEF ToSet, IsInjective
<1>4. QED
  BY <1>1, <1>2, <1>3 DEF IsInjective, z

\* Dropping the head of an order that lists each text once.
LEMMA TailOfOrder ==
  ASSUME NEW s \in Seq(Texts), IsInjective(s), Len(s) > 0
  PROVE  /\ Tail(s) \in Seq(Texts) /\ Len(Tail(s)) = Len(s) - 1
         /\ IsInjective(Tail(s)) /\ ToSet(Tail(s)) = ToSet(s) \ {Head(s)}
<1> DEFINE z == Tail(s)
<1>1. /\ Len(s) \in Nat /\ DOMAIN s = 1 .. Len(s) /\ DOMAIN z = 1 .. Len(s) - 1
      /\ z \in Seq(Texts) /\ Len(z) = Len(s) - 1 /\ Head(s) = s[1]
      /\ \A i \in 1 .. Len(s) - 1 : z[i] = s[i + 1]
  BY HeadTailProperties, LenProperties
<1> HIDE DEF z
<1>2. IsInjective(z)
  <2>1. ASSUME NEW a \in DOMAIN z, NEW b \in DOMAIN z, z[a] = z[b] PROVE a = b
    <3>1. a + 1 \in DOMAIN s /\ b + 1 \in DOMAIN s /\ s[a + 1] = s[b + 1]
      BY <1>1, <2>1
    <3>2. QED
      BY <1>1, <3>1 DEF IsInjective
  <2>2. QED
    BY <2>1 DEF IsInjective
<1>3. ToSet(z) = ToSet(s) \ {Head(s)}
  <2>1. ASSUME NEW i \in DOMAIN z PROVE z[i] \in ToSet(s) \ {Head(s)}
    <3>1. i + 1 \in DOMAIN s /\ 1 \in DOMAIN s /\ i + 1 # 1 /\ z[i] = s[i + 1]
      BY <1>1, <2>1
    <3>2. QED
      BY <1>1, <3>1 DEF IsInjective, ToSet
  <2>2. ASSUME NEW i \in DOMAIN s, s[i] # Head(s) PROVE s[i] \in ToSet(z)
    <3>1. i - 1 \in DOMAIN z /\ z[i - 1] = s[i]
      BY <1>1, <2>2
    <3>2. QED
      BY <3>1 DEF ToSet
  <2>3. QED
    BY <2>1, <2>2 DEF ToSet
<1>4. QED
  BY <1>1, <1>2, <1>3 DEF z

LEMMA SpeechInitially == SpeechInit => SpeechInv
<1> SUFFICES ASSUME SpeechInit PROVE SpeechInv
  OBVIOUS
<1>1. order = <<>> /\ spoken = {} /\ DOMAIN order = {} /\ Len(order) = 0 /\ order \in Seq(Texts)
  BY DEF SpeechInit
<1>2. EvictionOrderIsExact
  BY <1>1, SpeechAssumption DEF EvictionOrderIsExact, IsInjective, ToSet
<1>3. QED
  BY <1>1, <1>2 DEF SpeechInit, SpeechInv

\* Audio is stored: a text that came to be cached meanwhile is not listed again.
LEMMA KeepStep ==
  ASSUME SpeechInv, NEW l \in Listeners, Keep(l) PROVE order' \in Seq(Texts) /\ EvictionOrderIsExact'
<1> USE DEF SpeechInv
<1>1. CASE text[l] \in spoken
  BY <1>1 DEF Keep, EvictionOrderIsExact
<1>2. CASE text[l] \notin spoken
  <2>1. /\ text[l] \in Texts /\ text[l] \notin ToSet(order) /\ spoken = ToSet(order)
        /\ IsInjective(order) /\ Len(order) \in Nat /\ Len(order) <= CacheMax
        /\ CacheMax \in Nat \ {0}
    BY <1>2, LenProperties, SpeechAssumption DEF Keep, EvictionOrderIsExact
  <2>2. CASE Len(order) >= CacheMax
    <3>1. /\ spoken' = (spoken \ {Head(order)}) \cup {text[l]}
          /\ order' = Append(Tail(order), text[l])
      BY <1>2, <2>2 DEF Keep
    <3>2. /\ Tail(order) \in Seq(Texts) /\ Len(Tail(order)) = Len(order) - 1
          /\ IsInjective(Tail(order)) /\ ToSet(Tail(order)) = ToSet(order) \ {Head(order)}
      BY <2>1, <2>2, TailOfOrder
    <3>3. /\ order' \in Seq(Texts) /\ Len(order') = Len(order) /\ IsInjective(order')
          /\ ToSet(order') = ToSet(Tail(order)) \cup {text[l]}
      <4>1. text[l] \notin ToSet(Tail(order))
        BY <2>1, <3>2
      <4>2. Len(order') = Len(Tail(order)) + 1
        BY <2>1, <3>1, <3>2, <4>1, AppendedOrder
      <4>3. Len(order') = Len(order)
        BY <2>1, <3>2, <4>2
      <4>4. /\ order' \in Seq(Texts) /\ IsInjective(order')
            /\ ToSet(order') = ToSet(Tail(order)) \cup {text[l]}
        BY <2>1, <3>1, <3>2, <4>1, AppendedOrder
      <4>5. QED
        BY <4>3, <4>4
    <3>4. QED
      BY <2>1, <3>1, <3>2, <3>3 DEF EvictionOrderIsExact
  <2>3. CASE Len(order) < CacheMax
    <3>1. spoken' = spoken \cup {text[l]} /\ order' = Append(order, text[l])
      BY <1>2, <2>1, <2>3 DEF Keep
    <3>2. /\ order' \in Seq(Texts) /\ Len(order') = Len(order) + 1 /\ IsInjective(order')
          /\ ToSet(order') = ToSet(order) \cup {text[l]}
      BY <2>1, <3>1, AppendedOrder
    <3>3. QED
      BY <2>1, <2>3, <3>1, <3>2 DEF EvictionOrderIsExact
  <2>4. QED
    BY <2>1, <2>2, <2>3
<1>3. QED
  BY <1>1, <1>2

LEMMA SpeechStep == ASSUME SpeechInv, [SpeechNext]_speechVars PROVE SpeechInv'
<1> USE DEF SpeechInv
<1>1. ASSUME NEW l \in Listeners, Keep(l) PROVE SpeechInv'
  <2>1. stage' = [stage EXCEPT ![l] = "done"] /\ text' = [text EXCEPT ![l] = NoText]
    BY <1>1 DEF Keep, Go
  <2>2. QED
    BY <1>1, <2>1, KeepStep
<1>2. ASSUME NEW l \in Listeners, NEW a \in Addresses, NEW txt \in Texts, Admit(l, a, txt) PROVE SpeechInv'
  BY <1>2 DEF Admit, EvictionOrderIsExact
<1>3. ASSUME NEW l \in Listeners, NEW a \in Addresses, Refuse(l, a) PROVE SpeechInv'
  BY <1>3 DEF Refuse, EvictionOrderIsExact
<1>4. ASSUME NEW l \in Listeners, Find(l) \/ Speak(l) PROVE SpeechInv'
  BY <1>4 DEF Find, Speak, Go, EvictionOrderIsExact
<1>5. CASE SpeechTick \/ UNCHANGED speechVars
  BY <1>5 DEF SpeechTick, speechVars, EvictionOrderIsExact
<1>6. QED
  BY <1>1, <1>2, <1>3, <1>4, <1>5 DEF SpeechNext

(***************************************************************************)
(* However many requests miss a text at once, and whatever the size of the *)
(* audio cache, the eviction order lists what is cached, each text once.   *)
(***************************************************************************)
THEOREM ExactEviction == SpeechSpec => []EvictionOrderIsExact
<1>1. SpeechInv => EvictionOrderIsExact
  BY DEF SpeechInv
<1>2. QED
  BY <1>1, SpeechInitially, SpeechStep, PTL DEF SpeechSpec

\* What the loop of the filter does with a time.
Kept(times, f, i) ==
  IF i = 0 THEN <<>>
  ELSE IF InWindow(times[i]) THEN Append(f[i - 1], times[i]) ELSE f[i - 1]

\* The loop has a result, whatever it is run on.
LEMMA LoopRuns ==
  ASSUME NEW times, NEW n \in Nat
  PROVE  \E f : f = [i \in 0 .. n |-> Kept(times, f, i)]
<1> DEFINE T == {m \in Nat : ~ \E f : f = [i \in 0 .. m |-> Kept(times, f, i)]}
<1>1. SUFFICES ASSUME T # {} PROVE FALSE
  OBVIOUS
<1>2. PICK m \in T : \A k \in T : m <= k
  BY <1>1, LeastNatural
<1>3. CASE m = 0
  <2> DEFINE f == [i \in 0 .. 0 |-> <<>>]
  <2>1. f = [i \in 0 .. 0 |-> Kept(times, f, i)]
    BY DEF Kept
  <2>2. QED
    BY <1>3, <2>1
<1>4. CASE m > 0
  <2>1. m - 1 \in Nat /\ m - 1 \notin T
    BY <1>2, <1>4
  <2>2. PICK g : g = [i \in 0 .. m - 1 |-> Kept(times, g, i)]
    BY <2>1
  <2> DEFINE f == [i \in 0 .. m |-> IF i < m THEN g[i] ELSE Kept(times, g, m)]
  <2>3. ASSUME NEW i \in 0 .. m PROVE f[i] = Kept(times, f, i)
    <3>1. CASE i < m
      <4>1. g[i] = Kept(times, g, i)
        BY <2>2, <3>1
      <4>2. i > 0 => g[i - 1] = f[i - 1]
        BY <3>1
      <4>3. QED
        BY <3>1, <4>1, <4>2 DEF Kept
    <3>2. CASE i = m
      <4>1. f[m - 1] = g[m - 1]
        BY <1>4
      <4>2. QED
        BY <1>4, <3>2, <4>1 DEF Kept
    <3>3. QED
      BY <3>1, <3>2
  <2>4. f = [i \in 0 .. m |-> Kept(times, f, i)]
    BY <2>3
  <2>5. QED
    BY <2>4, <1>2
<1>5. QED
  BY <1>2, <1>3, <1>4

\* Of times in order, the loop keeps those from some place on.
LEMMA KeepsTheEnd ==
  ASSUME NEW times \in Seq(Nat), NEW k \in 0 .. Len(times),
         \A i \in 1 .. k : ~InWindow(times[i]),
         \A i \in k + 1 .. Len(times) : InWindow(times[i])
  PROVE  /\ StillRecent(times) \in Seq(Nat) /\ Len(StillRecent(times)) = Len(times) - k
         /\ \A j \in 1 .. Len(times) - k : StillRecent(times)[j] = times[k + j]
<1> DEFINE Loop == CHOOSE f : f = [i \in 0 .. Len(times) |-> Kept(times, f, i)]
<1>1. Len(times) \in Nat
  BY LenProperties
<1>2. StillRecent(times) = Loop[Len(times)]
  BY DEF StillRecent, Kept
<1>3. Loop = [i \in 0 .. Len(times) |-> Kept(times, Loop, i)]
  BY <1>1, LoopRuns
<1> HIDE DEF Loop
<1> DEFINE Good(i) ==
      /\ Loop[i] \in Seq(Nat) /\ Len(Loop[i]) = IF i <= k THEN 0 ELSE i - k
      /\ \A j \in 1 .. i - k : Loop[i][j] = times[k + j]
    T == {i \in 0 .. Len(times) : ~Good(i)}
<1>4. SUFFICES ASSUME T # {} PROVE FALSE
  <2>1. Good(Len(times))
    BY <1>1, <1>4
  <2>2. Len(Loop[Len(times)]) = Len(times) - k
    BY <1>1, <2>1
  <2>3. QED
    BY <1>2, <2>1, <2>2
<1>5. PICK m \in T : \A i \in T : m <= i
  <2>1. T \in SUBSET Nat
    BY <1>1
  <2>2. QED
    BY <1>4, <2>1, LeastNatural
<1>6. m \in 0 .. Len(times) /\ Loop[m] = Kept(times, Loop, m)
  BY <1>3
<1>7. CASE m = 0
  <2>1. Loop[m] = <<>>
    BY <1>6, <1>7 DEF Kept
  <2>2. Good(m)
    BY <1>7, <2>1, EmptySeq
  <2>3. QED
    BY <2>2
<1>8. CASE m > 0
  <2>1. m - 1 \in 0 .. Len(times) /\ m - 1 \notin T /\ m \in 1 .. Len(times) /\ times[m] \in Nat
    <3>1. m - 1 \in 0 .. Len(times) /\ m \in 1 .. Len(times) /\ ~(m <= m - 1)
      BY <1>1, <1>6, <1>8
    <3>2. m - 1 \notin T
      BY <1>5, <3>1
    <3>3. times[m] \in Nat
      BY <3>1, ElementOfSeq
    <3>4. QED
      BY <3>1, <3>2, <3>3
  <2>2. Good(m - 1)
    BY <2>1
  <2>3. CASE m <= k
    <3>1. Loop[m] = Loop[m - 1]
      BY <1>6, <1>8, <2>1, <2>3 DEF Kept
    <3>2. Good(m)
      BY <2>1, <2>2, <2>3, <3>1
    <3>3. QED
      BY <3>2
  <2>4. CASE m > k
    <3>1. Loop[m] = Append(Loop[m - 1], times[m])
      <4>1. InWindow(times[m]) /\ m # 0
        BY <1>8, <2>1, <2>4
      <4>2. QED
        BY <1>6, <4>1 DEF Kept
    <3>2. Loop[m - 1] \in Seq(Nat) /\ Len(Loop[m - 1]) = m - 1 - k
      BY <2>1, <2>2, <2>4
    <3>3. /\ Loop[m] \in Seq(Nat) /\ Len(Loop[m]) = m - k
          /\ \A i \in 1 .. m - 1 - k : Loop[m][i] = Loop[m - 1][i]
          /\ Loop[m][m - k] = times[m]
      <4>1. /\ Loop[m] \in Seq(Nat) /\ Len(Loop[m]) = Len(Loop[m - 1]) + 1
            /\ \A i \in 1 .. Len(Loop[m - 1]) : Loop[m][i] = Loop[m - 1][i]
            /\ Loop[m][Len(Loop[m - 1]) + 1] = times[m]
        <5>1. PICK p \in Seq(Nat) : p = Loop[m - 1]
          BY <3>2
        <5>2. /\ Append(p, times[m]) \in Seq(Nat) /\ Len(Append(p, times[m])) = Len(p) + 1
              /\ \A i \in 1 .. Len(p) : Append(p, times[m])[i] = p[i]
              /\ Append(p, times[m])[Len(p) + 1] = times[m]
          BY <2>1, AppendProperties
        <5>3. QED
          BY <3>1, <5>1, <5>2
      <4>2. Len(Loop[m - 1]) + 1 = m - k
        BY <2>1, <3>2
      <4>3. QED
        BY <3>2, <4>1, <4>2
    <3>4. ASSUME NEW j \in 1 .. m - k PROVE Loop[m][j] = times[k + j]
      <4>1. CASE j = m - k
        BY <3>3, <2>1, <4>1
      <4>2. CASE j # m - k
        <5>1. j \in 1 .. m - 1 - k
          BY <2>1, <4>2
        <5>2. QED
          BY <2>2, <3>3, <5>1
      <4>3. QED
        BY <4>1, <4>2
    <3>5. Good(m)
      BY <2>1, <2>4, <3>3, <3>4
    <3>6. QED
      BY <3>5
  <2>5. QED
    BY <2>1, <2>3, <2>4
<1>9. QED
  BY <1>6, <1>7, <1>8

\* Times in order leave the window one after the other.
LEMMA TimesSplit ==
  ASSUME NEW p \in Seq(Nat), \A i, j \in 1 .. Len(p) : i <= j => p[i] <= p[j],
         clock \in Nat, Window \in Nat
  PROVE  \E k \in 0 .. Len(p) : /\ \A i \in 1 .. k : ~InWindow(p[i])
                                /\ \A i \in k + 1 .. Len(p) : InWindow(p[i])
<1> DEFINE T == {k \in 0 .. Len(p) : \A i \in k + 1 .. Len(p) : InWindow(p[i])}
<1>1. Len(p) \in Nat /\ \A i \in 1 .. Len(p) : p[i] \in Nat
  BY LenProperties, ElementOfSeq
<1>2. Len(p) \in T /\ T \in SUBSET Nat
  BY <1>1
<1>3. PICK k \in T : \A i \in T : k <= i
  BY <1>2, LeastNatural
<1>4. ASSUME NEW i \in 1 .. k PROVE ~InWindow(p[i])
  <2>1. k - 1 \in 0 .. Len(p) /\ k \in 1 .. Len(p) /\ k - 1 \notin T
    <3>1. k \in 1 .. Len(p) /\ k - 1 \in 0 .. Len(p)
      BY <1>1
    <3>2. ~(k <= k - 1)
      BY <3>1
    <3>3. QED
      BY <1>3, <3>1, <3>2
  <2>2. PICK j \in k .. Len(p) : ~InWindow(p[j])
    BY <2>1
  <2>3. j = k
    BY <1>1, <1>3, <2>1, <2>2
  <2>4. p[i] <= p[k] /\ p[i] \in Nat /\ p[k] \in Nat
    BY <1>1, <2>1
  <2>5. QED
    BY <2>2, <2>3, <2>4 DEF InWindow
<1>5. QED
  BY <1>3, <1>4

\* The slice of an address has the latest requests that were let through; what it lacks has left
\* the window.
LatestOf(a, d) ==
  /\ Len(recent[a]) = Len(passed[a]) - d
  /\ \A j \in 1 .. Len(recent[a]) : recent[a][j] = passed[a][d + j]
  /\ \A i \in 1 .. d : ~InWindow(passed[a][i])

SliceIsLatest(a) ==
  /\ \A i \in 1 .. Len(passed[a]) : passed[a][i] <= clock
  /\ \A i, j \in 1 .. Len(passed[a]) : i <= j => passed[a][i] <= passed[a][j]
  /\ \E d \in 0 .. Len(passed[a]) : LatestOf(a, d)
  /\ Len(recent[a]) <= Limit

LimiterInv ==
  /\ clock \in 0 .. LastTick
  /\ recent \in [Addresses -> Seq(Nat)] /\ passed \in [Addresses -> Seq(Nat)]
  /\ \A a \in Addresses : SliceIsLatest(a)
  /\ \A f \in refusals : f.addr \in Addresses /\ f.at \in 0 .. clock
  /\ LimitIsExact

LEMMA PassedTypes ==
  ASSUME LimiterInv, NEW a \in Addresses
  PROVE  /\ Len(passed[a]) \in Nat /\ DOMAIN passed[a] = 1 .. Len(passed[a])
         /\ \A i \in 1 .. Len(passed[a]) : passed[a][i] \in Nat
         /\ Len(recent[a]) \in Nat /\ DOMAIN recent[a] = 1 .. Len(recent[a])
         /\ \A i \in 1 .. Len(recent[a]) : recent[a][i] \in Nat
         /\ passed[a] \in Seq(Nat) /\ recent[a] \in Seq(Nat)
         /\ clock \in Nat /\ Window \in Nat \ {0} /\ Limit \in Nat \ {0}
<1>1. passed[a] \in Seq(Nat) /\ recent[a] \in Seq(Nat)
  BY DEF LimiterInv
<1>2. clock \in Nat /\ Window \in Nat \ {0} /\ Limit \in Nat \ {0}
  BY SpeechAssumption DEF LimiterInv
<1>3. QED
  BY <1>1, <1>2, LenProperties, ElementOfSeq

\* The filter keeps exactly the requests that were let through in the window: after the first k.
FilterKeeps(a, k) ==
  /\ Filtered(a) \in Seq(Nat) /\ Len(Filtered(a)) = Len(passed[a]) - k
  /\ \A j \in 1 .. Len(passed[a]) - k : Filtered(a)[j] = passed[a][k + j]
  /\ \A i \in 1 .. k : ~InWindow(passed[a][i])
  /\ PassedIn(a, clock) = k + 1 .. Len(passed[a])

LEMMA FilterIsExact ==
  ASSUME LimiterInv, NEW a \in Addresses
  PROVE  /\ \E k \in 0 .. Len(passed[a]) : FilterKeeps(a, k)
         /\ Cardinality(PassedIn(a, clock)) = Len(Filtered(a))
         /\ Len(Filtered(a)) \in 0 .. Len(recent[a])
         /\ Len(Filtered(a)) = Len(recent[a]) => Filtered(a) = recent[a]
<1> DEFINE p == passed[a]
           s == recent[a]
<1>1. /\ Len(p) \in Nat /\ DOMAIN p = 1 .. Len(p) /\ \A i \in 1 .. Len(p) : p[i] \in Nat
      /\ Len(s) \in Nat /\ DOMAIN s = 1 .. Len(s) /\ \A i \in 1 .. Len(s) : s[i] \in Nat
      /\ p \in Seq(Nat) /\ s \in Seq(Nat) /\ clock \in Nat /\ Window \in Nat \ {0}
  BY PassedTypes
<1>2. /\ \A i \in 1 .. Len(p) : p[i] <= clock
      /\ \A i, j \in 1 .. Len(p) : i <= j => p[i] <= p[j]
      /\ \E d \in 0 .. Len(p) : LatestOf(a, d)
  BY DEF LimiterInv, SliceIsLatest
<1>3. PICK k \in 0 .. Len(p) : /\ \A i \in 1 .. k : ~InWindow(p[i])
                              /\ \A i \in k + 1 .. Len(p) : InWindow(p[i])
  BY <1>1, <1>2, TimesSplit
<1>15. PICK d \in 0 .. Len(p) : LatestOf(a, d)
  BY <1>2
<1>4. /\ Len(s) = Len(p) - d
      /\ \A j \in 1 .. Len(s) : s[j] = p[d + j]
      /\ \A i \in 1 .. d : ~InWindow(p[i])
  BY <1>15 DEF LatestOf
<1> HIDE DEF p, s
<1>5. d <= k
  <2>1. SUFFICES ASSUME k < d PROVE FALSE
    BY <1>1
  <2>2. k + 1 \in 1 .. d /\ k + 1 \in k + 1 .. Len(p)
    BY <1>1, <2>1
  <2>3. ~InWindow(p[k + 1])
    BY <1>4, <2>2
  <2>4. InWindow(p[k + 1])
    BY <1>3, <2>2
  <2>5. QED
    BY <2>3, <2>4
<1>6. /\ k - d \in 0 .. Len(s)
      /\ \A i \in 1 .. k - d : ~InWindow(s[i])
      /\ \A i \in (k - d) + 1 .. Len(s) : InWindow(s[i])
  <2>1. k \in 0 .. Len(p) /\ d \in 0 .. k /\ Len(s) = Len(p) - d
    BY <1>1, <1>4, <1>5
  <2>2. ASSUME NEW i \in 1 .. Len(s)
        PROVE  s[i] = p[d + i] /\ (i <= k - d => d + i \in 1 .. k)
                 /\ (i >= (k - d) + 1 => d + i \in k + 1 .. Len(p))
    <3>1. s[i] = p[d + i]
      BY <1>4
    <3>2. i \in Nat /\ i >= 1 /\ i <= Len(p) - d /\ k \in Nat /\ d \in Nat /\ Len(p) \in Nat
      BY <1>1, <2>1
    <3>3. (i <= k - d => d + i \in 1 .. k) /\ (i >= (k - d) + 1 => d + i \in k + 1 .. Len(p))
      BY <3>2
    <3>4. QED
      BY <3>1, <3>3
  <2>3. k - d \in 0 .. Len(s)
    BY <1>1, <2>1
  <2>4. ASSUME NEW i \in 1 .. k - d PROVE ~InWindow(s[i])
    <3>1. i \in 1 .. Len(s) /\ i <= k - d
      BY <1>1, <2>1
    <3>2. d + i \in 1 .. k /\ s[i] = p[d + i]
      BY <2>2, <3>1
    <3>3. QED
      BY <1>3, <3>2
  <2>5. ASSUME NEW i \in (k - d) + 1 .. Len(s) PROVE InWindow(s[i])
    <3>1. i \in 1 .. Len(s) /\ i >= (k - d) + 1
      BY <1>1, <2>1
    <3>2. d + i \in k + 1 .. Len(p) /\ s[i] = p[d + i]
      BY <2>2, <3>1
    <3>3. QED
      BY <1>3, <3>2
  <2>6. QED
    BY <2>3, <2>4, <2>5
<1>7. /\ Filtered(a) \in Seq(Nat) /\ Len(Filtered(a)) = Len(s) - (k - d)
      /\ \A j \in 1 .. Len(s) - (k - d) : Filtered(a)[j] = s[(k - d) + j]
  BY <1>1, <1>6, KeepsTheEnd DEF Filtered, s
<1>8. Len(Filtered(a)) = Len(p) - k /\ \A j \in 1 .. Len(p) - k : Filtered(a)[j] = p[k + j]
  <2>1. Len(s) - (k - d) = Len(p) - k
    BY <1>1, <1>4
  <2>2. ASSUME NEW j \in 1 .. Len(p) - k PROVE Filtered(a)[j] = p[k + j]
    <3>1. (k - d) + j \in 1 .. Len(s) /\ d + ((k - d) + j) = k + j
      BY <1>1, <1>4, <1>5, <2>1
    <3>2. QED
      BY <1>4, <1>7, <2>1, <3>1
  <2>3. QED
    BY <1>7, <2>1, <2>2
<1>9. PassedIn(a, clock) = k + 1 .. Len(p)
  <2>1. ASSUME NEW i \in 1 .. Len(p) PROVE p[i] \in (clock - Window + 1) .. clock <=> InWindow(p[i])
    BY <1>1, <1>2 DEF InWindow, p
  <2>2. ASSUME NEW i \in 1 .. Len(p) PROVE InWindow(p[i]) <=> i \in k + 1 .. Len(p)
    <3>1. i \in 1 .. k \/ i \in k + 1 .. Len(p)
      BY <1>1
    <3>2. ~(i \in 1 .. k /\ i \in k + 1 .. Len(p))
      BY <1>1
    <3>3. QED
      BY <1>3, <3>1, <3>2
  <2>3. PassedIn(a, clock) = {i \in 1 .. Len(p) : i \in k + 1 .. Len(p)}
    BY <1>1, <2>1, <2>2 DEF PassedIn, p
  <2>4. k + 1 .. Len(p) \subseteq 1 .. Len(p)
    BY <1>1
  <2>5. QED
    BY <2>3, <2>4
<1>10. Cardinality(PassedIn(a, clock)) = Len(Filtered(a))
  <2>1. Cardinality(k + 1 .. Len(p)) = IF k + 1 > Len(p) THEN 0 ELSE Len(p) - (k + 1) + 1
    <3>1. k + 1 \in Int /\ Len(p) \in Int
      BY <1>1
    <3>2. QED
      BY <3>1, FS_Interval
  <2>2. QED
    BY <1>1, <1>8, <1>9, <2>1
<1>11. ASSUME Len(Filtered(a)) = Len(s) PROVE Filtered(a) = s
  <2>1. k - d = 0
    BY <1>1, <1>7, <1>11
  <2>2. \A j \in 1 .. Len(s) : Filtered(a)[j] = s[j]
    BY <1>1, <1>7, <2>1
  <2>3. QED
    BY <1>1, <1>7, <1>11, <2>2, SeqEqual
<1>12. Len(Filtered(a)) \in 0 .. Len(s)
  BY <1>1, <1>6, <1>7
<1>13. FilterKeeps(a, k)
  BY <1>3, <1>7, <1>8, <1>9 DEF FilterKeeps, p
<1>14. QED
  BY <1>10, <1>11, <1>12, <1>13 DEF p, s

\* An appended time is the latest of its address.
LEMMA AdmitLimiter ==
  ASSUME LimiterInv, NEW l \in Listeners, NEW a \in Addresses, NEW txt \in Texts, Admit(l, a, txt)
  PROVE  LimiterInv'
<1> DEFINE p == passed[a]
<1>1. /\ Len(p) \in Nat /\ DOMAIN p = 1 .. Len(p) /\ \A i \in 1 .. Len(p) : p[i] \in Nat
      /\ p \in Seq(Nat) /\ clock \in Nat /\ Window \in Nat \ {0} /\ Limit \in Nat \ {0}
  BY PassedTypes
<1>2. /\ clock' = clock /\ refusals' = refusals
      /\ \A b \in Addresses \ {a} : recent'[b] = recent[b] /\ passed'[b] = passed[b]
      /\ passed' \in [Addresses -> Seq(Nat)]
      /\ passed'[a] = Append(p, clock) /\ recent'[a] = Append(Filtered(a), clock)
      /\ Len(Filtered(a)) < Limit
  BY <1>1, AppendProperties DEF Admit, LimiterInv
<1>3. PICK k \in 0 .. Len(p) : FilterKeeps(a, k)
  BY FilterIsExact
<1>4. /\ Filtered(a) \in Seq(Nat) /\ Len(Filtered(a)) = Len(p) - k
      /\ \A j \in 1 .. Len(p) - k : Filtered(a)[j] = p[k + j]
      /\ \A i \in 1 .. k : ~InWindow(p[i])
      /\ PassedIn(a, clock) = k + 1 .. Len(p)
  BY <1>3 DEF FilterKeeps
<1>5. /\ passed'[a] \in Seq(Nat) /\ Len(passed'[a]) = Len(p) + 1 /\ DOMAIN passed'[a] = 1 .. Len(p) + 1
      /\ \A i \in 1 .. Len(p) : passed'[a][i] = p[i]
      /\ passed'[a][Len(p) + 1] = clock
  <2>1. Append(p, clock) \in Seq(Nat) /\ Len(Append(p, clock)) = Len(p) + 1
    BY <1>1, AppendProperties
  <2>2. DOMAIN Append(p, clock) = 1 .. Len(p) + 1
    BY <2>1, LenProperties
  <2>3. QED
    BY <1>1, <1>2, <2>1, <2>2, AppendProperties
<1>6. /\ recent'[a] \in Seq(Nat) /\ Len(recent'[a]) = (Len(p) - k) + 1
      /\ \A j \in 1 .. Len(p) - k : recent'[a][j] = p[k + j]
      /\ recent'[a][(Len(p) - k) + 1] = clock
  <2>1. PICK q \in Seq(Nat) : q = Filtered(a)
    BY <1>4
  <2>2. /\ Append(q, clock) \in Seq(Nat) /\ Len(Append(q, clock)) = Len(q) + 1
        /\ \A i \in 1 .. Len(q) : Append(q, clock)[i] = q[i]
        /\ Append(q, clock)[Len(q) + 1] = clock
    BY <1>1, AppendProperties
  <2>3. recent'[a] = Append(q, clock) /\ Len(q) = Len(p) - k
    BY <1>2, <1>4, <2>1
  <2>4. QED
    BY <1>4, <2>1, <2>2, <2>3
<1>7. recent' \in [Addresses -> Seq(Nat)]
  BY <1>2, <1>6 DEF Admit, LimiterInv
<1> HIDE DEF p
<1>8. /\ \A i \in 1 .. Len(passed'[a]) : passed'[a][i] <= clock'
      /\ \A i, j \in 1 .. Len(passed'[a]) : i <= j => passed'[a][i] <= passed'[a][j]
  <2>1. \A i \in 1 .. Len(p) : p[i] <= clock
    BY DEF LimiterInv, SliceIsLatest, p
  <2>2. \A i, j \in 1 .. Len(p) : i <= j => p[i] <= p[j]
    BY DEF LimiterInv, SliceIsLatest, p
  <2>3. ASSUME NEW i \in 1 .. Len(p) + 1, NEW j \in 1 .. Len(p) + 1, i <= j
        PROVE  passed'[a][i] <= clock /\ passed'[a][i] <= passed'[a][j]
    <3>1. CASE i = Len(p) + 1
      <4>1. j = Len(p) + 1
        BY <1>1, <2>3, <3>1
      <4>2. QED
        BY <1>1, <1>5, <3>1, <4>1
    <3>2. CASE i # Len(p) + 1
      <4>1. i \in 1 .. Len(p) /\ (j = Len(p) + 1 \/ j \in 1 .. Len(p))
        BY <1>1, <3>2
      <4>2. passed'[a][i] = p[i] /\ p[i] <= clock
        BY <1>5, <2>1, <4>1
      <4>3. QED
        BY <1>5, <2>2, <2>3, <4>1, <4>2
    <3>3. QED
      BY <3>1, <3>2
  <2>4. QED
    <3>1. \A i \in 1 .. Len(p) + 1 : i <= i
      BY <1>1
    <3>2. \A i \in 1 .. Len(p) + 1 : passed'[a][i] <= clock
      BY <2>3, <3>1
    <3>3. QED
      BY <1>2, <1>5, <2>3, <3>2
<1>9. LatestOf(a, k)'
  <2>1. Len(recent'[a]) = Len(passed'[a]) - k
    BY <1>1, <1>5, <1>6
  <2>2. ASSUME NEW j \in 1 .. Len(recent'[a]) PROVE recent'[a][j] = passed'[a][k + j]
    <3>1. CASE j = (Len(p) - k) + 1
      <4>1. k + j = Len(p) + 1
        BY <1>1, <3>1
      <4>2. QED
        BY <1>5, <1>6, <3>1, <4>1
    <3>2. CASE j # (Len(p) - k) + 1
      <4>1. j \in 1 .. Len(p) - k /\ k + j \in 1 .. Len(p)
        BY <1>1, <1>6, <3>2
      <4>2. QED
        BY <1>5, <1>6, <4>1
    <3>3. QED
      BY <3>1, <3>2
  <2>3. ASSUME NEW i \in 1 .. k PROVE ~InWindow(passed[a][i])'
    <3>1. ~InWindow(p[i]) /\ i \in 1 .. Len(p)
      BY <1>1, <1>4
    <3>2. passed'[a][i] = p[i]
      BY <1>5, <3>1
    <3>3. ~(p[i] > clock - Window)
      BY <3>1 DEF InWindow
    <3>4. QED
      BY <1>2, <3>2, <3>3 DEF InWindow
  <2>4. QED
    BY <2>1, <2>2, <2>3 DEF LatestOf, InWindow
<1>10. Len(recent'[a]) <= Limit
  BY <1>1, <1>2, <1>4, <1>6
<1>11. ASSUME NEW b \in Addresses \ {a}, NEW d \in 0 .. Len(passed[b]), LatestOf(b, d) PROVE LatestOf(b, d)'
  BY <1>2, <1>11 DEF LatestOf, InWindow
<1>12. ASSUME NEW t \in 0 .. clock, t # clock PROVE PassedIn(a, t)' = PassedIn(a, t)
  <2>1. clock \notin (t - Window + 1) .. t
    BY <1>1, <1>12
  <2>2. PassedIn(a, t)' = {i \in 1 .. Len(p) + 1 : passed'[a][i] \in (t - Window + 1) .. t}
    BY <1>5 DEF PassedIn
  <2>3. PassedIn(a, t) = {i \in 1 .. Len(p) : p[i] \in (t - Window + 1) .. t}
    BY <1>1 DEF PassedIn, p
  <2>4. ASSUME NEW i \in 1 .. Len(p) + 1
        PROVE  passed'[a][i] \in (t - Window + 1) .. t <=>
                 i \in 1 .. Len(p) /\ p[i] \in (t - Window + 1) .. t
    <3>1. CASE i = Len(p) + 1
      BY <1>1, <1>5, <2>1, <3>1
    <3>2. CASE i \in 1 .. Len(p)
      BY <1>5, <3>2
    <3>3. QED
      BY <1>1, <3>1, <3>2
  <2>5. QED
    BY <1>1, <2>2, <2>3, <2>4
<1>13. PassedIn(a, clock)' = PassedIn(a, clock) \cup {Len(p) + 1}
  <2>1. clock \in (clock - Window + 1) .. clock
    BY <1>1
  <2>2. PassedIn(a, clock)' = {i \in 1 .. Len(p) + 1 : passed'[a][i] \in (clock - Window + 1) .. clock}
    BY <1>2, <1>5 DEF PassedIn
  <2>3. PassedIn(a, clock) = {i \in 1 .. Len(p) : p[i] \in (clock - Window + 1) .. clock}
    BY <1>1 DEF PassedIn, p
  <2>4. ASSUME NEW i \in 1 .. Len(p) + 1
        PROVE  passed'[a][i] \in (clock - Window + 1) .. clock <=>
                 i = Len(p) + 1 \/ (i \in 1 .. Len(p) /\ p[i] \in (clock - Window + 1) .. clock)
    <3>1. CASE i = Len(p) + 1
      BY <1>5, <2>1, <3>1
    <3>2. CASE i \in 1 .. Len(p)
      <4>1. i # Len(p) + 1
        BY <1>1, <3>2
      <4>2. QED
        BY <1>5, <3>2, <4>1
    <3>3. QED
      BY <1>1, <3>1, <3>2
  <2>5. QED
    BY <1>1, <2>2, <2>3, <2>4
<1>14. /\ IsFiniteSet(PassedIn(a, clock)) /\ Len(p) + 1 \notin PassedIn(a, clock)
       /\ Cardinality(PassedIn(a, clock)) = Len(Filtered(a))
  <2>1. Len(p) + 1 \notin k + 1 .. Len(p) /\ k + 1 \in Int /\ Len(p) \in Int
    BY <1>1
  <2>2. QED
    BY <1>4, <2>1, FilterIsExact, FS_Interval
<1>15. Cardinality(PassedIn(a, clock)') = Len(Filtered(a)) + 1
  BY <1>13, <1>14, FS_AddElement
<1>16. \A b \in Addresses \ {a} : \A t \in 0 .. clock : PassedIn(b, t)' = PassedIn(b, t)
  BY <1>2 DEF PassedIn
<1>17. LimitIsExact'
  <2>1. ASSUME NEW t \in 0 .. clock PROVE Cardinality(PassedIn(a, t)') <= Limit
    <3>1. CASE t = clock
      BY <1>1, <1>2, <1>4, <1>15, <3>1
    <3>2. CASE t # clock
      BY <1>12, <3>2 DEF LimiterInv, LimitIsExact
    <3>3. QED
      BY <3>1, <3>2
  <2>2. ASSUME NEW f \in refusals, f.addr = a PROVE Cardinality(PassedIn(a, f.at)') >= Limit
    <3>1. f.at \in 0 .. clock /\ Cardinality(PassedIn(a, f.at)) >= Limit
      BY <2>2 DEF LimiterInv, LimitIsExact
    <3>2. CASE f.at = clock
      BY <1>1, <1>2, <1>4, <1>14, <1>15, <3>1, <3>2
    <3>3. CASE f.at # clock
      BY <1>12, <3>1, <3>3
    <3>4. QED
      BY <3>2, <3>3
  <2>3. ASSUME NEW b \in Addresses \ {a}
        PROVE  /\ \A t \in 0 .. clock : Cardinality(PassedIn(b, t)') <= Limit
               /\ \A f \in refusals : f.addr = b => Cardinality(PassedIn(b, f.at)') >= Limit
    BY <1>16 DEF LimiterInv, LimitIsExact
  <2>4. ASSUME NEW b \in Addresses
        PROVE  /\ \A t \in 0 .. clock' : Cardinality(PassedIn(b, t)') <= Limit
               /\ \A f \in refusals' : f.addr = b => Cardinality(PassedIn(b, f.at)') >= Limit
    BY <1>2, <2>1, <2>2, <2>3
  <2>5. QED
    BY <2>4 DEF LimitIsExact
<1>18. ASSUME NEW b \in Addresses PROVE SliceIsLatest(b)'
  <2>1. CASE b = a
    <3>1. k \in 0 .. Len(passed'[a])
      BY <1>1, <1>5
    <3>2. QED
      BY <1>8, <1>9, <1>10, <2>1, <3>1 DEF SliceIsLatest
  <2>2. CASE b # a
    <3>1. PICK d \in 0 .. Len(passed[b]) : LatestOf(b, d)
      BY DEF LimiterInv, SliceIsLatest
    <3>2. LatestOf(b, d)' /\ passed'[b] = passed[b] /\ recent'[b] = recent[b]
      BY <1>2, <1>11, <2>2, <3>1
    <3>3. QED
      BY <1>2, <3>1, <3>2 DEF LimiterInv, SliceIsLatest
  <2>3. QED
    BY <2>1, <2>2
<1>20. clock' \in 0 .. LastTick /\ \A f \in refusals' : f.addr \in Addresses /\ f.at \in 0 .. clock'
  BY <1>2 DEF LimiterInv
<1>22. passed' \in [Addresses -> Seq(Nat)]
  BY <1>2
<1>23. QED
  BY <1>7, <1>17, <1>18, <1>20, <1>22 DEF LimiterInv

\* A refusal is at the end of a full window, and leaves the slice as it is.
LEMMA RefuseLimiter ==
  ASSUME LimiterInv, NEW l \in Listeners, NEW a \in Addresses, Refuse(l, a) PROVE LimiterInv'
<1>1. /\ clock' = clock /\ passed' = passed /\ Len(Filtered(a)) >= Limit
      /\ refusals' = refusals \cup {[addr |-> a, at |-> clock]}
  BY DEF Refuse
<1>2. /\ Len(recent[a]) \in Nat /\ Len(recent[a]) <= Limit /\ Limit \in Nat \ {0} /\ clock \in Nat
      /\ recent[a] \in Seq(Nat)
  BY PassedTypes DEF LimiterInv, SliceIsLatest
<1>3. Len(Filtered(a)) = Len(recent[a]) /\ Filtered(a) = recent[a]
  BY <1>1, <1>2, FilterIsExact
<1>4. recent' = recent
  <2>1. SubSeq(recent[a], Len(recent[a]) + 1, Len(recent[a])) = <<>>
    BY <1>2, SubSeqEmpty
  <2>2. recent[a] \o <<>> = recent[a]
    BY <1>2, ConcatEmptySeq
  <2>3. recent' = [recent EXCEPT ![a] = recent[a]]
    BY <1>3, <2>1, <2>2 DEF Refuse
  <2>4. QED
    BY <2>3 DEF LimiterInv
<1>5. Cardinality(PassedIn(a, clock)) >= Limit
  BY <1>1, FilterIsExact
<1>6. \A b \in Addresses : \A t \in 0 .. clock : PassedIn(b, t)' = PassedIn(b, t)
  BY <1>1 DEF PassedIn
<1>7. \A f \in refusals' : \/ f \in refusals
                           \/ f.addr = a /\ f.at = clock
  BY <1>1
<1>8. \A f \in refusals' : f.addr \in Addresses /\ f.at \in 0 .. clock'
  BY <1>1, <1>2, <1>7 DEF LimiterInv
<1>9. LimitIsExact'
  <2>1. ASSUME NEW b \in Addresses
        PROVE  /\ \A t \in 0 .. clock' : Cardinality(PassedIn(b, t)') <= Limit
               /\ \A f \in refusals' : f.addr = b => Cardinality(PassedIn(b, f.at)') >= Limit
    BY <1>1, <1>5, <1>6, <1>7, <1>8 DEF LimiterInv, LimitIsExact
  <2>2. QED
    BY <2>1 DEF LimitIsExact
<1>10. ASSUME NEW b \in Addresses, NEW d \in 0 .. Len(passed[b]), LatestOf(b, d) PROVE LatestOf(b, d)'
  BY <1>1, <1>4, <1>10 DEF LatestOf, InWindow
<1>11. ASSUME NEW b \in Addresses PROVE SliceIsLatest(b)'
  <2>1. PICK d \in 0 .. Len(passed[b]) : LatestOf(b, d)
    BY DEF LimiterInv, SliceIsLatest
  <2>2. LatestOf(b, d)'
    BY <1>10, <2>1
  <2>3. QED
    BY <1>1, <1>4, <2>1, <2>2 DEF LimiterInv, SliceIsLatest
<1>12. QED
  BY <1>1, <1>4, <1>8, <1>9, <1>11 DEF LimiterInv

\* A tick begins a window that has no more than the one before it.
LEMMA TickLimiter == ASSUME LimiterInv, SpeechTick PROVE LimiterInv'
<1>1. /\ clock \in Nat /\ clock' = clock + 1 /\ clock' \in 0 .. LastTick
      /\ recent' = recent /\ passed' = passed /\ refusals' = refusals
  BY SpeechAssumption DEF SpeechTick, LimiterInv
<1>2. ASSUME NEW a \in Addresses PROVE SliceIsLatest(a)'
  <2>1. /\ Len(passed[a]) \in Nat /\ \A i \in 1 .. Len(passed[a]) : passed[a][i] \in Nat
        /\ Window \in Nat \ {0}
    BY PassedTypes
  <2>2. \A i \in 1 .. Len(passed[a]) : passed[a][i] <= clock'
    BY <1>1, <2>1 DEF LimiterInv, SliceIsLatest
  <2>3. PICK d \in 0 .. Len(passed[a]) : LatestOf(a, d)
    BY DEF LimiterInv, SliceIsLatest
  <2>4. \A i \in 1 .. d : ~InWindow(passed[a][i])'
    <3>1. ASSUME NEW i \in 1 .. d PROVE ~InWindow(passed[a][i])'
      <4>1. passed[a][i] \in Nat /\ ~InWindow(passed[a][i])
        BY <2>1, <2>3 DEF LatestOf
      <4>2. QED
        BY <1>1, <2>1, <4>1 DEF InWindow
    <3>2. QED
      BY <3>1
  <2>5. LatestOf(a, d)'
    BY <1>1, <2>3, <2>4 DEF LatestOf
  <2>6. QED
    BY <1>1, <2>2, <2>3, <2>5 DEF LimiterInv, SliceIsLatest
<1>3. PICK now \in 0 .. LastTick : now = clock + 1
  BY <1>1
<1>7. ASSUME NEW a \in Addresses
      PROVE  /\ \A t \in 0 .. clock' : Cardinality(PassedIn(a, t)') <= Limit
             /\ \A f \in refusals : f.addr = a => Cardinality(PassedIn(a, f.at)') >= Limit
  <2>1. /\ Len(passed[a]) \in Nat /\ \A i \in 1 .. Len(passed[a]) : passed[a][i] \in Nat
        /\ DOMAIN passed[a] = 1 .. Len(passed[a]) /\ Window \in Nat \ {0} /\ Limit \in Nat \ {0}
    BY PassedTypes
  <2>2. \A t \in 0 .. clock : PassedIn(a, t)' = PassedIn(a, t)
    BY <1>1 DEF PassedIn
  <2>3. PassedIn(a, now)' \subseteq PassedIn(a, clock)
    <3>1. ASSUME NEW i \in 1 .. Len(passed[a]), passed[a][i] \in (now - Window + 1) .. now
          PROVE  passed[a][i] \in (clock - Window + 1) .. clock
      <4>1. passed[a][i] <= clock /\ passed[a][i] \in Nat
        BY <2>1 DEF LimiterInv, SliceIsLatest
      <4>2. QED
        BY <1>1, <1>3, <2>1, <3>1, <4>1
    <3>2. QED
      <4>1. PassedIn(a, now)' =
              {i \in 1 .. Len(passed[a]) : passed[a][i] \in (now - Window + 1) .. now}
        BY <1>1, <2>1 DEF PassedIn
      <4>2. PassedIn(a, clock) = {i \in 1 .. Len(passed[a]) : passed[a][i] \in (clock - Window + 1) .. clock}
        BY <2>1 DEF PassedIn
      <4>3. QED
        BY <3>1, <4>1, <4>2
  <2>4. Cardinality(PassedIn(a, now)') <= Limit
    <3>1. PassedIn(a, clock) \in SUBSET (1 .. Len(passed[a])) /\ IsFiniteSet(1 .. Len(passed[a]))
      <4>1. IsFiniteSet(1 .. Len(passed[a]))
        BY <2>1, FS_Interval
      <4>2. QED
        BY <2>1, <4>1 DEF PassedIn
    <3>2. IsFiniteSet(PassedIn(a, clock)) /\ Cardinality(PassedIn(a, clock)) \in Nat
      BY <3>1, FS_Subset, FS_CardinalityType
    <3>3. /\ Cardinality(PassedIn(a, now)') <= Cardinality(PassedIn(a, clock))
          /\ Cardinality(PassedIn(a, now)') \in Nat
      BY <2>3, <3>2, FS_Subset, FS_CardinalityType
    <3>4. Cardinality(PassedIn(a, clock)) <= Limit
      BY <1>1 DEF LimiterInv, LimitIsExact
    <3>5. QED
      BY <2>1, <3>2, <3>3, <3>4
  <2>5. \A t \in 0 .. clock' : t \in 0 .. clock \/ t = now
    BY <1>1, <1>3
  <2>6. \A t \in 0 .. clock : Cardinality(PassedIn(a, t)) <= Limit
    BY DEF LimiterInv, LimitIsExact
  <2>7. \A f \in refusals : f.addr = a => f.at \in 0 .. clock /\ Cardinality(PassedIn(a, f.at)) >= Limit
    BY DEF LimiterInv, LimitIsExact
  <2>8. \A t \in 0 .. clock' : Cardinality(PassedIn(a, t)') <= Limit
    BY <2>2, <2>4, <2>5, <2>6
  <2>9. QED
    BY <2>2, <2>7, <2>8
<1>4. LimitIsExact'
  BY <1>1, <1>7 DEF LimitIsExact
<1>5. \A f \in refusals' : f.addr \in Addresses /\ f.at \in 0 .. clock'
  BY <1>1 DEF LimiterInv
<1>6. QED
  BY <1>1, <1>2, <1>4, <1>5 DEF LimiterInv

LEMMA LimiterInitially == SpeechInit => LimiterInv
<1> SUFFICES ASSUME SpeechInit PROVE LimiterInv
  OBVIOUS
<1>1. clock = 0 /\ refusals = {} /\ clock \in 0 .. LastTick
  BY SpeechAssumption DEF SpeechInit
<1>2. ASSUME NEW a \in Addresses
      PROVE  recent[a] = <<>> /\ passed[a] = <<>> /\ Len(passed[a]) = 0 /\ DOMAIN passed[a] = {}
  BY DEF SpeechInit
<1>3. ASSUME NEW a \in Addresses PROVE SliceIsLatest(a)
  <2>1. 0 \in 0 .. Len(passed[a]) /\ Len(recent[a]) = 0 /\ 1 .. 0 = {}
    BY <1>2
  <2>2. LatestOf(a, 0)
    BY <1>2, <2>1 DEF LatestOf
  <2>3. QED
    BY <1>2, <2>1, <2>2, SpeechAssumption DEF SliceIsLatest
<1>4. LimitIsExact
  <2>1. ASSUME NEW a \in Addresses, NEW t \in 0 .. clock PROVE Cardinality(PassedIn(a, t)) <= Limit
    <3>1. PassedIn(a, t) = {}
      BY <1>2 DEF PassedIn
    <3>2. QED
      BY <3>1, FS_EmptySet, SpeechAssumption
  <2>2. QED
    BY <1>1, <2>1 DEF LimitIsExact
<1>5. recent \in [Addresses -> Seq(Nat)] /\ passed \in [Addresses -> Seq(Nat)]
  BY DEF SpeechInit
<1>6. QED
  BY <1>1, <1>3, <1>4, <1>5 DEF LimiterInv

LEMMA LimiterStep == ASSUME LimiterInv, [SpeechNext]_speechVars PROVE LimiterInv'
<1>1. ASSUME UNCHANGED <<clock, recent, passed, refusals>> PROVE LimiterInv'
  <2>1. ASSUME NEW a \in Addresses, NEW d PROVE LatestOf(a, d)' <=> LatestOf(a, d)
    BY <1>1 DEF LatestOf, InWindow
  <2>2. ASSUME NEW a \in Addresses PROVE SliceIsLatest(a)'
    <3>1. SliceIsLatest(a)
      BY DEF LimiterInv
    <3>2. QED
      BY <1>1, <2>1, <3>1 DEF SliceIsLatest
  <2>3. LimitIsExact'
    BY <1>1 DEF LimiterInv, LimitIsExact, PassedIn
  <2>4. QED
    BY <1>1, <2>2, <2>3 DEF LimiterInv
<1>2. ASSUME NEW l \in Listeners, Find(l) \/ Speak(l) \/ Keep(l) PROVE LimiterInv'
  BY <1>1, <1>2 DEF Find, Speak, Keep
<1>3. CASE UNCHANGED speechVars
  BY <1>1, <1>3 DEF speechVars
<1>4. QED
  BY <1>2, <1>3, AdmitLimiter, RefuseLimiter, TickLimiter DEF SpeechNext

LEMMA LimiterInvariant == SpeechSpec => []LimiterInv
  BY LimiterInitially, LimiterStep, PTL DEF SpeechSpec

(***************************************************************************)
(* For any limit and window and any requests: no window has more requests  *)
(* of an address than the limit, and none is refused before it has as      *)
(* many.                                                                   *)
(***************************************************************************)
THEOREM ExactLimit == SpeechSpec => []LimitIsExact
<1>1. LimiterInv => LimitIsExact
  BY DEF LimiterInv
<1>2. QED
  BY <1>1, LimiterInvariant, PTL

(***************************************************************************)
(* The types of the limiter and of the audio cache.                        *)
(***************************************************************************)
THEOREM SpeechTypes == SpeechSpec => []SpeechTypeOK
<1>1. ASSUME LimiterInv, SpeechInv PROVE SpeechTypeOK
  <2>1. ASSUME NEW a \in Addresses PROVE recent[a] \in Seq(0 .. LastTick)
    <3>1. PICK d \in 0 .. Len(passed[a]) : LatestOf(a, d)
      BY <1>1 DEF LimiterInv, SliceIsLatest
    <3>2. /\ Len(passed[a]) \in Nat /\ \A i \in 1 .. Len(passed[a]) : passed[a][i] \in Nat
          /\ Len(recent[a]) \in Nat /\ recent[a] \in Seq(Nat) /\ clock \in 0 .. LastTick
          /\ Len(recent[a]) = Len(passed[a]) - d
      BY <1>1, <3>1, PassedTypes DEF LatestOf, LimiterInv
    <3>3. ASSUME NEW j \in 1 .. Len(recent[a]) PROVE recent[a][j] \in 0 .. LastTick
      <4>1. d + j \in 1 .. Len(passed[a])
        BY <3>2
      <4>2. recent[a][j] = passed[a][d + j] /\ passed[a][d + j] <= clock /\ passed[a][d + j] \in Nat
        BY <1>1, <3>1, <3>2, <4>1 DEF LatestOf, LimiterInv, SliceIsLatest
      <4>3. QED
        BY <3>2, <4>2, SpeechAssumption
    <3>4. recent[a] \in [1 .. Len(recent[a]) -> 0 .. LastTick]
      BY <3>2, <3>3, LenProperties
    <3>5. QED
      <4>1. Seq(0 .. LastTick) = UNION {[1 .. n -> 0 .. LastTick] : n \in Nat}
        BY SeqDef
      <4>2. QED
        BY <3>2, <3>4, <4>1
  <2>2. spoken \subseteq Texts
    BY <1>1, LenProperties DEF SpeechInv, EvictionOrderIsExact, ToSet
  <2>3. QED
    BY <1>1, <2>1, <2>2 DEF SpeechTypeOK, SpeechInv, LimiterInv
<1>2. SpeechSpec => []SpeechInv
  BY SpeechInitially, SpeechStep, PTL DEF SpeechSpec
<1>3. QED
  BY <1>1, <1>2, LimiterInvariant, PTL

-------------------------------------------------------------------------------
(* MigrationRunner.                                                          *)

\* The first n files are in the schema, the first m recorded, and no run is ahead of that.
Progress(n, m) ==
  /\ m \in {n, n - 1}
  /\ applied = 1 .. n /\ recorded = 1 .. m
  /\ \A p \in Runs :
       /\ doing[p] = "unstarted" => file[p] = 1
       /\ doing[p] \in {"check", "apply"} => file[p] <= m + 1 /\ file[p] <= Files
       /\ doing[p] = "record" => file[p] <= n

MigrationInv == MigrationTypeOK /\ \E n, m \in 0 .. Files : Progress(n, m)

LEMMA MigrationInitially == MigrationInit => MigrationInv
<1> SUFFICES ASSUME MigrationInit PROVE MigrationInv
  OBVIOUS
<1>1. MigrationTypeOK
  BY MigrationAssumption DEF MigrationInit, MigrationTypeOK
<1>2. Progress(0, 0)
  BY MigrationAssumption DEF MigrationInit, Progress
<1>3. QED
  BY <1>1, <1>2, MigrationAssumption DEF MigrationInv

LEMMA MigrationStep == ASSUME MigrationInv, [MigrationNext]_migrationVars PROVE MigrationInv'
<1> USE MigrationAssumption
<1>1. PICK n \in 0 .. Files, m \in 0 .. Files : Progress(n, m)
  BY DEF MigrationInv
<1>2. /\ file \in [Runs -> 1 .. Files + 1]
      /\ doing \in [Runs -> {"unstarted", "check", "apply", "record", "finished", "fatal", "dead"}]
      /\ n \in Nat /\ m \in Nat /\ n <= Files /\ m <= Files /\ Files \in Nat
  BY DEF MigrationInv, MigrationTypeOK
<1>3. ASSUME NEW i \in 0 .. Files, NEW j \in 0 .. Files, Progress(i, j)',
             file' \in [Runs -> 1 .. Files + 1],
             doing' \in [Runs -> {"unstarted", "check", "apply", "record", "finished", "fatal", "dead"}]
      PROVE  MigrationInv'
  <2>1. MigrationTypeOK'
    BY <1>3 DEF MigrationTypeOK, Progress
  <2>2. QED
    BY <1>3, <2>1 DEF MigrationInv
<1>4. ASSUME NEW p \in Runs, Launch(p) \/ Die(p) \/ ApplyRefused(p) PROVE MigrationInv'
  <2>1. Progress(n, m)'
    BY <1>1, <1>2, <1>4 DEF Launch, Die, ApplyRefused, Become, Progress
  <2>2. QED
    BY <1>2, <1>3, <1>4, <2>1 DEF Launch, Die, ApplyRefused, Become
<1>5. ASSUME NEW p \in Runs, Check(p) PROVE MigrationInv'
  <2>1. file[p] <= Files /\ (file[p] \in recorded => file[p] <= m)
    BY <1>1, <1>5 DEF Check, Progress
  <2>2. Progress(n, m)'
    BY <1>1, <1>2, <1>5, <2>1 DEF Check, Advance, Become, Progress
  <2>3. QED
    BY <1>2, <1>3, <1>5, <2>1, <2>2 DEF Check, Advance, Become
<1>6. ASSUME NEW p \in Runs, Apply(p) PROVE MigrationInv'
  <2>1. file[p] <= Files /\ file[p] <= m + 1 /\ file[p] \in 1 .. Files + 1
    BY <1>1, <1>2, <1>6 DEF Apply, Progress
  <2>2. CASE file[p] <= n
    <3>1. applied' = 1 .. n
      BY <1>1, <1>2, <1>6, <2>1, <2>2 DEF Apply, Progress
    <3>2. Progress(n, m)'
      BY <1>1, <1>2, <1>6, <2>2, <3>1 DEF Apply, Become, Progress
    <3>3. QED
      BY <1>2, <1>3, <1>6, <3>2 DEF Apply, Become
  <2>3. CASE file[p] > n
    <3>1. m = n /\ file[p] = n + 1 /\ n + 1 \in 0 .. Files
      BY <1>1, <1>2, <2>1, <2>3 DEF Progress
    <3>2. applied' = 1 .. n + 1
      BY <1>1, <1>2, <1>6, <3>1 DEF Apply, Progress
    <3>3. Progress(n + 1, m)'
      BY <1>1, <1>2, <1>6, <3>1, <3>2 DEF Apply, Become, Progress
    <3>4. QED
      BY <1>2, <1>3, <1>6, <3>1, <3>3 DEF Apply, Become
  <2>4. QED
    BY <1>2, <2>1, <2>2, <2>3
<1>7. ASSUME NEW p \in Runs, Record(p) PROVE MigrationInv'
  <2>1. file[p] <= n /\ file[p] \in 1 .. Files + 1
    BY <1>1, <1>2, <1>7 DEF Record, Progress
  <2>2. CASE file[p] \in recorded
    <3>1. Progress(n, m)'
      BY <1>1, <1>2, <1>7, <2>2 DEF Record, Become, Progress
    <3>2. QED
      BY <1>2, <1>3, <1>7, <2>2, <3>1 DEF Record, Become
  <2>3. CASE file[p] \notin recorded
    <3>1. m = n - 1 /\ file[p] = n
      BY <1>1, <1>2, <2>1, <2>3 DEF Progress
    <3>2. recorded' = 1 .. n
      <4>1. recorded' = (1 .. n - 1) \cup {n} /\ n >= 1
        BY <1>1, <1>2, <1>7, <2>1, <2>3, <3>1 DEF Record, Progress
      <4>2. QED
        BY <1>2, <4>1
    <3>3. Progress(n, n)'
      BY <1>1, <1>2, <1>7, <2>3, <3>1, <3>2 DEF Record, Advance, Become, Progress
    <3>4. QED
      BY <1>2, <1>3, <1>7, <2>1, <2>3, <3>3 DEF Record, Advance, Become
  <2>4. QED
    BY <2>2, <2>3
<1>8. CASE UNCHANGED migrationVars
  BY <1>8 DEF migrationVars, MigrationInv, MigrationTypeOK, Progress
<1>9. QED
  BY <1>4, <1>5, <1>6, <1>7, <1>8 DEF MigrationNext

(***************************************************************************)
(* However many runs of the migration command overlap, and wherever they   *)
(* die, the schema has the files up to some point and schema_migrations    *)
(* the same or all but the last of them.                                   *)
(***************************************************************************)
THEOREM OrderedSchema == MigrationSpec => []SchemaIsPrefix
<1>1. MigrationInv => SchemaIsPrefix
  BY DEF MigrationInv, Progress, SchemaIsPrefix
<1>2. QED
  BY <1>1, MigrationInitially, MigrationStep, PTL DEF MigrationSpec

-------------------------------------------------------------------------------
(* The parts together.                                                       *)

(***************************************************************************)
(* A behaviour of the server is one of each part: they share no state, so  *)
(* what is proved of a part holds beside the others.                       *)
(***************************************************************************)
THEOREM PartsRunBesideEachOther ==
  BackOfficeSpec => /\ CatalogSpec /\ SessionSpec /\ AccountSpec
                    /\ RosterSpec /\ SpeechSpec /\ MigrationSpec
<1>1. BackOfficeInit => /\ CatalogInit /\ SessionInit /\ AccountInit
                        /\ RosterInit /\ SpeechInit /\ MigrationInit
  BY DEF BackOfficeInit
<1>2. [BackOfficeNext]_<<part, otherVars>> =>
        /\ [CatalogNext]_catalogVars /\ [SessionNext]_sessionVars /\ [AccountNext]_accountVars
        /\ [RosterNext]_rosterVars /\ [SpeechNext]_speechVars /\ [MigrationNext]_migrationVars
  BY DEF BackOfficeNext, otherVars
<1>3. QED
  BY <1>1, <1>2, PTL DEF BackOfficeSpec, CatalogSpec, SessionSpec, AccountSpec, RosterSpec, SpeechSpec,
                         MigrationSpec

(***************************************************************************)
(* Every part stays well typed, whatever the others do: the counters, the  *)
(* limiter, the cache and the rest, for any sizes of them.                 *)
(***************************************************************************)
THEOREM BackOfficeTypes == BackOfficeSpec => []BackOfficeTypeOK
<1>1. CatalogSpec => []CatalogTypeOK
  BY CatalogInvariant, PTL DEF CatalogInv
<1>2. SessionSpec => []SessionTypeOK
  <2>1. SessionInv => SessionTypeOK
    BY DEF SessionInv
  <2>2. QED
    BY <2>1, SessionInitially, SessionStep, PTL DEF SessionSpec
<1>3. AccountSpec => []AccountTypeOK
  <2>1. AccountInv => AccountTypeOK
    BY DEF AccountInv
  <2>2. QED
    BY <2>1, AccountInitially, AccountStep, PTL DEF AccountSpec
<1>4. MigrationSpec => []MigrationTypeOK
  <2>1. MigrationInv => MigrationTypeOK
    BY DEF MigrationInv
  <2>2. QED
    BY <2>1, MigrationInitially, MigrationStep, PTL DEF MigrationSpec
<1>5. CatalogTypeOK /\ SessionTypeOK /\ AccountTypeOK /\ RosterTypeOK /\ SpeechTypeOK /\ MigrationTypeOK
        => BackOfficeTypeOK
  BY DEF BackOfficeTypeOK
<1>6. QED
  BY <1>1, <1>2, <1>3, <1>4, <1>5, PartsRunBesideEachOther, RosterTypes, SpeechTypes, PTL

===============================================================================
