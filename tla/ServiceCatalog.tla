---------------------------- MODULE ServiceCatalog ----------------------------
(***************************************************************************)
(* The services an admin keeps (service.ServiceService and                 *)
(* repository.ServiceRepository), the list of them that kiosks poll, and   *)
(* the tickets that refer to them by key, with no foreign key between.     *)
(*                                                                         *)
(* Every statement is one step.  Delete looks the service up, counts its   *)
(* tickets and deletes it in three statements; a ticket is issued in two,  *)
(* the lookup of the active service and the INSERT.  A mutation that       *)
(* succeeds invalidates the list cache last; a list that misses it fetches *)
(* and stores in separate steps.                                           *)
(*                                                                         *)
(* A row is reduced to its is_active and one other column; inputs refused  *)
(* before the first statement are left out.                                *)
(***************************************************************************)
EXTENDS FiniteSets

CONSTANTS
  Services,   \* keys
  Labels,     \* values of the columns that are not is_active
  Calls,      \* HTTP requests
  NoRow, NoList, NoCall

VARIABLES
  catalog,    \* the services table
  issued,     \* the requests that inserted a ticket
  listCache,  \* ServiceService.listCache, by activeOnly
  step,       \* the statement each request is at
  request,    \* what it was asked for, until it is over unless that was a ticket
  loaded,     \* what a list fetched
  raced,      \* history: tickets inserted while their service was being, or had been, removed
  behind,     \* history: lists whose fetch an Invalidate has followed
  storedLate, \* history: cached lists stored by such requests
  unannounced \* history: a change is followed by no Invalidate, its request having failed

catalogVars == <<catalog, issued, listCache, step, request, loaded,
                 raced, behind, storedLate, unannounced>>

Row == [active : BOOLEAN, label : Labels]

Patch == [column : {"active"}, to : BOOLEAN] \cup [column : {"label"}, to : Labels]

Request ==
  [op : {"create"}, svc : Services, row : Row]
    \cup [op : {"update"}, svc : Services, patch : Patch]
    \cup [op : {"delete", "issue"}, svc : Services]
    \cup [op : {"list"}, activeOnly : BOOLEAN]

ASSUME CatalogAssumption == NoRow \notin Row /\ NoCall \notin Request

\* repository.List.
Listed(activeOnly) ==
  {<<s, catalog[s]>> : s \in {x \in Services : /\ catalog[x] # NoRow
                                               /\ activeOnly => catalog[x].active}}

Running == {"lookup", "count", "write", "get", "invalidate", "cache", "fetch", "store"}

CatalogTypeOK ==
  /\ catalog \in [Services -> Row \cup {NoRow}]
  /\ issued \subseteq Calls
  /\ listCache \in [BOOLEAN -> {NoList} \cup SUBSET (Services \X Row)]
  /\ step \in [Calls -> {"new", "over"} \cup Running]
  /\ request \in [Calls -> Request \cup {NoCall}]
  /\ loaded \in [Calls -> {NoList} \cup SUBSET (Services \X Row)]

\* Any catalog, of which no ticket has been issued.
CatalogInit ==
  /\ catalog \in [Services -> Row \cup {NoRow}]
  /\ issued = {}
  /\ listCache = [activeOnly \in BOOLEAN |-> NoList]
  /\ step = [r \in Calls |-> "new"]
  /\ request = [r \in Calls |-> NoCall]
  /\ loaded = [r \in Calls |-> NoList]
  /\ raced = {} /\ behind = {} /\ storedLate = {} /\ unannounced = FALSE

Move(r, l) ==
  /\ step' = [step EXCEPT ![r] = l]
  /\ request' = IF l = "over" /\ request[r].op # "issue" THEN [request EXCEPT ![r] = NoCall] ELSE request

Is(r, l, op) == step[r] = l /\ request[r].op = op

Receive(r, q) ==
  /\ step[r] = "new"
  /\ request' = [request EXCEPT ![r] = q]
  /\ step' = [step EXCEPT ![r] = CASE q.op = "list" -> "cache" [] q.op = "create" -> "write" [] OTHER -> "lookup"]
  /\ UNCHANGED <<catalog, issued, listCache, loaded, raced, behind, storedLate, unannounced>>

-------------------------------------------------------------------------------
(* Mutations.                                                                *)

FindUncounted(r) ==
  /\ step[r] = "lookup"
  /\ LET s == request[r].svc
         found == catalog[s] # NoRow /\ (request[r].op = "issue" => catalog[s].active) IN
       Move(r, IF found THEN "write" ELSE "over")
  /\ UNCHANGED <<catalog, issued, listCache, loaded, raced, behind, storedLate, unannounced>>

\* Get(key) of Update and Delete; SELECT code ... AND is_active of a ticket.
FindService(r) ==
  /\ step[r] = "lookup"
  /\ LET s == request[r].svc
         found == catalog[s] # NoRow /\ (request[r].op = "issue" => catalog[s].active) IN
       Move(r, IF ~found THEN "over" ELSE IF request[r].op = "delete" THEN "count" ELSE "write")
  /\ UNCHANGED <<catalog, issued, listCache, loaded, raced, behind, storedLate, unannounced>>

\* SELECT COUNT(*) FROM queues WHERE service_type = key: a conflict unless it is 0.
CountTickets(r) ==
  /\ step[r] = "count"
  /\ Move(r, IF \E q \in issued : request[q].svc = request[r].svc THEN "over" ELSE "write")
  /\ UNCHANGED <<catalog, issued, listCache, loaded, raced, behind, storedLate, unannounced>>

\* INSERT INTO services; the key may be taken, and so may the code.
InsertService(r) ==
  /\ Is(r, "write", "create")
  /\ \/ /\ catalog[request[r].svc] = NoRow
        /\ catalog' = [catalog EXCEPT ![request[r].svc] = request[r].row]
        /\ Move(r, "get")
     \/ UNCHANGED catalog /\ Move(r, "over")
  /\ UNCHANGED <<issued, listCache, loaded, raced, behind, storedLate, unannounced>>

\* UPDATE services SET the columns given WHERE key: none is affected when the service has gone.
UpdateService(r) ==
  /\ Is(r, "write", "update")
  /\ LET s == request[r].svc
         p == request[r].patch IN
       catalog' = IF catalog[s] = NoRow THEN catalog
                  ELSE [catalog EXCEPT ![s] = IF p.column = "active" THEN [@ EXCEPT !.active = p.to]
                                              ELSE [@ EXCEPT !.label = p.to]]
  /\ Move(r, "get")
  /\ UNCHANGED <<issued, listCache, loaded, raced, behind, storedLate, unannounced>>

\* DELETE FROM services WHERE key.  Its acknowledgement may be lost.
DeleteService(r) ==
  /\ Is(r, "write", "delete")
  /\ catalog' = [catalog EXCEPT ![request[r].svc] = NoRow]
  /\ raced' = raced \cup {q \in Calls : Is(q, "write", "issue") /\ request[q].svc = request[r].svc}
  /\ \/ Move(r, "invalidate") /\ UNCHANGED unannounced
     \/ Move(r, "over") /\ unannounced' = TRUE
  /\ UNCHANGED <<issued, listCache, loaded, behind, storedLate>>

\* Get(key): the answer, which another request may have deleted; then there is no Invalidate.
GetAnswer(r) ==
  /\ step[r] = "get"
  /\ LET found == catalog[request[r].svc] # NoRow IN
       /\ Move(r, IF found THEN "invalidate" ELSE "over")
       /\ unannounced' = (unannounced \/ ~found)
  /\ UNCHANGED <<catalog, issued, listCache, loaded, raced, behind, storedLate>>

InvalidateActiveOnly(r) ==
  /\ step[r] = "invalidate"
  /\ listCache' = [listCache EXCEPT ![TRUE] = NoList]
  /\ behind' = behind \cup {q \in Calls : step[q] = "store"}
  /\ storedLate' = {} /\ unannounced' = FALSE
  /\ Move(r, "over")
  /\ UNCHANGED <<catalog, issued, loaded, raced>>

\* listCache.Invalidate().
InvalidateList(r) ==
  /\ step[r] = "invalidate"
  /\ listCache' = [activeOnly \in BOOLEAN |-> NoList]
  /\ behind' = behind \cup {q \in Calls : step[q] = "store"}
  /\ storedLate' = {} /\ unannounced' = FALSE
  /\ Move(r, "over")
  /\ UNCHANGED <<catalog, issued, loaded, raced>>

\* INSERT INTO queues, whose service_type refers to nothing.
InsertTicket(r) ==
  /\ Is(r, "write", "issue")
  /\ issued' = issued \cup {r}
  /\ raced' = IF \E q \in Calls : Is(q, "write", "delete") /\ request[q].svc = request[r].svc
              THEN raced \cup {r} ELSE raced
  /\ Move(r, "over")
  /\ UNCHANGED <<catalog, listCache, loaded, behind, storedLate, unannounced>>

-------------------------------------------------------------------------------
(* List, and failures.                                                       *)

CachedList(r) ==
  /\ step[r] = "cache"
  /\ Move(r, IF listCache[request[r].activeOnly] # NoList THEN "over" ELSE "fetch")
  /\ UNCHANGED <<catalog, issued, listCache, loaded, raced, behind, storedLate, unannounced>>

FetchList(r) ==
  /\ step[r] = "fetch"
  /\ loaded' = [loaded EXCEPT ![r] = Listed(request[r].activeOnly)]
  /\ Move(r, "store")
  /\ UNCHANGED <<catalog, issued, listCache, raced, behind, storedLate, unannounced>>

\* listCache.Set(key, v).
StoreList(r) ==
  /\ step[r] = "store"
  /\ LET key == request[r].activeOnly IN
       /\ listCache' = [listCache EXCEPT ![key] = loaded[r]]
       /\ storedLate' = IF r \in behind THEN storedLate \cup {key} ELSE storedLate \ {key}
  /\ loaded' = [loaded EXCEPT ![r] = NoList]
  /\ behind' = behind \ {r}
  /\ Move(r, "over")
  /\ UNCHANGED <<catalog, issued, raced, unannounced>>

\* A statement fails, or its caller has left.
StatementFails(r) ==
  /\ step[r] \in {"lookup", "count", "write", "get", "fetch"}
  /\ unannounced' = (unannounced \/ step[r] = "get")
  /\ Move(r, "over")
  /\ UNCHANGED <<catalog, issued, listCache, loaded, raced, behind, storedLate>>

CatalogNext ==
  \E r \in Calls :
    \/ \E q \in Request : Receive(r, q)
    \/ FindService(r) \/ CountTickets(r) \/ InsertService(r) \/ UpdateService(r)
    \/ DeleteService(r) \/ GetAnswer(r) \/ InvalidateList(r) \/ InsertTicket(r)
    \/ CachedList(r) \/ FetchList(r) \/ StoreList(r) \/ StatementFails(r)

CatalogSpec == CatalogInit /\ [][CatalogNext]_catalogVars

-------------------------------------------------------------------------------
(* Properties.                                                               *)

(***************************************************************************)
(* A ticket is left without its service only when it was inserted after    *)
(* the deleting request had counted: the count protects every ticket that  *)
(* was there, although it and the DELETE are separate statements and other *)
(* requests delete and create the service meanwhile.                       *)
(***************************************************************************)
OrphansOnlyByRace ==
  \A r \in issued : catalog[request[r].svc] = NoRow => r \in raced

(***************************************************************************)
(* A cached list differs from the table only while a change is on its way  *)
(* to Invalidate, or after one failed on that way, or when a list was      *)
(* stored that had been fetched before an Invalidate.                      *)
(***************************************************************************)
CatalogStaleIsExplained ==
  \A key \in BOOLEAN :
    listCache[key] \notin {NoList, Listed(key)}
      => \/ unannounced \/ key \in storedLate
         \/ \E r \in Calls : step[r] \in {"get", "invalidate"}

===============================================================================
