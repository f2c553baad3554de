----------------------------- MODULE TicketReports -----------------------------
(***************************************************************************)
(* Reports over the tickets (service.ReportService and                     *)
(* repository.ReportRepository), read while the tickets change.            *)
(*                                                                         *)
(* A report is eight queries, one after the other and outside of any       *)
(* transaction; the Excel export adds the first page of the survey         *)
(* answers.  A page of these is a count and a query with LIMIT and OFFSET, *)
(* and a client that wants them all asks for page after page.  Each query  *)
(* sees the tickets as they are when it runs, those that match the filter. *)
(*                                                                         *)
(* A ticket is reduced to its status, its staff, its survey answer, which  *)
(* another may replace at any time, and the order of the tickets in        *)
(* created_at and completed_at.  What a query counts or averages is        *)
(* represented by the tickets it does so for, those outside the filter's   *)
(* period and service being left out.                                      *)
(***************************************************************************)
EXTENDS Integers, FiniteSets

CONSTANTS
  MaxTickets,            \* bound on the tickets created
  MaxCompletions,        \* bound on the UPDATEs that complete tickets
  Guests,                \* those that carry a guest's name
  Officers,              \* users who call tickets
  Surveys,               \* the answers visitors give
  Unset,                 \* NULL in a column; no filter on a column
  Filters,               \* the filters that clients ask for
  MaxSize, DefaultSize,  \* 200 and 25 survey answers a page
  MaxRows                \* rows of each of the other lists, 200 or 500

Issued == 1 .. MaxTickets

ASSUME ReportAssumption ==
  /\ MaxTickets \in Nat /\ MaxCompletions \in Nat /\ Guests \subseteq Issued
  /\ Surveys \subseteq [rating : 1 .. 5, issue : BOOLEAN]
  /\ Filters \subseteq [officer : Officers \cup {Unset}, rating : 1 .. 5 \cup {Unset}] /\ Unset \notin Filters
  /\ MaxSize \in Nat \ {0} /\ DefaultSize \in 1 .. MaxSize /\ MaxRows \in Nat \ {0}

VARIABLES
  state,      \* the status of each ticket
  officer,    \* its user_id
  survey,     \* its rating and issue_category
  started,    \* how many UPDATEs have started that complete a ticket
  ended,      \* which of them completes each ticket: the order of completed_at, 0 for NULL
  query,      \* the statement that the reader runs next
  filter,     \* its filter, until it has its answer
  headline,   \* what the Summary of its report counted
  page,       \* the page it asks for: its number, size and total
  unread,     \* history: the answers that were there when it began, less those it has got
  slipped,    \* history: an answer has come since the count of the page it asks for
  withdrawn,  \* history: tickets that have left its filter since it began
  shifted     \* history: one of these left a page it had been given

tickets == <<state, officer, survey, started, ended>>
reading == <<query, filter, headline, page, unread, slipped, withdrawn, shifted>>
reportVars == <<tickets, reading>>

Rated == {t \in Issued : survey[t] # Unset}

Desk == INSTANCE TicketLifecycle
           WITH Tickets <- Issued, Requests <- {}, NoTicket <- 0,
                status <- state, rated <- Rated, called <- <<>>

Queries == {"summary", "byService", "trend", "staff", "issues", "complaints", "guestBook", "skipped"}

Headline == [total : SUBSET Issued, completed : SUBSET Issued, rated : SUBSET Issued]

NoHeadline == [total |-> {}, completed |-> {}, rated |-> {}]

NoPage == [number |-> 1, size |-> DefaultSize, total |-> 0]

ReportTypeOK ==
  /\ state \in [Issued -> Desk!Statuses]
  /\ officer \in [Issued -> Officers \cup {Unset}]
  /\ survey \in [Issued -> Surveys \cup {Unset}]
  /\ started \in 0 .. MaxCompletions /\ ended \in [Issued -> 0 .. started]
  /\ \A t, u \in Issued : ended[t] = ended[u] => t = u \/ ended[t] = 0
  /\ \A t \in Issued : state[t] = "completed" => ended[t] # 0
  /\ \A t \in Rated : state[t] = "completed"
  /\ query \in Queries \cup {"none", "count", "rows", "exportCount", "exportRows"}
  /\ filter \in Filters \cup {Unset} /\ (filter = Unset <=> query = "none")
  /\ headline \in Headline
  /\ page \in [number : 1 .. MaxTickets + 1, size : 1 .. MaxSize, total : 0 .. MaxTickets]
  /\ unread \subseteq Issued /\ slipped \in BOOLEAN
  /\ withdrawn \subseteq Issued /\ shifted \in BOOLEAN

\* A day that begins, and a reader who has asked for nothing.
ReportInit ==
  /\ state = [t \in Issued |-> "absent"]
  /\ officer = [t \in Issued |-> Unset]
  /\ survey = [t \in Issued |-> Unset]
  /\ started = 0 /\ ended = [t \in Issued |-> 0]
  /\ query = "none" /\ filter = Unset
  /\ headline = NoHeadline /\ page = NoPage
  /\ unread = {} /\ slipped = FALSE /\ withdrawn = {} /\ shifted = FALSE

-------------------------------------------------------------------------------
(* The queries.                                                              *)

\* ReportFilter.Where.
Where(t) ==
  /\ state[t] # "absent"
  /\ filter.officer # Unset => officer[t] = filter.officer
  /\ filter.rating # Unset => survey[t] # Unset /\ survey[t].rating = filter.rating

Counted == {t \in Issued : Where(t)}

Completed == {t \in Counted : state[t] = "completed"}

Answered == {t \in Counted : survey[t] # Unset}

\* ByService and Trend count the same tickets in groups; Staff joins their users.
Served == {t \in Completed : officer[t] # Unset}

Complained == {t \in Answered : survey[t].issue}

\* Those of a set of numbers with fewer than n greater ones in it: the first n from the greatest down.
Top(numbers, n) == {i \in numbers : Cardinality({j \in numbers : j > i}) < n}

Places(rows) == {ended[t] : t \in rows}

\* The first rows of a list in the order of completed_at DESC.
Newest(rows, limit) == {t \in rows : ended[t] \in Top(Places(rows), limit)}

Complaints == Newest({t \in Answered : survey[t].rating <= 3}, MaxRows)

\* The first rows of a list in the order of created_at DESC.
Latest(rows) == Top(rows, MaxRows)

GuestBook == Latest(Counted \cap Guests)

Skipped == Latest({t \in Counted : state[t] = "skipped"})

\* OFFSET number * size.
RowsFromTheNextPage(number, size) == Newest(Answered, (number + 1) * size) \ Newest(Answered, number * size)

\* SKMDetail: LIMIT size OFFSET (number - 1) * size.
Rows(number, size) == Newest(Answered, number * size) \ Newest(Answered, (number - 1) * size)

-------------------------------------------------------------------------------
(* A report and an export.                                                   *)

BeginReport(f) ==
  /\ query = "none"
  /\ query' = "summary"
  /\ filter' = f
  /\ UNCHANGED <<tickets, headline, page, unread, slipped, withdrawn, shifted>>

\* Summary, the first query.
Summary ==
  /\ query = "summary"
  /\ headline' = [total |-> Counted, completed |-> Completed, rated |-> Answered]
  /\ query' = "byService"
  /\ UNCHANGED <<tickets, filter, page, unread, slipped, withdrawn, shifted>>

\* What follows a query; after the last one of a report an export goes on.
After(q) ==
  CASE q = "byService" -> {"trend"}
    [] q = "trend" -> {"staff"}
    [] q = "staff" -> {"issues"}
    [] q = "issues" -> {"complaints"}
    [] q = "complaints" -> {"guestBook"}
    [] q = "guestBook" -> {"skipped"}
    [] q = "skipped" -> {"none", "exportCount"}
    [] q = "exportCount" -> {"exportRows"}
    [] q = "exportRows" -> {"none"}
    [] OTHER -> {}

\* A query that succeeds and is not the last.
RunQuery ==
  /\ query' \in After(query) \ {"none"}
  /\ UNCHANGED <<tickets, filter, headline, page, unread, slipped, withdrawn, shifted>>

\* The reader has its answer, or gives up.
EndReading ==
  /\ query' = "none" /\ filter' = Unset
  /\ headline' = NoHeadline /\ page' = NoPage
  /\ unread' = {} /\ slipped' = FALSE /\ withdrawn' = {} /\ shifted' = FALSE
  /\ UNCHANGED tickets

\* The last query; the answer is put together from all of them.
AnswerReport == "none" \in After(query) /\ EndReading

-------------------------------------------------------------------------------
(* Pages of survey answers.                                                  *)

SizeBelowMaximum(asked) == IF asked <= 0 \/ asked >= MaxSize THEN DefaultSize ELSE asked

SizeOf(asked) == IF asked <= 0 \/ asked > MaxSize THEN DefaultSize ELSE asked

\* A client that will read all pages asks for the first.
BeginPages(f, asked) ==
  /\ query = "none"
  /\ query' = "count"
  /\ filter' = f
  /\ page' = [NoPage EXCEPT !.size = SizeOf(asked)]
  /\ UNCHANGED <<tickets, headline, slipped, withdrawn, shifted>>
  /\ unread' = Answered'

\* SKMDetailCount.
CountAnswers ==
  /\ query = "count"
  /\ page' = [page EXCEPT !.total = Cardinality(Answered)]
  /\ query' = "rows"
  /\ UNCHANGED <<tickets, filter, headline, unread, slipped, withdrawn, shifted>>

LastPage == page.number * page.size >= page.total

\* SKMDetail; there is a next page to ask for unless this was the last.
FetchAnswers ==
  /\ query = "rows" /\ ~LastPage
  /\ unread' = unread \ Rows(page.number, page.size)
  /\ page' = [page EXCEPT !.number = @ + 1]
  /\ query' = "count"
  /\ slipped' = FALSE
  /\ UNCHANGED <<tickets, filter, headline, withdrawn, shifted>>

FetchLastAnswers == query = "rows" /\ LastPage /\ EndReading

\* A statement fails, or the client has left.
ReadFails == query # "none" /\ EndReading

-------------------------------------------------------------------------------
(* The tickets meanwhile.                                                    *)

CreateTicket(t) ==
  /\ \A u \in Issued : u < t => state[u] # "absent"
  /\ UNCHANGED <<officer, survey, started, ended, reading>>
  /\ Desk!Arrive(t)

\* CallNext writes the caller.
CallTicket(t, u) ==
  /\ Desk!Move(t, {"waiting"}, "calling")
  /\ officer' = [officer EXCEPT ![t] = u]
  /\ UNCHANGED <<survey, started, ended, reading>>

\* completed_at is the start of the UPDATE, which may wait; of several on a ticket one has effect.
BeginCompletion(t) ==
  /\ state[t] \in {"calling", "serving"}
  /\ started < MaxCompletions
  /\ started' = started + 1
  /\ ended' = [ended EXCEPT ![t] = started + 1]
  /\ UNCHANGED <<state, officer, survey, reading>>

CompleteTicket(t) ==
  /\ ended[t] # 0
  /\ UNCHANGED <<officer, survey, started, ended, reading>>
  /\ Desk!Complete(t)

SkipTicket(t) == UNCHANGED <<officer, survey, started, ended, reading>> /\ Desk!Skip(t)

\* Recall leaves the user as it is, NULL for a ticket that was never called.
RecallTicket(t) == UNCHANGED <<officer, survey, started, ended, reading>> /\ Desk!Recall(t)

\* The answers on the pages the reader has been given are among these.
Given == Newest(Answered, (page.number - 1) * page.size)

\* What a rating does behind a reader's back: its ticket comes into the filter, or leaves it.
Slip(t) ==
  LET comes == query # "none" /\ t \notin Answered /\ t \in Answered'
      leaves == query # "none" /\ t \in Answered /\ t \notin Answered' IN
    /\ slipped' = (slipped \/ (query = "rows" /\ comes))
    /\ withdrawn' = IF leaves THEN withdrawn \cup {t} ELSE withdrawn
    /\ shifted' = (shifted \/ (leaves /\ t \in Given))

\* Rating a completed ticket, also one that has a rating.
RateTicket(t, s) ==
  /\ survey' = [survey EXCEPT ![t] = s]
  /\ Desk!Rate(t)
  /\ UNCHANGED <<officer, started, ended, query, filter, headline, page, unread>>
  /\ Slip(t)

ReportNext ==
  \/ \E f \in Filters : BeginReport(f) \/ \E asked \in 0 .. MaxSize + 1 : BeginPages(f, asked)
  \/ Summary \/ RunQuery \/ AnswerReport
  \/ CountAnswers \/ FetchAnswers \/ FetchLastAnswers \/ ReadFails
  \/ \E t \in Issued :
       \/ CreateTicket(t) \/ SkipTicket(t) \/ RecallTicket(t)
       \/ BeginCompletion(t) \/ CompleteTicket(t)
       \/ \E u \in Officers : CallTicket(t, u)
       \/ \E s \in Surveys : RateTicket(t, s)

ReportSpec == ReportInit /\ [][ReportNext]_reportVars

-------------------------------------------------------------------------------
(* Properties.                                                               *)

(***************************************************************************)
(* The parts of a report, read at different times, never fall short of its *)
(* headline: the tickets that Summary counted as present, completed and    *)
(* rated are in every later query that counts or lists such tickets,       *)
(* whatever was called, completed, recalled and rated in between, unless   *)
(* another rating took them out of the filter; and a ticket it counted as  *)
(* completed is not listed as skipped.  A list may stop short only when it *)
(* is full, that of the export at its 200 rows; completed tickets that     *)
(* nobody called have no line among the staff.                             *)
(***************************************************************************)
HeadlineIsCovered ==
  LET covers(rows, limit, shown) == shown \subseteq rows \/ Cardinality(rows) = limit
      completed == headline.completed \ withdrawn
      rated == headline.rated \ withdrawn IN
    CASE query \in {"byService", "trend"} ->
           headline.total \ withdrawn \subseteq Counted /\ completed \subseteq Completed
      [] query = "staff" -> {t \in completed : officer[t] # Unset} \subseteq Served
      [] query = "issues" -> {t \in rated : survey[t].issue} \subseteq Complained
      [] query = "complaints" ->
           covers(Complaints, MaxRows, {t \in rated : survey[t].rating <= 3})
      [] query = "guestBook" ->
           covers(GuestBook, MaxRows, (headline.total \ withdrawn) \cap Guests)
      [] query = "skipped" -> Skipped \cap headline.completed = {}
      [] query = "exportRows" -> covers(Rows(1, SizeOf(MaxSize)), MaxSize, rated)
      [] OTHER -> TRUE

(***************************************************************************)
(* A client that reads all pages gets every answer that was there when it  *)
(* began, though new answers move the old ones to later pages meanwhile,   *)
(* unless another rating took the answer out of its filter, or took out    *)
(* one it had been given, which moves later answers to pages it has had,   *)
(* or an answer came between the count and the query of the last page.     *)
(***************************************************************************)
PagesMissOnlyByRace ==
  query = "rows" /\ LastPage =>
    unread \ withdrawn \subseteq Rows(page.number, page.size) \/ slipped \/ shifted

===============================================================================
