------------------------------ MODULE TicketRoll ------------------------------
(***************************************************************************)
(* What issuing queue tickets promises, with no transactions in sight.     *)
(*                                                                         *)
(* The roll is the set of tickets that exist.  A ticket enters it in one   *)
(* step, with the number that follows the highest number of its service    *)
(* and day, and with a guest token no other ticket has.  A visitor's       *)
(* request is answered at most once, with a ticket of the roll that is its *)
(* own or that carries its guest token.                                    *)
(*                                                                         *)
(* TicketNumbering, the model of repository.QueueRepository's Create and   *)
(* CreateGuest, is shown to implement this specification.                  *)
(***************************************************************************)
EXTENDS Integers, FiniteSetsExt

CONSTANTS
  Requests,   \* HTTP requests for a ticket; a ticket's id is the request that inserts it
  Services,   \* keys of the services a visitor can queue for
  Tokens,     \* guest tokens of the Buku Tamu (guest book) form
  NoToken,    \* queues.guest_token IS NULL: a ticket from the kiosk button
  NoTicket,   \* a request that has not been answered
  LastDay,    \* bound: the last day on which a ticket is issued
  Base        \* the radix of the printed number: 10 in the code

(***************************************************************************)
(* LPAD(n::TEXT, 2, '0') pads n to two digits, and PostgreSQL's LPAD cuts  *)
(* a longer text to its first two characters.  The numbers stored are      *)
(* below Base * Base, so n is at most Base * Base: three digits at most.   *)
(***************************************************************************)
Printable == 1 .. (Base * Base - 1)

Lpad(n) == IF n < Base * Base THEN n ELSE n \div Base

Days == 0 .. LastDay

Ticket == [id : Requests, svc : Services, day : Days, num : Printable,
           token : Tokens \cup {NoToken}]

\* The numbers already given out for service s on day d.
Numbers(tickets, s, d) == {t.num : t \in {u \in tickets : u.svc = s /\ u.day = d}}

\* COALESCE(MAX(number), 0) + 1, as it is then printed.
NextNumber(tickets, s, d) == Lpad(1 + Max({0} \cup Numbers(tickets, s, d)))

Unused(tickets, token) == token = NoToken \/ \A t \in tickets : t.token # token

-------------------------------------------------------------------------------

VARIABLES
  roll,     \* the tickets that exist
  asked,    \* what each request asks for: a service and a guest token
  answer    \* the ticket each request was answered with

rollVars == <<roll, asked, answer>>

Init ==
  /\ roll = {}
  /\ asked \in [Requests -> [svc : Services, token : Tokens \cup {NoToken}]]
  /\ answer = [r \in Requests |-> NoTicket]

Issue(r, d) ==
  /\ \A t \in roll : t.id # r
  /\ Unused(roll, asked[r].token)
  /\ roll' = roll \cup {[id |-> r, svc |-> asked[r].svc, day |-> d,
                         num |-> NextNumber(roll, asked[r].svc, d),
                         token |-> asked[r].token]}
  /\ UNCHANGED <<asked, answer>>

Answer(r) ==
  /\ answer[r] = NoTicket
  /\ \E t \in roll :
       /\ \/ t.id = r
          \/ t.token = asked[r].token /\ t.token # NoToken
       /\ answer' = [answer EXCEPT ![r] = t.id]
  /\ UNCHANGED <<roll, asked>>

Next == \E r \in Requests : Answer(r) \/ \E d \in Days : Issue(r, d)

Spec == Init /\ [][Next]_rollVars

===============================================================================
