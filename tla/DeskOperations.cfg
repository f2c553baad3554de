\* Two concurrent requests on two tickets that are in any status, one counter, an admin and a staff user.
CONSTANTS
  Tickets = {t1, t2}
  Requests = {r1, r2}
  Services = {umum}
  Counters = {c1}
  Users = {admin, staff1}
  Admins = {admin}
  NoTicket = NoTicket
  NoOne = NoOne
  NoInput = NoInput
  AnyService = AnyService
  NoCounter = NoCounter
  Vacant = Vacant
  Deleted = Deleted
SPECIFICATION FairSpec
CHECK_DEADLOCK FALSE
INVARIANTS
  TypeOK
  CalledOnce
  RatedIsCompleted
  CounterExists
PROPERTIES
  Refinement
  EveryRequestEnds
