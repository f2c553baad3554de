\* A ticket skipped before it was called, then recalled.
CONSTANTS
  Tickets = {t1, t2}
  Requests = {r1, r2}
  Services = {umum}
  Counters = {c1}
  Users = {admin, staff1}
  Admins = {admin}
  NoTicket = NoTicket
  NoOne = NoOne
  NoInput = NoInput
  AnyService = AnyService
  NoCounter = NoCounter
  Vacant = Vacant
  Deleted = Deleted
SPECIFICATION Spec
SYMMETRY Interchangeable
CHECK_DEADLOCK FALSE
INVARIANT CallingIsStamped
