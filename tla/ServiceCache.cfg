\* Three requests on one ticket, with failures and restarts; two users, two names, two ratings.
CONSTANTS
  Tickets = {t1}
  Requests = {r1, r2, r3}
  NoTicket = NoTicket
  Users = {w1, w2}
  Names = {n1, n2}
  Ratings = {g1, g2}
  Null = Null
  Keys = {"all", "last"}
  NoEntry = NoEntry
  NoPayload = NoPayload
  NoInput = NoInput
  MayFail = TRUE
SPECIFICATION Spec
SYMMETRY Interchangeable
CHECK_DEADLOCK FALSE
INVARIANTS
  TypeOK
  StaleIsExplained
  ChangeIsAnnounced
