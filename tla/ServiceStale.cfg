\* A read and a mutation, with no failures and nobody renamed.
CONSTANTS
  Tickets = {t1}
  Requests = {r1, r2}
  NoTicket = NoTicket
  Users = {w1}
  Names = {n1}
  Ratings = {g1}
  Null = Null
  Keys = {"all"}
  NoEntry = NoEntry
  NoPayload = NoPayload
  NoInput = NoInput
  MayFail = FALSE
SPECIFICATION Spec
CHECK_DEADLOCK FALSE
INVARIANT CacheIsFresh
