\* Four requests, two services, one guest token, no midnight: past the last two-digit number.
CONSTANTS
  Requests = {r1, r2, r3, r4}
  Services = {umum, lab}
  Tokens = {g1}
  NoToken = NoToken
  NoTicket = NoTicket
  NoOne = NoOne
  NoDraft = NoDraft
  Base = 2
  LastDay = 0
SPECIFICATION Spec
SYMMETRY Interchangeable
INVARIANTS
  TypeOK
  NumbersDistinct
  NumbersGapless
  GuestIdempotent
  WaitsEnd
