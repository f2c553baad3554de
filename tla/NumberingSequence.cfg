\* Four kiosk requests for one service reach the number that is printed twice.
CONSTANTS
  Requests = {r1, r2, r3, r4}
  Services = {umum}
  Tokens = {}
  NoToken = NoToken
  NoTicket = NoTicket
  NoOne = NoOne
  NoDraft = NoDraft
  Base = 2
  LastDay = 0
SPECIFICATION Spec
SYMMETRY Interchangeable
INVARIANT SequenceNumbers
