\* Two requests under fairness, over a midnight: they end, and implement TicketRoll.
CONSTANTS
  Requests = {r1, r2}
  Services = {umum, lab}
  Tokens = {g1}
  NoToken = NoToken
  NoTicket = NoTicket
  NoOne = NoOne
  NoDraft = NoDraft
  Base = 2
  LastDay = 1
SPECIFICATION FairSpec
PROPERTIES
  Refinement
  EveryRequestEnds
