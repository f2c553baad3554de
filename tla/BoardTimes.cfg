\* Two tickets and two calls, up to ten instants; three requests about one video; three tickets,
\* two UPDATEs that complete one and one reader, with pages of one and two answers and lists of a row.
CONSTANTS
  Tickets = {t1, t2}
  Requests = {r1, r2}
  NoTicket = NoTicket
  LastInstant = 10
  Videos = {v1}
  Seconds = {S}
  Editors = {e1, e2, e3}
  NotYet = NotYet
  Erased = Erased
  NoDuration = NoDuration
  NoEdit = NoEdit
  NoPlaylist = NoPlaylist
  MaxTickets = 3
  MaxCompletions = 2
  Guests = {1, 3}
  Officers = {w1}
  Unset = Unset
  Surveys <- ManySurveys
  Filters <- ManyFilters
  MaxSize = 2
  DefaultSize = 1
  MaxRows = 1
SPECIFICATION ScreensSpec
CHECK_DEADLOCK FALSE
INVARIANTS
  ScreensTypeOK
  ServiceTimeIsPositive
  PlaylistStaleIsExplained
  HeadlineIsCovered
  PagesMissOnlyByRace
PROPERTY CompletedIsShown
