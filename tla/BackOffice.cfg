\* Three admin, kiosk and list requests on one service; one browser and one account; three
\* requests about one account, and about one counter and its one user; four speech requests of
\* one address; three overlapping runs of the migration command.
CONSTANTS
  Services = {s1}
  Calls = {r1, r2, r3}
  Labels = {A, B}
  NoRow = NoRow
  NoList = NoList
  NoCall = NoCall
  Users = {u1}
  Browsers = {b1}
  AccessTTL = 2
  RefreshTTL = 3
  Horizon = 4
  Gone = Gone
  NoToken = NoToken
  NoRequest = NoRequest
  Accounts = {k1}
  Passwords = {P, Q}
  Petitions = {r1, r2, r3}
  Vacant = Vacant
  Deleted = Deleted
  NoPetition = NoPetition
  Counters = {n1}
  Staff = {w1}
  Names = {M, N}
  Desks = {r1, r2, r3}
  Unborn = Unborn
  Removed = Removed
  Nobody = Nobody
  NoDesk = NoDesk
  NoRoster = NoRoster
  Listeners = {r1, r2, r3, r4}
  Addresses = {a1}
  Texts = {t1, t2, t3}
  NoText = NoText
  Limit = 2
  Window = 2
  CacheMax = 2
  LastTick = 3
  Runs = {r1, r2, r3}
  Files = 4
  Repeatable = {3}
  Overlap = TRUE
SPECIFICATION BackOfficeSpec
SYMMETRY Interchangeable
CHECK_DEADLOCK FALSE
INVARIANTS
  BackOfficeTypeOK
  OrphansOnlyByRace
  CatalogStaleIsExplained
  AuthorityIsRecent
  AnswersAreFounded
  RosterStaleIsExplained
  OwnershipIsRecent
  LimitIsExact
  EvictionOrderIsExact
  SchemaIsPrefix
PROPERTIES
  AccountColumnsAreKept
  ColumnsAreKept
