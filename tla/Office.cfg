\* What the appointments lean on: times offered, calendar and notices, catalogue,
\* customers, confirmations, prompts, lists, ratings, messages, streams, reports.
CONSTANTS
  Part = {"times", "calendar", "catalogue", "people", "confirmations", "prompts", "listings", "ratings", "messaging", "streams", "reports"}
  DayLength = 5
  LastDay = 1
  ProDays = 2
  Items = {1, 2}
  Duration <- MCDuration
  HoursInputs <- MCHoursInputs
  Intervals <- MCIntervals
  Clock = {6}
  MaxChanges = 3
  Nobody = Nobody
  Pros = {q1, q2}
  Slots = {1, 2}
  EventIds = {1, 2}
  Calls = {1, 2}
  MaxCalls = 2
  MaxLinks = 1
  None = None
  Gone = Gone
  Services = {1, 2}
  Combos = {c1}
  Staff = {p1, p2}
  Bookings = {a1}
  Owner = p1
  Prices <- MCPrices
  Teams <- MCTeams
  Menus <- MCMenus
  Deals <- MCDeals
  Changes <- MCChanges
  Limits = {2, Nothing}
  Desks = {1, 2}
  MaxRequests = 3
  Nothing = Nothing
  Shops = {1}
  People = {1, 2, 3}
  Customers = {1, 2}
  Mails = {1, 2}
  Numbers = {n1}
  Clerks = {1, 2}
  MaxClerks = 3
  Checks = {1}
  Absent = Absent
  Hours = {h1, h2}
  Hands = {x1, x2}
  MaxHands = 4
  Idle = Idle
  Modals = {1, 2}
  Builds = {1, 2}
  Day = 1
  LastTick = 2
  MaxTurns = 1
  Homes = {x1}
  NoOne = NoOne
  Lists <- MCLists
  Ids = {1, 2, 3, 4}
  Keys = {1, 2, 3, 4}
  PageSizes = {1, 2}
  MaxWrites = 2
  NoRow = NoRow
  Raters = {1, 2}
  Given = {1, 5}
  Pens = {1, 2}
  Rest = 2
  LastRest = 2
  MaxRatings = 2
  MaxDismissed = 2
  Nil = Nil
  Messages = {"push", "note", "text", "unsent", "mail"}
  QueueOf <- MCQueueOf
  To <- MCTo
  Valid = {"d1", "d2", "d3", "n"}
  ChunkSize = 2
  MaxDeaths = 1
  NoWork = NoWork
  Streams = {1, 2, 3}
  Offices = {b1, b2}
  MaxEvents = 2
  Unopened = Unopened
  DayTicks = 2
  Behind = 1
  FirstDay = 2
  EndDay = 6
  TwoDayLimit = 3
  WeekLimit = 4
  Week = 3
  Month = 4
  Zones <- MCZones
  TTL = 1
  MaxRows = 2
SPECIFICATION MCSpec
CHECK_DEADLOCK FALSE
INVARIANTS OffersAreWhatFits OfferedMinutesWereFree CalendarShowsAppointment BothSidesKnow SoldAsListed CustomersAreKnown HourIsKnown
INVARIANTS NoneMissed RatingsHold EachDeviceTried HeardWhileConnected ReportAddsUp
PROPERTIES ModalRests
