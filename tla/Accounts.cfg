\* Validation codes by mail and by telephone, what they are used for, and
\* the cached user.
CONSTANTS
  MailRequests = {m1}
  PhoneRequests = {p1}
  Addresses = {a1, a2}
  Callers = {c1, c2}
  Senders = {s1, s2}
  MaxAttempts = 2
  MaxDeliveries = 2
  Idle = Idle
  Users = {u1, u2}
  PushTokens = {t1, t2}
  Businesses = {b1, b2}
  Names = {n1, NoName}
  NoName = NoName
  Missing = Missing
SPECIFICATION MCSpec
CHECK_DEADLOCK FALSE
INVARIANTS GuessesBounded NothingUnproven OneChangePerRequest CleanIsFresh
PROPERTIES PendingEnds
