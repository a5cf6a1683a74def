\* Three workers, leases of one or two units, waits of up to two.
CONSTANTS
  Worker = {w1, w2, w3}
  Token = {t1, t2, t3, t4}
  Ttl <- ShortTimes
  MaxWait = 2
  None = None
SPECIFICATION FairSpec
CHECK_DEADLOCK FALSE
PROPERTIES IsLease NobodyIsStuck
