---------------------------- MODULE MCRedisLock ----------------------------
(* A small instance of RedisLock for TLC.                                  *)
EXTENDS RedisLock

\* The times to live of the instance.
ShortTimes == {1, 2}
=============================================================================
