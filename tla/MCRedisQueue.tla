----------------------------- MODULE MCRedisQueue ----------------------------
(* Instances of RedisQueue for TLC: m1 and m2 announce the same file.         *)
EXTENDS RedisQueue

CONSTANTS i1, i2, m1, m2, m3

MCcacheKey == [m \in Message |-> IF m = m3 THEN "g" ELSE "f"]

MCRetrySettings == [retryCountMax : {0, 1, 3}, retry_refilter : BOOLEAN, batch : {1, 3}]
=============================================================================
