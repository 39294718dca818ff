---------------------------- MODULE MCRedisLimiter ----------------------------
(* Instances of RedisLimiter for TLC.                                       *)
EXTENDS RedisLimiter, TLC
=============================================================================
