----------------------------- MODULE MCRedisClient -----------------------------
(* Two ingest requests; one connection more than the pool may open.        *)
EXTENDS RedisClient, TLC

CONSTANTS c1, c2

TwoCmds == {c1, c2}
=============================================================================
