---------------------------- MODULE MCOrchestrator ---------------------------
(* Orchestrator on small instances: three bots over two shards, two calls  *)
(* at a time.                                                              *)
EXTENDS Orchestrator, TLC

CONSTANTS b1, b2, b3, w1, w2, c1, c2

MCBot    == {b1, b2, b3}
MCWorker == {w1, w2}
MCCaller == {c1, c2}

\* Two bots share a shard, the third has one of its own.
SharedShard == (b1 :> 0) @@ (b2 :> 0) @@ (b3 :> 1)
==============================================================================
