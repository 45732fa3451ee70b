---------------------------- MODULE MCSwarmBatch ----------------------------
(* A small batch for TLC: the first member resumes an existing agent, the  *)
(* others are spawned; the first two may each meet one rate limit.         *)
EXTENDS SwarmBatch

MCKind       == [m \in 1..N |-> IF m = 1 THEN "Resume" ELSE "Spawn"]
MCMaxRetries == [m \in 1..N |-> IF m <= 2 THEN 1 ELSE 0]
=============================================================================
