------------------------------- MODULE MCStorage -------------------------------
(* Two callers, one profile and the row of the height cache.                 *)
EXTENDS Storage

CONSTANTS p, v1, v2

MCRequests == {[op |-> "get", key |-> p, value |-> v1],
               [op |-> "create", key |-> p, value |-> v1],
               [op |-> "update", key |-> p, value |-> v2],
               [op |-> "delete", key |-> p, value |-> v1],
               [op |-> "save", key |-> CacheKey, value |-> v1]}
=============================================================================
