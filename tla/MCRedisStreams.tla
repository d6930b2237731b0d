--------------------------- MODULE MCRedisStreams ----------------------------
(***************************************************************************)
(* Instances of RedisStreams for TLC.  Processes of one kind, and messages,*)
(* are interchangeable; runs of safety properties use that.                *)
(***************************************************************************)
EXTENDS RedisStreams, TLC

Symmetry ==
    Permutations(Listeners) \cup Permutations(Requeuers) \cup Permutations(Messages)
=============================================================================
