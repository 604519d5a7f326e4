---------------------------- MODULE MCMemoryStore ----------------------------
(* The writers alone: no worker takes the events they queue.  Nothing tells  *)
(* two memories, two contents or two clients apart, and no property is a     *)
(* liveness property, so all three sets are symmetric.                       *)
EXTENDS MemoryStore, TLC

MCEvents == 1..6

Symmetry == Permutations(Memories) \cup Permutations(Contents) \cup Permutations(Clients)
================================================================================
