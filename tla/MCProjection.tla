----------------------------- MODULE MCProjection -----------------------------
(* One memory, whose contents differ in their routing, and its projection.   *)
EXTENDS Projection

MCEvents == 1..3
MCOperations == {"remember", "update", "forget", "undo"}
================================================================================
