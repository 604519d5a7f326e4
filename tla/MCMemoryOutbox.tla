---------------------------- MODULE MCMemoryOutbox ----------------------------
(* Two rows, two workers: every pair of workers can meet on one row, and    *)
(* one batch can hold one row or both.                                      *)
EXTENDS MemoryOutbox

MCEvents == 1..2
================================================================================
