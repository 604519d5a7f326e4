----------------------------- MODULE MCAutoRequeue -----------------------------
(* One sidecar whose worker handles one or two rows.                         *)
EXTENDS AutoRequeue

MCEvents == 1..2
================================================================================
