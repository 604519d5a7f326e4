---------------------------- MODULE MCMcpSessions ----------------------------
(* Two or three clients more than there are slots.                           *)
EXTENDS McpSessions

MCTickets == 1 .. 3
================================================================================
