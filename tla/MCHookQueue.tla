----------------------------- MODULE MCHookQueue -----------------------------
(* Two compact workers that compete, one idle worker.                        *)
EXTENDS HookQueue, TLC

CONSTANTS c1, c2, i1, kc, ki

MCEvents == 1 .. 3
MCKindOf == (kc :> "compact") @@ (ki :> "idle")
MCServes == (c1 :> "compact") @@ (c2 :> "compact") @@ (i1 :> "idle")
================================================================================
