------------------------------ MODULE MCHookLock ------------------------------
(* HookLock for TLC: more targets than entries fit, so that the array gets full;  *)
(* a target on each of two pages, and one whose patch crosses from one to the     *)
(* other; no symmetry, which liveness checking does not admit.                    *)
EXTENDS HookLock

CONSTANTS c1, c2, t1, t2, t3, p1, p2, p3

MCCodeProtection == [p \in Pages |-> IF p = p3 THEN {"exec"} ELSE {"read", "exec"}]
MCPatchPages ==
  [t \in Targets |-> IF t = t1 THEN <<p1>> ELSE IF t = t2 THEN <<p1, p2>> ELSE <<p3>>]
===============================================================================
