---------------------------- MODULE MCThreadFreeze ----------------------------
(* ThreadFreeze for TLC: two threads, so that one can run while the caller deals *)
(* with the other, and three instructions under the patch: first, middle, last.  *)
EXTENDS ThreadFreeze

CONSTANTS th1, th2

Body(middle, last) ==
  [i \in 0 .. 2 |-> CASE i = 0 -> "plain" [] i = 1 -> middle [] i = 2 -> last]

PlainBodies == {Body("plain", "plain")}
AllBodies == {Body("plain", "call"), Body("jcc", "plain"), Body("plain", "ret")}
===============================================================================
