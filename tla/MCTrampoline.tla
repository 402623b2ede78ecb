----------------------------- MODULE MCTrampoline -----------------------------
(* Trampoline with the lengths x86-64 gives each kind, without redundant prefixes; *)
(* plain instructions of 6 to 15 bytes behave alike, so 15 stands for them.       *)
EXTENDS Trampoline

MCLengths ==
  [kind \in Kinds |->
     CASE kind = "plain"  -> {1, 2, 3, 4, 5, 15}
       [] kind = "rip"    -> {6, 7, 11}
       [] kind = "ripjmp" -> {6}
       [] kind = "call"   -> {5}
       [] kind = "jmp"    -> {2, 5}
       [] kind = "jcc"    -> {2, 6}
       [] kind = "loop"   -> {2}
       [] kind = "ret"    -> {1, 3}]
===============================================================================
