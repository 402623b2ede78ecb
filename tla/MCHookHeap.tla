------------------------------ MODULE MCHookHeap ------------------------------
(* HookHeap for TLC: arrays of two elements at first, and a heap on which none of *)
(* them can double (one page), each once, or the array of hooks twice.            *)
EXTENDS HookHeap, TLC

CONSTANTS h1, h2, h3, h4, h5

\* Hooks are only compared.
MCSymmetry == Permutations(Hooks)
===============================================================================
