----------------------------- MODULE MCProcess ------------------------------
(* Model-checking instances of Process.                                    *)
EXTENDS Process, TLC

(* The objects, and the handle values, are interchangeable.                *)
Symmetric == Permutations(Procs) \cup Permutations(Handles)
=============================================================================
