----------------------------- MODULE MCReflect -----------------------------
(* Reflect for TLC: corrections are alike, and so are processes of a kind. *)
EXTENDS Reflect, MCReflectFold, TLC

Perms == Permutations(Corrections) \cup Permutations(Appliers)

(* The closed form of the fold says of a correction what the code's loop   *)
(* says: no history of attempts, confirmations and reverts, however late,  *)
(* foreign or stale, is read differently by the two.  It is a fact about   *)
(* constants and is evaluated in the initial state only.                   *)
FoldIsReplay == Init => AllAgree
=============================================================================
