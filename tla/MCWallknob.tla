----------------------------- MODULE MCWallknob -----------------------------
(***************************************************************************)
(* A small instance of Wallknob: one pair of goals at first, another that  *)
(* others ask for; turns of one; one temperature, which is not the 0 the   *)
(* screen starts from.                                                     *)
(***************************************************************************)
EXTENDS Wallknob

MCGoals == {[s \in Sides |-> IF s = "high" THEN 5 ELSE 2]}
MCAsked == {[s \in Sides |-> IF s = "high" THEN 4 ELSE 1]}

=============================================================================
