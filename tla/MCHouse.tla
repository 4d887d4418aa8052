------------------------------ MODULE MCHouse ------------------------------
(***************************************************************************)
(* A small instance of House: a heat pump and its fan.  The delays keep the*)
(* order of the real ones: reversing tolerance, retry, fan before, fan     *)
(* after, lockout.                                                         *)
(***************************************************************************)
EXTENDS House

MCTemps == {0, 2, 4}
MCGoals == {[low |-> 1, high |-> 3, hyst |-> 0]}
HeatPump == {"Y1", "OB", "G"}
MCBatches == {<<Cmd(w, l)>> : w \in HeatPump, l \in Level}
NoBatches == {}

\* What `RefusedOnlyForRest' is about.
ASSUME FanHasLine

=============================================================================
