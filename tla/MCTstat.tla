------------------------------ MODULE MCTstat ------------------------------
(***************************************************************************)
(* Small instances of Tstat with a hardware controller that answers as it  *)
(* likes.  The delays keep the order of the real ones: retry, fan before,  *)
(* fan after, lockout.  The goals are one sensible band and one whose low  *)
(* goal is above its high one, which nothing in the program rules out.     *)
(***************************************************************************)
EXTENDS Tstat

MCTemps == 0..4
MCGoals == {[low |-> 1, high |-> 3, hyst |-> 0],
            [low |-> 3, high |-> 1, hyst |-> 0]}
OneGoal == {[low |-> 1, high |-> 3, hyst |-> 0]}
MCClients == {"tstat"}

=============================================================================
