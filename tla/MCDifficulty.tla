---------------------------- MODULE MCDifficulty ----------------------------
(* Instances of Difficulty for TLC. *)
EXTENDS Difficulty

\* A block dated back, at once, at the fast clamp, in time, late, just past the
\* test for a stuck chain and past the slow clamp.
AllGaps == {-4, 0, 1, 4, 9, 41, 90}
=============================================================================
