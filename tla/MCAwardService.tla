--------------------------- MODULE MCAwardService ---------------------------
(* Small instances of AwardService for TLC.                                *)
EXTENDS AwardService

CONSTANTS A, B,             \* two achievements
          a1, a2, b1, h1    \* submissions for A, A again, B, and in hardcore for B

MCIds == {A, B, Board}
MCIdOf == [s \in Submissions |-> IF s \in {a1, a2} THEN A ELSE B]
=============================================================================
