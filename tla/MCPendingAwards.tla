-------------------------- MODULE MCPendingAwards --------------------------
(* Small instances of PendingAwards for TLC.                               *)
EXTENDS PendingAwards

CONSTANTS A, B,             \* two achievements
          a1, a2, b1,       \* submissions for A, A again, and B
          h1, h2,           \* hardcore submissions for B and A
          l1, l2            \* leaderboard entries

MCIds == {A, B, Board}
MCIdOf == [s \in Submissions |->
             CASE s \in {a1, a2, h2} -> A [] s \in {b1, h1} -> B [] OTHER -> Board]
=============================================================================
