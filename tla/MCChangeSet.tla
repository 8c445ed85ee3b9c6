---------------------------- MODULE MCChangeSet ----------------------------
(***************************************************************************)
(* Small instances of ChangeSet for TLC.                                   *)
(***************************************************************************)
EXTENDS ChangeSet, TLC

CONSTANTS p1, p2, q, r   \* model values: partitions and requests

\* Without limit, and the two smallest limits.
SomeLimits  == {-1, 1}
ShortLimits == {-1, 0, 1, 2}
NoLimit     == {-1}
OneLimit    == {1}

None == {}

\* The second and the third message of p1.
SecondOfP1 == {<<p1, 1>>}
ThirdOfP1  == {<<p1, 2>>}

\* The second message of p2.
SecondOfP2 == {<<p2, 1>>}

Symmetry == Permutations(Requests) \cup Permutations(Partitions)

=============================================================================
