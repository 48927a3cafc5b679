--------------------------- MODULE MCSlmLifecycle ---------------------------
(* Instances of SlmLifecycle for TLC: small models, and a big one that     *)
(* needs as much as two of them.                                           *)
EXTENDS SlmLifecycle, TLC

CONSTANT big

Sizes == [m \in Models |-> IF m = big THEN 2 ELSE 1]

\* /api/ps reports the resident size, which is larger than the file's.
ResidentSizes == [m \in Models |-> Sizes[m] + 1]

Symmetry == Permutations(Tasks)
=============================================================================
