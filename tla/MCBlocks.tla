------------------------------ MODULE MCBlocks ------------------------------
EXTENDS Blocks, TLC
CONSTANTS b1, b2, b3
MCLoaded == {b1, b2}
MCFirstKids == [x \in MCLoaded |-> IF x = b1 THEN <<b2, b3>> ELSE <<>>]
MCSymmetry == Permutations(Task)
=============================================================================
