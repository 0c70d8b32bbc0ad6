--------------------------- MODULE MCBidVersions ---------------------------
(* BidVersions with two concurrent writers.                                *)
EXTENDS BidVersions, TLC

CONSTANTS w1, w2

MCWriters == {w1, w2}

\* Writers are interchangeable.
WriterSymmetry == Permutations(MCWriters)

=============================================================================
