-------------------------- MODULE MCGossipSplitter --------------------------
(* Small instances of GossipSplitter: two pyth VAAs, a valid non-pyth VAA and *)
(* one that fails verification.                                              *)
EXTENDS GossipSplitter

CONSTANTS p1, p2, n1, n2, none

MCPyth == {p1, p2}
MCNonPyth == {n1, n2}
MCInvalid == {n2}
=============================================================================
