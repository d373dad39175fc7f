---------------------------- MODULE MCPahoClient ----------------------------
(* Instances of PahoClient for TLC. *)
EXTENDS PahoClient, TLC

CONSTANTS p1, p2, p3

\* Publishers are interchangeable.
PublisherSymmetry == Permutations(Publishers)

=============================================================================
