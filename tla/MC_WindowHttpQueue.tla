------------------------- MODULE MC_WindowHttpQueue -------------------------
(* Two CurlGets, room for three nodes, a linger of two half-second units. *)
EXTENDS WindowHttpQueue, TLC

CONSTANTS h1, h2, null

MCTransfers == {h1, h2}
MCSymmetry == Permutations(MCTransfers)
=============================================================================
