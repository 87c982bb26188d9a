--------------------------- MODULE MCGaloisKey2k ---------------------------
(* Steps in both directions, and one that is too large. *)
EXTENDS GaloisKey2k

MCSteps == {-3, -1, 0, 1, 2, 4}
=============================================================================
