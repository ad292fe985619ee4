----------------------------- MODULE MCCleanup -----------------------------
(***************************************************************************)
(* Small instances of Cleanup: versions of one image.                      *)
(***************************************************************************)
EXTENDS Cleanup

CONSTANTS v1, v2, v3

MCIsoType == [r \in Release |-> "desktop"]

MCVersion == [r \in Release |-> CASE r = v1 -> 1 [] r = v2 -> 2 [] r = v3 -> 3]

(* A copy just loaded has no ratio yet.                                    *)
NoRatioYet == {-1}
=============================================================================
