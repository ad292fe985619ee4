----------------------------- MODULE MCDailyRun -----------------------------
(***************************************************************************)
(* Small instances of DailyRun: Ubuntu, whose site lists every supported   *)
(* version, Kali, whose older versions the old-release check finds, and    *)
(* Devuan, whose names carry no version.                                   *)
(***************************************************************************)
EXTENDS DailyRun

CONSTANTS u1, u2, u3, k1, k2, k3, d1, d2, d3

MCIsoType ==
    [r \in Release |-> CASE r \in {u1, u2, u3} -> "ubuntu"
                         [] r \in {k1, k2, k3} -> "kali"
                         [] r \in {d1, d2, d3} -> "devuan"]

MCVersion ==
    [r \in Release |-> CASE r \in {u1, k1, d1} -> 1
                         [] r \in {u2, k2, d2} -> 2
                         [] r \in {u3, k3, d3} -> 3]

(* A copy may report no ratio at first.                                    *)
MCFreshRatio == {-1, 0}
=============================================================================
