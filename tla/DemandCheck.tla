---------------------------- MODULE DemandCheck ----------------------------
(***************************************************************************)
(* What the old-release check promises, whatever its trackers, its disk    *)
(* and its restarts do: a release appears in the watch folder at once and  *)
(* whole, only while neither name of it is there, and only if one of its   *)
(* trackers has it in unmet demand.                                        *)
(***************************************************************************)
CONSTANTS
    Release,
    Wanted \* releases some tracker of theirs reports unmet demand for

VARIABLE watch \* [Release -> {"absent", "torrent", "added"}]

Init == watch = [r \in Release |-> "absent"]

Add(r) ==
    /\ r \in Wanted
    /\ watch[r] = "absent"
    /\ watch' = [watch EXCEPT ![r] = "torrent"]

Load(r) ==
    /\ watch[r] = "torrent"
    /\ watch' = [watch EXCEPT ![r] = "added"]

Remove(r) ==
    /\ watch[r] = "added"
    /\ watch' = [watch EXCEPT ![r] = "absent"]

Next == \E r \in Release : Add(r) \/ Load(r) \/ Remove(r)

Spec == Init /\ [][Next]_watch
=============================================================================
