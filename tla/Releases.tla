------------------------------ MODULE Releases ------------------------------
(***************************************************************************)
(* What fetch_torrents.py reads out of a torrent's name, and the pure      *)
(* decisions it takes from it: which held torrents are superseded          *)
(* (_old_version_candidates) and whether a release may be fetched          *)
(* (should_fetch_torrent).                                                 *)
(*                                                                         *)
(* A release stands for one torrent name.  get_distro, parse_version_type  *)
(* and version_to_tuple are the constants IsoType and Version: two names   *)
(* of one distro and image family share an IsoType and differ in Version.  *)
(* A type in ByAddedDate is Devuan's: its names carry no version, so the   *)
(* code orders them by the day the daemon added them.                      *)
(***************************************************************************)
EXTENDS Integers, FiniteSets

CONSTANTS
    Release,     \* torrent names
    IsoType,     \* [Release -> image family and architecture]
    Version,     \* [Release -> Nat], the parsed version
    ByAddedDate, \* the iso types ordered by added date instead (Devuan)
    RatioUnit,   \* how many steps of the live ratio one printed unit (0.001) has
    MaxRatio,    \* bound: the largest live ratio, in steps
    Floor        \* the ratio 1.0 in printed units

ASSUME ReleaseAssumption ==
    /\ IsFiniteSet(Release)
    /\ Version \in [Release -> Nat]
    /\ DOMAIN IsoType = Release
    /\ \A r, q \in Release :
          r # q /\ IsoType[r] = IsoType[q] /\ IsoType[r] \notin ByAddedDate
             => Version[r] # Version[q]

ASSUME RatioAssumption ==
    /\ RatioUnit \in Nat \ {0}
    /\ MaxRatio \in Nat
    /\ Floor \in Nat \ {0}

-----------------------------------------------------------------------------
(* A live ratio is counted in steps finer than the three decimals the log  *)
(* and the removed history keep; -1 is any negative ratio, which the       *)
(* daemon reports for a torrent that has downloaded nothing.               *)
Ratio == -1 .. MaxRatio

(* Mutant: any ratio is rounded up.                                        *)
RoundedUp(x) == IF x < 0 THEN x ELSE (x + RatioUnit - 1) \div RatioUnit

(* "%.3f" in the ratio log and round(ratio, 3) in the removed history.     *)
Rounded(x) == IF x < 0 THEN x ELSE (2 * x + RatioUnit) \div (2 * RatioUnit)

(* A Python dict keyed by torrent name.                                    *)
IsDict(d, V) == DOMAIN d \subseteq Release /\ d \in [DOMAIN d -> V]
Put(d, k, v) == [n \in DOMAIN d \cup {k} |-> IF n = k THEN v ELSE d[n]]
Empty == [n \in {} |-> {}]

-----------------------------------------------------------------------------
(* The sort key of _old_version_candidates; added[r] is the daemon's       *)
(* added_date.                                                             *)
Rank(r, added) ==
    IF IsoType[r] \in ByAddedDate THEN added[r] ELSE Version[r]

Newer(q, r, added) ==
    IsoType[q] = IsoType[r] /\ Rank(q, added) > Rank(r, added)

(* Mutant: the newest is not left out of its group.                        *)
SupersededWithNewest(held, added) ==
    {r \in held : \E q \in held \ {r} : IsoType[q] = IsoType[r]}

(* Mutant: Devuan's names go through the version comparison, as ties.      *)
SupersededByVersion(held, added) ==
    {r \in held : \E q \in held \ {r} : IsoType[q] = IsoType[r]
                                        /\ Version[q] >= Version[r]}

(* Everything held but the newest of each type.                            *)
Superseded(held, added) ==
    {r \in held : \E q \in held : Newer(q, r, added)}

-----------------------------------------------------------------------------
(* Mutant: the gate does not look at removed torrents.                     *)
OnRecordLiveOnly(live, removed) == DOMAIN live

(* The ratio gate.  live is the previous run's ratio log, removed the      *)
(* removed history; a live ratio wins over a recorded one.                 *)
OnRecord(live, removed) == DOMAIN live \cup DOMAIN removed

(* Mutant: the record of an earlier copy wins over the live ratio.         *)
RecordedRatioFirst(n, live, removed) ==
    IF n \in DOMAIN removed THEN removed[n].ratio ELSE live[n]

RecordedRatio(n, live, removed) ==
    IF n \in DOMAIN live THEN live[n] ELSE removed[n].ratio

Previous(r, known) ==
    {n \in known : IsoType[n] = IsoType[r] /\ Version[n] < Version[r]}

ShouldFetchVersion(r, live, removed) ==
    LET older == Previous(r, OnRecord(live, removed))
    IN  \/ older = {}
        \/ \E p \in older :
              /\ \A n \in older : Version[n] <= Version[p]
              /\ RecordedRatio(p, live, removed) >= Floor

(* Mutant: Devuan's removed releases are not looked at.                    *)
ShouldFetchDevuanLiveOnly(r, live, removed) ==
    LET prior == {n \in DOMAIN live \ {r} : IsoType[n] = IsoType[r]}
    IN  \/ r \in DOMAIN live
        \/ prior = {}
        \/ \E p \in prior : RecordedRatio(p, live, removed) >= Floor

ShouldFetchDevuan(r, live, removed) ==
    LET others(known) == {n \in known \ {r} : IsoType[n] = IsoType[r]}
        prior == IF others(DOMAIN live) # {} THEN others(DOMAIN live)
                 ELSE others(DOMAIN removed)
    IN  \/ r \in DOMAIN live
        \/ prior = {}
        \/ \E p \in prior : RecordedRatio(p, live, removed) >= Floor

ShouldFetch(r, live, removed) ==
    IF IsoType[r] \in ByAddedDate
    THEN ShouldFetchDevuan(r, live, removed)
    ELSE ShouldFetchVersion(r, live, removed)
=============================================================================
