---------------------------- MODULE RatioHistory ----------------------------
(***************************************************************************)
(* The stagnation judgement on one torrent's samples: update_ratio_history *)
(* and _stagnation_anchor of fetch_torrents.py.  A sample is the torrent's *)
(* ratio on a day; the code appends samples in date order and never two on *)
(* a day, so a set of them says the same as its list.                      *)
(***************************************************************************)
EXTENDS Integers

CONSTANTS
    Interval, \* RATIO_HISTORY_SAMPLE_INTERVAL_DAYS
    Window,   \* CLEANUP_STAGNATION_WINDOW_DAYS
    MinDelta  \* CLEANUP_STAGNATION_MIN_RATIO_DELTA, in steps of the live ratio

ASSUME HistoryAssumption ==
    /\ Interval \in Nat \ {0}
    /\ Window \in Nat
    /\ MinDelta \in Nat

(* Mutant: samples are kept for the window alone.                          *)
WindowOnly == Window

(* max_age_days                                                            *)
MaxAge == Window + Interval

(* Mutant: the samples of a removed copy are kept.                         *)
OfAnyCopy(samples, removedOn) == samples

(* The samples that belong to the copy held now: those dated on or before  *)
(* the recorded removal were taken from the copy that was removed.         *)
OfThisCopy(samples, removedOn) == {s \in samples : s.date > removedOn}

(* Mutant: the interval is measured from the oldest sample.                *)
SampleDueSinceOldest(samples, today) ==
    samples # {} => \E s \in samples : today - s.date >= Interval

(* samples[-1] is the latest: no sample is younger than the interval.      *)
SampleDue(samples, today) ==
    \A s \in samples : today - s.date >= Interval

(* Mutant: the latest sample is overwritten instead of added to.           *)
UpdatedInPlace(samples, removedOn, ratio, today) ==
    {[date |-> today, ratio |-> ratio]}

(* Mutant: what has reached the window is pruned before it is judged.      *)
UpdatedPrunedEarly(samples, removedOn, ratio, today) ==
    LET mine == OfThisCopy(samples, removedOn)
    IN  {s \in mine : today - s.date < Window} \cup
            (IF SampleDue(mine, today)
             THEN {[date |-> today, ratio |-> ratio]} ELSE {})

Updated(samples, removedOn, ratio, today) ==
    LET mine  == OfThisCopy(samples, removedOn)
        taken == IF SampleDue(mine, today)
                 THEN mine \cup {[date |-> today, ratio |-> ratio]}
                 ELSE mine
    IN  {s \in taken : today - s.date <= MaxAge}

(* The samples old enough to judge by; the anchor is the oldest of them.   *)
OldEnough(samples, today) == {s \in samples : today - s.date >= Window}

IsAnchor(a, samples, today) ==
    /\ a \in OldEnough(samples, today)
    /\ \A s \in OldEnough(samples, today) : a.date <= s.date

(* Too new to judge when there is no anchor, else judged by the growth.    *)
Stagnant(samples, ratio, today) ==
    \E a \in OldEnough(samples, today) :
        IsAnchor(a, samples, today) /\ ratio - a.ratio < MinDelta
=============================================================================
