------------------------- MODULE StagnationTracker -------------------------
(***************************************************************************)
(* One torrent under stagnation cleanup, over any number of days.  Cleanup *)
(* counts days from a fixed start and so can only follow a few; here a     *)
(* sample's date is counted from today (today is 0, yesterday -1) and the  *)
(* samples age by a day as a day passes, so that the state stays finite    *)
(* and what must happen in the end can be asked.                           *)
(***************************************************************************)
EXTENDS RatioHistory

CONSTANTS
    MaxRatio, \* bound: the ratio at which the torrent stops growing
    MaxMisses \* bound: days without a run that saves its ratio history

ASSUME TrackerAssumption ==
    /\ MaxRatio \in Nat
    /\ MaxMisses \in Nat
    /\ MinDelta > 0

VARIABLES
    samples,    \* the torrent's entry in the ratio history on disk
    ratio,      \* its live ratio
    superseded, \* a newer version of its type is held
    gone,       \* cleanup removed it
    ran,        \* today's run has saved its samples
    misses      \* days that ended without

(* Not the program's: what the properties count by.                        *)
VARIABLES
    streak, \* days in a row, up to the last run, whose run saved the samples
    flat    \* the last of these in which the ratio did not change

vars == <<samples, ratio, superseded, gone, ran, misses, streak, flat>>

(* Counting further than the oldest sample kept says nothing more.         *)
Enough == MaxAge + 1
CountOn(n) == IF n < Enough THEN n + 1 ELSE n

TypeOK ==
    /\ samples \subseteq [date : Int, ratio : 0 .. MaxRatio]
    /\ \A s \in samples : s.date <= 0
    /\ ratio \in 0 .. MaxRatio
    /\ superseded \in BOOLEAN
    /\ gone \in BOOLEAN
    /\ ran \in BOOLEAN
    /\ misses \in 0 .. MaxMisses
    /\ streak \in 0 .. Enough
    /\ flat \in 0 .. Enough

Init ==
    /\ samples = {}
    /\ ratio = 0
    /\ superseded = FALSE
    /\ gone = FALSE
    /\ ran = FALSE
    /\ misses = 0
    /\ streak = 0
    /\ flat = 0

-----------------------------------------------------------------------------
(* No removal of an earlier copy is on record; samples this old are pruned *)
(* anyway.                                                                 *)
NoRemoval == -(MaxAge + 1)

(* Mutant: the day is read in a time zone where it is tomorrow already.    *)
SampledTomorrow == Updated(samples, NoRemoval, ratio, 1)

(* What today's run makes of the samples, and of the torrent.              *)
Sampled == Updated(samples, NoRemoval, ratio, 0)

Judged == superseded /\ Stagnant(Sampled, ratio, 0)

(* cleanup_stagnant_torrents, both files saved.                            *)
DailyRun ==
    /\ ~ran
    /\ ~gone
    /\ samples' = Sampled
    /\ gone' = Judged
    /\ ran' = TRUE
    /\ streak' = CountOn(streak)
    /\ flat' = CountOn(flat)
    /\ UNCHANGED <<ratio, superseded, misses>>

(* A run later the same day, after a restart of the container.             *)
SecondRun ==
    /\ ran
    /\ ~gone
    /\ samples' = Sampled
    /\ gone' = Judged
    /\ UNCHANGED <<ratio, superseded, ran, misses, streak, flat>>

(* The run is stopped, or fails, before save_ratio_history.                *)
UnsavedRun ==
    /\ ~ran
    /\ ~gone
    /\ gone' = Judged
    /\ UNCHANGED <<samples, ratio, superseded, ran, misses, streak, flat>>

-----------------------------------------------------------------------------
Aged(S) == {[s EXCEPT !.date = @ - 1] : s \in S}

NextDay ==
    /\ ran
    /\ ~gone
    /\ samples' = Aged(samples)
    /\ ran' = FALSE
    /\ UNCHANGED <<ratio, superseded, gone, misses, streak, flat>>

(* The container was down, or no run got as far as the save.               *)
DayMissed ==
    /\ ~ran
    /\ ~gone
    /\ misses < MaxMisses
    /\ samples' = Aged(samples)
    /\ misses' = misses + 1
    /\ streak' = 0
    /\ flat' = 0
    /\ UNCHANGED <<ratio, superseded, gone, ran>>

Grow ==
    /\ ~gone
    /\ ratio < MaxRatio
    /\ ratio' = ratio + 1
    /\ flat' = 0
    /\ UNCHANGED <<samples, superseded, gone, ran, misses, streak>>

Supersede ==
    /\ ~superseded
    /\ superseded' = TRUE
    /\ UNCHANGED <<samples, ratio, gone, ran, misses, streak, flat>>

Next ==
    \/ DailyRun \/ SecondRun \/ UnsavedRun
    \/ NextDay \/ DayMissed \/ Grow \/ Supersede

(* The daily loop never ends: days pass, and a run comes to its end unless *)
(* that day's is counted in MaxMisses.                                     *)
Spec == Init /\ [][Next]_vars /\ WF_vars(DailyRun) /\ WF_vars(NextDay)

-----------------------------------------------------------------------------
(* Sampling once a week and pruning by age leave a sample to judge by:     *)
(* after daily runs over more than the window there is always one at least *)
(* as old as the window, whatever gaps came before.                        *)
AnchorKept == ran /\ streak > Window => OldEnough(samples, 0) # {}

(* "remove ones whose ratio has grown less than min_ratio_delta over the   *)
(* last window_days": a superseded torrent is removed by the run that has  *)
(* seen it flat for window plus interval days at the latest.               *)
FlatIsRemoved ==
    [][superseded /\ ~ran /\ ran' /\ flat' = Enough => gone']_vars

(* A superseded torrent that grows only so far is removed in the end.      *)
StagnantGoes == superseded ~> gone
=============================================================================
