------------------------------- MODULE Seeder -------------------------------
(***************************************************************************)
(* What one container holds and the daily run works on: the daemon's       *)
(* torrents, the watch folder, the disk and the two JSON files cleanup     *)
(* keeps under /logs.  The actions here are the other actors' steps, taken *)
(* at any moment of a run: transmission-daemon loading a watch file, peers *)
(* downloading from us, other use of the disk, days passing.               *)
(***************************************************************************)
EXTENDS Releases, RatioHistory

CONSTANTS
    FreshRatio, \* ratios a copy just loaded may report: 0, or -1 for none yet
    MaxStamp,   \* bound: loads of torrents ordered by added date
    MaxOther,   \* bound: disk space used by other things, in torrents
    MaxDay      \* bound: the last day

ASSUME SeederAssumption ==
    /\ FreshRatio \subseteq Ratio
    /\ MaxStamp \in Nat
    /\ MaxOther \in Nat
    /\ MaxDay \in Nat

VARIABLES
    today,          \* date.today() of a run
    due,            \* the daily loop is about to start a run
    held,           \* torrents the daemon reports
    ratio,          \* their live upload ratio
    added,          \* their added_date, as the stamp of the load
    stamp,          \* the stamp of the latest load
    loaded,         \* the day the last copy was loaded, -1 before the first
    watch,          \* the torrent's file in /watch
    other,          \* disk space used by anything else
    removedHistory, \* fetch_torrents_removed_history.json
    ratioHistory,   \* fetch_torrents_ratio_history.json
    pc              \* where the run is; "idle" between runs

daemonVars == <<held, ratio, added, stamp, loaded>>
fileVars   == <<removedHistory, ratioHistory>>
clockVars  == <<today, due>>
seederVars == <<clockVars, daemonVars, watch, other, fileVars, pc>>

Day       == 0 .. MaxDay
Removal   == [date : Day, ratio : Ratio]
Sample    == [date : Day, ratio : Ratio]
WatchFile == {"absent", "torrent", "added"}

SeederTypeOK ==
    /\ today \in Day
    /\ due \in BOOLEAN
    /\ held \subseteq Release
    /\ ratio \in [Release -> Ratio]
    /\ added \in [Release -> Nat]
    /\ stamp \in Nat
    /\ loaded \in [Release -> Day \cup {-1}]
    /\ watch \in [Release -> WatchFile]
    /\ other \in 0 .. MaxOther
    /\ IsDict(removedHistory, Removal)
    /\ IsDict(ratioHistory, SUBSET Sample)

SeederInit ==
    /\ today = 0
    /\ due = TRUE
    /\ held = {}
    /\ ratio = [r \in Release |-> 0]
    /\ added = [r \in Release |-> 0]
    /\ stamp = 0
    /\ loaded = [r \in Release |-> -1]
    /\ watch = [r \in Release |-> "absent"]
    /\ other = 0
    /\ removedHistory = Empty
    /\ ratioHistory = Empty
    /\ pc = "idle"

-----------------------------------------------------------------------------
(* What a load of a JSON file returns: a file that cannot be opened reads  *)
(* as an empty one.                                                        *)
ReadBack(d, mayFail) == {d} \cup (IF mayFail THEN {Empty} ELSE {})

(* transmission-daemon loads a watch file, renaming it to .added.  Only    *)
(* Devuan's added_date is ever read.                                       *)
Load(r) ==
    /\ watch[r] = "torrent"
    /\ watch' = [watch EXCEPT ![r] = "added"]
    /\ held' = held \cup {r}
    /\ \E x \in FreshRatio : ratio' = [ratio EXCEPT ![r] = x]
    /\ loaded' = [loaded EXCEPT ![r] = today]
    /\ IF IsoType[r] \in ByAddedDate
       THEN /\ stamp < MaxStamp
            /\ stamp' = stamp + 1
            /\ added' = [added EXCEPT ![r] = stamp + 1]
       ELSE UNCHANGED <<stamp, added>>
    /\ UNCHANGED <<clockVars, other, fileVars, pc>>

(* A peer downloads from us.                                               *)
Grow(r) ==
    /\ r \in held
    /\ ratio[r] < MaxRatio
    /\ ratio' = [ratio EXCEPT ![r] = @ + 1]
    /\ UNCHANGED <<clockVars, held, added, stamp, loaded, watch, other, fileVars, pc>>

(* Downloads in progress and whatever else shares the filesystem.          *)
OtherUse ==
    /\ \E n \in 0 .. MaxOther : n # other /\ other' = n
    /\ UNCHANGED <<clockVars, daemonVars, watch, fileVars, pc>>

(* The daily loop sleeps 24 hours: a run never spans a day, and a day may  *)
(* pass without one while the container is stopped.  At the bound the last *)
(* day repeats, as after restarts of the container.                        *)
Tick ==
    /\ pc = "idle"
    /\ today' = IF today < MaxDay THEN today + 1 ELSE today
    /\ due' = TRUE
    /\ UNCHANGED <<daemonVars, watch, other, fileVars, pc>>

Environment == Tick \/ OtherUse \/ \E r \in Release : Load(r) \/ Grow(r)

(* What shutil.disk_usage reports, one unit per torrent.                   *)
UsedSpace == Cardinality(held) + other
=============================================================================
