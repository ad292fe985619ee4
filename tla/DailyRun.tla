------------------------------ MODULE DailyRun ------------------------------
(***************************************************************************)
(* One container's life: the daily run of fetch_torrents.py from Fetching  *)
(* through Cleanup, the daemon and the watch folder beside it, restarts at *)
(* any step.                                                               *)
(***************************************************************************)
EXTENDS Fetching

CONSTANTS Modes, MinRatio, DiskLimit

ASSUME DailyAssumption ==
    /\ Modes \subseteq {"stagnant", "keep_only_latest"}
    /\ MinRatio \in Ratio
    /\ DiskLimit \in Nat

VARIABLES mode, todo, removing, seen, ledger, history

passVars == <<mode, todo, removing, seen, ledger, history>>

(* Not the program's: what the properties compare with.                    *)
VARIABLES
    peak,      \* the highest ratio any copy of the release has had
    witnessed, \* releases some run's ratio log has had a ratio of
    checkedOn  \* the day the old-release check last scraped it, -1 before

auxVars == <<peak, witnessed, checkedOn>>
vars    == <<seederVars, fetchVars, passVars, auxVars>>

Cleaning == INSTANCE Cleanup WITH Faults <- Faults \ {"web", "tracker"}

Init ==
    /\ SeederInit
    /\ FetchingInit
    /\ Cleaning!CleanupInit
    /\ peak = [r \in Release |-> -1]
    /\ witnessed = {}
    /\ checkedOn = [r \in Release |-> -1]

(* Scraped is what the old-release check goes through with.                *)
Scraped(r) ==
    /\ pc = "oldLoop"
    /\ r \in queue \ queue'
    /\ ~PassedOver(r)

Witness ==
    /\ peak' = [r \in Release |->
                  IF r \in held' /\ ratio'[r] > peak[r] THEN ratio'[r]
                  ELSE peak[r]]
    /\ witnessed' = witnessed \cup DOMAIN ratioLog'
    /\ checkedOn' = [r \in Release |->
                       IF Scraped(r) THEN today ELSE checkedOn[r]]

Fetch       == FetchingStep /\ UNCHANGED passVars /\ Witness
Clean       == Cleaning!CleanupStep /\ UNCHANGED fetchVars /\ Witness
StopRun     == /\ pc \in Cleaning!CleanupPC
               /\ Cleaning!Stop
               /\ UNCHANGED fetchVars
               /\ Witness
Surrounding == Environment /\ UNCHANGED <<fetchVars, passVars>> /\ Witness
Upstream    == /\ \E r \in Release : Publish(r)
               /\ UNCHANGED passVars
               /\ Witness

Next == Fetch \/ Clean \/ StopRun \/ Surrounding \/ Upstream

Spec == Init /\ [][Next]_vars

-----------------------------------------------------------------------------
(* Every variable holds what its declaration says.                         *)
TypeOK ==
    /\ SeederTypeOK
    /\ FetchingTypeOK
    /\ Cleaning!CleanupTypeOK
    /\ pc \in FetchPC \cup Cleaning!CleanupPC \cup {"idle"}

(* The half of the run before cleanup does nothing to the daemon or the    *)
(* histories that Cleanup's short stand-in for it would not do: with its   *)
(* steps seen as idle time, the whole run is a run of Cleanup.             *)
Half == INSTANCE Cleanup WITH
            Faults <- Faults \ {"web", "tracker"},
            pc     <- IF pc \in FetchPC THEN "idle" ELSE pc,
            due    <- IF pc \in FetchPC THEN TRUE ELSE due

CleansUp == Half!Spec

(* A live ratio that is at least v, to within half of the last digit that  *)
(* is written down: what is logged as 1.000 may be 0.9995.                 *)
Reaches(x, v) == 2 * x >= (2 * v - 1) * RatioUnit

(* Some copy of p had reached the floor, and if the last log has a ratio   *)
(* of p, that one has: "a live ratio always wins" over the record of an    *)
(* earlier copy.                                                           *)
ReachedFloor(p) ==
    /\ Reaches(peak[p], Floor)
    /\ p \in DOMAIN ratioLog => ratioLog[p] >= Floor

(* "A new version is fetched only if the previous version of the same ISO  *)
(* type reached a seed ratio of at least 1.0": when a release is fetched,  *)
(* take the highest version below it that was ever loaded.  If a run's     *)
(* ratio log has had it, it had reached the floor.                         *)
GateHonoured ==
    [][\A r \in queue \ queue' :
          /\ pc = "fetch" /\ watch'[r] # watch[r]
          /\ IsoType[r] \notin ByAddedDate
          => LET seeded == Previous(r, {n \in Release : loaded[n] >= 0})
             IN  \A p \in seeded :
                    /\ \A n \in seeded : Version[n] <= Version[p]
                    /\ p \in witnessed
                    => ReachedFloor(p)]_vars

(* What of that a stop, or a failing call or save, cannot undo: what is on *)
(* record when a release is fetched does not stand against it.  The        *)
(* highest previous version on record had reached the floor; of Devuan,    *)
(* whose names have no version, it was held already, or some other release *)
(* on record had.  Only a removed history that cannot be opened can: the   *)
(* gate goes on without it.                                                *)
RecordHonoured ==
    [][\A r \in queue \ queue' :
          pc = "fetch" /\ watch'[r] # watch[r] /\ ~SkipRatioCheck =>
             LET known == {n \in DOMAIN ratioLog \cup DOMAIN removedHistory :
                             n # r /\ IsoType[n] = IsoType[r]}
             IN  IF IsoType[r] \in ByAddedDate
                 THEN \/ r \in DOMAIN ratioLog
                      \/ known = {}
                      \/ \E n \in known : ReachedFloor(n)
                 ELSE \A p \in Previous(r, known) :
                         \/ \E n \in Previous(r, known) : Version[n] > Version[p]
                         \/ ReachedFloor(p)]_vars

(* No failure or stop makes the records flatter a release: what the ratio  *)
(* log or the removed history says of it, some copy of it had reached.     *)
RecordsTruthful ==
    /\ \A r \in DOMAIN ratioLog :
          loaded[r] >= 0 /\ Reaches(peak[r], ratioLog[r])
    /\ \A r \in DOMAIN removedHistory :
          loaded[r] >= 0 /\ Reaches(peak[r], removedHistory[r].ratio)

(* "Once cleanup removes a torrent ... it's remembered ... and never       *)
(* automatically re-added by the old-release check": over passes of many   *)
(* days, of which only the file is left, while nothing of cleanup fails.   *)
NeverReAdded ==
    [][\A r \in queue \ queue' : pc = "oldLoop" /\ watch'[r] # watch[r] =>
          loaded[r] = -1]_vars

(* "A release with no demand is not checked again for 7 days", by any      *)
(* later run, which has only the state file to go by: as long as every     *)
(* check gets as far as its save and the file can be opened.  It does not  *)
(* when a stop, a failing save or one tracker's answer ends the check.     *)
NotCheckedTooSoon ==
    [][\A r \in Release : Scraped(r) /\ checkedOn[r] >= 0 =>
          today - checkedOn[r] >= RecheckDays]_vars

(* A release fetched once is not downloaded again while it waits or seeds: *)
(* a new file only ever appears where neither name of it was in /watch and *)
(* the daemon does not hold the torrent.                                   *)
FetchedOnce ==
    [][\A r \in Release : watch'[r] = "torrent" /\ watch[r] # "torrent" =>
          watch[r] = "absent" /\ r \notin held]_vars

(* The whole run keeps to what DemandCheck says of /watch, demand aside: a *)
(* file comes whole and at once where there is none, the daemon loads it,  *)
(* and only a loaded one ever goes.                                        *)
Folder == INSTANCE DemandCheck WITH Wanted <- Release

FollowsDemandCheck == Folder!Spec

(* Cleanup never removes the newest torrent of a type: the one of the      *)
(* highest version, or of Devuan the one the daemon added last, on a plan  *)
(* as old as the daemon's last answer.                                     *)
NewestKept ==
    [][\A r \in held \ held' : \E q \in held' : Newer(q, r, added)]_vars

(* A loaded file does not outlive its torrent.                             *)
NoOrphanWatchFile == Cleaning!NoOrphanWatchFile
=============================================================================
