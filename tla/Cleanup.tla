------------------------------ MODULE Cleanup ------------------------------
(***************************************************************************)
(* The removing half of a daily run: _cleanup (by stagnation, or keeping   *)
(* only the latest version) and then enforce_disk_usage_limit.  Every RPC, *)
(* every file saved and every watch file removed is a step of its own, so  *)
(* a failure or a stop of the container can fall between any two of them.  *)
(* The plan of a pass is made once, from one get_torrents answer, and      *)
(* worked off while the daemon goes on loading and uploading.              *)
(***************************************************************************)
EXTENDS Seeder

CONSTANTS
    Modes,        \* cleanup settings the container may run with: "stagnant"
                  \* and, for CLEANUP_KEEP_ONLY_LATEST_VERSION,
                  \* "keep_only_latest"
    MinRatio,     \* CLEANUP_MIN_RATIO in steps of the live ratio; -1 for
                  \* CLEANUP_SKIP_RATIO_CHECK
    DiskLimit,    \* used space that reaches the disk threshold; 0 is off
    Faults        \* what may go wrong: "rpc", "file" (a file not written or
                  \* removed), "read" (a JSON file not opened), "stop"

ASSUME CleanupAssumption ==
    /\ Modes \subseteq {"stagnant", "keep_only_latest"}
    /\ MinRatio \in Ratio
    /\ DiskLimit \in Nat
    /\ Faults \subseteq {"rpc", "file", "read", "stop"}

VARIABLES
    mode,     \* the pass being worked: the reason recorded for its removals
    todo,     \* torrents of the plan not yet removed
    removing, \* removed from the daemon, its watch file not removed yet
    seen,     \* the ratios get_torrents answered with
    ledger,   \* removed_history in memory
    history   \* the ratio history in memory

passVars == <<mode, todo, removing, seen, ledger, history>>
vars     == <<seederVars, passVars>>

CleanupPC == {"cleanup", "remove", "unlink", "saveRemoved", "saveHistory",
              "disk", "done"}

CleanupTypeOK ==
    /\ mode \in Modes \cup {"none", "disk_pressure"}
    /\ todo \subseteq Release
    /\ removing \subseteq Release
    /\ seen \in [Release -> Ratio]
    /\ IsDict(ledger, Removal)
    /\ IsDict(history, SUBSET Sample)

CleanupInit ==
    /\ mode = "none"
    /\ todo = {}
    /\ removing = {}
    /\ seen = [r \in Release |-> 0]
    /\ ledger = Empty
    /\ history = Empty

(* What a run holds in memory is gone once the pass is over.               *)
Forget ==
    /\ mode' = "none"
    /\ todo' = {}
    /\ removing' = {}
    /\ seen' = [r \in Release |-> 0]
    /\ ledger' = Empty
    /\ history' = Empty

-----------------------------------------------------------------------------
(* An exception is caught by run(): cleanup's leads on to the disk check,  *)
(* the disk check's to the end of the run.                                 *)
AfterPass == IF mode = "disk_pressure" THEN "done" ELSE "disk"

Abandon == pc' = AfterPass /\ Forget

ReadFails == "read" \in Faults

(* cleanup_old_versions: get_torrents, plan_cleanup, load_removed_history. *)
BeginKeepOnlyLatest ==
    /\ pc = "cleanup"
    /\ "keep_only_latest" \in Modes
    /\ mode' = "keep_only_latest"
    /\ todo' = {r \in Superseded(held, added) : ratio[r] >= MinRatio}
    /\ seen' = ratio
    /\ ledger' \in ReadBack(removedHistory, ReadFails)
    /\ pc' = "remove"
    /\ UNCHANGED <<clockVars, daemonVars, watch, other, fileVars,
                   removing, history>>

(* Below, log and removals are the two histories as they have been read.   *)
RemovedOn(r, removals) == IF r \in DOMAIN removals THEN removals[r].date ELSE -1

Samples(r, log) == IF r \in DOMAIN log THEN log[r] ELSE {}

(* update_ratio_history: what is not held any more is dropped.             *)
UpdatedHistory(log, removals) ==
    [r \in held |->
        Updated(Samples(r, log), RemovedOn(r, removals), ratio[r], today)]

(* cleanup_stagnant_torrents up to its removal loop.                       *)
BeginStagnation ==
    /\ pc = "cleanup"
    /\ "stagnant" \in Modes
    /\ mode' = "stagnant"
    /\ ledger' \in ReadBack(removedHistory, ReadFails)
    /\ \E log \in ReadBack(ratioHistory, ReadFails) :
          history' = UpdatedHistory(log, ledger')
    /\ todo' = {r \in Superseded(held, added) :
                   Stagnant(history'[r], ratio[r], today)}
    /\ seen' = ratio
    /\ pc' = "remove"
    /\ UNCHANGED <<clockVars, daemonVars, watch, other, fileVars, removing>>

(* The daemon cannot be reached, or a setting does not parse.              *)
CleanupUnavailable ==
    /\ pc = "cleanup"
    /\ "rpc" \in Faults
    /\ pc' = "disk"
    /\ UNCHANGED <<clockVars, daemonVars, watch, other, fileVars, passVars>>

-----------------------------------------------------------------------------
DiskFull == UsedSpace >= DiskLimit

(* The loop's next torrent.  Cleanup lists each type from its newest; disk *)
(* pressure goes by ratio, lowest first, and looks at the disk again.      *)
IsNext(r) ==
    /\ r \in todo
    /\ IF mode = "disk_pressure"
       THEN DiskFull /\ \A q \in todo : seen[r] <= seen[q]
       ELSE \A q \in todo : ~Newer(q, r, added)

(* tc.remove_torrent(id, delete_data=True)                                 *)
Removed(r) ==
    /\ held' = held \ {r}
    /\ ratio' = [ratio EXCEPT ![r] = 0]
    /\ UNCHANGED <<added, stamp, loaded>>

RemoveTorrent(r) ==
    /\ pc = "remove"
    /\ IsNext(r)
    /\ Removed(r)
    /\ removing' = {r}
    /\ pc' = "unlink"
    /\ UNCHANGED <<clockVars, watch, other, fileVars,
                   mode, todo, seen, ledger, history>>

(* Mutant: the failure is swallowed and the file removed all the same.     *)
RemoveTorrentFailsIgnored(r) ==
    /\ pc = "remove"
    /\ "rpc" \in Faults
    /\ IsNext(r)
    /\ Removed(r) \/ UNCHANGED daemonVars
    /\ removing' = {r}
    /\ pc' = "unlink"
    /\ UNCHANGED <<clockVars, watch, other, fileVars,
                   mode, todo, seen, ledger, history>>

(* remove_torrent raises: the request was refused, or only its answer was  *)
(* lost and the torrent is gone.                                           *)
RemoveTorrentFails(r) ==
    /\ pc = "remove"
    /\ "rpc" \in Faults
    /\ IsNext(r)
    /\ Removed(r) \/ UNCHANGED daemonVars
    /\ Abandon
    /\ UNCHANGED <<clockVars, watch, other, fileVars>>

(* Mutant: only the .torrent name is tried, not .torrent.added.            *)
RemoveUnloadedFile(r) ==
    /\ pc = "unlink"
    /\ r \in removing
    /\ watch' = [watch EXCEPT ![r] = IF @ = "torrent" THEN "absent" ELSE @]
    /\ ledger' = Put(ledger, r, [date |-> today, ratio |-> Rounded(seen[r])])
    /\ todo' = todo \ {r}
    /\ removing' = {}
    /\ pc' = "remove"
    /\ UNCHANGED <<clockVars, daemonVars, other, fileVars, mode, seen, history>>

(* Mutant: the removal is dated a day ahead.                               *)
RemoveDatedTomorrow(r) ==
    /\ pc = "unlink"
    /\ r \in removing
    /\ watch' = [watch EXCEPT ![r] = "absent"]
    /\ ledger' = Put(ledger, r, [date |-> today + 1, ratio |-> Rounded(seen[r])])
    /\ todo' = todo \ {r}
    /\ removing' = {}
    /\ pc' = "remove"
    /\ UNCHANGED <<clockVars, daemonVars, other, fileVars, mode, seen, history>>

(* _remove_watch_file, which goes on when the file cannot be removed, and  *)
(* record_removal.                                                         *)
RemoveWatchFile(r) ==
    /\ pc = "unlink"
    /\ r \in removing
    /\ \/ watch' = [watch EXCEPT ![r] = "absent"]
       \/ "file" \in Faults /\ UNCHANGED watch
    /\ ledger' = Put(ledger, r, [date |-> today, ratio |-> Rounded(seen[r])])
    /\ todo' = todo \ {r}
    /\ removing' = {}
    /\ pc' = "remove"
    /\ UNCHANGED <<clockVars, daemonVars, other, fileVars, mode, seen, history>>

(* Mutant: reaching the disk limit's other side returns without saving.    *)
FinishLoopUnsaved ==
    /\ pc = "remove"
    /\ todo = {} \/ (mode = "disk_pressure" /\ ~DiskFull)
    /\ IF mode = "disk_pressure"
       THEN Abandon
       ELSE pc' = "saveRemoved" /\ UNCHANGED passVars
    /\ UNCHANGED <<clockVars, daemonVars, watch, other, fileVars>>

FinishLoop ==
    /\ pc = "remove"
    /\ todo = {} \/ (mode = "disk_pressure" /\ ~DiskFull)
    /\ pc' = "saveRemoved"
    /\ UNCHANGED <<clockVars, daemonVars, watch, other, fileVars, passVars>>

(* save_removed_history, and save_ratio_history after a stagnation pass.   *)
SaveRemovedHistory ==
    /\ pc = "saveRemoved"
    /\ removedHistory' = ledger
    /\ IF mode = "stagnant"
       THEN pc' = "saveHistory" /\ UNCHANGED passVars
       ELSE Abandon
    /\ UNCHANGED <<clockVars, daemonVars, watch, other, ratioHistory>>

SaveRatioHistory ==
    /\ pc = "saveHistory"
    /\ ratioHistory' = history
    /\ Abandon
    /\ UNCHANGED <<clockVars, daemonVars, watch, other, removedHistory>>

SaveFails ==
    /\ pc \in {"saveRemoved", "saveHistory"}
    /\ "file" \in Faults
    /\ Abandon
    /\ UNCHANGED <<clockVars, daemonVars, watch, other, fileVars>>

-----------------------------------------------------------------------------
(* enforce_disk_usage_limit: nothing to do, or plan_disk_pressure_cleanup. *)
DiskBelowLimit ==
    /\ pc = "disk"
    /\ DiskLimit = 0 \/ ~DiskFull \/ Superseded(held, added) = {}
    /\ pc' = "done"
    /\ UNCHANGED <<clockVars, daemonVars, watch, other, fileVars, passVars>>

(* Mutant: the removed history is not loaded before it is added to.        *)
BeginDiskPressureAfresh ==
    /\ pc = "disk"
    /\ DiskLimit > 0
    /\ DiskFull
    /\ Superseded(held, added) # {}
    /\ mode' = "disk_pressure"
    /\ todo' = Superseded(held, added)
    /\ seen' = ratio
    /\ pc' = "remove"
    /\ UNCHANGED <<clockVars, daemonVars, watch, other, fileVars,
                   removing, ledger, history>>

BeginDiskPressure ==
    /\ pc = "disk"
    /\ DiskLimit > 0
    /\ DiskFull
    /\ Superseded(held, added) # {}
    /\ mode' = "disk_pressure"
    /\ todo' = Superseded(held, added)
    /\ seen' = ratio
    /\ ledger' \in ReadBack(removedHistory, ReadFails)
    /\ pc' = "remove"
    /\ UNCHANGED <<clockVars, daemonVars, watch, other, fileVars,
                   removing, history>>

DiskUnavailable ==
    /\ pc = "disk"
    /\ "rpc" \in Faults
    /\ pc' = "done"
    /\ UNCHANGED <<clockVars, daemonVars, watch, other, fileVars, passVars>>

EndRun ==
    /\ pc = "done"
    /\ pc' = "idle"
    /\ UNCHANGED <<clockVars, daemonVars, watch, other, fileVars, passVars>>

(* The container is stopped mid-run and started again: the run's memory is *)
(* lost, the daemon and the files keep what they had, a run starts at once.*)
Stop ==
    /\ pc # "idle"
    /\ "stop" \in Faults
    /\ pc' = "idle"
    /\ due' = TRUE
    /\ Forget
    /\ UNCHANGED <<today, daemonVars, watch, other, fileVars>>

CleanupStep ==
    \/ BeginKeepOnlyLatest \/ BeginStagnation \/ CleanupUnavailable
    \/ \E r \in Release : \/ RemoveTorrent(r) \/ RemoveTorrentFails(r)
                          \/ RemoveWatchFile(r)
    \/ FinishLoop \/ SaveRemovedHistory \/ SaveRatioHistory \/ SaveFails
    \/ DiskBelowLimit \/ BeginDiskPressure \/ DiskUnavailable \/ EndRun

-----------------------------------------------------------------------------
(* Cleanup alone: the run's earlier half is cut down to a new file in the  *)
(* watch folder between runs.  DailyRun has the real thing.                *)
StartCleanup ==
    /\ pc = "idle"
    /\ due
    /\ due' = FALSE
    /\ pc' = "cleanup"
    /\ UNCHANGED <<today, daemonVars, watch, other, fileVars, passVars>>

NewWatchFile(r) ==
    /\ pc = "idle"
    /\ watch[r] = "absent"
    /\ watch' = [watch EXCEPT ![r] = "torrent"]
    /\ UNCHANGED <<clockVars, daemonVars, other, fileVars, pc, passVars>>

Init == SeederInit /\ CleanupInit

Next ==
    \/ CleanupStep
    \/ StartCleanup
    \/ Stop
    \/ \E r \in Release : NewWatchFile(r)
    \/ Environment /\ UNCHANGED passVars

Spec == Init /\ [][Next]_vars

-----------------------------------------------------------------------------
(* Every variable holds what its declaration says.                         *)
TypeOK ==
    /\ SeederTypeOK
    /\ pc \in CleanupPC \cup {"idle"}
    /\ CleanupTypeOK

(* "The newest version of an ISO type is never removed": whatever leaves   *)
(* the daemon leaves a newer torrent of its type behind, although the plan *)
(* is as old as its get_torrents call and torrents are loaded meanwhile.   *)
NewestKept ==
    [][\A r \in held \ held' : \E q \in held' : Newer(q, r, added)]_vars

(* A torrent the daemon holds keeps its renamed file in /watch, so that    *)
(* download_torrent never takes it for one to fetch, and cleanup never     *)
(* removes the file of a torrent it leaves seeding.                        *)
HeldHasWatchFile == \A r \in held : watch[r] = "added"

(* The removed history forgets nothing as long as it can be opened: over   *)
(* two passes of a run, failing calls and saves, and stops, no save writes *)
(* back less than was there.  A pass that could not open it starts from    *)
(* nothing and saves its own removals alone.                               *)
RemovedHistoryGrows ==
    [][/\ DOMAIN removedHistory \subseteq DOMAIN removedHistory'
       /\ \A r \in DOMAIN removedHistory :
             removedHistory'[r].date >= removedHistory[r].date]_vars

(* The ratio history stays bounded: a torrent's samples lie at least the   *)
(* interval, and at most window plus interval, apart.                      *)
SamplesSpaced ==
    \A r \in DOMAIN ratioHistory : \A s, t \in ratioHistory[r] :
        s # t => /\ s.date - t.date >= Interval \/ t.date - s.date >= Interval
                 /\ s.date - t.date <= MaxAge

-----------------------------------------------------------------------------
(* What holds while no step fails, and is lost when one does (README).     *)

(* "Once cleanup removes a torrent ... it's remembered": between runs,     *)
(* whatever was loaded and is gone stands in the removed history with a    *)
(* removal no earlier than that load.                                      *)
RemovalsRemembered ==
    pc = "idle" => \A r \in Release \ held : loaded[r] >= 0 =>
        /\ r \in DOMAIN removedHistory
        /\ removedHistory[r].date >= loaded[r]

(* "A removal deletes the downloaded data and the .torrent in /watch": no  *)
(* loaded file outlives its torrent, to be taken for a fetched one.        *)
NoOrphanWatchFile ==
    \A r \in Release \ held : watch[r] = "added" => r \in removing

(* "A version tracked for less than the full 30 days is too new to judge": *)
(* stagnation never removes a copy held for less than the window, however  *)
(* many samples an earlier copy of it left.                                *)
TooNewToJudge ==
    [][\A r \in held \ held' :
          mode = "stagnant" => today - loaded[r] >= Window]_vars
=============================================================================
