------------------------------ MODULE Fetching ------------------------------
(***************************************************************************)
(* The adding half of a daily run: _fetch_latest, the old-release check    *)
(* and the ratio log the next run's gate reads.  Each download, each check *)
(* of an old release and each save is a step of its own.                   *)
(***************************************************************************)
EXTENDS Seeder

CONSTANTS
    ListsAll,         \* iso types whose site lists every supported version
                      \* (Ubuntu); the others list the newest only
    Discovered,       \* iso types in OLD_RELEASE_DISCOVERY (Kali, Fedora)
    SkipRatioCheck,   \* SKIP_RATIO_CHECK
    CheckOldReleases, \* FETCH_TORRENTS_CHECK_OLD_RELEASES, and its thresholds
                      \* parse: if not, every check raises before it begins
    SkipRemoved,      \* FETCH_TORRENTS_OLD_RELEASE_SKIP_REMOVED
    RecheckDays,      \* FETCH_TORRENTS_OLD_RELEASE_RECHECK_DAYS
    Faults            \* what may go wrong: "rpc", "file" (a file not written or
                      \* removed), "read" (a JSON file not opened), "stop",
                      \* "web", "tracker" (a count in an answer is no number)

ASSUME FetchingAssumption ==
    /\ ListsAll \cap Discovered = {}
    /\ {SkipRatioCheck, CheckOldReleases, SkipRemoved} \subseteq BOOLEAN
    /\ RecheckDays \in Nat
    /\ Faults \subseteq {"rpc", "file", "read", "stop", "web", "tracker"}

VARIABLES
    published,  \* releases out upstream
    ratioLog,   \* the ratios get_previous_ratios parses from the ratio log
    checkState, \* the old-release check state file: day of the last check
    live,       \* ratioLog as read when the run began
    gone,       \* the removed history as read when the run began
    sites,      \* iso types whose site is still to be read
    queue,      \* releases of the listing being worked off
    checks,     \* the check state in memory
    barred      \* removed releases the old-release check leaves alone

fetchVars == <<published, ratioLog, checkState, live, gone, sites, queue,
               checks, barred>>

FetchPC == {"fetch", "old", "oldLoop", "raised", "log"}

IsoTypes == {IsoType[r] : r \in Release}

FetchingTypeOK ==
    /\ published \subseteq Release
    /\ IsDict(ratioLog, Ratio)
    /\ IsDict(checkState, Day)
    /\ IsDict(live, Ratio)
    /\ IsDict(gone, Removal)
    /\ sites \subseteq IsoTypes
    /\ queue \subseteq Release
    /\ IsDict(checks, Day)
    /\ barred \subseteq Release

ForgetFetching ==
    /\ live' = Empty
    /\ gone' = Empty
    /\ sites' = {}
    /\ queue' = {}
    /\ checks' = Empty
    /\ barred' = {}

FetchingInit ==
    /\ published = {}
    /\ ratioLog = Empty
    /\ checkState = Empty
    /\ live = Empty
    /\ gone = Empty
    /\ sites = {}
    /\ queue = {}
    /\ checks = Empty
    /\ barred = {}

-----------------------------------------------------------------------------
(* Releases come out in the order of their versions.                       *)
Publish(r) ==
    /\ r \notin published
    /\ \A q \in Release : IsoType[q] = IsoType[r] /\ Version[q] < Version[r]
                             => q \in published
    /\ published' = published \cup {r}
    /\ UNCHANGED <<seederVars, ratioLog, checkState, live, gone, sites, queue,
                   checks, barred>>

Newest(r) ==
    /\ r \in published
    /\ \A q \in published : IsoType[q] = IsoType[r] => Version[q] <= Version[r]

Listing(t) ==
    {r \in published : IsoType[r] = t /\ (t \in ListsAll \/ Newest(r))}

OldListing(t) == {r \in published : IsoType[r] = t /\ ~Newest(r)}

-----------------------------------------------------------------------------
ReadFails == "read" \in Faults

(* run() up to _fetch_latest: get_previous_ratios, load_removed_history.   *)
(* A ratio log that cannot be opened raises here: a day without a run.     *)
StartRun ==
    /\ pc = "idle"
    /\ due
    /\ due' = FALSE
    /\ live' = ratioLog
    /\ gone' \in ReadBack(removedHistory, ReadFails)
    /\ sites' = IsoTypes
    /\ pc' = "fetch"
    /\ UNCHANGED <<today, daemonVars, watch, other, fileVars, published,
                   ratioLog, checkState, queue, checks, barred>>

(* A fetch_*() or discovery function answers, or fails and lists nothing.  *)
ReadSite(t) ==
    /\ pc \in {"fetch", "oldLoop"}
    /\ queue = {}
    /\ t \in sites
    /\ sites' = sites \ {t}
    /\ \/ queue' = IF pc = "fetch" THEN Listing(t) ELSE OldListing(t)
       \/ "web" \in Faults /\ UNCHANGED queue
    /\ UNCHANGED <<seederVars, published, ratioLog, checkState, live, gone,
                   checks, barred>>

(* The release stays out: gated, already there, or its download failed.    *)
Gated(r) == ~SkipRatioCheck /\ ~ShouldFetch(r, live, gone)

LeaveRelease(r) ==
    /\ pc = "fetch"
    /\ r \in queue
    /\ Gated(r) \/ watch[r] # "absent" \/ "web" \in Faults
    /\ queue' = queue \ {r}
    /\ UNCHANGED <<seederVars, published, ratioLog, checkState, live, gone,
                   sites, checks, barred>>

(* Mutant: a file already loaded (.torrent.added) is not looked for.       *)
DownloadUnlessWaiting(r) ==
    /\ pc = "fetch"
    /\ r \in queue
    /\ ~Gated(r)
    /\ watch[r] # "torrent"
    /\ watch' = [watch EXCEPT ![r] = "torrent"]
    /\ queue' = queue \ {r}
    /\ UNCHANGED <<clockVars, daemonVars, other, fileVars, pc, published,
                   ratioLog, checkState, live, gone, sites, checks, barred>>

(* download_torrent ending in _write_watch_file's os.replace.              *)
Download(r) ==
    /\ pc = "fetch"
    /\ r \in queue
    /\ ~Gated(r)
    /\ watch[r] = "absent"
    /\ watch' = [watch EXCEPT ![r] = "torrent"]
    /\ queue' = queue \ {r}
    /\ UNCHANGED <<clockVars, daemonVars, other, fileVars, pc, published,
                   ratioLog, checkState, live, gone, sites, checks, barred>>

EndFetch ==
    /\ pc = "fetch"
    /\ sites = {} /\ queue = {}
    /\ pc' = IF CheckOldReleases THEN "old" ELSE "log"
    /\ ForgetFetching
    /\ UNCHANGED <<clockVars, daemonVars, watch, other, fileVars, published,
                   ratioLog, checkState>>

-----------------------------------------------------------------------------
(* _check_old_releases up to the loop over the distros.                    *)
BeginOldCheck ==
    /\ pc = "old"
    /\ checks' \in ReadBack(checkState, ReadFails)
    /\ barred' \in IF SkipRemoved
                   THEN {DOMAIN h : h \in ReadBack(removedHistory, ReadFails)}
                   ELSE {{}}
    /\ sites' = Discovered \cap IsoTypes
    /\ pc' = "oldLoop"
    /\ UNCHANGED <<clockVars, daemonVars, watch, other, fileVars, published,
                   ratioLog, checkState, live, gone, queue>>

(* Mutant: one day short.                                                  *)
RecheckDueEarly(r) == r \in DOMAIN checks => today - checks[r] >= RecheckDays - 1

(* should_recheck_old_release                                              *)
RecheckDue(r) == r \in DOMAIN checks => today - checks[r] >= RecheckDays

(* Mutants: the removed history, or a loaded file, is not looked at.       *)
PassedOverUnbarred(r) == watch[r] # "absent" \/ ~RecheckDue(r)
PassedOverWaiting(r) == watch[r] = "torrent" \/ r \in barred \/ ~RecheckDue(r)

PassedOver(r) == watch[r] # "absent" \/ r \in barred \/ ~RecheckDue(r)

PassOver(r) ==
    /\ pc = "oldLoop"
    /\ r \in queue
    /\ PassedOver(r)
    /\ queue' = queue \ {r}
    /\ UNCHANGED <<seederVars, published, ratioLog, checkState, live, gone,
                   sites, checks, barred>>

(* Mutant: the state file holds the day of the next check.                 *)
NextCheckNoDemand(r) ==
    /\ pc = "oldLoop"
    /\ r \in queue
    /\ ~PassedOver(r)
    /\ checks' = Put(checks, r, today + RecheckDays)
    /\ queue' = queue \ {r}
    /\ UNCHANGED <<seederVars, published, ratioLog, checkState, live, gone,
                   sites, barred>>

(* Scraped: no demand, or its .torrent or every tracker out of reach.      *)
CheckedNoDemand(r) ==
    /\ pc = "oldLoop"
    /\ r \in queue
    /\ ~PassedOver(r)
    /\ checks' = Put(checks, r, today)
    /\ queue' = queue \ {r}
    /\ UNCHANGED <<seederVars, published, ratioLog, checkState, live, gone,
                   sites, barred>>

CheckedInDemand(r) ==
    /\ pc = "oldLoop"
    /\ r \in queue
    /\ ~PassedOver(r)
    /\ watch' = [watch EXCEPT ![r] = "torrent"]
    /\ checks' = Put(checks, r, today)
    /\ queue' = queue \ {r}
    /\ UNCHANGED <<clockVars, daemonVars, other, fileVars, pc, published,
                   ratioLog, checkState, live, gone, sites, barred>>

(* In demand but not written: any record of a check is dropped, the next   *)
(* run tries again.                                                        *)
AddingFails(r) ==
    /\ pc = "oldLoop"
    /\ "file" \in Faults
    /\ r \in queue
    /\ ~PassedOver(r)
    /\ checks' = [n \in DOMAIN checks \ {r} |-> checks[n]]
    /\ queue' = queue \ {r}
    /\ UNCHANGED <<seederVars, published, ratioLog, checkState, live, gone,
                   sites, barred>>

(* evaluate_old_release_demand raises once the trackers have been asked:   *)
(* has_unmet_demand compares a count that is no number, or the temporary   *)
(* file cannot be removed.                                                 *)
EvaluationRaises(r) ==
    /\ pc = "oldLoop"
    /\ {"tracker", "file"} \cap Faults # {}
    /\ r \in queue
    /\ ~PassedOver(r)
    /\ queue' = queue \ {r}
    /\ pc' = "raised"
    /\ UNCHANGED <<clockVars, daemonVars, watch, other, fileVars, published,
                   ratioLog, checkState, live, gone, sites, checks, barred>>

(* run() catches it: what has been added stays, no check is saved.         *)
AbandonOldCheck ==
    /\ pc = "raised"
    /\ pc' = "log"
    /\ ForgetFetching
    /\ UNCHANGED <<clockVars, daemonVars, watch, other, fileVars, published,
                   ratioLog, checkState>>

EndOldCheck ==
    /\ pc = "oldLoop"
    /\ sites = {} /\ queue = {}
    /\ checkState' = checks \/ ("file" \in Faults /\ UNCHANGED checkState)
    /\ pc' = "log"
    /\ ForgetFetching
    /\ UNCHANGED <<clockVars, daemonVars, watch, other, fileVars, published,
                   ratioLog>>

-----------------------------------------------------------------------------
(* Mutant: the pattern reads past the sign.                                *)
ParsedPastSign(S) ==
    [r \in S |-> Rounded(IF ratio[r] < 0 THEN -ratio[r] ELSE ratio[r])]

(* What a log of the torrents in S reads as: the pattern has no sign, so a *)
(* torrent with no ratio yet leaves no record.                             *)
Parsed(S) == [r \in {q \in S : ratio[q] >= 0} |-> Rounded(ratio[r])]

(* log_seed_ratios_via_http.  The daemon may not answer, the log not open; *)
(* a line that cannot be written is missing, and nobody is told.           *)
LogRatios ==
    /\ pc = "log"
    /\ \/ ratioLog' = Parsed(held)
       \/ {"rpc", "file"} \cap Faults # {} /\ UNCHANGED ratioLog
       \/ "file" \in Faults /\ \E S \in SUBSET held : ratioLog' = Parsed(S)
    /\ pc' = "cleanup"
    /\ UNCHANGED <<clockVars, daemonVars, watch, other, fileVars, published,
                   checkState, live, gone, sites, queue, checks, barred>>

(* The first [ratio] line has truncated the log, and the container stops   *)
(* before the rest is written: the lines come highest ratio first.         *)
StopLogging ==
    /\ pc = "log"
    /\ "stop" \in Faults
    /\ \E S \in SUBSET held :
          /\ \A q \in S, n \in held \ S : ratio[q] >= ratio[n]
          /\ ratioLog' = Parsed(S)
    /\ due' = TRUE
    /\ pc' = "idle"
    /\ UNCHANGED <<today, daemonVars, watch, other, fileVars, published,
                   checkState, live, gone, sites, queue, checks, barred>>

StopFetching ==
    /\ pc \in FetchPC
    /\ "stop" \in Faults
    /\ due' = TRUE
    /\ pc' = "idle"
    /\ ForgetFetching
    /\ UNCHANGED <<today, daemonVars, watch, other, fileVars, published,
                   ratioLog, checkState>>

FetchingStep ==
    \/ StartRun
    \/ \E t \in IsoTypes : ReadSite(t)
    \/ \E r \in Release :
          \/ LeaveRelease(r) \/ Download(r) \/ PassOver(r)
          \/ CheckedNoDemand(r) \/ CheckedInDemand(r) \/ AddingFails(r)
          \/ EvaluationRaises(r)
    \/ EndFetch \/ BeginOldCheck \/ AbandonOldCheck \/ EndOldCheck
    \/ LogRatios \/ StopLogging \/ StopFetching
=============================================================================
