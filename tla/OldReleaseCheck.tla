-------------------------- MODULE OldReleaseCheck --------------------------
(***************************************************************************)
(* check_old_releases_for_demand in detail, run after run: the look for a  *)
(* file under either name, the scrape of the trackers, the decision on the *)
(* swarm and the write into /watch, with the daemon renaming files and the *)
(* container stopping between any two steps.  Fetching has the check as    *)
(* single steps with a free outcome; DemandCheck says what they promise.   *)
(* Which candidates are passed over as removed or checked lately is        *)
(* Fetching's, and free here.                                              *)
(***************************************************************************)
EXTENDS TrackerScrape

CONSTANTS
    Seeders,          \* [Tracker -> [Release -> Nat]], what a tracker reports
    Leechers,         \* likewise
    MinLeechers,      \* FETCH_TORRENTS_OLD_RELEASE_MIN_LEECHERS
    MinLeecherRatio,  \* ..._MIN_LEECHER_RATIO, in tenths
    AllowZeroSeeders, \* ..._ALLOW_ZERO_SEEDERS
    MaxStops          \* bound: stops of the container

ASSUME CheckAssumption ==
    /\ Seeders \in [Tracker -> [Release -> Nat]]
    /\ Leechers \in [Tracker -> [Release -> Nat]]
    /\ MinLeechers \in Nat
    /\ MinLeecherRatio \in Nat
    /\ AllowZeroSeeders \in BOOLEAN
    /\ MaxStops \in Nat

VARIABLES part, torrent, loaded, writing

watchVars == <<part, torrent, loaded, writing>>

Watch == INSTANCE WatchFolder

VARIABLES
    pc,         \* where check_old_releases_for_demand is
    candidates, \* releases of the loop still to come
    current,    \* the release of this round
    stops       \* stops of the container so far

checkVars == <<pc, candidates, current, stops>>
vars == <<scrapeVars, watchVars, checkVars>>

CheckPC ==
    {"idle", "loop", "first look", "second look", "fetch", "scrape", "write"}

CheckTypeOK ==
    /\ pc \in CheckPC
    /\ candidates \subseteq Release
    /\ current \in Release \cup {NoRelease}
    /\ stops \in 0 .. MaxStops

Init ==
    /\ ScrapeInit
    /\ Watch!WatchInit
    /\ pc = "idle"
    /\ candidates = {}
    /\ current = NoRelease
    /\ stops = 0

-----------------------------------------------------------------------------
(* has_unmet_demand for the numbers tracker t gives for release r.         *)
InDemand(t, r) ==
    /\ Leechers[t][r] >= MinLeechers
    /\ IF Seeders[t][r] = 0 THEN AllowZeroSeeders
       ELSE 10 * Leechers[t][r] >= MinLeecherRatio * Seeders[t][r]

(* A run comes to the check, with what the distributions list and the      *)
(* low-demand filter leaves.                                               *)
StartCheck ==
    /\ pc = "idle"
    /\ pc' = "loop"
    /\ candidates' \in SUBSET Release
    /\ UNCHANGED <<scrapeVars, watchVars, current, stops>>

(* The round is over.                                                      *)
Continue ==
    /\ pc' = "loop"
    /\ candidates' = candidates \ {current}
    /\ current' = NoRelease
    /\ UNCHANGED stops

NextCandidate(r) ==
    /\ pc = "loop"
    /\ r \in candidates
    /\ pc' = "first look"
    /\ current' = r
    /\ UNCHANGED <<scrapeVars, watchVars, candidates, stops>>

(* Mutant: the renamed file is looked for first.                           *)
LoadedFirst == <<loaded, torrent>>

(* _watch_file_paths: the order in which they are looked at matters, since *)
(* the daemon renames the first to the second in between.                  *)
WatchFilePaths == <<torrent, loaded>>

(* _watch_file_present(dest), one os.path.exists after the other           *)
Look(here, i, next) ==
    /\ pc = here
    /\ IF WatchFilePaths[i][current] # "absent" THEN Continue
       ELSE pc' = next /\ UNCHANGED <<candidates, current, stops>>
    /\ UNCHANGED <<scrapeVars, watchVars>>

FirstLook == Look("first look", 1, "second look")
SecondLook == Look("second look", 2, "fetch")

(* Passed over as removed or checked lately; or evaluate_old_release_demand*)
(* downloads the .torrent, which fails, or goes on to the scrape.          *)
FetchMetadata ==
    /\ pc = "fetch"
    /\ \/ /\ Continue
          /\ UNCHANGED scrapeVars
       \/ /\ BeginScrape(current)
          /\ pc' = "scrape"
          /\ UNCHANGED <<candidates, current, stops>>
    /\ UNCHANGED watchVars

Scrape ==
    /\ pc = "scrape"
    /\ ScrapeStep
    /\ UNCHANGED <<watchVars, checkVars>>

(* keep                                                                    *)
Keep == result # NoStats /\ InDemand(result.from, result.about)

Decide ==
    /\ pc = "scrape"
    /\ stage = "scraped"
    /\ IF Keep
       THEN /\ pc' = "write"
            /\ writing' = "open"
            /\ UNCHANGED <<candidates, current, stops>>
       ELSE Continue /\ UNCHANGED writing
    /\ ForgetScrape
    /\ UNCHANGED <<txn, answers, part, torrent, loaded>>

Write ==
    /\ pc = "write"
    /\ Watch!WriteStep(current)
    /\ UNCHANGED <<scrapeVars, checkVars>>

(* Added, or "Failed to save old release".                                 *)
Written ==
    /\ pc = "write"
    /\ writing \in {"saved", "failed"}
    /\ writing' = "idle"
    /\ Continue
    /\ UNCHANGED <<scrapeVars, part, torrent, loaded>>

(* has_unmet_demand compares a count that is no number, or the temporary   *)
(* file cannot be removed: the exception ends the whole check, and run()   *)
(* goes on without it.                                                     *)
EvaluationRaises ==
    /\ pc = "scrape"
    /\ stage = "scraped"
    /\ pc' = "idle"
    /\ candidates' = {}
    /\ current' = NoRelease
    /\ ForgetScrape
    /\ txn' = 0
    /\ answers' = {}
    /\ UNCHANGED <<watchVars, stops>>

(* The next check is a day away: nothing sent to this one arrives then.    *)
EndCheck ==
    /\ pc = "loop"
    /\ candidates = {}
    /\ pc' = "idle"
    /\ txn' = 0
    /\ answers' = {}
    /\ UNCHANGED <<stage, scraping, at, result, watchVars, candidates, current, stops>>

CheckStep ==
    \/ \E r \in Release : NextCandidate(r)
    \/ FirstLook \/ SecondLook \/ FetchMetadata
    \/ Scrape \/ Decide \/ EvaluationRaises \/ Write \/ Written \/ EndCheck

-----------------------------------------------------------------------------
(* The container stops, and is started again at once: memory is lost, the  *)
(* files stay, and answers may still be under way.                         *)
Stop ==
    /\ pc # "idle"
    /\ stops < MaxStops
    /\ stops' = stops + 1
    /\ pc' = "idle"
    /\ candidates' = {}
    /\ current' = NoRelease
    /\ writing' = "idle"
    /\ ForgetScrape
    /\ UNCHANGED <<txn, answers, part, torrent, loaded>>

(* The daemon scans /watch at any time; torrents are removed by cleanup,   *)
(* later in the same run.                                                  *)
Daemon ==
    /\ \E r \in Release :
          \/ Watch!LoadWatchFile(r)
          \/ pc = "idle" /\ Watch!RemoveLoaded(r)
    /\ UNCHANGED <<scrapeVars, checkVars>>

Next == StartCheck \/ CheckStep \/ Stop \/ Daemon

(* The check is one sequential script, and everything it waits for has a   *)
(* timeout: it is not held up for ever.  Nothing is assumed of trackers,   *)
(* the daemon, or of a next run.                                           *)
Spec == Init /\ [][Next]_vars /\ WF_vars(CheckStep)

-----------------------------------------------------------------------------
TypeOK == ScrapeTypeOK /\ Watch!WatchTypeOK /\ CheckTypeOK

(* A half-written torrent never stands under a name the daemon looks at.   *)
NoPartialFile == Watch!NoPartialFile

(* What the check is for: a torrent some tracker of its own, one it may    *)
(* ask, reports unmet demand for.                                          *)
Asked(r) == {t \in ToSet(Announce[r]) : t \notin Blocked}

WantedReleases ==
    {r \in Release : \E t \in Asked(r) : InDemand(t, r)}

Promised(r) ==
    CASE torrent[r] = "whole" /\ loaded[r] = "absent" -> "torrent"
      [] torrent[r] = "absent" /\ loaded[r] = "whole" -> "added"
      [] torrent[r] = "absent" /\ loaded[r] = "absent" -> "absent"
      [] OTHER -> "broken"

PromisedWatch == [r \in Release |-> Promised(r)]

Promise ==
    INSTANCE DemandCheck WITH Wanted <- WantedReleases, watch <- PromisedWatch

(* The whole check, every step of it, keeps DemandCheck's promise.         *)
ImplementsDemandCheck == Promise!Spec

(* "any failing tracker: try the next one": a scrape that has begun ends   *)
(* without numbers only when its last tracker is behind it, or at a        *)
(* malformed URL (see Schemes); a tracker that fails, is blocked or        *)
(* answers for another request costs the others nothing.                   *)
GivesUpLast ==
    [][stage \notin {"idle", "scraped"} /\ stage' = "scraped" /\ result' = NoStats
        => at > Len(Urls) \/ Scheme[Current] = "malformed"]_vars

(* How far the check has come: candidates left, the place in a round, and  *)
(* there the tracker of the list, the exchange with it, or the write.      *)
Later(order, a, b) ==
    \E i, j \in DOMAIN order : i < j /\ order[i] = a /\ order[j] = b

Forward ==
    \/ pc' = "idle"
    \/ candidates' \subseteq candidates /\ candidates' # candidates
    \/ /\ candidates' = candidates
       /\ \/ Later(<<"loop", "first look", "second look", "fetch", "scrape", "write">>,
                   pc, pc')
          \/ /\ pc = "scrape" /\ pc' = "scrape"
             /\ scraping' = scraping
             /\ \/ at < at' /\ at' <= Len(Urls) + 1
                \/ /\ at' = at
                   /\ Later(<<"trackers", "connect", "scrape", "scraped">>, stage, stage')
          \/ /\ pc = "write" /\ pc' = "write"
             /\ Later(<<"open", "write", "replace", "tidy", "failed", "saved">>,
                      writing, writing')

(* "any failing tracker: try the next one", once and no more: no step of   *)
(* the check goes back, or goes over what it has done again, whatever      *)
(* arrives, fails or times out.  There are finitely many candidates and    *)
(* trackers, so a check has only so many steps.                            *)
NeverBack == [][CheckStep => Forward]_vars

(* A check that has begun comes to its end, however many trackers never    *)
(* answer.                                                                 *)
CheckEnds == pc # "idle" ~> pc = "idle"
=============================================================================
