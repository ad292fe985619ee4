# linux-iso-seeder in TLA+

This directory holds a TLA+ model of linux-iso-seeder: the daily run of
`fetch_torrents.py` beside a transmission daemon, in a container that may be
stopped and restarted at any step, with the start of the container and the
scraping of trackers in detail. TLC checks small instances; TLAPS proves the type
invariants, every safety property the runs check and all three refinements for all
values of the constants, some of them on the condition that certain failures do not
happen. Liveness is left to TLC.

Paths are relative to the repository; line numbers refer to `fetch_torrents.py`
unless another file is named.

## 1. Inventory

| Part | State it keeps | Operations | Interacts through |
| --- | --- | --- | --- |
| Daily loop (`entrypoint.sh:59-66`) | none; a new process per run | start a run, sleep 24 h, restart with the container | starts `run()` (1879) |
| Fetching (1785, 578) | ratios and removed history read at the start | list each site, gate each release, write its `.torrent` | `/watch`, the ratio log, the removed history |
| Ratio gate (414, 443) | none (pure) | may this release be fetched | the ratio log of the previous run, the removed history |
| Old-release check (1820, 1084) | `fetch_torrents_old_release_check_state.json` | discover, pass over or scrape, add | `/watch`, the removed history |
| Ratio log (1250, 226, 159) | `fetch_torrents_ratios.log` | written once a run, read by the next | the daemon's RPC |
| Cleanup (1374, 1583, 1860) | `fetch_torrents_removed_history.json`, `fetch_torrents_ratio_history.json` | plan, remove, record, save | the daemon's RPC, `/watch` |
| Disk limit (1429) | none of its own | plan by ratio, look at the disk, remove, record, save | as cleanup, and `shutil.disk_usage` |
| transmission-daemon (external) | its torrents, their ratios and added dates | load and rename a watch file, upload, remove | `/watch`, RPC, disk |
| Watch folder (531-575) | `x.torrent` or `x.torrent.added` | atomic write, rename, remove | shared by the run and the daemon |
| Tracker scraping (`torrent_scrape.py`) | none | bdecode, info hash, UDP handshake or HTTP, fall through the trackers | the old-release check |
| Settings (`configure_transmission.py`) | `/config/settings.json` | load, override from the environment, save atomically | the daemon, before it starts |
| RPC wait (205) | none | connect once a second until a timeout | the daemon, started after the script |
| Site parsers (606-915) | none | a site's HTML or feed to a dict of releases | fetching |
| Logging, configuration (35-181, 1640) | handlers; `Config` | parse the environment | all |

What is hard: the plan of a cleanup pass is as old as its `get_torrents` call
while the daemon goes on; the state of a pass lives in memory until it is over
and three files are saved one after another; any RPC, file or site may fail, and
the container may stop between any two steps; one run's decisions rest on files
earlier runs left behind, about torrents that may since have been removed and
added again; the daemon renames a file while the script looks for it; a UDP
tracker's answer may be anybody's; the script starts before the daemon it talks
to, and both the daemon and the operator write the file that configures it. The
list, each at its line and with the properties aimed at it, is `hazards` in
`PROJECT.json`.

What makes each part correct:

- fetching: a release already there, under either name, is not fetched again
  (`FetchedOnce`); none is fetched past a poorly seeded predecessor
  (`GateHonoured`), even when cleanup has removed that predecessor, and a live
  ratio wins over the record of an earlier copy; whatever calls and saves were lost,
  none against what is still on record and can be read (`RecordHonoured`), which is
  never more than the truth (`RecordsTruthful`);
- old-release check: not what was removed (`NeverReAdded`), not too often
  (`NotCheckedTooSoon`), only what is absent and in demand by its own trackers'
  numbers (`ImplementsDemandCheck`), it comes to an end (`CheckEnds`), and on the
  way never goes back (`NeverBack`);
- scraping: no numbers of another torrent or tracker (`StatsAreOurs`), and no
  tracker's failure costs the others their turn (`GivesUpLast`);
- watch folder: never part of a file under a name the daemon loads
  (`NoPartialFile`), and only a loaded file ever goes (`FollowsDemandCheck`);
- cleanup and the disk limit: never the newest of a type (`NewestKept`), never
  the watch file of a torrent that stays (`HeldHasWatchFile`), always the one of
  a torrent that goes (`NoOrphanWatchFile`), always recorded
  (`RemovalsRemembered`, `RemovedHistoryGrows`), never judged on too little
  (`TooNewToJudge`), from a history that stays small (`SamplesSpaced`) and still
  always holds what a judgement needs (`AnchorKept`), so that what stagnates goes
  (`FlatIsRemoved`, `StagnantGoes`);
- settings: a decision that has reached `settings.json` is not undone by a start
  that can read the file (`SavedChoicesStand`), and the script is not shut out by
  one (`ScriptAdmitted`);
- RPC wait: it ends (`WaitEnds`) and misses no port that opened in time
  (`WaitFindsDaemon`).

## 2. Modules

| Module | What it models |
| --- | --- |
| `Releases` | pure: versions and types of torrent names, `_old_version_candidates`, the ratio gate |
| `RatioHistory` | pure: `update_ratio_history`, `_stagnation_anchor`, the stagnation judgement |
| `Seeder` | the shared state (daemon, watch folder, disk, clock, the two JSON files of cleanup) and the steps of the other actors |
| `Cleanup` | `_cleanup` in both modes, `enforce_disk_usage_limit`; a specification of its own |
| `Fetching` | `run()` up to the ratio log: fetching, the old-release check, logging ratios |
| `DailyRun` | composes `Fetching` and `Cleanup` into the whole run and maps it onto `Cleanup` |
| `StagnationTracker` | one torrent under stagnation cleanup, over any number of days |
| `TrackerScrape` | `scrape_torrent`: the UDP exchange and the fall-through over trackers |
| `WatchFolder` | `_write_watch_file` with its `.part` file, beside the daemon's scan |
| `OldReleaseCheck` | composes `TrackerScrape` and `WatchFolder` into `check_old_releases_for_demand` |
| `DemandCheck` | abstract: what the old-release check promises of `/watch` |
| `Startup` | `entrypoint.sh`, `configure_transmission.py`, `wait_for_transmission_rpc` and the daemon's own dealings with `settings.json` |
| `MCCleanup`, `MCDailyRun`, `MCOldReleaseCheck`, `MCStartup` | small instances for TLC |
| `Cleanup_proof`, `CleanupCalm_proof` | proofs about `Cleanup`, the second built on the first |
| `DailyRun_proof`, `DailyRunFiles_proof`, `DailyRunGate_proof` | the refinement `CleansUp`; then types, watch folder and old releases of the whole run; then the ratio gate |
| `StagnationTracker_proof`, `OldReleaseCheck_proof`, `Startup_proof` | proofs about those modules |

`Cleanup` and `Fetching` both extend `Seeder`. `DailyRun` extends `Fetching` and
takes `Cleanup` by `INSTANCE`, twice: as `Cleaning`, whose actions it runs, and as
`Half`, the same specification with the fetching phases of `pc` seen as idle time,
which the whole run implements (`CleansUp`). So `Cleanup` is the abstract
specification of the full run: what its `NewWatchFile` and `StartCleanup` stand for
is all that the first half does to the daemon, the watch folder and the histories.

`OldReleaseCheck` extends `TrackerScrape`, takes `WatchFolder` by `INSTANCE`, and
implements `DemandCheck`: `watch` of the abstract specification is read off the two
names of a release, `Wanted` is the set of releases that a tracker on their list,
one that may be asked, reports demand for. `Fetching` has the same check as one
step per candidate with a free outcome, and has what `OldReleaseCheck` leaves free:
which candidates are passed over as removed or checked lately. `DemandCheck` is
what the two agree on: `DailyRun` implements it as well, with demand left free
(`FollowsDemandCheck`), its downloads and cleanup included.

### State and code

- **Releases.** A release is a torrent name; `IsoType` and `Version` are what
  `get_distro` and `parse_version_type` read from it. Names that do not parse are
  left out: the code neither gates nor removes them. Devuan's types are in
  `ByAddedDate`; `added` is then the order of loading.
- **Ratios** are counted in steps of which `RatioUnit` make one printed
  thousandth, so that `%.3f` and `round(ratio, 3)` round (`Rounded`). The value
  -1 is a torrent without a ratio; the log's pattern has no sign and does not read
  it back (`Parsed`).
- **Dates.** Whole days, as `date.today()`. A run never spans midnight in the
  model. At `MaxDay` the last day repeats, as it does when a container is restarted
  within a day. Dates never go back.
- **Watch folder.** In `Seeder`, `watch[r]` is absent, `"torrent"` (waiting) or
  `"added"` (loaded, renamed), and both the presence test and the write are one
  step. `OldReleaseCheck` has them in detail: `FirstLook` and `SecondLook` are the
  two `os.path.exists` of `_watch_file_present` with the daemon's rename possible in
  between, and the write goes through `part`. Its refinement of `DemandCheck` is
  what allows the single steps.
- **Files** hold what was last saved: the JSON files are replaced atomically
  (`os.replace`), so no partial content; the ratio log is not (`StopLogging`).
- **The run.** `pc` says where `run()` is; every RPC, download, scrape and save is a
  step. In memory are `live`, `gone`, `queue`, `checks` and `barred` for the first
  half; `todo`, `removing`, `seen`, `ledger` and `history` for a cleanup pass.
  `seen` is what `get_torrents` answered: later steps work with it, not with
  the daemon's present state.
- **Failures** happen only if `Faults` has them: `"rpc"` (no connection, a refused
  call, or a call carried out whose answer is lost), `"file"` (a save or removal of
  a file fails, or lines of the ratio log are not written), `"read"` (a file that is
  there cannot be opened), `"web"` (a site or a download), `"tracker"` (a tracker
  gives a count of the wrong type), `"stop"` (the container stops: memory is lost,
  the daemon and the files stay, a run starts at once).
- **Reads that fail.** `load_removed_history`, `load_ratio_history` and
  `load_old_release_check_state` give `{}` for a file they cannot open, and the run
  goes on with that and saves over the file (`ReadBack`; `tests/test_persistence.py:72`
  pins it). A ratio log that cannot be opened raises instead (226-249): a day without a
  run.
- **A check that breaks off.** `has_unmet_demand` (987) compares a tracker's counts
  outside the `try`, and so is the removal of the temporary file (985). An exception
  there ends the whole check (`EvaluationRaises`): `run()` catches it at 1913, the
  candidates behind it are passed over, what was added stays and nothing is saved.
- **One torrent** (`StagnationTracker`). Sample dates are counted from today and age
  by a day as a day passes, so any number of days fits a finite state. `DailyRun` is
  the day's `cleanup_stagnant_torrents`, `SecondRun` one more after a restart,
  `UnsavedRun` one that ends before `save_ratio_history`, `DayMissed` a day without.
- **Scraping** (`TrackerScrape`). A datagram carries its action and transaction id,
  as on the wire, and in `from` and `about` whose numbers it holds, which the program
  cannot see. `answers` keeps every datagram sent back, so one may arrive again, or
  at a later tracker's socket. Transaction ids are distinct: a random 32-bit id that
  comes up twice is left out, and it is what the check in the code rests on. A
  tracker that is skipped, times out, answers with an error, or gives no numbers is
  a free choice for each; the numbers are those of `Seeders` and `Leechers`.
- **Malformed URLs.** `urlsplit` and `.port` raise `ValueError` on a bad address or
  port; `getaddrinfo` raises `UnicodeError`, which is no `OSError`, on a host name with
  an empty or over-long label. `scrape_torrent` calls them outside its `try`
  (`torrent_scrape.py:373-390`), so the scrape ends there and the trackers behind are
  not asked (`RaiseMalformed`).
- **Settings** (`Startup`). Four keys stand for the seven: the whitelist with its
  switch, user and password with theirs, port forwarding, the two peer limits.
  `wanted` is what anyone who may decide has last decided; it is not the program's,
  and no failure changes it. `Decided` says what the environment decides, from the
  README's words; `Overrides` says it from the code. The daemon reads the file once
  when it starts and writes all of it when it exits cleanly, perhaps before
  (`Checkpoint`). `unsaved` has the keys whose last decision has not reached the file:
  changed in the web UI, also where a kill then lost it, or set in an environment
  whose `configure_transmission.py` failed. `fresh` says that `load_settings` has
  started fresh on a file that was there.
- **The wait.** `elapsed` counts seconds; an attempt takes up to `ConnectTimeout` of
  them. `Attempt` and the daemon's `Listen` may come in any order, as in
  `entrypoint.sh`, which starts the script first.
- **History variables** (`peak`, `witnessed`, `checkedOn` in `DailyRun`, `loaded` in
  `Seeder`, `streak` and `flat` in `StagnationTracker`, `wanted`, `unsaved`, `fresh`,
  `configured` and `openedAt` in `Startup`) are not the program's; the properties
  compare with them. `peak` is the highest ratio any copy of a release has had,
  `witnessed` the releases some run's ratio log has had a ratio of: the program
  cannot know more of a release than that.

A site lists either its newest release or, like Ubuntu's, every supported one
(`ListsAll`); a failing `fetch_*` lists nothing. In `Fetching` demand for an old
release is a free choice, as are growth of ratios and loading by the daemon.

## 3. Runs

| Run | Instance | Shows |
| --- | --- | --- |
| `cleanup_faults` | 3 versions, both modes, disk limit 3, failing calls and saves, stops | `TypeOK`, `HeldHasWatchFile`, `NewestKept`, `RemovedHistoryGrows` |
| `cleanup_calm` | 2 versions, 5 days, no failure, other use of the disk | `SamplesSpaced`, `RemovalsRemembered`, `NoOrphanWatchFile`, `TooNewToJudge` |
| `daily_gate` | 3 Ubuntu versions, failing sites, three steps to a printed ratio | `GateHonoured`, `RecordsTruthful` |
| `daily_devuan` | 3 Devuan releases, failing calls and saves, stops | `NewestKept` when order is by added date, `RecordHonoured` |
| `daily_faults` | 2 Kali versions, every failure | `TypeOK`, `RecordsTruthful`, `FetchedOnce`, and the refinements `CleansUp` and `FollowsDemandCheck` |
| `daily_old` | 3 Kali versions, 4 days, recheck after 2, failing sites | `NeverReAdded`, `NotCheckedTooSoon` |
| `stagnation` | window 5, interval 3, any number of days, 2 of them missed | `TypeOK`, `AnchorKept`, `FlatIsRemoved`, `StagnantGoes` |
| `old_release_check` | 2 releases, 5 trackers, one stop | `TypeOK`, `NoPartialFile`, `StatsAreOurs`, `GivesUpLast`, `NeverBack`, `CheckEnds`, and the refinement `ImplementsDemandCheck` |
| `startup` | 3 whitelists, one login, any number of starts, reads that fail, one edit | `TypeOK`, `SavedChoicesStand`, `ScriptAdmitted`, `WaitFindsDaemon`, `WaitEnds` |
| `removals_lost` | `daily_old` with a failing daemon | `NeverReAdded` is violated |
| `orphan_watch_file` | 2 Ubuntu versions, failing daemon | `NoOrphanWatchFile` is violated |
| `ratio_log_cut` | 2 Ubuntu versions, stops | `GateHonoured` is violated |

### Bounds

Three versions of a type give a plan of two and a first removal that can
succeed before a second fails; two suffice where the question is about one torrent
and its successor. `MaxDay` is chosen so that a torrent can be loaded, judged,
removed, added and judged again, and in `cleanup_calm` (window 1, interval 2) a
sample can grow older than the age it is pruned at. One or two ratio steps tell
"below" from "at" the floor and "flat" from "growing". `MaxStamp` bounds the loads
of Devuan releases; three are one each, or one of two added again, which turns their
order around. `MaxOther` and `DiskLimit` let the disk be
full, or freed by one removal. In the daily runs the disk limit is off unless the
run is about it. In `daily_gate`, `daily_devuan` and `daily_faults` a copy may report
no ratio at first (`FreshRatio`), which the log's pattern does not read back; in
`daily_gate` a printed unit is three steps (`RatioUnit`) and ratios stay within two of
them, so the last step below the floor is logged as the floor and the first is not. Its
runs all fall within one day (the container may be restarted any number of times),
since no recheck interval, sample or recorded date matters to the gate. `daily_devuan` needs three releases: one
removed, one held whose ratio is not on record, and one to fetch; it stays within a
day.

In `stagnation` the window is no multiple of the interval, so the oldest sample kept
is rarely as old as the window; growth of one step is too little and of two enough
(`MinDelta` 2); two missed days open gaps longer than the interval. `MinDelta` above
zero is assumed: with zero the code would never remove anything.

In `old_release_check` the releases share two UDP trackers, so an answer about one
may arrive while the other is asked about; three datagrams that are not lost
(`MaxAnswers`) are a connect answer, a scrape answer and one of an earlier request.
Only one release is in demand, and only two of its three trackers say so. One stop
(`MaxStops`) leaves a `.part` file and answers under way for the next check.

In `startup` one edit (`MaxEdits`), in the web UI or of the file, can be followed by
any number of starts under any of the environments, of which the runs take nine: the
login in each of its forms, and the other three keys together. The timeout of 3 and connection
timeout of 1 leave room for two attempts.

The properties that hold only while nothing fails, `RemovalsRemembered`,
`NoOrphanWatchFile` and `TooNewToJudge`, are checked in `cleanup_calm` and proved
for `Faults = {}`; the violated runs show what their loss means. `RemovedHistoryGrows`
and `RecordHonoured` are false after a read that fails, so `cleanup_faults` and
`daily_devuan` have every failure but that; `NotCheckedTooSoon` is false after a check
that did not get to its save, so `daily_old` has failing sites alone.

### Fairness

Liveness is stated with weak fairness of the script's own steps and nothing else:

- `stagnation`: of the day's run and of the day's end. The loop in `entrypoint.sh`
  never exits, and everything a run waits for has a timeout; the days on which no
  run gets as far as its save are `DayMissed`, of which there are finitely many.
  With unboundedly many the claim would be false, and so it is not made.
- `old_release_check`: of `CheckStep`. The script is sequential; downloads, HTTP
  scrapes and the UDP socket all have timeouts. Trackers, daemon and later runs
  are free.
- `startup`: of `ScriptStep`, for the same reason. The daemon may never listen.

`StagnantGoes` needs no fairness of growth stopping: the ratio is bounded by
`MaxRatio`, and the claim is about torrents that grow only so far.

Deadlock is checked in all runs but `stagnation`, which is over when the torrent is
removed.

### What the violated runs show

1. `removals_lost`. `cleanup_stagnant_torrents` keeps the records of its removals
   in memory and saves after the loop (1634). When the second `remove_torrent`
   raises, `run()` logs the error and goes on, the first removal is recorded
   nowhere, and the old-release check adds that torrent again when there is demand,
   against `README.md:145`. The record is also all that tells the removed copy's
   samples from a later copy's (1527): without it a copy added again can be judged
   by them, and removed, on the day it is loaded, against
   `docs/seeding-policy.md:32`.
2. `orphan_watch_file`. `remove_torrent` with `delete_data` is carried out but its
   answer lost: `_remove_watch_file` is not reached, the torrent is listed by no
   later run, and the `.added` file stays.
3. `ratio_log_cut`. The ratio log is truncated by its first line and written from
   the highest ratio down. A stop in between loses exactly the low ratios, and the
   gate treats a version not on record as no reason to hold back.

### Other disagreements with the documentation

Four more claims of the documentation do not hold of the code. No run is made of them;
the properties and theorems carry the condition under which the claim holds.

- `README.md:145` (removed torrents are remembered) and
  `docs/seeding-policy.md:17` (the gate) after a read that fails: a removed history
  that cannot be opened once is overwritten with the removals of that pass, and the
  gate and the check of that run see no record. `RemovedHistoryKept`,
  `RecordAlwaysHonoured` and `GateAlwaysHonoured` assume that files open.
- `docs/seeding-policy.md:55` ("not checked again for 7 days") after a stop, a save or
  read that fails, or one count of the wrong type: no check of that run is saved, and
  the next run repeats them all. `RechecksSpaced` assumes none of these.
- The docstring of `configure_transmission.py` (line 6: an unset variable "never
  touches - or resets - whatever's already on disk"): a file that cannot be opened or
  parsed is replaced by the overrides alone. `SavedChoicesStand` stops at the first
  such start.
- `README.md:120-122` ("nothing is lost by stopping abruptly"): a kill loses what was
  changed in the web UI since the daemon last wrote `settings.json`. `SavedChoicesStand`
  leaves those keys out.

## 4. Proofs

For every finite set of releases, every setting and bound allowed by the `ASSUME`s,
and every choice of `Faults` unless said otherwise. Each module's type invariant is
proved, one case per action (`TypeCorrect`, `DailyTypeCorrect`, `TrackerTypeCorrect`,
`CheckTypeCorrect`, `StartupTypeCorrect`). The others:

**Cleanup.**

- `HeldTorrentHasWatchFile`: `Spec => []HeldHasWatchFile`. Not inductive alone:
  `RemoveWatchFile` deletes a file, so it must be known that what is being removed
  is not held. `RemovingSafe` says so, and that there is at most one such torrent.
- `NewestNeverRemoved`: `Spec => NewestKept`. A plan is as old as its
  `get_torrents` call, so the property rests on an invariant about the plan,
  `PlanSafe`: every torrent in it has a newer one, held and outside the plan. When
  the plan is made this is lemma `NewestLeftOut`: among the finitely many torrents
  newer than a given one there is one that nothing held is newer than. It survives
  loading because a torrent in the plan is held or being removed, has its renamed
  file, and cannot be loaded a second time to change its place in the order; this
  is where `HeldHasWatchFile` is needed, and why the three are one invariant,
  `SafeInv`.
- `RemovedHistoryKept`: `Spec => RemovedHistoryGrows`, if `Faults` has no `"read"`. While a pass can still save
  it, the history in memory covers the one on disk (`LedgerInv`), and no record is
  dated after today, so that a record replaced by today's moves forward.
- `HistoryBounded`: `Spec => []SamplesSpaced`. `UpdatedSpaced` shows that sampling
  and pruning keep samples spaced and close; the invariant says it of the history in
  memory as well as of the one on disk.
- `RemovalsAlwaysRemembered`, `NoFileOrphaned`, `NeverJudgedTooNew`, for
  `Faults = {}`. `RememberedInv` looks for a removal in memory while a pass can still
  save it, and in the file otherwise (`Records`). `JudgedInv` adds that samples later
  than a torrent's record are of the copy held now (`OwnSamples`), so that what a
  stagnation pass plans to remove has been held for the window (`LongHeld`). The
  violated runs are why the assumption is needed.

**The daily run.**

- `RunCleansUp`: `Spec => CleansUp`. `SameDecisions` relates the operators of the two
  instances of `Cleanup`, then each step of `DailyRun` is shown to be a step of
  `Half` or to leave it alone. The one fact about reachable states it needs is that a
  run that has begun is not due (`NotDueTwice`).
- `RunKeepsPromises`, `CalmRunKeepsPromises`: what is proved of `Cleanup` is proved of
  the run, with its real first half in place of `Cleanup`'s stand-in. The proof module
  is taken as an instance, `Proved`, under the same substitution as `Half`. That the
  removed history grows again assumes that it opens; the second theorem, that nothing
  but sites and trackers fails, which are no part of `Cleanup`.
- `NeverFetchedTwice`: `Spec => FetchedOnce`. `FilesThere` says that whatever is held
  or being removed has its renamed file; then the presence test suffices.
- `RunFollowsDemandCheck`: `Spec => FollowsDemandCheck`. Four actions touch `/watch`
  (`WhoTouchesWatch`); that the one that deletes finds a loaded file is `FilesThere`.
- `RechecksSpaced`: `NotCheckedTooSoon`, if `Faults` has none of `"file"`, `"read"`,
  `"tracker"` and `"stop"`. `CheckDays`: what the check knows of a release, in memory
  while it goes on and from the state file otherwise, is the day of its last scrape.
  Each of the four loses those days, and a later run checks earlier.
- `RemovedNeverReAdded`: `NeverReAdded`, if removed releases are skipped and nothing but
  sites and trackers fails. What `RemovalsAlwaysRemembered` proves of `Cleanup` holds of the run,
  again by `Proved`. What is held
  has its renamed file (`FilesThere`), and what is gone is on record and so barred
  for as long as the check goes on (`AllBarred`).

**The ratio gate.** Three theorems over any number of runs.

- `RecordsAlwaysTruthful`: `Spec => []RecordsTruthful`, for all `Faults`. A ratio goes
  from `get_torrents` into the log or the records of a pass, from there into a file,
  and from the file into the next run; `TruthInv` says of each of these places that
  what is there was reached by some copy. `RoundedReached` bounds what rounding adds.
  `TruthCarried` shows that what was true stays true, since `peak` only rises;
  `TruthFrom` then asks of a step only where its records come from.
- `RecordAlwaysHonoured`: `Spec => RecordHonoured`, if `Faults` has no `"read"`. Nobody writes the
  log or the removed history while releases are fetched, so what the gate has read is
  what is on record (`AsRead`), and what is on record is true (`FloorReached`).
- `GateAlwaysHonoured`: `Spec => GateHonoured`, with the gate on, while nothing but
  sites and trackers fails. What must have reached the floor is the live ratio, if the
  last log has one, and else what some copy had (`ReachedFloor`). It needs in addition that nothing is forgotten: `RecordInv` says that
  whatever a log has once had is held with a ratio, being removed, or in the removed
  history (in memory while a pass can still save it), and that nothing witnessed is
  missing from both files when a run begins. Then the highest version ever loaded, if
  it is witnessed, is the one the gate goes by. A failing call, a failing save or a
  stop breaks `RecordInv` (`removals_lost`, `ratio_log_cut`): the assumption is needed.

**Stagnation.** `AnchorAlwaysKept` and `FlatAlwaysRemoved`, for every window and
interval. The invariant `TrackInv` says that after `n` daily runs in a row every age
below `n` and up to the window has a sample that old or at most an interval older,
short of the age samples are pruned at (`Covered`); and that samples as young as the
flat days carry today's ratio (`FlatSince`). The oldest sample old
enough exists by well-founded induction on its age (`AnchorExists`). `JudgedByAge`
is the bridge to `Cleanup`: sampling, pruning and judging with dates counted from
today, as here, and with calendar dates, as there, come to the same on any day.

**Old-release check.** `StatsAlwaysOurs`, `AlwaysGivesUpLast`, `NeverPartial` and the
refinement `DemandCheckImplemented`, for any trackers, lists and bounds. The invariant has three
parts. `ScrapeInv`: no datagram names a request later than the latest, and one that
names the latest was sent by the tracker being asked, about the torrent being asked
for. `FolderInv`: what the looks have found absent is still absent when the file is
renamed into place, because only the check adds to `/watch`; and what `replace` moves
is whole. `PlaceInv` ties the three program counters together. `CheckNeverBack` proves
`NeverBack`, the safety half of `CheckEnds`: every step but the end and a stop moves
on to a later candidate, phase, tracker, exchange or step of a write, and of each
there are finitely many. An evaluation that raises is one such end.

**Start.** `SavedChoicesAlwaysStand`, `ScriptAlwaysAdmitted` and `WaitNeverMisses`, for
any addresses, logins, timeouts and number of starts. `ChoiceInv`: until `load_settings`
starts fresh, the file with the daemon's defaults for what it lacks agrees with what is
wanted on every key that is not `unsaved`, unless the file is spoilt. Overrides decide
the keys they set, in the file as in what is wanted, and leave the others alone
(`OverridesKey`, `Configured`); a kill changes nothing. That the script is admitted
needs none of this: what a start sets is in the file whatever it could read.
`PortInv` bounds
when an open port can have been opened by how long ago the last attempt began.

Only model-checked: liveness (`StagnantGoes`, `CheckEnds`, `WaitEnds`), which is out of
the prover's reach. `FlatIsRemoved` and `NeverBack` are the safety halves of the first
two and are proved; that of the third is the bound on `elapsed` in `Startup`'s
`TypeOK`, which every `Sleep` moves a second towards.

## 5. Not modelled

- The site parsers, logging and the parsing of environment variables: formatting,
  with no state. Low-demand filtering and the choice of distros: they only make a
  listing smaller.
- `bdecode`, `bencode` and the info hash: a format. A `.torrent` that does not
  decode ends its scrape (`BeginScrape`); a response that does not decode is one
  more failing tracker.
- DNS that answers differently for the check of a host and for the request, HTTP
  redirects, and a transaction id drawn twice.
- JSON files that do not parse, apart from `settings.json`: nothing in the program
  writes one, since every save is atomic, and a file spoilt by hand is read like one
  that cannot be opened. A file that is JSON but no object, or not UTF-8, which raises.
- Reads that fail for one torrent alone: `StagnationTracker` assumes that its files
  open. A `config.require` that raises, which is the old-release check turned off.
- A line of the ratio log written in part: a line is there whole, or not at all.
- A `settings.json` that is spoilt and then repaired by hand before the next start.
- Package updates and the change of user in `entrypoint.sh`, which touch nothing the
  program keeps.
- Clock changes, runs across midnight, and a wrong `remove_torrent` id.
- Development scripts and CI.

## 6. Plan

1. `NotCheckedTooSoon` under stops: a bound on how many checks a stop can cost.
2. `Bencode`: decoding and encoding as operators, round trips over bounded inputs
   (recursive, so for TLC only).
