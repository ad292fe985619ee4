------------------------- MODULE DailyRunFiles_proof -------------------------
(***************************************************************************)
(* Type correctness of the whole daily run, that nothing is fetched while  *)
(* it waits or seeds, when releases are checked again, and that what was   *)
(* removed is not added again, for every value of the constants.           *)
(***************************************************************************)
EXTENDS DailyRun_proof

(* Cleaning's types are the run's.                                         *)
LEMMA SameTypes ==
    /\ Cleaning!Ratio = Ratio
    /\ Cleaning!Day = Day
    /\ Cleaning!Removal = Removal
    /\ Cleaning!Sample = Sample
    /\ \A d, V : Cleaning!IsDict(d, V) <=> IsDict(d, V)
    /\ Cleaning!Empty = Empty
    /\ \A d, r, v : Cleaning!Put(d, r, v) = Put(d, r, v)
    /\ \A x : Cleaning!Rounded(x) = Rounded(x)
  BY DEF Cleaning!Ratio, Ratio, Cleaning!Day, Day, Cleaning!Removal, Removal,
         Cleaning!Sample, Sample, Cleaning!IsDict, IsDict, Cleaning!Empty, Empty,
         Cleaning!Put, Put, Cleaning!Rounded, Rounded

LEMMA DictEmpty == ASSUME NEW V PROVE IsDict(Empty, V)
  BY DEF IsDict, Empty

LEMMA DictReadBack ==
    ASSUME NEW V, NEW d, IsDict(d, V), NEW b, NEW h \in ReadBack(d, b)
    PROVE  IsDict(h, V)
  BY DictEmpty DEF ReadBack

LEMMA CleaningReadBack ==
    ASSUME NEW V, NEW d, IsDict(d, V), NEW b, NEW h \in Cleaning!ReadBack(d, b)
    PROVE  IsDict(h, V)
  BY SameTypes, DictEmpty DEF Cleaning!ReadBack

LEMMA DictPut ==
    ASSUME NEW V, NEW d, IsDict(d, V), NEW k \in Release, NEW v \in V
    PROVE  IsDict(Put(d, k, v), V)
  BY DEF IsDict, Put

(* What is written down of a ratio is one.                                 *)
LEMMA RoundedRatio == ASSUME NEW x \in Ratio PROVE Rounded(x) \in Ratio
  <1>1. CASE x < 0
    BY <1>1 DEF Rounded
  <1>2. CASE x >= 0
    <2>1. RatioUnit \in Nat /\ RatioUnit >= 1 /\ MaxRatio \in Nat
      BY RatioAssumption
    <2>2. x \in Nat /\ x <= MaxRatio
      BY <1>2, RatioAssumption DEF Ratio
    <2>. DEFINE y == (2 * x + RatioUnit) \div (2 * RatioUnit)
    <2>3. y \in Nat /\ y <= x
      <3>1. x = 0 => y = 0
        BY <2>1, Z3
      <3>2. y \in Nat
        BY <2>1, <2>2, Z3
      <3>3. y <= x
        BY <2>1, <2>2, Z3
      <3>4. QED
        BY <3>2, <3>3
    <2>4. QED
      BY <2>2, <2>3, <2>1, <1>2 DEF Rounded, Ratio
  <1>3. QED
    BY <1>1, <1>2 DEF Ratio

(* What a log reads as.                                                    *)
LEMMA ParsedType ==
    ASSUME SeederTypeOK, NEW S \in SUBSET Release
    PROVE  IsDict(Parsed(S), Ratio)
  <1>1. \A r \in Release : Rounded(ratio[r]) \in Ratio
    BY RoundedRatio DEF SeederTypeOK
  <1>2. QED
    BY <1>1 DEF Parsed, IsDict

LEMMA ForgetFetchingType ==
    ASSUME ForgetFetching, UNCHANGED <<published, ratioLog>>,
           FetchingTypeOK, IsDict(checkState', Day)
    PROVE  FetchingTypeOK'
  BY DictEmpty DEF ForgetFetching, FetchingTypeOK

LEMMA CleaningForgetType ==
    ASSUME Cleaning!Forget PROVE Cleaning!CleanupTypeOK'
  <1>1. 0 \in Ratio
    BY RatioAssumption DEF Ratio
  <1>2. QED
    BY <1>1, SameTypes, DictEmpty DEF Cleaning!Forget, Cleaning!CleanupTypeOK

-----------------------------------------------------------------------------
(* The steps of Fetching.                                                  *)
LEMMA FetchingType ==
    ASSUME TypeOK, FetchingStep, UNCHANGED passVars
    PROVE  TypeOK'
  <1>. USE DEF TypeOK, FetchPC, clockVars, daemonVars, fileVars, seederVars
  <1>0. Cleaning!CleanupTypeOK'
    BY DEF passVars, Cleaning!CleanupTypeOK
  <1>a. "cleanup" \in Cleaning!CleanupPC
    BY DEF Cleaning!CleanupPC
  <1>1. CASE StartRun
    <2>1. IsDict(gone', Removal)
      BY <1>1, DictReadBack DEF StartRun, SeederTypeOK
    <2>2. QED
      BY <1>0, <1>1, <2>1 DEF StartRun, SeederTypeOK, FetchingTypeOK
  <1>2. ASSUME NEW t \in IsoTypes, ReadSite(t) PROVE TypeOK'
    BY <1>0, <1>2 DEF ReadSite, SeederTypeOK, FetchingTypeOK, Listing, OldListing
  <1>3. ASSUME NEW r \in Release, LeaveRelease(r) \/ PassOver(r) PROVE TypeOK'
    BY <1>0, <1>3 DEF LeaveRelease, PassOver, SeederTypeOK, FetchingTypeOK
  <1>4. ASSUME NEW r \in Release, Download(r) PROVE TypeOK'
    BY <1>0, <1>4 DEF Download, SeederTypeOK, FetchingTypeOK, WatchFile
  <1>5. ASSUME NEW r \in Release, CheckedNoDemand(r) PROVE TypeOK'
    <2>1. IsDict(checks', Day)
      BY <1>5, DictPut DEF CheckedNoDemand, SeederTypeOK, FetchingTypeOK
    <2>2. QED
      BY <1>0, <1>5, <2>1 DEF CheckedNoDemand, SeederTypeOK, FetchingTypeOK
  <1>6. ASSUME NEW r \in Release, CheckedInDemand(r) PROVE TypeOK'
    <2>1. IsDict(checks', Day)
      BY <1>6, DictPut DEF CheckedInDemand, SeederTypeOK, FetchingTypeOK
    <2>2. QED
      BY <1>0, <1>6, <2>1 DEF CheckedInDemand, SeederTypeOK, FetchingTypeOK, WatchFile
  <1>7. ASSUME NEW r \in Release, AddingFails(r) PROVE TypeOK'
    <2>1. IsDict(checks', Day)
      BY <1>7 DEF AddingFails, FetchingTypeOK, IsDict
    <2>2. QED
      BY <1>0, <1>7, <2>1 DEF AddingFails, SeederTypeOK, FetchingTypeOK
  <1>8. CASE EndFetch
    <2>1. FetchingTypeOK'
      BY <1>8, ForgetFetchingType DEF EndFetch, FetchingTypeOK
    <2>2. QED
      BY <1>0, <1>8, <2>1 DEF EndFetch, SeederTypeOK
  <1>9. CASE BeginOldCheck
    <2>1. IsDict(checks', Day)
      BY <1>9, DictReadBack DEF BeginOldCheck, FetchingTypeOK
    <2>2. barred' \subseteq Release
      <3>1. \A h \in ReadBack(removedHistory, ReadFails) : DOMAIN h \subseteq Release
        <4>1. \A h \in ReadBack(removedHistory, ReadFails) : IsDict(h, Removal)
          BY DictReadBack DEF SeederTypeOK
        <4>. QED BY <4>1 DEF IsDict
      <3>. QED BY <1>9, <3>1 DEF BeginOldCheck
    <2>3. QED
      BY <1>0, <1>9, <2>1, <2>2 DEF BeginOldCheck, SeederTypeOK, FetchingTypeOK
  <1>10. CASE EndOldCheck
    <2>1. FetchingTypeOK'
      BY <1>10, ForgetFetchingType DEF EndOldCheck, FetchingTypeOK
    <2>2. QED
      BY <1>0, <1>10, <2>1 DEF EndOldCheck, SeederTypeOK
  <1>11. CASE LogRatios
    <2>1. held \in SUBSET Release /\ \A S \in SUBSET held : S \in SUBSET Release
      BY DEF SeederTypeOK
    <2>2. \A S \in SUBSET held : IsDict(Parsed(S), Ratio)
      BY <2>1, ParsedType
    <2>3. IsDict(ratioLog', Ratio)
      BY <1>11, <2>1, <2>2 DEF LogRatios, FetchingTypeOK
    <2>4. QED
      BY <1>0, <1>a, <1>11, <2>3 DEF LogRatios, SeederTypeOK, FetchingTypeOK
  <1>12. CASE StopLogging
    <2>1. PICK S \in SUBSET held : ratioLog' = Parsed(S)
      BY <1>12 DEF StopLogging
    <2>2. IsDict(ratioLog', Ratio)
      BY <2>1, ParsedType DEF SeederTypeOK
    <2>3. QED
      BY <1>0, <1>12, <2>2 DEF StopLogging, SeederTypeOK, FetchingTypeOK
  <1>13. CASE StopFetching
    <2>1. FetchingTypeOK'
      BY <1>13, ForgetFetchingType DEF StopFetching, FetchingTypeOK
    <2>2. QED
      BY <1>0, <1>13, <2>1 DEF StopFetching, SeederTypeOK
  <1>14. ASSUME NEW r \in Release, EvaluationRaises(r) PROVE TypeOK'
    BY <1>0, <1>14 DEF EvaluationRaises, SeederTypeOK, FetchingTypeOK
  <1>15. CASE AbandonOldCheck
    <2>1. FetchingTypeOK'
      BY <1>15, ForgetFetchingType DEF AbandonOldCheck, FetchingTypeOK
    <2>2. QED
      BY <1>0, <1>15, <2>1 DEF AbandonOldCheck, SeederTypeOK
  <1>16. QED
    BY <1>1, <1>2, <1>3, <1>4, <1>5, <1>6, <1>7, <1>8, <1>9, <1>10, <1>11, <1>12,
       <1>13, <1>14, <1>15 DEF FetchingStep

-----------------------------------------------------------------------------
(* The steps of Cleanup.                                                   *)

LEMMA UpdatedType ==
    ASSUME SeederTypeOK, NEW log, IsDict(log, SUBSET Sample), NEW removals
    PROVE  IsDict(Cleaning!UpdatedHistory(log, removals), SUBSET Sample)
  <1>1. ASSUME NEW r \in held
        PROVE  Cleaning!Updated(Cleaning!Samples(r, log), Cleaning!RemovedOn(r, removals),
                                ratio[r], today) \in SUBSET Sample
    <2>1. Cleaning!Samples(r, log) \in SUBSET Sample
      BY DEF SeederTypeOK, IsDict, Cleaning!Samples
    <2>2. [date |-> today, ratio |-> ratio[r]] \in Sample
      BY DEF SeederTypeOK, Sample
    <2>3. QED
      BY <2>1, <2>2 DEF Cleaning!Updated, Cleaning!OfThisCopy
  <1>2. QED
    BY <1>1 DEF Cleaning!UpdatedHistory, IsDict, SeederTypeOK

LEMMA CleaningType ==
    ASSUME TypeOK, Cleaning!CleanupStep, UNCHANGED fetchVars
    PROVE  TypeOK'
  <1>. USE DEF TypeOK, Cleaning!CleanupPC, Cleaning!clockVars, Cleaning!daemonVars,
              Cleaning!fileVars
  <1>0. FetchingTypeOK'
    BY DEF fetchVars, FetchingTypeOK
  <1>1. CASE \/ Cleaning!CleanupUnavailable \/ Cleaning!FinishLoop
             \/ Cleaning!DiskBelowLimit \/ Cleaning!DiskUnavailable \/ Cleaning!EndRun
    BY <1>0, <1>1
    DEF Cleaning!CleanupUnavailable, Cleaning!FinishLoop, Cleaning!DiskBelowLimit,
        Cleaning!DiskUnavailable, Cleaning!EndRun, Cleaning!passVars,
        Cleaning!CleanupTypeOK, SeederTypeOK
  <1>2. CASE Cleaning!BeginKeepOnlyLatest
    <2>0. IsDict(ledger', Removal)
      BY <1>2, CleaningReadBack DEF Cleaning!BeginKeepOnlyLatest, SeederTypeOK
    <2>1. Cleaning!CleanupTypeOK'
      BY <1>2, <2>0, SameTypes
      DEF Cleaning!BeginKeepOnlyLatest, Cleaning!CleanupTypeOK, Cleaning!Superseded,
          SeederTypeOK
    <2>2. QED
      BY <1>0, <1>2, <2>1 DEF Cleaning!BeginKeepOnlyLatest, SeederTypeOK
  <1>3. CASE Cleaning!BeginStagnation
    <2>0. PICK log \in Cleaning!ReadBack(ratioHistory, Cleaning!ReadFails) :
             history' = Cleaning!UpdatedHistory(log, ledger')
      BY <1>3 DEF Cleaning!BeginStagnation
    <2>a. IsDict(log, SUBSET Sample)
      BY CleaningReadBack DEF SeederTypeOK
    <2>b. IsDict(history', SUBSET Sample)
      BY <2>0, <2>a, UpdatedType
    <2>c. IsDict(ledger', Removal)
      BY <1>3, CleaningReadBack DEF Cleaning!BeginStagnation, SeederTypeOK
    <2>1. Cleaning!CleanupTypeOK'
      BY <1>3, <2>b, <2>c, SameTypes
      DEF Cleaning!BeginStagnation, Cleaning!CleanupTypeOK, Cleaning!Superseded,
          SeederTypeOK
    <2>2. QED
      BY <1>0, <1>3, <2>1 DEF Cleaning!BeginStagnation, SeederTypeOK
  <1>4. CASE Cleaning!BeginDiskPressure
    <2>0. IsDict(ledger', Removal)
      BY <1>4, CleaningReadBack DEF Cleaning!BeginDiskPressure, SeederTypeOK
    <2>1. Cleaning!CleanupTypeOK'
      BY <1>4, <2>0, SameTypes
      DEF Cleaning!BeginDiskPressure, Cleaning!CleanupTypeOK, Cleaning!Superseded,
          SeederTypeOK
    <2>2. QED
      BY <1>0, <1>4, <2>1 DEF Cleaning!BeginDiskPressure, SeederTypeOK
  <1>5. ASSUME NEW r \in Release, Cleaning!RemoveTorrent(r) PROVE TypeOK'
    <2>1. 0 \in Ratio
      BY RatioAssumption DEF Ratio
    <2>2. QED
      BY <1>0, <1>5, <2>1
      DEF Cleaning!RemoveTorrent, Cleaning!Removed, Cleaning!CleanupTypeOK, SeederTypeOK
  <1>6. ASSUME NEW r \in Release, Cleaning!RemoveTorrentFails(r) PROVE TypeOK'
    <2>1. 0 \in Ratio
      BY RatioAssumption DEF Ratio
    <2>2. QED
      BY <1>0, <1>6, <2>1, CleaningForgetType
      DEF Cleaning!RemoveTorrentFails, Cleaning!Removed, Cleaning!Abandon,
          Cleaning!AfterPass, SeederTypeOK
  <1>7. ASSUME NEW r \in Release, Cleaning!RemoveWatchFile(r) PROVE TypeOK'
    <2>1. [date |-> today, ratio |-> Rounded(seen[r])] \in Removal
      BY RoundedRatio, SameTypes DEF Cleaning!CleanupTypeOK, SeederTypeOK, Removal
    <2>2. ledger' = Put(ledger, r, [date |-> today, ratio |-> Rounded(seen[r])])
      BY <1>7, SameTypes DEF Cleaning!RemoveWatchFile
    <2>3. IsDict(ledger', Removal)
      BY <2>1, <2>2, SameTypes, DictPut DEF Cleaning!CleanupTypeOK
    <2>4. Cleaning!CleanupTypeOK'
      BY <1>7, <2>3, SameTypes DEF Cleaning!RemoveWatchFile, Cleaning!CleanupTypeOK
    <2>5. QED
      BY <1>0, <1>7, <2>4 DEF Cleaning!RemoveWatchFile, SeederTypeOK, WatchFile
  <1>8. CASE Cleaning!SaveRemovedHistory
    <2>1. IsDict(removedHistory', Removal)
      BY <1>8, SameTypes DEF Cleaning!SaveRemovedHistory, Cleaning!CleanupTypeOK
    <2>2. Cleaning!CleanupTypeOK'
      BY <1>8, CleaningForgetType
      DEF Cleaning!SaveRemovedHistory, Cleaning!Abandon, Cleaning!CleanupTypeOK,
          Cleaning!passVars
    <2>3. QED
      BY <1>0, <1>8, <2>1, <2>2
      DEF Cleaning!SaveRemovedHistory, Cleaning!Abandon, Cleaning!AfterPass, SeederTypeOK
  <1>9. CASE Cleaning!SaveRatioHistory
    <2>1. IsDict(ratioHistory', SUBSET Sample)
      BY <1>9, SameTypes DEF Cleaning!SaveRatioHistory, Cleaning!CleanupTypeOK
    <2>2. QED
      BY <1>0, <1>9, <2>1, CleaningForgetType
      DEF Cleaning!SaveRatioHistory, Cleaning!Abandon, Cleaning!AfterPass, SeederTypeOK
  <1>10. CASE Cleaning!SaveFails
    BY <1>0, <1>10, CleaningForgetType
    DEF Cleaning!SaveFails, Cleaning!Abandon, Cleaning!AfterPass, SeederTypeOK
  <1>11. QED
    BY <1>1, <1>2, <1>3, <1>4, <1>5, <1>6, <1>7, <1>8, <1>9, <1>10
       DEF Cleaning!CleanupStep

(* The daemon and its surroundings.                                        *)
LEMMA SurroundingType ==
    ASSUME TypeOK, Environment, UNCHANGED <<fetchVars, passVars>>
    PROVE  TypeOK'
  <1>. USE DEF TypeOK, clockVars, daemonVars, fileVars
  <1>0. FetchingTypeOK' /\ Cleaning!CleanupTypeOK'
    BY DEF fetchVars, FetchingTypeOK, passVars, Cleaning!CleanupTypeOK
  <1>1. CASE Tick
    BY <1>0, <1>1, SeederAssumption DEF Tick, SeederTypeOK, Day
  <1>2. CASE OtherUse
    BY <1>0, <1>2 DEF OtherUse, SeederTypeOK
  <1>3. ASSUME NEW r \in Release, Load(r) PROVE TypeOK'
    BY <1>0, <1>3, SeederAssumption DEF Load, SeederTypeOK, WatchFile
  <1>4. ASSUME NEW r \in Release, Grow(r) PROVE TypeOK'
    BY <1>0, <1>4, RatioAssumption DEF Grow, SeederTypeOK, Ratio
  <1>5. QED
    BY <1>1, <1>2, <1>3, <1>4 DEF Environment

LEMMA DailyTypeStep == TypeOK /\ [Next]_vars => TypeOK'
  <1>1. SUFFICES ASSUME TypeOK, [Next]_vars PROVE TypeOK'
    OBVIOUS
  <1>2. CASE Fetch
    BY <1>1, <1>2, FetchingType DEF Fetch
  <1>3. CASE Clean
    BY <1>1, <1>3, CleaningType DEF Clean
  <1>4. CASE StopRun
    <2>1. Cleaning!Stop /\ UNCHANGED fetchVars
      BY <1>4 DEF StopRun
    <2>2. QED
      BY <1>1, <2>1, CleaningForgetType
      DEF Cleaning!Stop, Cleaning!daemonVars, Cleaning!fileVars, TypeOK, SeederTypeOK,
          FetchingTypeOK, fetchVars
  <1>5. CASE Surrounding
    BY <1>1, <1>5, SurroundingType DEF Surrounding
  <1>6. CASE Upstream
    BY <1>1, <1>6
    DEF Upstream, Publish, TypeOK, SeederTypeOK, FetchingTypeOK, Cleaning!CleanupTypeOK,
        passVars, seederVars, clockVars, daemonVars, fileVars
  <1>7. CASE UNCHANGED vars
    BY <1>1, <1>7
    DEF vars, TypeOK, SeederTypeOK, FetchingTypeOK, Cleaning!CleanupTypeOK, passVars,
        fetchVars, seederVars, clockVars, daemonVars, fileVars
  <1>8. QED
    BY <1>1, <1>2, <1>3, <1>4, <1>5, <1>6, <1>7 DEF Next

LEMMA DailyTypeInit == Init => TypeOK
  <1>1. SUFFICES ASSUME Init PROVE TypeOK
    OBVIOUS
  <1>2. SeederTypeOK
    BY <1>1, DictEmpty, RatioAssumption, SeederAssumption
    DEF Init, SeederInit, SeederTypeOK, Day, Ratio, WatchFile
  <1>3. FetchingTypeOK
    BY <1>1, DictEmpty DEF Init, FetchingInit, FetchingTypeOK
  <1>4. 0 \in Ratio
    BY RatioAssumption DEF Ratio
  <1>5. Cleaning!CleanupTypeOK
    BY <1>1, <1>4, SameTypes, DictEmpty
    DEF Init, Cleaning!CleanupInit, Cleaning!CleanupTypeOK
  <1>6. QED
    BY <1>1, <1>2, <1>3, <1>5 DEF Init, SeederInit, TypeOK

(* Whatever fails and wherever the run is stopped, every variable of it    *)
(* keeps its type: no file is left with what the next run cannot read, and *)
(* no check is dated after today's last day.                               *)
THEOREM DailyTypeCorrect == Spec => []TypeOK
  BY DailyTypeInit, DailyTypeStep, PTL DEF Spec

-----------------------------------------------------------------------------
(* Nothing is fetched while it waits or seeds.                             *)

(* What is held has its renamed file, and so has what is being removed;    *)
(* what a pass is to remove is held until then.                            *)
FilesThere ==
    /\ \A r \in held : watch[r] = "added"
    /\ todo \subseteq held \cup removing
    /\ pc # "unlink" => removing = {}
    /\ \A r, q \in removing : r = q
    /\ \A r \in removing : r \notin held /\ watch[r] = "added"

(* A pass removes the one file whose torrent is gone.                      *)
LEMMA FilesThereCleaning ==
    ASSUME TypeOK, FilesThere, Cleaning!CleanupStep
    PROVE  FilesThere'
  <1>. USE DEF FilesThere, Cleaning!clockVars, Cleaning!daemonVars, Cleaning!fileVars,
              Cleaning!passVars
  <1>1. CASE \/ Cleaning!BeginKeepOnlyLatest \/ Cleaning!BeginStagnation
             \/ Cleaning!BeginDiskPressure
    BY <1>1 DEF Cleaning!BeginKeepOnlyLatest, Cleaning!BeginStagnation,
       Cleaning!BeginDiskPressure, Cleaning!Superseded
  <1>2. CASE \/ Cleaning!CleanupUnavailable \/ Cleaning!FinishLoop
             \/ Cleaning!DiskBelowLimit \/ Cleaning!DiskUnavailable \/ Cleaning!EndRun
    BY <1>2 DEF Cleaning!CleanupUnavailable, Cleaning!FinishLoop,
       Cleaning!DiskBelowLimit, Cleaning!DiskUnavailable, Cleaning!EndRun
  <1>3. CASE \/ Cleaning!SaveRemovedHistory \/ Cleaning!SaveRatioHistory
             \/ Cleaning!SaveFails
    BY <1>3 DEF Cleaning!SaveRemovedHistory, Cleaning!SaveRatioHistory,
       Cleaning!SaveFails, Cleaning!Abandon, Cleaning!Forget
  <1>4. ASSUME NEW r \in Release, Cleaning!RemoveTorrent(r) PROVE FilesThere'
    BY <1>4 DEF Cleaning!RemoveTorrent, Cleaning!Removed, Cleaning!IsNext
  <1>5. ASSUME NEW r \in Release, Cleaning!RemoveTorrentFails(r) PROVE FilesThere'
    BY <1>5 DEF Cleaning!RemoveTorrentFails, Cleaning!Removed, Cleaning!Abandon,
       Cleaning!Forget
  <1>6. ASSUME NEW r \in Release, Cleaning!RemoveWatchFile(r) PROVE FilesThere'
    <2>1. removing = {r} /\ r \notin held
      BY <1>6 DEF Cleaning!RemoveWatchFile
    <2>2. \A q \in held : watch'[q] = watch[q]
      BY <1>6, <2>1 DEF Cleaning!RemoveWatchFile, TypeOK, SeederTypeOK
    <2>3. QED
      BY <1>6, <2>1, <2>2 DEF Cleaning!RemoveWatchFile
  <1>7. QED
    BY <1>1, <1>2, <1>3, <1>4, <1>5, <1>6 DEF Cleaning!CleanupStep

(* A file is written only where there is none.                             *)
LEMMA FilesThereFetching ==
    ASSUME TypeOK, FilesThere, FetchingStep, UNCHANGED passVars
    PROVE  FilesThere'
  <1>. USE DEF FilesThere, clockVars, daemonVars, fileVars, seederVars, passVars
  <1>1. ASSUME NEW r \in Release, Download(r) \/ CheckedInDemand(r)
        PROVE  FilesThere'
    <2>1. /\ watch[r] = "absent" /\ watch' = [watch EXCEPT ![r] = "torrent"]
          /\ UNCHANGED <<held, pc>>
      BY <1>1 DEF Download, CheckedInDemand, PassedOver
    <2>2. r \notin held
      BY <2>1
    <2>3. \A q \in held \cup removing : watch'[q] = watch[q]
      BY <2>1, <2>2 DEF TypeOK, SeederTypeOK
    <2>4. QED
      BY <2>1, <2>3
  <1>2. CASE \/ StartRun \/ \E t \in IsoTypes : ReadSite(t)
             \/ \E r \in Release : \/ LeaveRelease(r) \/ PassOver(r)
                                    \/ CheckedNoDemand(r) \/ AddingFails(r)
                                    \/ EvaluationRaises(r)
             \/ EndFetch \/ BeginOldCheck \/ AbandonOldCheck \/ EndOldCheck
             \/ LogRatios \/ StopLogging \/ StopFetching
    <2>1. UNCHANGED <<held, watch>>
      BY <1>2 DEF StartRun, ReadSite, LeaveRelease, PassOver, CheckedNoDemand,
         AddingFails, EvaluationRaises, EndFetch, BeginOldCheck, AbandonOldCheck,
         EndOldCheck, LogRatios, StopLogging, StopFetching
    <2>2. pc' = "unlink" => pc = "unlink"
      BY <1>2 DEF StartRun, ReadSite, LeaveRelease, PassOver, CheckedNoDemand,
         AddingFails, EvaluationRaises, EndFetch, BeginOldCheck, AbandonOldCheck,
         EndOldCheck, LogRatios, StopLogging, StopFetching
    <2>3. pc = "unlink" => pc' = "unlink"
      BY <1>2 DEF StartRun, ReadSite, LeaveRelease, PassOver, CheckedNoDemand,
         AddingFails, EvaluationRaises, EndFetch, BeginOldCheck, AbandonOldCheck,
         EndOldCheck, LogRatios, StopLogging, StopFetching, FetchPC
    <2>4. QED
      BY <2>1, <2>2, <2>3
  <1>3. QED
    BY <1>1, <1>2 DEF FetchingStep

LEMMA FilesThereSurrounding ==
    ASSUME TypeOK, FilesThere, Environment, UNCHANGED passVars
    PROVE  FilesThere'
  <1>. USE DEF FilesThere, clockVars, daemonVars, fileVars, passVars
  <1>1. CASE Tick \/ OtherUse
    BY <1>1 DEF Tick, OtherUse
  <1>2. ASSUME NEW r \in Release, Load(r)
        PROVE  FilesThere'
    <2>1. r \notin removing
      BY <1>2 DEF Load
    <2>2. \A q \in held \cup removing \cup {r} : watch'[q] = "added"
      BY <1>2 DEF Load, TypeOK, SeederTypeOK
    <2>3. QED
      BY <1>2, <2>1, <2>2 DEF Load
  <1>3. ASSUME NEW r \in Release, Grow(r) PROVE FilesThere'
    BY <1>3 DEF Grow
  <1>4. QED
    BY <1>1, <1>2, <1>3 DEF Environment

LEMMA FilesThereStep == TypeOK /\ FilesThere /\ [Next]_vars => FilesThere'
  <1>1. SUFFICES ASSUME TypeOK, FilesThere, [Next]_vars PROVE FilesThere'
    OBVIOUS
  <1>2. CASE Fetch
    BY <1>1, <1>2, FilesThereFetching DEF Fetch
  <1>3. CASE Clean
    BY <1>1, <1>3, FilesThereCleaning DEF Clean
  <1>4. CASE StopRun
    BY <1>1, <1>4
    DEF StopRun, Cleaning!Stop, Cleaning!Forget, Cleaning!daemonVars, FilesThere
  <1>5. CASE Surrounding
    BY <1>1, <1>5, FilesThereSurrounding DEF Surrounding
  <1>6. CASE Upstream \/ UNCHANGED vars
    BY <1>1, <1>6
    DEF Upstream, Publish, vars, seederVars, daemonVars, passVars, FilesThere
  <1>7. QED
    BY <1>1, <1>2, <1>3, <1>4, <1>5, <1>6 DEF Next

LEMMA FilesAlwaysThere == Spec => [](TypeOK /\ FilesThere)
  <1>1. Init => FilesThere
    BY DEF Init, SeederInit, Cleaning!CleanupInit, FilesThere
  <1>2. QED
    BY <1>1, DailyTypeInit, DailyTypeStep, FilesThereStep, PTL DEF Spec

(* The only steps that touch the watch folder.                             *)
LEMMA WhoTouchesWatch ==
    ASSUME [Next]_vars
    PROVE  \/ UNCHANGED watch
           \/ \E r \in Release : \/ Download(r) \/ CheckedInDemand(r) \/ Load(r)
                                \/ Cleaning!RemoveWatchFile(r)
  <1>. USE DEF clockVars, daemonVars, fileVars, seederVars, Cleaning!clockVars,
              Cleaning!daemonVars, Cleaning!fileVars
  <1>1. CASE Fetch
    BY <1>1
    DEF Fetch, FetchingStep, StartRun, ReadSite, LeaveRelease, PassOver,
        CheckedNoDemand, AddingFails, EvaluationRaises, EndFetch, BeginOldCheck,
        AbandonOldCheck, EndOldCheck, LogRatios, StopLogging, StopFetching
  <1>2. CASE Clean
    BY <1>2
    DEF Clean, Cleaning!CleanupStep, Cleaning!BeginKeepOnlyLatest,
        Cleaning!BeginStagnation, Cleaning!CleanupUnavailable, Cleaning!RemoveTorrent,
        Cleaning!RemoveTorrentFails, Cleaning!FinishLoop,
        Cleaning!SaveRemovedHistory, Cleaning!SaveRatioHistory, Cleaning!SaveFails,
        Cleaning!DiskBelowLimit, Cleaning!BeginDiskPressure, Cleaning!DiskUnavailable,
        Cleaning!EndRun
  <1>3. CASE Surrounding
    BY <1>3 DEF Surrounding, Environment, Tick, OtherUse, Grow
  <1>4. CASE StopRun \/ Upstream \/ UNCHANGED vars
    BY <1>4 DEF StopRun, Cleaning!Stop, Upstream, Publish, vars
  <1>. QED BY <1>1, <1>2, <1>3, <1>4 DEF Next

(* What they may do to it: a file appears where there is none, is loaded,  *)
(* or goes after it was loaded.                                            *)
LEMMA WatchSteps ==
    ASSUME TypeOK, FilesThere, [Next]_vars
    PROVE  [Folder!Next]_watch
  <1>1. ASSUME NEW r \in Release, Download(r) \/ CheckedInDemand(r)
        PROVE  Folder!Next
    <2>1. watch[r] = "absent" /\ watch' = [watch EXCEPT ![r] = "torrent"]
      BY <1>1 DEF Download, CheckedInDemand, PassedOver
    <2>. QED BY <2>1 DEF Folder!Next, Folder!Add
  <1>2. ASSUME NEW r \in Release, Load(r)
        PROVE  Folder!Next
    BY <1>2 DEF Load, Folder!Next, Folder!Load
  <1>3. ASSUME NEW r \in Release, Cleaning!RemoveWatchFile(r)
        PROVE  [Folder!Next]_watch
    <2>1. r \in removing /\ \/ watch' = [watch EXCEPT ![r] = "absent"]
                            \/ UNCHANGED watch
      BY <1>3 DEF Cleaning!RemoveWatchFile
    <2>2. watch[r] = "added"
      BY <2>1 DEF FilesThere
    <2>. QED BY <2>1, <2>2 DEF Folder!Next, Folder!Remove
  <1>. QED BY <1>1, <1>2, <1>3, WhoTouchesWatch

(* The two models of the old-release check agree on what DemandCheck says  *)
(* of /watch: the single steps of the daily run keep to it too, downloads, *)
(* cleanup and every failure included.                                     *)
THEOREM RunFollowsDemandCheck == Spec => FollowsDemandCheck
  <1>1. Init => Folder!Init
    BY DEF Init, SeederInit, Folder!Init
  <1>. QED
    BY <1>1, WatchSteps, FilesAlwaysThere, PTL
    DEF Spec, FollowsDemandCheck, Folder!Spec

(* A release whose file waits in /watch, or which the daemon seeds, is not *)
(* downloaded again, whatever failed or stopped before.                    *)
THEOREM NeverFetchedTwice == Spec => FetchedOnce
  <1>. DEFINE Once == \A r \in Release : watch'[r] = "torrent" /\ watch[r] # "torrent" =>
                         watch[r] = "absent" /\ r \notin held
  <1>1. TypeOK /\ FilesThere /\ [Next]_vars => [Once]_vars
    <2>1. SUFFICES ASSUME TypeOK, FilesThere, [Next]_vars,
                          NEW r \in Release, watch'[r] = "torrent", watch[r] # "torrent"
                   PROVE  watch[r] = "absent" /\ r \notin held
      OBVIOUS
    <2>2. watch[r] = "absent"
      BY <2>1, WatchSteps
      DEF Folder!Next, Folder!Add, Folder!Load, Folder!Remove, TypeOK, SeederTypeOK
    <2>. QED BY <2>1, <2>2 DEF FilesThere
  <1>2. QED
    BY <1>1, FilesAlwaysThere, PTL DEF Spec, FetchedOnce

-----------------------------------------------------------------------------
(* The days between two checks of an old release.                          *)

(* What is on file, or in memory while the check goes on, is the day of    *)
(* the latest check; a stop, a failing read or save, or an answer that     *)
(* ends the check would lose it.                                           *)
CheckDays ==
    LET known == IF pc = "oldLoop" THEN checks ELSE checkState
    IN  \A r \in Release : checkedOn[r] >= 0 =>
            r \in DOMAIN known /\ known[r] = checkedOn[r]

(* Only what asks the trackers scrapes, and a stop.                        *)
LEMMA WhoScrapes ==
    ASSUME [Next]_vars, NEW r \in Release, Scraped(r)
    PROVE  CheckedNoDemand(r) \/ CheckedInDemand(r) \/ AddingFails(r)
              \/ EvaluationRaises(r) \/ StopFetching
  <1>. USE DEF Scraped
  <1>1. CASE Fetch
    BY <1>1
    DEF Fetch, FetchingStep, StartRun, ReadSite, LeaveRelease, Download, PassOver,
        CheckedNoDemand, CheckedInDemand, AddingFails, EvaluationRaises, EndFetch,
        BeginOldCheck, AbandonOldCheck, EndOldCheck, LogRatios, StopLogging,
        StopFetching
  <1>2. CASE Clean \/ StopRun \/ Surrounding
    BY <1>2 DEF Clean, StopRun, Surrounding, fetchVars
  <1>3. CASE Upstream \/ UNCHANGED vars
    BY <1>3 DEF Upstream, Publish, vars, fetchVars
  <1>4. QED
    BY <1>1, <1>2, <1>3 DEF Next

(* The day of a check is kept until it is replaced by a later check's.     *)
NoCheckLost == {"file", "read", "tracker", "stop"} \cap Faults = {}

LEMMA CheckDaysFetching ==
    ASSUME CheckDays, TypeOK, FetchingStep, Witness, UNCHANGED passVars, NoCheckLost
    PROVE  CheckDays'
  <1>. USE DEF CheckDays, seederVars
  <1>1. checkedOn' = [r \in Release |-> IF Scraped(r) THEN today ELSE checkedOn[r]]
    BY DEF Witness
  <1>2. [Next]_vars
    BY DEF Next, Fetch
  <1>3. ASSUME NEW q \in Release, CheckedNoDemand(q) \/ CheckedInDemand(q)
        PROVE  CheckDays'
    <2>1. /\ pc = "oldLoop" /\ pc' = "oldLoop"
          /\ checks' = Put(checks, q, today)
          /\ q \in queue /\ ~PassedOver(q) /\ queue' = queue \ {q}
      BY <1>3 DEF CheckedNoDemand, CheckedInDemand
    <2>2. \A r \in Release : Scraped(r) <=> r = q
      BY <2>1 DEF Scraped
    <2>3. \A r \in Release : checkedOn'[r] = IF r = q THEN today ELSE checkedOn[r]
      BY <1>1, <2>2
    <2>4. QED
      BY <2>1, <2>3 DEF Put
  <1>4. CASE ~\E q \in Release : CheckedNoDemand(q) \/ CheckedInDemand(q)
    <2>1. \A r \in Release : ~Scraped(r)
      BY <1>2, <1>4, WhoScrapes
      DEF AddingFails, EvaluationRaises, StopFetching, NoCheckLost
    <2>2. \A r \in Release : checkedOn'[r] = checkedOn[r]
      BY <1>1, <2>1
    <2>3. CASE EndOldCheck \/ BeginOldCheck
      <3>1. ReadBack(checkState, ReadFails) = {checkState}
        BY DEF ReadBack, ReadFails, NoCheckLost
      <3>. QED BY <2>2, <2>3, <3>1 DEF EndOldCheck, BeginOldCheck, NoCheckLost
    <2>4. CASE StartRun \/ EndFetch \/ LogRatios
      BY <2>2, <2>4 DEF StartRun, EndFetch, LogRatios
    <2>5. CASE \/ \E t \in IsoTypes : ReadSite(t)
               \/ \E r \in Release : LeaveRelease(r) \/ Download(r) \/ PassOver(r)
      BY <2>2, <2>5 DEF ReadSite, LeaveRelease, Download, PassOver
    <2>6. CASE \E r \in Release : AddingFails(r) \/ EvaluationRaises(r)
      BY <2>6 DEF AddingFails, EvaluationRaises, NoCheckLost
    <2>7. CASE StopLogging \/ StopFetching
      BY <2>7 DEF StopLogging, StopFetching, NoCheckLost
    <2>8. CASE AbandonOldCheck
      BY <2>2, <2>8 DEF AbandonOldCheck
    <2>9. QED
      BY <1>4, <2>3, <2>4, <2>5, <2>6, <2>7, <2>8 DEF FetchingStep
  <1>5. QED
    BY <1>3, <1>4

LEMMA CheckDaysStep ==
    ASSUME CheckDays, TypeOK, [Next]_vars, NoCheckLost
    PROVE  CheckDays'
  <1>1. CASE Fetch
    BY <1>1, CheckDaysFetching DEF Fetch
  <1>2. CASE Clean \/ StopRun \/ Surrounding \/ Upstream
    <2>1. \A r \in Release : ~Scraped(r)
      BY <1>2 DEF Clean, StopRun, Surrounding, Upstream, Publish, fetchVars, Scraped
    <2>2. \A r \in Release : checkedOn'[r] = checkedOn[r]
      BY <1>2, <2>1 DEF Clean, StopRun, Surrounding, Upstream, Witness
    <2>3. checks' = checks /\ checkState' = checkState
      BY <1>2 DEF Clean, StopRun, Surrounding, Upstream, Publish, fetchVars
    <2>4. pc = "oldLoop" <=> pc' = "oldLoop"
      <3>1. CASE Clean
        BY <3>1 DEF Clean, Cleaning!CleanupStep, Cleaning!BeginKeepOnlyLatest,
          Cleaning!BeginStagnation, Cleaning!CleanupUnavailable, Cleaning!RemoveTorrent,
          Cleaning!RemoveTorrentFails, Cleaning!RemoveWatchFile, Cleaning!FinishLoop,
          Cleaning!SaveRemovedHistory, Cleaning!SaveRatioHistory, Cleaning!SaveFails,
          Cleaning!DiskBelowLimit, Cleaning!BeginDiskPressure, Cleaning!DiskUnavailable,
          Cleaning!EndRun, Cleaning!Abandon, Cleaning!AfterPass
      <3>2. CASE StopRun
        BY <3>2 DEF StopRun, Cleaning!Stop, Cleaning!CleanupPC
      <3>3. CASE Surrounding \/ Upstream
        BY <3>3 DEF Surrounding, Upstream, Publish, Environment, Tick, OtherUse, Load,
           Grow, seederVars
      <3>4. QED
        BY <1>2, <3>1, <3>2, <3>3
    <2>5. QED
      BY <2>2, <2>3, <2>4 DEF CheckDays
  <1>3. CASE UNCHANGED vars
    BY <1>3 DEF vars, auxVars, fetchVars, seederVars, CheckDays
  <1>4. QED
    BY <1>1, <1>2, <1>3 DEF Next

(* A release is not scraped again before its recheck is due: what the      *)
(* check knows of it, in this run or from the state file of an earlier     *)
(* one, is the day it was last scraped.  Every check must get as far as    *)
(* its save, and the file be opened: a stop, a save that fails and a count *)
(* that is no number each make a later run check early.                    *)
THEOREM RechecksSpaced ==
    ASSUME {"file", "read", "tracker", "stop"} \cap Faults = {}
    PROVE  Spec => NotCheckedTooSoon
  <1>. DEFINE Spaced == \A r \in Release : Scraped(r) /\ checkedOn[r] >= 0 =>
                           today - checkedOn[r] >= RecheckDays
  <1>1. Init => CheckDays
    <2>1. SUFFICES ASSUME Init PROVE CheckDays
      OBVIOUS
    <2>2. \A r \in Release : ~(checkedOn[r] >= 0)
      BY <2>1 DEF Init
    <2>3. QED
      BY <2>2 DEF CheckDays
  <1>2. TypeOK /\ CheckDays /\ [Next]_vars => CheckDays'
    BY CheckDaysStep DEF NoCheckLost
  <1>3. TypeOK /\ CheckDays /\ [Next]_vars => [Spaced]_vars
    <2>1. SUFFICES ASSUME CheckDays, NEW r \in Release, Scraped(r), checkedOn[r] >= 0
                   PROVE  today - checkedOn[r] >= RecheckDays
      OBVIOUS
    <2>2. r \in DOMAIN checks /\ checks[r] = checkedOn[r]
      BY <2>1 DEF CheckDays, Scraped
    <2>3. RecheckDue(r)
      BY <2>1 DEF Scraped, PassedOver
    <2>4. QED
      BY <2>2, <2>3 DEF RecheckDue
  <1>4. QED
    BY <1>1, <1>2, <1>3, DailyTypeInit, DailyTypeStep, PTL DEF Spec, NotCheckedTooSoon
-----------------------------------------------------------------------------
(* What cleanup removed stays away from the old-release check.             *)

(* Half once more, with what is proved of Cleanup.                         *)
Proved == INSTANCE CleanupCalm_proof WITH
            Faults <- Faults \ {"web", "tracker"},
            pc     <- IF pc \in FetchPC THEN "idle" ELSE pc,
            due    <- IF pc \in FetchPC THEN TRUE ELSE due

LEMMA SameDecisionsProved ==
    /\ Half!Superseded(held, added) = Proved!Superseded(held, added)
    /\ Half!DiskFull <=> Proved!DiskFull
    /\ \A l, h : Half!UpdatedHistory(l, h) = Proved!UpdatedHistory(l, h)
    /\ \A d : Half!ReadBack(d, Half!ReadFails) = Proved!ReadBack(d, Proved!ReadFails)
    /\ \A r : Half!IsNext(r) <=> Proved!IsNext(r)
    /\ \A x : Half!Rounded(x) = Proved!Rounded(x)
    /\ \A S, x : Half!Stagnant(S, x, today) <=> Proved!Stagnant(S, x, today)
    /\ \A d, r, v : Half!Put(d, r, v) = Proved!Put(d, r, v)
    /\ Half!Empty = Proved!Empty
  <1>1. \A q, r : Half!Newer(q, r, added) <=> Proved!Newer(q, r, added)
    BY DEF
        Half!Newer, Proved!Newer, Half!Rank, Proved!Rank
  <1>2. Half!Superseded(held, added) = Proved!Superseded(held, added)
    BY <1>1 DEF
        Half!Superseded, Proved!Superseded
  <1>3. Half!DiskFull <=> Proved!DiskFull
    <2>1. Half!Cardinality(held) = Proved!Cardinality(held)
      BY DEF
        Half!Cardinality, Proved!Cardinality, Half!IsFiniteSet,
        Proved!IsFiniteSet
    <2>2. QED
      BY <2>1 DEF
        Half!DiskFull, Proved!DiskFull, Half!UsedSpace, Proved!UsedSpace
  <1>4. \A l, h : Half!UpdatedHistory(l, h) = Proved!UpdatedHistory(l, h)
    BY DEF
        Half!UpdatedHistory, Proved!UpdatedHistory, Half!Updated,
        Proved!Updated, Half!Samples, Proved!Samples, Half!RemovedOn,
        Proved!RemovedOn, Half!OfThisCopy, Proved!OfThisCopy, Half!SampleDue,
        Proved!SampleDue, Half!MaxAge, Proved!MaxAge
  <1>5. \A r : Half!IsNext(r) <=> Proved!IsNext(r)
    BY <1>1, <1>3 DEF
        Half!IsNext, Proved!IsNext
  <1>6. \A S, x : Half!Stagnant(S, x, today) <=> Proved!Stagnant(S, x, today)
    BY DEF
        Half!Stagnant, Proved!Stagnant, Half!OldEnough, Proved!OldEnough,
        Half!IsAnchor, Proved!IsAnchor
  <1>7. \A d : Half!ReadBack(d, Half!ReadFails) = Proved!ReadBack(d, Proved!ReadFails)
    BY DEF Half!ReadBack, Proved!ReadBack, Half!ReadFails, Proved!ReadFails,
           Half!Empty, Proved!Empty
  <1>8. QED
    BY <1>2, <1>3, <1>4, <1>5, <1>6, <1>7 DEF
        Half!Rounded, Proved!Rounded, Half!Put, Proved!Put, Half!Empty,
        Proved!Empty

LEMMA HalfInitProved == Half!Init => Proved!Init
  BY SameDecisionsProved DEF
        Half!Init, Proved!Init, Half!SeederInit, Proved!SeederInit,
        Half!CleanupInit, Proved!CleanupInit

LEMMA HalfStepProved == [Half!Next]_Half!vars => [Proved!Next]_Proved!vars
  <1>. USE SameDecisionsProved DEF
        Half!clockVars, Proved!clockVars, Half!daemonVars, Proved!daemonVars,
        Half!fileVars, Proved!fileVars, Half!passVars, Proved!passVars,
        Half!seederVars, Proved!seederVars
  <1>1. ASSUME Half!BeginKeepOnlyLatest \/ Half!BeginStagnation
               \/ Half!CleanupUnavailable \/ Half!FinishLoop
        PROVE  Proved!Next
    BY <1>1 DEF Proved!Next, Proved!CleanupStep,
        Half!BeginKeepOnlyLatest, Proved!BeginKeepOnlyLatest,
        Half!BeginStagnation, Proved!BeginStagnation, Half!CleanupUnavailable,
        Proved!CleanupUnavailable, Half!FinishLoop, Proved!FinishLoop
  <1>2. ASSUME Half!SaveRemovedHistory \/ Half!SaveRatioHistory \/ Half!SaveFails
        PROVE  Proved!Next
    BY <1>2 DEF Proved!Next, Proved!CleanupStep,
        Half!SaveRemovedHistory, Proved!SaveRemovedHistory,
        Half!SaveRatioHistory, Proved!SaveRatioHistory, Half!SaveFails,
        Proved!SaveFails, Half!Abandon, Proved!Abandon, Half!AfterPass,
        Proved!AfterPass, Half!Forget, Proved!Forget
  <1>3. ASSUME Half!DiskBelowLimit \/ Half!BeginDiskPressure
               \/ Half!DiskUnavailable \/ Half!EndRun
        PROVE  Proved!Next
    BY <1>3 DEF Proved!Next, Proved!CleanupStep,
        Half!DiskBelowLimit, Proved!DiskBelowLimit, Half!BeginDiskPressure,
        Proved!BeginDiskPressure, Half!DiskUnavailable, Proved!DiskUnavailable,
        Half!EndRun, Proved!EndRun
  <1>4. ASSUME NEW r \in Release,
               Half!RemoveTorrent(r) \/ Half!RemoveTorrentFails(r)
        PROVE  Proved!Next
    <2>1. Proved!RemoveTorrent(r) \/ Proved!RemoveTorrentFails(r)
      BY <1>4 DEF
          Half!RemoveTorrent, Proved!RemoveTorrent, Half!RemoveTorrentFails,
          Proved!RemoveTorrentFails, Half!Removed, Proved!Removed,
          Half!Abandon, Proved!Abandon, Half!AfterPass, Proved!AfterPass,
          Half!Forget, Proved!Forget
    <2>2. QED
      BY <2>1 DEF Proved!Next, Proved!CleanupStep
  <1>5. ASSUME NEW r \in Release, Half!RemoveWatchFile(r)
        PROVE  Proved!Next
    <2>1. Proved!RemoveWatchFile(r)
      BY <1>5 DEF
          Half!RemoveWatchFile, Proved!RemoveWatchFile
    <2>2. QED
      BY <2>1 DEF Proved!Next, Proved!CleanupStep
  <1>6. ASSUME Half!StartCleanup \/ Half!Stop
               \/ \E r \in Release : Half!NewWatchFile(r)
        PROVE  Proved!Next
    BY <1>6 DEF Proved!Next,
        Half!StartCleanup, Proved!StartCleanup, Half!Stop, Proved!Stop,
        Half!NewWatchFile, Proved!NewWatchFile, Half!Forget, Proved!Forget
  <1>7. ASSUME Half!Environment, UNCHANGED Half!passVars
        PROVE  Proved!Next
    <2>1. Proved!Environment
      BY <1>7 DEF
          Half!Environment, Proved!Environment, Half!Tick, Proved!Tick,
          Half!OtherUse, Proved!OtherUse, Half!Load, Proved!Load, Half!Grow,
          Proved!Grow
    <2>2. QED
      BY <1>7, <2>1 DEF Proved!Next
  <1>8. QED
    BY <1>1, <1>2, <1>3, <1>4, <1>5, <1>6, <1>7 DEF
       Half!Next, Half!CleanupStep, Half!vars, Proved!vars

(* The run implements Cleanup, and gives it the constants it asks for.     *)
LEMMA RunIsProved == Spec => Proved!Spec
  <1>1. Spec => Half!Spec
    BY RunCleansUp DEF CleansUp
  <1>2. Half!Spec => Proved!Spec
    BY HalfInitProved, HalfStepProved, PTL DEF Half!Spec, Proved!Spec
  <1>. QED BY <1>1, <1>2

LEMMA ProvedAssumptions ==
    /\ Modes \subseteq {"stagnant", "keep_only_latest"}
    /\ MinRatio \in Proved!Ratio
    /\ DiskLimit \in Nat
    /\ Faults \ {"web", "tracker"} \subseteq {"rpc", "file", "read", "stop"}
    /\ FreshRatio \subseteq Proved!Ratio
    /\ MaxStamp \in Nat
    /\ MaxOther \in Nat
    /\ MaxDay \in Nat
    /\ Proved!IsFiniteSet(Release)
    /\ Version \in [Release -> Nat]
    /\ DOMAIN IsoType = Release
    /\ \A r, q \in Release :
          r # q /\ IsoType[r] = IsoType[q] /\ IsoType[r] \notin ByAddedDate
            => Version[r] # Version[q]
  <1>1. /\ Modes \subseteq {"stagnant", "keep_only_latest"}
        /\ MinRatio \in Proved!Ratio
        /\ DiskLimit \in Nat
        /\ Faults \ {"web", "tracker"} \subseteq {"rpc", "file", "read", "stop"}
    BY DailyAssumption, FetchingAssumption DEF Proved!Ratio, Ratio
  <1>2. /\ FreshRatio \subseteq Proved!Ratio
        /\ MaxStamp \in Nat
        /\ MaxOther \in Nat
        /\ MaxDay \in Nat
    BY SeederAssumption DEF Proved!Ratio, Ratio
  <1>3. /\ Proved!IsFiniteSet(Release)
        /\ Version \in [Release -> Nat]
        /\ DOMAIN IsoType = Release
        /\ \A r, q \in Release :
              r # q /\ IsoType[r] = IsoType[q] /\ IsoType[r] \notin ByAddedDate
                => Version[r] # Version[q]
    BY ReleaseAssumption DEF Proved!IsFiniteSet, IsFiniteSet
  <1>. QED BY <1>1, <1>2, <1>3

(* What Cleanup is proved to promise, the run keeps: whatever fails, the   *)
(* newest torrent of a type is never removed and the ratio history stays   *)
(* bounded; and the removed history forgets nothing as long as it opens.   *)
THEOREM RunKeepsPromises ==
    /\ Spec => NewestKept /\ []Cleaning!SamplesSpaced
    /\ "read" \notin Faults => (Spec => Cleaning!RemovedHistoryGrows)
  <1>1. /\ Proved!Spec => Proved!NewestKept /\ []Proved!SamplesSpaced
        /\ "read" \notin Faults => (Proved!Spec => Proved!RemovedHistoryGrows)
    BY ProvedAssumptions, RatioAssumption, HistoryAssumption,
       Proved!NewestNeverRemoved, Proved!RemovedHistoryKept, Proved!HistoryBounded
  <1>. DEFINE Newer1 == \A r \in held \ held' : \E q \in held' : Proved!Newer(q, r, added)
              Newer2 == \A r \in held \ held' : \E q \in held' : Newer(q, r, added)
              Grows == /\ DOMAIN removedHistory \subseteq DOMAIN removedHistory'
                       /\ \A r \in DOMAIN removedHistory :
                             removedHistory'[r].date >= removedHistory[r].date
  <1>2. [Newer1]_Proved!vars => [Newer2]_vars
    BY DEF Proved!Newer, Newer, Proved!Rank, Rank, Proved!vars,
           Proved!seederVars, Proved!daemonVars
  <1>3. TypeOK /\ [Grows]_Proved!vars => [Grows]_Cleaning!vars
    <2>1. TypeOK => \A r \in DOMAIN removedHistory : removedHistory[r].date \in Int
      BY DEF TypeOK, SeederTypeOK, IsDict, Removal, Day
    <2>. QED BY <2>1 DEF Proved!vars, Proved!seederVars, Proved!fileVars
  <1>4. Proved!SamplesSpaced => Cleaning!SamplesSpaced
    BY DEF Proved!SamplesSpaced, Cleaning!SamplesSpaced, Proved!MaxAge, Cleaning!MaxAge
  <1>. QED BY <1>1, <1>2, <1>3, <1>4, RunIsProved, DailyTypeCorrect, PTL
           DEF Proved!NewestKept, NewestKept, Proved!RemovedHistoryGrows,
               Cleaning!RemovedHistoryGrows

(* While only sites and trackers fail, the run keeps what is lost with a   *)
(* call of the daemon or a save: no file outlives its torrent, and no copy *)
(* is judged stagnant before it has been held for the window.              *)
THEOREM CalmRunKeepsPromises ==
    ASSUME Faults \subseteq {"web", "tracker"}
    PROVE  Spec => []NoOrphanWatchFile /\ Cleaning!TooNewToJudge
  <1>1. Proved!Calm
    BY DEF Proved!Calm
  <1>2. Proved!Spec => []Proved!NoOrphanWatchFile /\ Proved!TooNewToJudge
    BY <1>1, ProvedAssumptions, RatioAssumption, HistoryAssumption,
       Proved!NoFileOrphaned, Proved!NeverJudgedTooNew
  <1>3. Proved!NoOrphanWatchFile => NoOrphanWatchFile
    BY DEF Proved!NoOrphanWatchFile, NoOrphanWatchFile, Cleaning!NoOrphanWatchFile
  <1>. DEFINE Held == \A r \in held \ held' :
                         mode = "stagnant" => today - loaded[r] >= Window
  <1>4. [Held]_Proved!vars => [Held]_Cleaning!vars
    BY DEF Proved!vars, Cleaning!vars, Proved!seederVars, Proved!daemonVars
  <1>. QED BY <1>2, <1>3, <1>4, RunIsProved, PTL
           DEF Proved!TooNewToJudge, Cleaning!TooNewToJudge

(* While only sites and trackers fail, what Cleanup remembers the run does.*)
LEMMA RunRemembers ==
    ASSUME Faults \subseteq {"web", "tracker"}
    PROVE  Spec => []Proved!RemovalsRemembered
  <1>1. Proved!Calm
    BY DEF Proved!Calm
  <1>2. Proved!Spec => []Proved!RemovalsRemembered
    BY <1>1, ProvedAssumptions, RatioAssumption, HistoryAssumption,
       Proved!RemovalsAlwaysRemembered
  <1>. QED BY <1>2, RunIsProved, PTL

(* All removals on record bar a release for as long as the check goes on.  *)
AllBarred == pc = "oldLoop" => DOMAIN removedHistory \subseteq barred

LEMMA AllBarredStep ==
    ASSUME SkipRemoved, "read" \notin Faults, AllBarred, [Next]_vars
    PROVE  AllBarred'
  <1>. USE DEF AllBarred, clockVars, daemonVars, fileVars, seederVars
  <1>1. CASE FetchingStep
    <2>1. CASE BeginOldCheck
      BY <2>1 DEF BeginOldCheck, ReadBack, ReadFails
    <2>2. CASE \/ StartRun \/ EndFetch \/ AbandonOldCheck \/ EndOldCheck \/ LogRatios
               \/ StopLogging \/ StopFetching
      BY <2>2 DEF StartRun, EndFetch, AbandonOldCheck, EndOldCheck, LogRatios,
                  StopLogging, StopFetching
    <2>3. CASE \/ \E t \in IsoTypes : ReadSite(t)
               \/ \E r \in Release :
                     \/ LeaveRelease(r) \/ Download(r) \/ PassOver(r)
                     \/ CheckedNoDemand(r) \/ CheckedInDemand(r) \/ AddingFails(r)
                     \/ EvaluationRaises(r)
      BY <2>3 DEF ReadSite, LeaveRelease, Download, PassOver, CheckedNoDemand,
                  CheckedInDemand, AddingFails, EvaluationRaises
    <2>4. QED
      BY <1>1, <2>1, <2>2, <2>3 DEF FetchingStep
  <1>2. CASE Clean
    BY <1>2 DEF Clean, Cleaning!CleanupStep, Cleaning!BeginKeepOnlyLatest,
      Cleaning!BeginStagnation, Cleaning!CleanupUnavailable, Cleaning!RemoveTorrent,
      Cleaning!RemoveTorrentFails, Cleaning!RemoveWatchFile, Cleaning!FinishLoop,
      Cleaning!SaveRemovedHistory, Cleaning!SaveRatioHistory, Cleaning!SaveFails,
      Cleaning!DiskBelowLimit, Cleaning!BeginDiskPressure, Cleaning!DiskUnavailable,
      Cleaning!EndRun, Cleaning!Abandon, Cleaning!AfterPass
  <1>3. CASE StopRun
    BY <1>3 DEF StopRun, Cleaning!Stop
  <1>4. CASE Surrounding \/ Upstream \/ UNCHANGED vars
    BY <1>4 DEF Surrounding, Upstream, Publish, Environment, Tick, OtherUse, Load,
       Grow, fetchVars, vars
  <1>5. QED
    BY <1>1, <1>2, <1>3, <1>4 DEF Next, Fetch

(* Only a release found in demand is added by the old-release check.       *)
LEMMA WhoAdds ==
    ASSUME [Next]_vars, pc = "oldLoop", watch' # watch, queue' # queue
    PROVE  \E q \in Release : CheckedInDemand(q)
  <1>. USE DEF clockVars, daemonVars, fileVars, seederVars
  <1>1. CASE Fetch
    BY <1>1
    DEF Fetch, FetchingStep, StartRun, ReadSite, LeaveRelease, Download, PassOver,
        CheckedNoDemand, AddingFails, EvaluationRaises, EndFetch, BeginOldCheck,
        AbandonOldCheck, EndOldCheck, LogRatios, StopLogging, StopFetching
  <1>2. CASE Clean \/ StopRun \/ Surrounding
    BY <1>2 DEF Clean, StopRun, Surrounding, fetchVars
  <1>3. CASE Upstream \/ UNCHANGED vars
    BY <1>3 DEF Upstream, Publish, vars, fetchVars
  <1>4. QED
    BY <1>1, <1>2, <1>3 DEF Next

(* What cleanup removed is not added again by the old-release check, nor   *)
(* is anything else the daemon ever held, while only sites and trackers do.*)
(* A call of the daemon that fails loses records (see removals_lost).      *)
THEOREM RemovedNeverReAdded ==
    ASSUME SkipRemoved, Faults \subseteq {"web", "tracker"}
    PROVE  Spec => NeverReAdded
  <1>. DEFINE Inv == TypeOK /\ FilesThere /\ Proved!RemovalsRemembered /\ AllBarred
              NewOnly == \A r \in queue \ queue' :
                            pc = "oldLoop" /\ watch'[r] # watch[r] => loaded[r] = -1
  <1>1. Init => AllBarred
    BY DEF Init, FetchingInit, SeederInit, AllBarred
  <1>2. AllBarred /\ [Next]_vars => AllBarred'
    BY AllBarredStep
  <1>3. Inv /\ [Next]_vars => [NewOnly]_vars
    <2>1. SUFFICES ASSUME Inv, [Next]_vars, NEW r \in queue \ queue',
                          pc = "oldLoop", watch'[r] # watch[r]
                   PROVE  loaded[r] = -1
      OBVIOUS
    <2>2. PICK q \in Release : CheckedInDemand(q)
      BY <2>1, WhoAdds
    <2>3. r = q /\ watch[r] = "absent" /\ r \notin barred
      BY <2>1, <2>2 DEF CheckedInDemand, PassedOver
    <2>4. r \notin held
      BY <2>1, <2>3 DEF FilesThere
    <2>5. r \notin DOMAIN removedHistory
      BY <2>1, <2>3 DEF AllBarred
    <2>6. ~(loaded[r] >= 0)
      BY <2>1, <2>2, <2>3, <2>4, <2>5 DEF Proved!RemovalsRemembered, FetchPC
    <2>7. loaded[r] \in Int /\ loaded[r] >= -1
      BY <2>1, <2>2, <2>3 DEF TypeOK, SeederTypeOK, Day
    <2>8. QED
      BY <2>6, <2>7
  <1>4. QED
    BY <1>1, <1>2, <1>3, FilesAlwaysThere, RunRemembers, PTL DEF Spec, NeverReAdded
==============================================================================
