------------------------- MODULE DailyRunGate_proof -------------------------
(***************************************************************************)
(* The ratio gate across runs, for every value of the constants: what is   *)
(* on record of a release is true whatever fails (RecordsTruthful), and    *)
(* while only sites and trackers fail the gate is never passed for want of *)
(* a record (GateHonoured).                                                *)
(***************************************************************************)
EXTENDS DailyRunFiles_proof

(* What is written down of a ratio is reached by it, to within half of the *)
(* last digit.                                                             *)
LEMMA RoundedReached == ASSUME NEW x \in Ratio PROVE Reaches(x, Rounded(x))
  <1>. DEFINE q == (2 * x + RatioUnit) \div (2 * RatioUnit)
  <1>1. RatioUnit \in Nat /\ RatioUnit >= 1 /\ x \in Int /\ x >= -1
    BY RatioAssumption DEF Ratio
  <1>2. CASE x < 0
    <2>1. x = -1 /\ Rounded(x) = -1
      BY <1>1, <1>2 DEF Rounded
    <2>2. (2 * (-1) - 1) * RatioUnit = -(3 * RatioUnit)
      BY <1>1
    <2>. QED BY <1>1, <2>1, <2>2 DEF Reaches
  <1>3. CASE x >= 0
    <2>1. 2 * x + RatioUnit \in Nat /\ 2 * RatioUnit \in Nat /\ 2 * RatioUnit > 0
      BY <1>1, <1>3
    <2>2. q \in Int /\ (2 * RatioUnit) * q <= 2 * x + RatioUnit
      BY <2>1, Z3
    <2>3. (2 * q - 1) * RatioUnit = (2 * RatioUnit) * q - RatioUnit
      BY <1>1, <2>2, Z3
    <2>. HIDE DEF q
    <2>4. (2 * q - 1) * RatioUnit <= 2 * x
      <3>. DEFINE b == (2 * RatioUnit) * q
      <3>1. b \in Int
        BY <1>1, <2>2
      <3>. HIDE DEF b
      <3>. QED BY <1>1, <2>2, <2>3, <3>1 DEF b
    <2>5. Rounded(x) = q
      BY <1>3, <1>1 DEF Rounded, q
    <2>. QED BY <2>4, <2>5, <2>2, <1>1 DEF Reaches
  <1>. QED BY <1>1, <1>2, <1>3

LEMMA HigherReaches ==
    ASSUME NEW x \in Int, NEW y \in Int, NEW v \in Int, x <= y, Reaches(x, v)
    PROVE  Reaches(y, v)
  <1>. DEFINE b == (2 * v - 1) * RatioUnit
  <1>1. b \in Int /\ 2 * x >= b
    BY RatioAssumption DEF Reaches
  <1>. HIDE DEF b
  <1>2. 2 * y >= b
    BY <1>1
  <1>. QED BY <1>2 DEF Reaches, b

LEMMA LowerReached ==
    ASSUME NEW x \in Int, NEW v \in Int, NEW w \in Int, w <= v, Reaches(x, v)
    PROVE  Reaches(x, w)
  <1>1. RatioUnit \in Nat
    BY RatioAssumption
  <1>2. (2 * v - 1) * RatioUnit = (2 * w - 1) * RatioUnit + (2 * (v - w)) * RatioUnit
    BY <1>1, Z3
  <1>3. (2 * (v - w)) * RatioUnit >= 0
    BY <1>1, Z3
  <1>. DEFINE a == (2 * v - 1) * RatioUnit
              b == (2 * w - 1) * RatioUnit
              c == (2 * (v - w)) * RatioUnit
  <1>4. a \in Int /\ b \in Int /\ c \in Int /\ a = b + c /\ c >= 0 /\ 2 * x >= a
    BY <1>1, <1>2, <1>3 DEF Reaches
  <1>. HIDE DEF a, b, c
  <1>5. 2 * x >= b
    BY <1>4
  <1>. QED BY <1>5 DEF Reaches, b

-----------------------------------------------------------------------------
(* What is on record is true, whatever fails.                              *)

Had(r, v) == loaded[r] >= 0 /\ Reaches(peak[r], v)

LogTrue(log) == \A r \in DOMAIN log : Had(r, log[r])

RemovalsTrue(removals) == \A r \in DOMAIN removals : Had(r, removals[r].ratio)

(* A ratio goes by way of what get_torrents answered into the log, or into *)
(* the records of a pass, from there into a file, and from the file into   *)
(* the next run.                                                           *)
TruthInv ==
    /\ peak \in [Release -> Ratio]
    /\ \A r \in held : loaded[r] >= 0 /\ ratio[r] <= peak[r]
    /\ \A r \in todo \cup removing : loaded[r] >= 0 /\ seen[r] <= peak[r]
    /\ LogTrue(ratioLog) /\ LogTrue(live)
    /\ RemovalsTrue(removedHistory) /\ RemovalsTrue(gone) /\ RemovalsTrue(ledger)

LEMMA TruthInit == Init => TruthInv
  <1>1. -1 \in Ratio
    BY RatioAssumption DEF Ratio
  <1>. QED
    BY <1>1
    DEF Init, SeederInit, FetchingInit, Cleaning!CleanupInit, Cleaning!Empty, Empty,
        TruthInv, LogTrue, RemovalsTrue

(* The highest ratio a release has had only rises, and covers the ratios   *)
(* of the torrents held.                                                   *)
LEMMA PeakRises ==
    ASSUME TypeOK, TypeOK', peak \in [Release -> Ratio], Witness \/ UNCHANGED vars
    PROVE  /\ peak' \in [Release -> Ratio]
           /\ \A r \in Release : peak[r] <= peak'[r]
           /\ Witness => \A r \in held' : ratio'[r] <= peak'[r]
  <1>1. /\ ratio' \in [Release -> Ratio] /\ held' \subseteq Release
        /\ \A x \in Ratio : x \in Int
    BY DEF TypeOK, SeederTypeOK, Ratio
  <1>2. CASE Witness
    <2>1. peak' = [r \in Release |->
                     IF r \in held' /\ ratio'[r] > peak[r] THEN ratio'[r] ELSE peak[r]]
      BY <1>2 DEF Witness
    <2>2. \A r \in Release : peak[r] \in Int /\ ratio'[r] \in Int
      BY <1>1
    <2>3. \A r \in Release : peak[r] <= peak'[r]
      BY <2>1, <2>2
    <2>4. \A r \in held' : ratio'[r] <= peak'[r]
      BY <1>1, <2>1, <2>2
    <2>. QED BY <1>1, <2>1, <2>3, <2>4
  <1>3. CASE UNCHANGED vars
    <2>1. peak' = peak /\ held' = held /\ UNCHANGED ratio
      BY <1>3 DEF vars, auxVars, seederVars, daemonVars
    <2>2. \A r \in Release : peak[r] \in Int
      BY <1>1
    <2>. QED BY <2>1, <2>2, <1>2
  <1>. QED BY <1>2, <1>3

(* Only loading touches the day of the last load.                          *)
LEMMA WhoLoads ==
    ASSUME [Next]_vars
    PROVE  \/ UNCHANGED loaded /\ held' \subseteq held
           \/ \E r \in Release : Load(r)
  <1>. USE DEF clockVars, daemonVars, fileVars, seederVars
  <1>1. CASE Fetch
    BY <1>1
    DEF Fetch, FetchingStep, StartRun, ReadSite, LeaveRelease, Download, PassOver,
        CheckedNoDemand, CheckedInDemand, AddingFails, EvaluationRaises, EndFetch,
        BeginOldCheck, AbandonOldCheck, EndOldCheck, LogRatios, StopLogging,
        StopFetching
  <1>2. CASE Clean
    BY <1>2
    DEF Clean, Cleaning!CleanupStep, Cleaning!BeginKeepOnlyLatest,
        Cleaning!BeginStagnation, Cleaning!CleanupUnavailable, Cleaning!RemoveTorrent,
        Cleaning!RemoveTorrentFails, Cleaning!RemoveWatchFile, Cleaning!FinishLoop,
        Cleaning!SaveRemovedHistory, Cleaning!SaveRatioHistory, Cleaning!SaveFails,
        Cleaning!DiskBelowLimit, Cleaning!BeginDiskPressure, Cleaning!DiskUnavailable,
        Cleaning!EndRun, Cleaning!Removed, Cleaning!daemonVars
  <1>3. CASE StopRun
    BY <1>3 DEF StopRun, Cleaning!Stop, Cleaning!daemonVars
  <1>4. CASE Surrounding \/ Upstream \/ UNCHANGED vars
    BY <1>4 DEF Surrounding, Environment, Tick, OtherUse, Grow, Upstream, Publish, vars
  <1>. QED BY <1>1, <1>2, <1>3, <1>4 DEF Next

HadNext(r, v) == loaded'[r] >= 0 /\ Reaches(peak'[r], v)

(* What the next state has from this one is true in it.                    *)
LEMMA TruthCarried ==
    ASSUME TypeOK, TypeOK', TruthInv, [Next]_vars
    PROVE  /\ peak' \in [Release -> Ratio]
           /\ \A r \in Release : peak[r] <= peak'[r]
           /\ \A r \in held' : loaded'[r] >= 0 /\ ratio'[r] <= peak'[r]
           /\ \A r \in Release, v \in Ratio : Had(r, v) => HadNext(r, v)
           /\ \A r \in todo \cup removing : loaded'[r] >= 0 /\ seen[r] <= peak'[r]
  <1>1. Witness \/ UNCHANGED vars
    BY DEF Next, Fetch, Clean, StopRun, Surrounding, Upstream
  <1>2. /\ peak \in [Release -> Ratio]
        /\ \A r \in held : loaded[r] >= 0 /\ ratio[r] <= peak[r]
        /\ \A r \in todo \cup removing : loaded[r] >= 0 /\ seen[r] <= peak[r]
    BY DEF TruthInv
  <1>3. /\ peak' \in [Release -> Ratio]
        /\ \A r \in Release : peak[r] <= peak'[r]
        /\ Witness => \A r \in held' : ratio'[r] <= peak'[r]
    BY <1>1, <1>2, PeakRises
  <1>4. /\ today \in Nat /\ loaded \in [Release -> Day \cup {-1}] /\ held \subseteq Release
        /\ todo \cup removing \subseteq Release /\ seen \in [Release -> Ratio]
    BY SameTypes DEF TypeOK, SeederTypeOK, Day, Cleaning!CleanupTypeOK
  <1>5. /\ \A r \in Release : loaded[r] >= 0 => loaded'[r] >= 0
        /\ \A r \in held' : loaded'[r] >= 0
    <2>1. CASE UNCHANGED loaded /\ held' \subseteq held
      BY <1>2, <2>1
    <2>2. CASE \E r \in Release : Load(r)
      <3>1. PICK q \in Release : Load(q)
        BY <2>2
      <3>2. loaded' = [loaded EXCEPT ![q] = today] /\ held' = held \cup {q}
        BY <3>1 DEF Load
      <3>3. \A r \in Release : loaded'[r] = IF r = q THEN today ELSE loaded[r]
        BY <1>4, <3>2
      <3>. QED BY <1>2, <1>4, <3>2, <3>3
    <2>. QED BY <2>1, <2>2, WhoLoads
  <1>6. \A r \in held' : ratio'[r] <= peak'[r]
    <2>1. CASE UNCHANGED vars
      BY <1>2, <2>1 DEF vars, auxVars, seederVars, daemonVars
    <2>. QED BY <1>1, <1>3, <2>1
  <1>7. \A r \in Release, v \in Ratio : Had(r, v) => HadNext(r, v)
    <2>1. SUFFICES ASSUME NEW r \in Release, NEW v \in Ratio, Had(r, v)
                   PROVE  HadNext(r, v)
      OBVIOUS
    <2>2. peak[r] \in Int /\ peak'[r] \in Int /\ v \in Int
      BY <1>2, <1>3 DEF Ratio
    <2>. QED BY <1>3, <1>5, <2>1, <2>2, HigherReaches DEF Had, HadNext
  <1>8. \A r \in todo \cup removing : loaded'[r] >= 0 /\ seen[r] <= peak'[r]
    <2>1. \A r \in todo \cup removing :
             /\ loaded[r] >= 0 /\ seen[r] <= peak[r]
             /\ seen[r] \in Int /\ peak[r] \in Int /\ peak'[r] \in Int
             /\ peak[r] <= peak'[r]
      BY <1>2, <1>3, <1>4 DEF Ratio
    <2>. QED BY <1>4, <1>5, <2>1
  <1>. QED BY <1>3, <1>5, <1>6, <1>7, <1>8

(* The steps, by where the records of the next state come from.            *)
LEMMA TruthFrom ==
    ASSUME TypeOK, TypeOK', TruthInv, [Next]_vars,
           ratioLog' = ratioLog \/ \E S \in SUBSET held : ratioLog' = Parsed(S),
           live' \in {live, ratioLog, Empty},
           gone' \in {gone, removedHistory, Empty},
           removedHistory' \in {removedHistory, ledger},
           \/ ledger' \in {ledger, removedHistory, Empty}
           \/ \E r \in removing : \E day \in Day :
                 ledger' = Put(ledger, r, [date |-> day, ratio |-> Rounded(seen[r])]),
           \/ todo' \cup removing' \subseteq todo \cup removing /\ seen' = seen
           \/ todo' \cup removing' = {}
           \/ todo' \cup removing' \subseteq held /\ seen' = ratio /\ UNCHANGED held
                /\ UNCHANGED ratio,
           UNCHANGED ratio \/ ratioLog' = ratioLog
    PROVE  TruthInv'
  <1>1. /\ peak' \in [Release -> Ratio]
        /\ \A r \in Release : peak[r] <= peak'[r]
        /\ \A r \in held' : loaded'[r] >= 0 /\ ratio'[r] <= peak'[r]
        /\ \A r \in Release, v \in Ratio : Had(r, v) => HadNext(r, v)
        /\ \A r \in todo \cup removing : loaded'[r] >= 0 /\ seen[r] <= peak'[r]
    BY TruthCarried
  <1>2. /\ IsDict(ratioLog, Ratio) /\ IsDict(live, Ratio)
        /\ IsDict(gone, Removal) /\ IsDict(removedHistory, Removal)
        /\ IsDict(ledger, Removal)
        /\ held \subseteq Release /\ ratio \in [Release -> Ratio]
        /\ seen \in [Release -> Ratio] /\ todo \cup removing \subseteq Release
    BY SameTypes DEF TypeOK, SeederTypeOK, FetchingTypeOK, Cleaning!CleanupTypeOK
  <1>3. \A d : IsDict(d, Ratio) /\ LogTrue(d) => \A r \in DOMAIN d : HadNext(r, d[r])
    BY <1>1 DEF IsDict, LogTrue
  <1>4. \A d : IsDict(d, Removal) /\ RemovalsTrue(d)
                 => \A r \in DOMAIN d : HadNext(r, d[r].ratio)
    BY <1>1 DEF IsDict, RemovalsTrue, Removal
  <1>5. /\ LogTrue(ratioLog) /\ LogTrue(live)
        /\ RemovalsTrue(removedHistory) /\ RemovalsTrue(gone) /\ RemovalsTrue(ledger)
        /\ peak \in [Release -> Ratio]
        /\ \A r \in held : loaded[r] >= 0 /\ ratio[r] <= peak[r]
    BY DEF TruthInv
  <1>6. DOMAIN Empty = {}
    BY DEF Empty
  (* A ratio no higher than the peak, rounded.                             *)
  <1>7. ASSUME NEW r \in Release, NEW x \in Ratio, loaded'[r] >= 0, x <= peak'[r]
        PROVE  HadNext(r, Rounded(x))
    <2>1. x \in Int /\ peak'[r] \in Int /\ Rounded(x) \in Int /\ Reaches(x, Rounded(x))
      BY <1>1, <1>7, RoundedReached, RoundedRatio DEF Ratio
    <2>. QED BY <1>7, <2>1, HigherReaches DEF HadNext
  <1>8. \A r \in DOMAIN ratioLog' : HadNext(r, ratioLog'[r])
    <2>1. CASE ratioLog' = ratioLog
      BY <1>2, <1>3, <1>5, <2>1
    <2>2. CASE (\E S \in SUBSET held : ratioLog' = Parsed(S)) /\ ratioLog' # ratioLog
      <3>1. PICK S \in SUBSET held : ratioLog' = Parsed(S)
        BY <2>2
      <3>2. \A r \in DOMAIN ratioLog' : r \in held /\ ratioLog'[r] = Rounded(ratio[r])
        BY <3>1 DEF Parsed
      <3>3. \A r \in held : loaded'[r] >= 0 /\ ratio[r] <= peak'[r]
        <4>1. \A r \in held : ratio[r] \in Int /\ peak[r] \in Int /\ peak'[r] \in Int
          BY <1>1, <1>2, <1>5 DEF Ratio
        <4>2. \A r \in held : \A v \in Ratio : Had(r, v) => HadNext(r, v)
          BY <1>1, <1>2
        <4>3. \A r \in held : Had(r, Rounded(ratio[r])) /\ Rounded(ratio[r]) \in Ratio
          <5>1. \A r \in held : Reaches(ratio[r], Rounded(ratio[r]))
                                /\ Rounded(ratio[r]) \in Ratio
                                /\ Rounded(ratio[r]) \in Int
            BY <1>2, RoundedReached, RoundedRatio DEF Ratio
          <5>. QED BY <1>5, <4>1, <5>1, HigherReaches DEF Had
        <4>. QED BY <1>1, <1>2, <1>5, <4>1, <4>2, <4>3 DEF HadNext
      <3>. QED BY <1>2, <1>7, <3>2, <3>3
    <2>. QED BY <2>1, <2>2
  <1>9. \A r \in DOMAIN live' : HadNext(r, live'[r])
    BY <1>2, <1>3, <1>5, <1>6
  <1>10. \A r \in DOMAIN gone' : HadNext(r, gone'[r].ratio)
    BY <1>2, <1>4, <1>5, <1>6
  <1>11. \A r \in DOMAIN removedHistory' : HadNext(r, removedHistory'[r].ratio)
    BY <1>2, <1>4, <1>5
  <1>12. \A r \in DOMAIN ledger' : HadNext(r, ledger'[r].ratio)
    <2>1. CASE ledger' \in {ledger, removedHistory, Empty}
      BY <1>2, <1>4, <1>5, <1>6, <2>1
    <2>2. CASE \E r \in removing : \E day \in Day :
                 ledger' = Put(ledger, r, [date |-> day, ratio |-> Rounded(seen[r])])
      <3>1. PICK q \in removing, day \in Day :
                 ledger' = Put(ledger, q, [date |-> day, ratio |-> Rounded(seen[q])])
        BY <2>2
      <3>2. HadNext(q, Rounded(seen[q]))
        BY <1>1, <1>2, <1>7
      <3>3. \A r \in DOMAIN ledger' :
               \/ r = q /\ ledger'[r].ratio = Rounded(seen[q])
               \/ r \in DOMAIN ledger /\ ledger'[r] = ledger[r]
        <4>. DEFINE record == [date |-> day, ratio |-> Rounded(seen[q])]
        <4>1. record.ratio = Rounded(seen[q]) /\ ledger' = Put(ledger, q, record)
          BY <3>1
        <4>. HIDE DEF record
        <4>. QED BY <4>1 DEF Put
      <3>. QED BY <1>2, <1>4, <1>5, <3>2, <3>3
    <2>. QED BY <2>1, <2>2
  <1>13. \A r \in todo' \cup removing' : loaded'[r] >= 0 /\ seen'[r] <= peak'[r]
    BY <1>1
  <1>. QED
    BY <1>1, <1>8, <1>9, <1>10, <1>11, <1>12, <1>13
    DEF TruthInv, LogTrue, RemovalsTrue, Had, HadNext, Reaches

LEMMA TruthStep ==
    ASSUME TypeOK, TypeOK', TruthInv, FilesThere, [Next]_vars
    PROVE  TruthInv'
  <1>. USE DEF clockVars, daemonVars, fileVars, seederVars, Cleaning!clockVars,
              Cleaning!daemonVars, Cleaning!fileVars
  <1>0. todo \subseteq Release /\ removing \subseteq Release
    BY DEF TypeOK, Cleaning!CleanupTypeOK
  <1>1. CASE Fetch
    <2>1. /\ UNCHANGED <<held, ratio, removedHistory, passVars>>
          /\ live' \in {live, ratioLog, Empty}
          /\ gone' \in {gone, removedHistory, Empty}
          /\ ratioLog' = ratioLog \/ \E S \in SUBSET held : ratioLog' = Parsed(S)
      BY <1>1
      DEF Fetch, FetchingStep, StartRun, ReadSite, LeaveRelease, Download, PassOver,
          CheckedNoDemand, CheckedInDemand, AddingFails, EvaluationRaises, EndFetch,
          BeginOldCheck, AbandonOldCheck, EndOldCheck, LogRatios, StopLogging,
          StopFetching, ForgetFetching, ReadBack
    <2>. QED BY <2>1, TruthFrom DEF passVars
  <1>2. CASE Clean
    <2>1. UNCHANGED <<ratioLog, live, gone>> /\ Cleaning!CleanupStep
      BY <1>2 DEF Clean, fetchVars
    <2>2. CASE \/ Cleaning!BeginKeepOnlyLatest \/ Cleaning!BeginStagnation
               \/ Cleaning!BeginDiskPressure
      <3>1. /\ UNCHANGED <<held, ratio, removedHistory, removing>>
            /\ ledger' \in {removedHistory, Empty}
            /\ seen' = ratio /\ todo' \subseteq held
            /\ pc # "unlink"
        BY <2>2, SameTypes DEF Cleaning!ReadBack, Cleaning!BeginKeepOnlyLatest, Cleaning!BeginStagnation,
           Cleaning!BeginDiskPressure, Cleaning!Superseded
      <3>2. removing = {}
        BY <3>1 DEF FilesThere
      <3>. QED BY <2>1, <3>1, <3>2, TruthFrom
    <2>3. CASE \/ Cleaning!CleanupUnavailable \/ Cleaning!FinishLoop
               \/ Cleaning!DiskBelowLimit \/ Cleaning!DiskUnavailable \/ Cleaning!EndRun
      <3>1. UNCHANGED <<held, ratio, removedHistory, todo, removing, seen, ledger>>
        BY <2>3 DEF Cleaning!CleanupUnavailable, Cleaning!FinishLoop,
           Cleaning!DiskBelowLimit, Cleaning!DiskUnavailable, Cleaning!EndRun,
           Cleaning!passVars
      <3>. QED BY <2>1, <3>1, TruthFrom
    <2>4. CASE \/ Cleaning!SaveRemovedHistory \/ Cleaning!SaveRatioHistory
               \/ Cleaning!SaveFails
      <3>1. /\ UNCHANGED <<held, ratio>>
            /\ removedHistory' \in {removedHistory, ledger}
            /\ ledger' \in {ledger, Empty}
            /\ \/ UNCHANGED <<todo, removing, seen>>
               \/ todo' \cup removing' = {}
        BY <2>4, SameTypes DEF Cleaning!SaveRemovedHistory, Cleaning!SaveRatioHistory,
           Cleaning!SaveFails, Cleaning!Abandon, Cleaning!Forget, Cleaning!passVars
      <3>. QED BY <2>1, <3>1, TruthFrom
    <2>5. ASSUME NEW r \in Release, Cleaning!RemoveTorrent(r) PROVE TruthInv'
      <3>1. /\ UNCHANGED <<removedHistory, todo, seen, ledger>>
            /\ removing' = {r} /\ r \in todo
        BY <2>5 DEF Cleaning!RemoveTorrent, Cleaning!IsNext
      <3>. QED BY <2>1, <3>1, TruthFrom
    <2>6. ASSUME NEW r \in Release, Cleaning!RemoveTorrentFails(r) PROVE TruthInv'
      <3>1. /\ UNCHANGED removedHistory /\ ledger' = Empty
            /\ todo' \cup removing' = {}
        BY <2>6, SameTypes DEF Cleaning!RemoveTorrentFails, Cleaning!Abandon,
           Cleaning!Forget
      <3>. QED BY <2>1, <3>1, TruthFrom
    <2>7. ASSUME NEW r \in Release, Cleaning!RemoveWatchFile(r) PROVE TruthInv'
      <3>1. /\ UNCHANGED <<removedHistory, seen, held, ratio>>
            /\ r \in removing /\ removing' = {} /\ todo' \subseteq todo
            /\ ledger' = Put(ledger, r, [date |-> today, ratio |-> Rounded(seen[r])])
        BY <2>7, SameTypes DEF Cleaning!RemoveWatchFile
      <3>2. today \in Day
        BY DEF TypeOK, SeederTypeOK
      <3>. QED BY <2>1, <3>1, <3>2, TruthFrom
    <2>. QED BY <2>1, <2>2, <2>3, <2>4, <2>5, <2>6, <2>7 DEF Cleaning!CleanupStep
  <1>3. CASE StopRun
    <2>1. /\ UNCHANGED <<ratioLog, live, gone, removedHistory, ratio>>
          /\ ledger' = Empty /\ todo' \cup removing' = {}
      BY <1>3, SameTypes DEF StopRun, Cleaning!Stop, Cleaning!Forget, fetchVars
    <2>. QED BY <2>1, TruthFrom
  <1>4. CASE Surrounding
    <2>1. UNCHANGED <<ratioLog, live, gone, removedHistory, todo, removing, seen, ledger>>
      BY <1>4 DEF Surrounding, Environment, Tick, OtherUse, Load, Grow, fetchVars, passVars
    <2>. QED BY <2>1, TruthFrom
  <1>5. CASE Upstream \/ UNCHANGED vars
    <2>1. UNCHANGED <<ratioLog, live, gone, removedHistory, todo, removing, seen, ledger,
                      held, ratio>>
      BY <1>5 DEF Upstream, Publish, vars, fetchVars, passVars
    <2>. QED BY <2>1, TruthFrom
  <1>. QED BY <1>1, <1>2, <1>3, <1>4, <1>5 DEF Next

LEMMA AlwaysTrue == Spec => [](TypeOK /\ FilesThere /\ TruthInv)
  <1>1. TypeOK /\ FilesThere /\ TruthInv /\ [Next]_vars => TruthInv'
    BY DailyTypeStep, TruthStep
  <1>. QED BY <1>1, TruthInit, FilesAlwaysThere, PTL DEF Spec

(* Whatever fails and wherever the run is stopped, neither the ratio log   *)
(* nor the removed history says more of a release than some copy of it had *)
(* reached: what opens the gate was earned.                                *)
THEOREM RecordsAlwaysTruthful == Spec => []RecordsTruthful
  <1>1. TruthInv => RecordsTruthful
    BY DEF TruthInv, LogTrue, RemovalsTrue, Had, RecordsTruthful
  <1>. QED BY <1>1, AlwaysTrue, PTL

-----------------------------------------------------------------------------
(* While only sites and trackers fail, what a log has once had a ratio of  *)
(* stays on record: in the next log as long as the torrent is held, in the *)
(* removed history from then on.                                           *)

SavedOrPending == {"remove", "unlink", "saveRemoved"}

Records == IF pc \in SavedOrPending THEN ledger ELSE removedHistory

(* The log of the next run has what is held with a ratio; everything else  *)
(* that was ever in one has to be in the removed history by then.          *)
RecordInv ==
    /\ DOMAIN ratioLog \subseteq witnessed
    /\ \A r \in witnessed :
          \/ r \in held /\ ratio[r] >= 0
          \/ r \in removing
          \/ r \in DOMAIN Records
    /\ pc \in SavedOrPending => DOMAIN removedHistory \subseteq DOMAIN ledger
    /\ witnessed \subseteq DOMAIN ratioLog \cup DOMAIN removedHistory
    /\ pc = "fetch" => witnessed \subseteq DOMAIN live \cup DOMAIN gone

LEMMA RecordInit == Init => RecordInv
  BY DEF Init, SeederInit, FetchingInit, Empty, RecordInv, SavedOrPending

LEMMA NothingWitnessed ==
    ASSUME RecordInv, [Next]_vars, UNCHANGED ratioLog
    PROVE  UNCHANGED witnessed
  <1>1. CASE Witness
    BY <1>1 DEF Witness, RecordInv
  <1>2. CASE UNCHANGED vars
    BY <1>2 DEF vars, auxVars
  <1>. QED BY <1>1, <1>2 DEF Next, Fetch, Clean, StopRun, Surrounding, Upstream

LEMMA RecordFetching ==
    ASSUME TypeOK, FilesThere, RecordInv, Faults \subseteq {"web", "tracker"}, Fetch
    PROVE  RecordInv'
  <1>. USE DEF clockVars, daemonVars, fileVars, seederVars, passVars, SavedOrPending
  <1>1. UNCHANGED <<held, ratio, removedHistory, passVars>> /\ [Next]_vars
    BY DEF Fetch, FetchingStep, StartRun, ReadSite, LeaveRelease, Download, PassOver,
           CheckedNoDemand, CheckedInDemand, AddingFails, EvaluationRaises, EndFetch,
           BeginOldCheck, AbandonOldCheck, EndOldCheck, LogRatios, StopLogging,
           StopFetching, Next
  <1>2. CASE StartRun
    <2>1. /\ UNCHANGED ratioLog /\ live' = ratioLog /\ gone' = removedHistory
          /\ pc = "idle" /\ pc' = "fetch"
      BY <1>2 DEF StartRun, ReadBack, ReadFails
    <2>2. UNCHANGED witnessed
      BY <1>1, <2>1, NothingWitnessed
    <2>. QED BY <1>1, <2>1, <2>2 DEF RecordInv, Records
  <1>3. CASE \/ \E t \in IsoTypes : ReadSite(t)
             \/ \E r \in Release :
                   \/ LeaveRelease(r) \/ Download(r) \/ PassOver(r)
                   \/ CheckedNoDemand(r) \/ CheckedInDemand(r) \/ AddingFails(r)
    <2>1. UNCHANGED <<ratioLog, live, gone, pc>>
      BY <1>3 DEF ReadSite, LeaveRelease, Download, PassOver, CheckedNoDemand,
         CheckedInDemand, AddingFails
    <2>2. UNCHANGED witnessed
      BY <1>1, <2>1, NothingWitnessed
    <2>. QED BY <1>1, <2>1, <2>2 DEF RecordInv, Records
  <1>4. CASE \/ EndFetch \/ BeginOldCheck \/ AbandonOldCheck \/ EndOldCheck
             \/ \E r \in Release : EvaluationRaises(r)
    <2>1. /\ UNCHANGED ratioLog
          /\ pc \in {"fetch", "old", "oldLoop", "raised"}
          /\ pc' \in {"old", "oldLoop", "raised", "log"}
      BY <1>4 DEF EndFetch, BeginOldCheck, AbandonOldCheck, EndOldCheck, EvaluationRaises
    <2>2. UNCHANGED witnessed
      BY <1>1, <2>1, NothingWitnessed
    <2>. QED BY <1>1, <2>1, <2>2 DEF RecordInv, Records
  <1>5. CASE LogRatios
    <2>1. ratioLog' = Parsed(held) /\ pc = "log" /\ pc' = "cleanup"
      BY <1>5 DEF LogRatios
    <2>2. DOMAIN ratioLog' = {q \in held : ratio[q] >= 0}
      BY <2>1 DEF Parsed
    <2>3. witnessed' = witnessed \cup DOMAIN ratioLog'
      BY DEF Fetch, Witness
    <2>4. removing = {}
      BY <2>1 DEF FilesThere
    <2>. QED BY <1>1, <2>1, <2>2, <2>3, <2>4 DEF RecordInv, Records
  <1>6. CASE StopLogging \/ StopFetching
    BY <1>6 DEF StopLogging, StopFetching
  <1>. QED
    BY <1>2, <1>3, <1>4, <1>5, <1>6 DEF Fetch, FetchingStep

LEMMA RecordCleaning ==
    ASSUME TypeOK, FilesThere, RecordInv, Faults \subseteq {"web", "tracker"}, Clean
    PROVE  RecordInv'
  <1>. USE DEF Cleaning!clockVars, Cleaning!daemonVars, Cleaning!fileVars, SavedOrPending
  <1>1. UNCHANGED <<ratioLog, live, gone>> /\ Cleaning!CleanupStep
    BY DEF Clean, fetchVars
  <1>2. UNCHANGED witnessed
    BY <1>1, NothingWitnessed DEF Next
  <1>. USE DEF RecordInv, Records
  <1>3. CASE \/ Cleaning!BeginKeepOnlyLatest \/ Cleaning!BeginStagnation
             \/ Cleaning!BeginDiskPressure
    <2>1. \A d : Cleaning!ReadBack(d, Cleaning!ReadFails) = {d}
      BY DEF Cleaning!ReadBack, Cleaning!ReadFails
    <2>. QED BY <1>1, <1>2, <1>3, <2>1 DEF Cleaning!BeginKeepOnlyLatest,
                Cleaning!BeginStagnation, Cleaning!BeginDiskPressure
  <1>4. CASE Cleaning!FinishLoop \/ Cleaning!DiskBelowLimit \/ Cleaning!EndRun
    BY <1>1, <1>2, <1>4 DEF Cleaning!FinishLoop, Cleaning!DiskBelowLimit,
       Cleaning!EndRun, Cleaning!passVars
  <1>5. CASE Cleaning!SaveRemovedHistory
    <2>1. /\ pc = "saveRemoved" /\ pc' \in {"saveHistory", "disk", "done"}
          /\ removedHistory' = ledger /\ UNCHANGED <<held, ratio>>
      BY <1>5 DEF Cleaning!SaveRemovedHistory, Cleaning!Abandon, Cleaning!AfterPass
    <2>2. removing = {}
      BY <2>1 DEF FilesThere
    <2>. QED BY <1>1, <1>2, <2>1, <2>2
  <1>6. CASE Cleaning!SaveRatioHistory
    <2>1. /\ pc = "saveHistory" /\ pc' \in {"disk", "done"}
          /\ UNCHANGED <<held, ratio, removedHistory>>
      BY <1>6 DEF Cleaning!SaveRatioHistory, Cleaning!Abandon, Cleaning!AfterPass
    <2>2. removing = {}
      BY <2>1 DEF FilesThere
    <2>. QED BY <1>1, <1>2, <2>1, <2>2
  <1>7. CASE \/ Cleaning!CleanupUnavailable \/ Cleaning!SaveFails
             \/ Cleaning!DiskUnavailable
             \/ \E r \in Release : Cleaning!RemoveTorrentFails(r)
    BY <1>7 DEF Cleaning!CleanupUnavailable, Cleaning!SaveFails,
       Cleaning!DiskUnavailable, Cleaning!RemoveTorrentFails
  <1>8. ASSUME NEW r \in Release, Cleaning!RemoveTorrent(r) PROVE RecordInv'
    <2>1. /\ pc = "remove" /\ pc' = "unlink" /\ removing' = {r}
          /\ held' = held \ {r} /\ UNCHANGED <<removedHistory, ledger>>
          /\ ratio' = [ratio EXCEPT ![r] = 0]
      BY <1>8 DEF Cleaning!RemoveTorrent, Cleaning!Removed
    <2>2. removing = {}
      BY <2>1 DEF FilesThere
    <2>3. \A q \in held' : ratio'[q] = ratio[q]
      BY <2>1 DEF TypeOK, SeederTypeOK
    <2>. QED BY <1>1, <1>2, <2>1, <2>2, <2>3
  <1>9. ASSUME NEW r \in Release, Cleaning!RemoveWatchFile(r) PROVE RecordInv'
    <2>1. /\ pc = "unlink" /\ pc' = "remove" /\ r \in removing /\ removing' = {}
          /\ UNCHANGED <<held, ratio, removedHistory>>
      BY <1>9 DEF Cleaning!RemoveWatchFile
    <2>2. removing = {r}
      BY <2>1 DEF FilesThere
    <2>3. DOMAIN ledger' = DOMAIN ledger \cup {r}
      BY <1>9, SameTypes DEF Cleaning!RemoveWatchFile, Put
    <2>. QED BY <1>1, <1>2, <2>1, <2>2, <2>3
  <1>. QED
    BY <1>1, <1>3, <1>4, <1>5, <1>6, <1>7, <1>8, <1>9 DEF Cleaning!CleanupStep

LEMMA RecordStep ==
    ASSUME TypeOK, FilesThere, RecordInv, Faults \subseteq {"web", "tracker"}, [Next]_vars
    PROVE  RecordInv'
  <1>. USE DEF clockVars, daemonVars, fileVars, seederVars, passVars, fetchVars
  <1>1. CASE StopRun
    BY <1>1 DEF StopRun, Cleaning!Stop
  <1>2. CASE Surrounding
    <2>1. /\ UNCHANGED <<ratioLog, live, gone, removedHistory, ledger, removing>>
          /\ Environment
      BY <1>2 DEF Surrounding, Environment, Tick, OtherUse, Load, Grow
    <2>2. UNCHANGED witnessed
      BY <2>1, NothingWitnessed
    <2>3. CASE Tick \/ OtherUse
      BY <2>1, <2>2, <2>3 DEF Tick, OtherUse, RecordInv, Records
    <2>4. ASSUME NEW r \in Release, Load(r) PROVE RecordInv'
      <3>1. /\ r \notin held /\ r \notin removing
            /\ held' = held \cup {r} /\ UNCHANGED pc
        BY <2>4 DEF Load, FilesThere
      <3>2. \A q \in held : ratio'[q] = ratio[q]
        BY <2>4, <3>1 DEF Load, TypeOK, SeederTypeOK
      <3>. QED BY <2>1, <2>2, <3>1, <3>2 DEF RecordInv, Records
    <2>5. ASSUME NEW r \in Release, Grow(r) PROVE RecordInv'
      <3>1. /\ UNCHANGED <<held, pc>>
            /\ ratio' = [ratio EXCEPT ![r] = @ + 1]
        BY <2>5 DEF Grow
      <3>2. \A q \in held : ratio[q] \in Int /\ ratio'[q] >= ratio[q] /\ ratio'[q] \in Int
        BY <3>1 DEF TypeOK, SeederTypeOK, Ratio
      <3>3. \A q \in held : ratio[q] >= 0 => ratio'[q] >= 0
        BY <3>2
      <3>. QED BY <2>1, <2>2, <3>1, <3>3 DEF RecordInv, Records
    <2>. QED BY <2>1, <2>3, <2>4, <2>5 DEF Environment
  <1>3. CASE Upstream \/ UNCHANGED vars
    <2>1. UNCHANGED <<ratioLog, live, gone, removedHistory, ledger, removing, held, ratio, pc>>
      BY <1>3 DEF Upstream, Publish, vars
    <2>2. UNCHANGED witnessed
      BY <2>1, NothingWitnessed
    <2>. QED BY <2>1, <2>2 DEF RecordInv, Records
  <1>. QED BY <1>1, <1>2, <1>3, RecordFetching, RecordCleaning DEF Next

-----------------------------------------------------------------------------
(* Only a download writes a file while releases are fetched.               *)
LEMMA WhoDownloads ==
    ASSUME TypeOK, [Next]_vars, pc = "fetch",
           NEW r \in Release, watch'[r] # watch[r], queue' # queue
    PROVE  Download(r)
  <1>. USE DEF clockVars, daemonVars, fileVars, seederVars
  <1>1. \E q \in Release : Download(q)
    <2>1. CASE Fetch
      BY <2>1
      DEF Fetch, FetchingStep, StartRun, ReadSite, LeaveRelease, PassOver,
          CheckedNoDemand, CheckedInDemand, AddingFails, EvaluationRaises, EndFetch,
          BeginOldCheck, AbandonOldCheck, EndOldCheck, LogRatios, StopLogging,
          StopFetching
    <2>2. CASE Clean \/ StopRun \/ Surrounding
      BY <2>2 DEF Clean, StopRun, Surrounding, fetchVars
    <2>3. CASE Upstream \/ UNCHANGED vars
      BY <2>3 DEF Upstream, Publish, vars, fetchVars
    <2>. QED BY <2>1, <2>2, <2>3 DEF Next
  <1>2. PICK q \in Release : Download(q)
    BY <1>1
  <1>3. r = q
    BY <1>2 DEF Download, TypeOK, SeederTypeOK
  <1>. QED BY <1>2, <1>3

(* Nobody writes the ratio log or the removed history while releases are   *)
(* fetched: what the run has read of them, if it could, is what they say.  *)

AsRead == pc = "fetch" => live = ratioLog /\ gone = removedHistory

LEMMA AsReadInit == Init => AsRead
  BY DEF Init, SeederInit, AsRead

LEMMA AsReadStep ==
    ASSUME TypeOK, AsRead, [Next]_vars, "read" \notin Faults
    PROVE  AsRead'
  <1>. USE DEF clockVars, daemonVars, fileVars, seederVars
  <1>1. CASE Fetch
    BY <1>1
    DEF Fetch, FetchingStep, StartRun, ReadSite, LeaveRelease, Download, PassOver,
        CheckedNoDemand, CheckedInDemand, AddingFails, EvaluationRaises, EndFetch,
        BeginOldCheck, AbandonOldCheck, EndOldCheck, LogRatios, StopLogging,
        StopFetching, AsRead, ReadBack, ReadFails
  <1>2. CASE Clean
    <2>1. pc' # "fetch"
      <3>1. pc # "fetch" /\ Cleaning!CleanupStep
        BY <1>2
        DEF Clean, Cleaning!CleanupStep, Cleaning!BeginKeepOnlyLatest,
            Cleaning!BeginStagnation, Cleaning!CleanupUnavailable,
            Cleaning!RemoveTorrent, Cleaning!RemoveTorrentFails,
            Cleaning!RemoveWatchFile, Cleaning!FinishLoop,
            Cleaning!SaveRemovedHistory, Cleaning!SaveRatioHistory,
            Cleaning!SaveFails, Cleaning!DiskBelowLimit, Cleaning!BeginDiskPressure,
            Cleaning!DiskUnavailable, Cleaning!EndRun
      <3>. QED
        BY <3>1
        DEF Cleaning!CleanupStep, Cleaning!BeginKeepOnlyLatest,
            Cleaning!BeginStagnation, Cleaning!CleanupUnavailable,
            Cleaning!RemoveTorrent, Cleaning!RemoveTorrentFails,
            Cleaning!RemoveWatchFile, Cleaning!FinishLoop,
            Cleaning!SaveRemovedHistory, Cleaning!SaveRatioHistory,
            Cleaning!SaveFails, Cleaning!DiskBelowLimit, Cleaning!BeginDiskPressure,
            Cleaning!DiskUnavailable, Cleaning!EndRun, Cleaning!Abandon,
            Cleaning!AfterPass
    <2>. QED BY <2>1 DEF AsRead
  <1>3. CASE StopRun
    BY <1>3 DEF StopRun, Cleaning!Stop, AsRead
  <1>4. CASE Surrounding \/ Upstream \/ UNCHANGED vars
    BY <1>4 DEF Surrounding, Environment, Tick, OtherUse, Load, Grow, Upstream,
       Publish, vars, fetchVars, AsRead
  <1>. QED BY <1>1, <1>2, <1>3, <1>4 DEF Next

(* What the gate goes by is on record, and a record is no higher than what *)
(* the release has reached.                                                *)
LEMMA FloorReached ==
    ASSUME TypeOK, TruthInv,
           NEW p \in OnRecord(ratioLog, removedHistory),
           RecordedRatio(p, ratioLog, removedHistory) >= Floor
    PROVE  ReachedFloor(p)
  <1>1. /\ IsDict(ratioLog, Ratio) /\ IsDict(removedHistory, Removal)
        /\ \A n \in DOMAIN ratioLog : Reaches(peak[n], ratioLog[n])
        /\ \A n \in DOMAIN removedHistory : Reaches(peak[n], removedHistory[n].ratio)
        /\ peak \in [Release -> Ratio]
    BY DEF TypeOK, SeederTypeOK, FetchingTypeOK, TruthInv, LogTrue, RemovalsTrue, Had
  <1>2. /\ RecordedRatio(p, ratioLog, removedHistory) \in Int
        /\ Reaches(peak[p], RecordedRatio(p, ratioLog, removedHistory))
    BY <1>1 DEF OnRecord, RecordedRatio, IsDict, Removal, Ratio
  <1>3. peak[p] \in Int /\ Floor \in Int
    BY <1>1, RatioAssumption DEF OnRecord, IsDict, Ratio
  <1>. QED BY <1>2, <1>3, LowerReached DEF ReachedFloor, RecordedRatio

(* Every version on record was once loaded, so the highest one loaded, if  *)
(* it is on record, is the one the gate goes by; and its record is true.   *)
LEMMA GatePassed ==
    ASSUME TypeOK, TruthInv, RecordInv, AsRead, pc = "fetch",
           NEW r \in Release, IsoType[r] \notin ByAddedDate,
           ShouldFetch(r, live, gone),
           NEW p \in Previous(r, {n \in Release : loaded[n] >= 0}),
           \A n \in Previous(r, {n \in Release : loaded[n] >= 0}) :
              Version[n] <= Version[p],
           p \in witnessed
    PROVE  ReachedFloor(p)
  <1>. DEFINE older == Previous(r, OnRecord(live, gone))
  <1>1. /\ IsDict(live, Ratio) /\ IsDict(gone, Removal)
        /\ \A n \in DOMAIN live : loaded[n] >= 0 /\ Reaches(peak[n], live[n])
        /\ \A n \in DOMAIN gone : loaded[n] >= 0 /\ Reaches(peak[n], gone[n].ratio)
        /\ peak \in [Release -> Ratio]
    BY DEF TypeOK, FetchingTypeOK, TruthInv, LogTrue, RemovalsTrue, Had
  <1>2. older \subseteq Previous(r, {n \in Release : loaded[n] >= 0})
    BY <1>1 DEF Previous, OnRecord, IsDict
  <1>3. p \in older
    BY DEF RecordInv, Previous, OnRecord
  <1>4. p \in Release /\ IsoType[p] = IsoType[r]
    BY DEF Previous
  <1>5. PICK q \in older : /\ \A n \in older : Version[n] <= Version[q]
                           /\ RecordedRatio(q, live, gone) >= Floor
    BY <1>3 DEF ShouldFetch, ShouldFetchVersion
  <1>6. q \in Release /\ IsoType[q] = IsoType[r] /\ Version[q] <= Version[p]
    BY <1>2 DEF Previous
  <1>7. q = p
    <2>1. Version[p] <= Version[q] /\ Version[p] \in Nat /\ Version[q] \in Nat
      BY <1>3, <1>4, <1>5, <1>6, ReleaseAssumption
    <2>2. Version[p] = Version[q]
      BY <1>6, <2>1
    <2>. QED BY <1>4, <1>6, <2>2, ReleaseAssumption
  <1>8. p \in OnRecord(ratioLog, removedHistory)
        /\ RecordedRatio(p, ratioLog, removedHistory) >= Floor
    BY <1>3, <1>5, <1>7 DEF AsRead, Previous
  <1>. QED BY <1>8, FloorReached

(* "A new version is fetched only if the previous version of the same ISO  *)
(* type reached a seed ratio of at least 1.0": so it does, with the gate   *)
(* on, as long as only sites and trackers fail.  A lost call or save loses *)
(* removals, and a stop may cut the ratio log short (see ratio_log_cut).   *)
THEOREM GateAlwaysHonoured ==
    ASSUME ~SkipRatioCheck, Faults \subseteq {"web", "tracker"}
    PROVE  Spec => GateHonoured
  <1>. DEFINE Inv == TypeOK /\ TruthInv /\ RecordInv /\ AsRead
              Gate == \A r \in queue \ queue' :
                        /\ pc = "fetch" /\ watch'[r] # watch[r]
                        /\ IsoType[r] \notin ByAddedDate
                        => LET seeded == Previous(r, {n \in Release : loaded[n] >= 0})
                           IN  \A p \in seeded :
                                 /\ \A n \in seeded : Version[n] <= Version[p]
                                 /\ p \in witnessed
                                 => ReachedFloor(p)
  <1>1. /\ TypeOK /\ FilesThere /\ RecordInv /\ [Next]_vars => RecordInv'
        /\ TypeOK /\ AsRead /\ [Next]_vars => AsRead'
    BY RecordStep, AsReadStep
  <1>2. Inv /\ [Next]_vars => [Gate]_vars
    <2>1. SUFFICES ASSUME Inv, [Next]_vars, NEW r \in queue \ queue',
                          pc = "fetch", watch'[r] # watch[r],
                          IsoType[r] \notin ByAddedDate,
                          NEW p \in Previous(r, {n \in Release : loaded[n] >= 0}),
                          \A n \in Previous(r, {n \in Release : loaded[n] >= 0}) :
                             Version[n] <= Version[p],
                          p \in witnessed
                   PROVE  ReachedFloor(p)
      OBVIOUS
    <2>2. r \in Release /\ queue' # queue
      BY <2>1 DEF TypeOK, FetchingTypeOK
    <2>3. Download(r)
      BY <2>1, <2>2, WhoDownloads
    <2>4. ShouldFetch(r, live, gone)
      BY <2>3 DEF Download, Gated
    <2>. QED BY <2>1, <2>2, <2>4, GatePassed
  <1>. QED
    BY <1>1, <1>2, RecordInit, AsReadInit, AlwaysTrue, PTL DEF Spec, GateHonoured

-----------------------------------------------------------------------------
(* Wherever the run is stopped and whatever else fails, as long as the     *)
(* removed history can be opened: a release is fetched only over a record  *)
(* of its type's previous version that had reached the floor, or over      *)
(* none.  This is the part of the promise that survives lost records, and  *)
(* it covers Devuan, whose names carry no version.                         *)
THEOREM RecordAlwaysHonoured ==
    ASSUME "read" \notin Faults PROVE Spec => RecordHonoured
  <1>. DEFINE Gate == \A r \in queue \ queue' :
          pc = "fetch" /\ watch'[r] # watch[r] /\ ~SkipRatioCheck =>
             LET known == {n \in DOMAIN ratioLog \cup DOMAIN removedHistory :
                             n # r /\ IsoType[n] = IsoType[r]}
             IN  IF IsoType[r] \in ByAddedDate
                 THEN \/ r \in DOMAIN ratioLog
                      \/ known = {}
                      \/ \E n \in known : ReachedFloor(n)
                 ELSE \A p \in Previous(r, known) :
                         \/ \E n \in Previous(r, known) : Version[n] > Version[p]
                         \/ ReachedFloor(p)
  <1>1. Init => AsRead
    BY AsReadInit
  <1>2. TypeOK /\ AsRead /\ [Next]_vars => AsRead'
    BY AsReadStep
  <1>3. TypeOK /\ TruthInv /\ AsRead /\ [Next]_vars => [Gate]_vars
    <2>1. SUFFICES ASSUME TypeOK, TruthInv, AsRead, [Next]_vars,
                          NEW r \in queue \ queue', pc = "fetch",
                          watch'[r] # watch[r], ~SkipRatioCheck,
                          NEW known,
                          known = {n \in OnRecord(ratioLog, removedHistory) :
                                     n # r /\ IsoType[n] = IsoType[r]}
                   PROVE  IF IsoType[r] \in ByAddedDate
                          THEN \/ r \in DOMAIN ratioLog
                               \/ known = {}
                               \/ \E n \in known : ReachedFloor(n)
                          ELSE \A p \in Previous(r, known) :
                                  \/ \E n \in Previous(r, known) : Version[n] > Version[p]
                                  \/ ReachedFloor(p)
      BY DEF OnRecord
    <2>2. r \in Release /\ queue' # queue
      BY <2>1 DEF TypeOK, FetchingTypeOK
    <2>3. ShouldFetch(r, ratioLog, removedHistory)
      BY <2>1, <2>2, WhoDownloads DEF AsRead, Download, Gated
    <2>4. CASE IsoType[r] \in ByAddedDate
      <3>. DEFINE others(S) == {n \in S \ {r} : IsoType[n] = IsoType[r]}
                  prior == IF others(DOMAIN ratioLog) # {} THEN others(DOMAIN ratioLog)
                           ELSE others(DOMAIN removedHistory)
      <3>1. \/ r \in DOMAIN ratioLog
            \/ prior = {}
            \/ \E p \in prior : RecordedRatio(p, ratioLog, removedHistory) >= Floor
        BY <2>3, <2>4 DEF ShouldFetch, ShouldFetchDevuan
      <3>2. prior = {} => known = {}
        BY <2>1 DEF OnRecord
      <3>3. prior \subseteq known /\ known \subseteq OnRecord(ratioLog, removedHistory)
        BY <2>1 DEF OnRecord
      <3>. HIDE DEF prior
      <3>. QED BY <2>1, <2>4, <3>1, <3>2, <3>3, FloorReached
    <2>5. CASE IsoType[r] \notin ByAddedDate
      <3>. DEFINE older == Previous(r, OnRecord(ratioLog, removedHistory))
      <3>1. SUFFICES ASSUME NEW p \in Previous(r, known),
                            \A n \in Previous(r, known) : ~(Version[n] > Version[p])
                     PROVE  ReachedFloor(p)
        BY <2>5
      <3>2. OnRecord(ratioLog, removedHistory) \subseteq Release
        BY <2>1 DEF OnRecord, TypeOK, SeederTypeOK, FetchingTypeOK, IsDict
      <3>3. /\ \A n \in older : n \in Previous(r, known)
            /\ p \in older /\ p \in Release /\ IsoType[p] = IsoType[r]
        BY <2>1, <2>2, <3>2, ReleaseAssumption DEF Previous
      <3>4. PICK q \in older :
                 /\ \A n \in older : Version[n] <= Version[q]
                 /\ RecordedRatio(q, ratioLog, removedHistory) >= Floor
        BY <2>3, <2>5, <3>3 DEF ShouldFetch, ShouldFetchVersion
      <3>5. q \in Release /\ IsoType[q] = IsoType[r]
        BY <3>2 DEF Previous
      <3>6. Version[p] <= Version[q] /\ ~(Version[q] > Version[p])
        BY <3>1, <3>3, <3>4
      <3>7. Version[p] = Version[q]
        BY <3>3, <3>5, <3>6, ReleaseAssumption
      <3>8. p = q
        BY <2>5, <3>3, <3>5, <3>7, ReleaseAssumption
      <3>. QED BY <2>1, <3>4, <3>8, FloorReached DEF Previous
    <2>. QED BY <2>4, <2>5
  <1>. QED
    BY <1>1, <1>2, <1>3, AlwaysTrue, PTL DEF Spec, RecordHonoured
=============================================================================
