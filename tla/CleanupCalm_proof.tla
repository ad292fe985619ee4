-------------------------- MODULE CleanupCalm_proof --------------------------
(***************************************************************************)
(* What Cleanup promises as long as nothing fails, proved for every value  *)
(* of its other constants: removals are remembered, take their watch files *)
(* along, and judge no copy by the samples of an earlier one.              *)
(***************************************************************************)
EXTENDS Cleanup_proof

Calm == Faults = {}

(* Then every file reads as what it holds.                                 *)
LEMMA CalmReads ==
    ASSUME Calm, NEW d PROVE ReadBack(d, ReadFails) = {d}
  BY DEF Calm, ReadFails, ReadBack

(* The removals on record, as far as they can still be saved.              *)
Records == IF pc \in {"remove", "unlink", "saveRemoved"} THEN ledger ELSE removedHistory

Recorded(r) == r \in DOMAIN Records /\ Records[r].date >= loaded[r]

(* What was loaded and is gone is on record, but for what is being removed *)
(* now, whose file is the one that is left.                                *)
RememberedInv ==
    /\ \A r \in Release : loaded[r] <= today
    /\ \A r \in Release \ held : loaded[r] >= 0 => r \in removing \/ Recorded(r)
    /\ NoOrphanWatchFile

CalmInv == FilesInv /\ SafeInv /\ RememberedInv

-----------------------------------------------------------------------------
LEMMA RememberedInit == Init => RememberedInv
  <1>1. SUFFICES ASSUME Init PROVE RememberedInv
    OBVIOUS
  <1>2. /\ \A r \in Release : loaded[r] = -1 /\ watch[r] = "absent"
        /\ held = {} /\ today = 0
    BY <1>1 DEF Init, SeederInit
  <1>3. QED
    BY <1>2 DEF RememberedInv, NoOrphanWatchFile

(* A pass begins with the records on file and drops none of them.          *)
LEMMA RememberedStep == Calm /\ CalmInv /\ [Next]_vars => RememberedInv'
  <1> SUFFICES ASSUME Calm, CalmInv, [Next]_vars PROVE RememberedInv'
    OBVIOUS
  <1>. USE DEF clockVars, daemonVars, fileVars, passVars, RememberedInv,
              NoOrphanWatchFile, Recorded, Records
  <1>0. TypeOK /\ RememberedInv
    BY DEF CalmInv, SafeInv
  <1>1. CASE BeginKeepOnlyLatest \/ BeginStagnation \/ BeginDiskPressure
    BY <1>0, <1>1, CalmReads DEF BeginKeepOnlyLatest, BeginStagnation, BeginDiskPressure
  <1>2. CASE FinishLoop \/ DiskBelowLimit \/ EndRun \/ StartCleanup
    BY <1>0, <1>2 DEF FinishLoop, DiskBelowLimit, EndRun, StartCleanup
  <1>3. CASE \/ CleanupUnavailable \/ SaveFails \/ DiskUnavailable \/ Stop
             \/ \E r \in Release : RemoveTorrentFails(r)
    BY <1>3 DEF Calm, CleanupUnavailable, SaveFails, DiskUnavailable, Stop,
       RemoveTorrentFails
  <1>4. ASSUME NEW r \in Release, RemoveTorrent(r) PROVE RememberedInv'
    <2>1. removing = {}
      BY <1>4 DEF CalmInv, SafeInv, RemovingSafe, RemoveTorrent
    <2>2. QED
      BY <1>0, <1>4, <2>1 DEF RemoveTorrent, Removed
  <1>5. ASSUME NEW r \in Release, RemoveWatchFile(r) PROVE RememberedInv'
    <2>1. /\ removing = {r} /\ removing' = {} /\ pc = "unlink" /\ pc' = "remove"
          /\ UNCHANGED <<today, held, loaded>>
          /\ ledger' = Put(ledger, r, [date |-> today, ratio |-> Rounded(seen[r])])
          /\ watch' = [watch EXCEPT ![r] = "absent"]
      BY <1>5 DEF RemoveWatchFile, CalmInv, SafeInv, RemovingSafe, Calm
    <2>2. /\ r \in DOMAIN ledger' /\ ledger'[r].date = today
          /\ \A q \in DOMAIN ledger \ {r} : q \in DOMAIN ledger' /\ ledger'[q] = ledger[q]
      BY <2>1 DEF Put
    <2>3. \A q \in Release \ held : loaded[q] >= 0 =>
             q \in DOMAIN ledger' /\ ledger'[q].date >= loaded[q]
      <3>1. loaded[r] <= today /\ today \in Int /\ loaded[r] \in Int
        BY <1>0 DEF TypeOK, SeederTypeOK, Day
      <3>2. today >= loaded[r]
        BY <3>1
      <3>3. QED
        BY <1>0, <2>1, <2>2, <3>2
    <2>4. \A q \in Release \ held : watch'[q] # "added"
      BY <1>0, <2>1 DEF TypeOK, SeederTypeOK
    <2>5. QED
      BY <1>0, <2>1, <2>3, <2>4
  <1>6. CASE SaveRemovedHistory
    BY <1>0, <1>6 DEF SaveRemovedHistory, Abandon, AfterPass, Forget, CalmInv, SafeInv,
       RemovingSafe
  <1>7. CASE SaveRatioHistory
    BY <1>0, <1>7 DEF SaveRatioHistory, Abandon, AfterPass, Forget, CalmInv, SafeInv,
       RemovingSafe
  <1>8. ASSUME NEW r \in Release, NewWatchFile(r) PROVE RememberedInv'
    BY <1>0, <1>8 DEF NewWatchFile, TypeOK, SeederTypeOK
  <1>9. ASSUME NEW r \in Release, Load(r), UNCHANGED passVars PROVE RememberedInv'
    <2>1. today \in Nat
      BY <1>0 DEF TypeOK, SeederTypeOK, Day
    <2>2. /\ \A q \in Release \ {r} : loaded'[q] = loaded[q] /\ watch'[q] = watch[q]
          /\ loaded'[r] = today /\ held' = held \cup {r}
          /\ UNCHANGED <<today, removedHistory, pc, removing, ledger>>
      BY <1>0, <1>9 DEF Load, TypeOK, SeederTypeOK
    <2>3. \A q \in Release : loaded'[q] <= today'
      BY <1>0, <2>1, <2>2
    <2>4. \A q \in Release \ held' : q # r /\ q \in Release \ held
      BY <2>2
    <2>5. Records' = Records
      BY <2>2
    <2>6. \A q \in Release \ held' : loaded'[q] >= 0 => q \in removing' \/ Recorded(q)'
      BY <1>0, <2>2, <2>4, <2>5
    <2>7. \A q \in Release \ held' : watch'[q] = "added" => q \in removing'
      BY <1>0, <2>2, <2>4
    <2>8. QED
      BY <2>3, <2>6, <2>7
  <1>10. CASE (OtherUse \/ \E r \in Release : Grow(r)) /\ UNCHANGED passVars
    BY <1>0, <1>10 DEF OtherUse, Grow
  <1>11. CASE Tick /\ UNCHANGED passVars
    <2>1. today \in Int /\ today' \in Int /\ today <= today'
      BY <1>0, <1>11 DEF Tick, TypeOK, SeederTypeOK, Day
    <2>2. \A r \in Release : loaded[r] \in Int
      BY <1>0 DEF TypeOK, SeederTypeOK, Day
    <2>3. \A r \in Release : loaded[r] <= today'
      BY <1>0, <2>1, <2>2
    <2>4. QED
      BY <1>0, <1>11, <2>3 DEF Tick
  <1>12. CASE UNCHANGED vars
    BY <1>0, <1>12 DEF vars, seederVars
  <1>13. QED
    BY <1>1, <1>2, <1>3, <1>4, <1>5, <1>6, <1>7, <1>8, <1>9, <1>10, <1>11, <1>12
       DEF Next, CleanupStep, Environment

LEMMA CalmKept == ASSUME Calm PROVE Spec => []CalmInv
  <1>1. Init => CalmInv
    BY FilesInit, SafeInit, RememberedInit DEF CalmInv
  <1>2. CalmInv /\ [Next]_vars => CalmInv'
    BY FilesStep, SafeStep, RememberedStep DEF CalmInv
  <1>3. QED
    BY <1>1, <1>2, PTL DEF Spec

(* Between runs, whatever was ever loaded and is gone is in the removed    *)
(* history, with a removal no earlier than its last load.                  *)
THEOREM RemovalsAlwaysRemembered ==
    ASSUME Calm
    PROVE  Spec => []RemovalsRemembered
  <1>1. CalmInv => RemovalsRemembered
    BY DEF CalmInv, SafeInv, RemovingSafe, RememberedInv, Recorded, Records,
           RemovalsRemembered
  <1>2. QED
    BY <1>1, CalmKept, PTL

(* No loaded file outlives its torrent.                                    *)
THEOREM NoFileOrphaned ==
    ASSUME Calm
    PROVE  Spec => []NoOrphanWatchFile
  <1>1. CalmInv => NoOrphanWatchFile
    BY DEF CalmInv, RememberedInv
  <1>2. QED
    BY <1>1, CalmKept, PTL

-----------------------------------------------------------------------------
(* Too new to judge.                                                       *)

(* The day a release was last removed, as far as it can still be saved.    *)
Gone(r) == IF r \in DOMAIN Records THEN Records[r].date ELSE -1

(* Samples kept of a release that are not from before its last removal are *)
(* the present copy's; of one that is not held all are from before.        *)
OwnSamples(h) ==
    \A r \in DOMAIN h : \A s \in h[r] :
        /\ s.date <= today
        /\ r \in held /\ s.date > Gone(r) => s.date >= loaded[r]
        /\ r \notin held /\ r \notin removing => s.date <= Gone(r)

(* What a stagnation pass is about to remove has been held for the window. *)
LongHeld ==
    mode = "stagnant" /\ pc \in {"remove", "unlink"} =>
        \A r \in todo \cap held : today - loaded[r] >= Window

JudgedInv ==
    /\ OwnSamples(ratioHistory)
    /\ OwnSamples(history)
    /\ LongHeld

(* Sampling keeps this copy's samples, and adds today's.                   *)
LEMMA SampledOwn ==
    ASSUME CalmInv, OwnSamples(ratioHistory), pc = "cleanup", NEW r \in held,
           NEW s \in UpdatedHistory(ratioHistory, removedHistory)[r]
    PROVE  s.date <= today /\ s.date >= loaded[r] /\ s.date \in Int
  <1>1. /\ today \in Int /\ loaded[r] \in Int /\ loaded[r] <= today
        /\ r \in Release
    BY DEF CalmInv, RememberedInv, SafeInv, TypeOK, SeederTypeOK, Day
  <1>2. s \in Updated(Samples(r, ratioHistory), RemovedOn(r, removedHistory),
                     ratio[r], today)
    BY DEF UpdatedHistory
  <1>3. \/ s \in Samples(r, ratioHistory) /\ s.date > RemovedOn(r, removedHistory)
        \/ s.date = today
    BY <1>2 DEF Updated, OfThisCopy
  <1>4. CASE s \in Samples(r, ratioHistory) /\ s.date > RemovedOn(r, removedHistory)
    <2>1. r \in DOMAIN ratioHistory /\ s \in ratioHistory[r]
      BY <1>4 DEF Samples
    <2>2. RemovedOn(r, removedHistory) = Gone(r)
      BY DEF RemovedOn, Gone, Records
    <2>3. s.date \in Int
      BY <2>1 DEF CalmInv, SafeInv, TypeOK, SeederTypeOK, IsDict, Sample, Day
    <2>4. QED
      BY <1>4, <2>1, <2>2, <2>3 DEF OwnSamples
  <1>5. CASE s.date = today
    BY <1>1, <1>5
  <1>6. QED
    BY <1>3, <1>4, <1>5

(* What stagnation plans to remove has a sample of its own as old as the   *)
(* window.                                                                 *)
LEMMA PlannedLongHeld ==
    ASSUME Calm, CalmInv, OwnSamples(ratioHistory), BeginStagnation,
           NEW r \in todo'
    PROVE  today - loaded[r] >= Window
  <1>1. /\ r \in held /\ pc = "cleanup" /\ history' = UpdatedHistory(ratioHistory, removedHistory)
        /\ Stagnant(history'[r], ratio[r], today)
    BY CalmReads DEF BeginStagnation, Superseded
  <1>2. PICK a \in history'[r] : today - a.date >= Window
    BY <1>1 DEF Stagnant, OldEnough
  <1>3. a.date >= loaded[r] /\ a.date \in Int
    BY <1>1, <1>2, SampledOwn
  <1>4. today \in Int /\ loaded[r] \in Int /\ Window \in Int
    BY <1>1, HistoryAssumption DEF CalmInv, SafeInv, TypeOK, SeederTypeOK, Day
  <1>5. QED
    BY <1>2, <1>3, <1>4

LEMMA JudgedInit == Init => JudgedInv
  BY DEF Init, SeederInit, CleanupInit, Empty, JudgedInv, OwnSamples, LongHeld

LEMMA JudgedStep == Calm /\ CalmInv /\ JudgedInv /\ [Next]_vars => JudgedInv'
  <1> SUFFICES ASSUME Calm, CalmInv, JudgedInv, [Next]_vars PROVE JudgedInv'
    OBVIOUS
  <1>. USE DEF clockVars, daemonVars, fileVars, passVars
  <1>0. /\ OwnSamples(ratioHistory) /\ OwnSamples(history) /\ LongHeld
        /\ RemovingSafe /\ TypeOK /\ TypeOK'
    BY TypeStep DEF JudgedInv, CalmInv, SafeInv
  <1>1. CASE BeginKeepOnlyLatest \/ BeginDiskPressure
    BY <1>0, <1>1, CalmReads DEF BeginKeepOnlyLatest, BeginDiskPressure, JudgedInv, OwnSamples,
       LongHeld, Gone, Records
  <1>2. CASE BeginStagnation
    <2>1. /\ UNCHANGED <<today, held, loaded, ratioHistory, removedHistory, removing>>
          /\ pc = "cleanup" /\ pc' = "remove" /\ ledger' = removedHistory
          /\ history' = UpdatedHistory(ratioHistory, removedHistory)
      BY <1>2, CalmReads DEF BeginStagnation
    <2>2. Records' = Records
      BY <2>1 DEF Records
    <2>3. OwnSamples(ratioHistory)'
      BY <1>0, <2>1, <2>2 DEF OwnSamples, Gone
    <2>4. DOMAIN history' = held
      BY <2>1 DEF UpdatedHistory
    <2>5. OwnSamples(history)'
      BY <1>0, <2>1, <2>4, SampledOwn DEF OwnSamples
    <2>6. LongHeld'
      BY <1>0, <1>2, <2>1, PlannedLongHeld DEF LongHeld
    <2>7. QED
      BY <2>3, <2>5, <2>6 DEF JudgedInv
  <1>3. CASE FinishLoop \/ DiskBelowLimit \/ EndRun \/ StartCleanup
    BY <1>0, <1>3 DEF FinishLoop, DiskBelowLimit, EndRun, StartCleanup, JudgedInv,
       OwnSamples, LongHeld, Gone, Records
  <1>4. CASE \/ CleanupUnavailable \/ SaveFails \/ DiskUnavailable \/ Stop
             \/ \E r \in Release : RemoveTorrentFails(r)
    BY <1>4 DEF Calm, CleanupUnavailable, SaveFails, DiskUnavailable, Stop,
       RemoveTorrentFails
  <1>5. ASSUME NEW r \in Release, RemoveTorrent(r) PROVE JudgedInv'
    <2>1. /\ UNCHANGED <<today, loaded, ratioHistory, history, removedHistory, ledger,
                         mode, todo>>
          /\ held' = held \ {r} /\ removing' = {r} /\ removing = {}
          /\ pc = "remove" /\ pc' = "unlink"
      BY <1>0, <1>5 DEF RemoveTorrent, Removed, RemovingSafe
    <2>2. Records' = Records
      BY <2>1 DEF Records
    <2>3. OwnSamples(ratioHistory)' /\ OwnSamples(history)'
      BY <1>0, <2>1, <2>2 DEF OwnSamples, Gone
    <2>4. LongHeld'
      BY <1>0, <2>1 DEF LongHeld
    <2>5. QED
      BY <2>3, <2>4 DEF JudgedInv
  <1>6. ASSUME NEW r \in Release, RemoveWatchFile(r) PROVE JudgedInv'
    <2>1. /\ UNCHANGED <<today, held, loaded, ratioHistory, history, removedHistory, mode>>
          /\ ledger' = Put(ledger, r, [date |-> today, ratio |-> Rounded(seen[r])])
          /\ removing = {r} /\ removing' = {} /\ r \notin held
          /\ pc = "unlink" /\ pc' = "remove" /\ todo' = todo \ {r}
      BY <1>0, <1>6 DEF RemoveWatchFile, RemovingSafe
    <2>2. /\ Gone(r)' = today
          /\ \A q \in Release \ {r} : Gone(q)' = Gone(q)
      BY <2>1 DEF Gone, Records, Put
    <2>3. DOMAIN ratioHistory \subseteq Release /\ DOMAIN history \subseteq Release
      BY <1>0 DEF TypeOK, SeederTypeOK, CleanupTypeOK, IsDict
    <2>4. OwnSamples(ratioHistory)'
      BY <1>0, <2>1, <2>2, <2>3 DEF OwnSamples
    <2>5. OwnSamples(history)'
      BY <1>0, <2>1, <2>2, <2>3 DEF OwnSamples
    <2>6. LongHeld'
      BY <1>0, <2>1 DEF LongHeld
    <2>7. QED
      BY <2>4, <2>5, <2>6 DEF JudgedInv
  <1>7. CASE SaveRemovedHistory \/ SaveRatioHistory
    <2>1. /\ UNCHANGED <<today, held, loaded>>
          /\ ratioHistory' = ratioHistory \/ ratioHistory' = history
          /\ history' = history \/ history' = Empty
          /\ removing = {} /\ removing' = {}
          /\ pc' \in {"saveHistory", "disk", "done"}
      BY <1>0, <1>7 DEF SaveRemovedHistory, SaveRatioHistory, Abandon, AfterPass, Forget,
         RemovingSafe
    <2>2. Records' = Records
      BY <1>7, <2>1 DEF SaveRemovedHistory, SaveRatioHistory, Records
    <2>3. OwnSamples(ratioHistory)'
      BY <1>0, <2>1, <2>2 DEF OwnSamples, Gone
    <2>4. OwnSamples(history)'
      BY <1>0, <2>1, <2>2 DEF OwnSamples, Gone, Empty
    <2>5. QED
      BY <2>1, <2>3, <2>4 DEF JudgedInv, LongHeld
  <1>8. ASSUME NEW r \in Release, NewWatchFile(r) PROVE JudgedInv'
    BY <1>0, <1>8 DEF NewWatchFile, JudgedInv, OwnSamples, LongHeld, Gone, Records
  <1>9. ASSUME NEW r \in Release, Load(r), UNCHANGED passVars PROVE JudgedInv'
    <2>1. /\ r \notin held /\ r \notin removing /\ r \notin todo
      BY <1>0, <1>9 DEF Load, CalmInv, SafeInv, HeldHasWatchFile, RemovingSafe, PlanSafe
    <2>2. /\ \A q \in Release \ {r} : loaded'[q] = loaded[q]
          /\ held' = held \cup {r}
          /\ UNCHANGED <<today, ratioHistory, history, removing, todo, mode, pc>>
          /\ Records' = Records
      BY <1>0, <1>9 DEF Load, TypeOK, SeederTypeOK, Records
    <2>3. \A q : Gone(q)' = Gone(q)
      BY <2>2 DEF Gone
    <2>4. /\ IsDict(ratioHistory, SUBSET Sample) /\ IsDict(history, SUBSET Sample)
          /\ \A q : Gone(q) \in Int
      BY <1>0 DEF TypeOK, SeederTypeOK, CleanupTypeOK, IsDict, Gone, Records, Removal, Day
    <2>5. /\ \A q \in DOMAIN ratioHistory : \A s \in ratioHistory[q] : s.date \in Int
          /\ \A q \in DOMAIN history : \A s \in history[q] : s.date \in Int
          /\ DOMAIN ratioHistory \subseteq Release /\ DOMAIN history \subseteq Release
      BY <2>4 DEF IsDict, Sample, Day
    <2>6. OwnSamples(ratioHistory)'
      BY <1>0, <2>1, <2>2, <2>3, <2>4, <2>5 DEF OwnSamples
    <2>7. OwnSamples(history)'
      BY <1>0, <2>1, <2>2, <2>3, <2>4, <2>5 DEF OwnSamples
    <2>8. LongHeld'
      <3>1. todo \subseteq Release
        BY <1>0 DEF TypeOK, CleanupTypeOK
      <3>2. QED
        BY <1>0, <2>1, <2>2, <3>1 DEF LongHeld
    <2>9. QED
      BY <2>6, <2>7, <2>8 DEF JudgedInv
  <1>10. CASE (OtherUse \/ \E r \in Release : Grow(r)) /\ UNCHANGED passVars
    BY <1>0, <1>10 DEF OtherUse, Grow, JudgedInv, OwnSamples, LongHeld, Gone, Records
  <1>11. CASE Tick /\ UNCHANGED passVars
    <2>1. today \in Int /\ today' \in Int /\ today <= today'
      BY <1>0, <1>11 DEF Tick, TypeOK, SeederTypeOK, Day
    <2>2. /\ UNCHANGED <<held, loaded, ratioHistory, history, removing, pc>>
          /\ pc = "idle" /\ Records' = Records
      BY <1>11 DEF Tick, Records
    <2>3. /\ \A q \in DOMAIN ratioHistory : \A s \in ratioHistory[q] : s.date \in Int
          /\ \A q \in DOMAIN history : \A s \in history[q] : s.date \in Int
      BY <1>0 DEF TypeOK, SeederTypeOK, CleanupTypeOK, IsDict, Sample, Day
    <2>4. OwnSamples(ratioHistory)' /\ OwnSamples(history)'
      BY <1>0, <2>1, <2>2, <2>3 DEF OwnSamples, Gone
    <2>5. QED
      BY <2>2, <2>4 DEF JudgedInv, LongHeld
  <1>12. CASE UNCHANGED vars
    BY <1>0, <1>12 DEF vars, seederVars, JudgedInv, OwnSamples, LongHeld, Gone, Records
  <1>13. QED
    BY <1>1, <1>2, <1>3, <1>4, <1>5, <1>6, <1>7, <1>8, <1>9, <1>10, <1>11, <1>12
       DEF Next, CleanupStep, Environment

(* Only a pass at its removal loop removes.                                *)
LEMMA WhoRemoves ==
    ASSUME Calm, SafeInv, [Next]_vars, NEW r \in held \ held'
    PROVE  pc = "remove"
  <1>. USE DEF clockVars, daemonVars, fileVars, passVars
  <1>1. ASSUME NEW q \in Release, \/ RemoveWatchFile(q) \/ NewWatchFile(q)
                                  \/ Load(q) \/ Grow(q)
        PROVE  FALSE
    BY <1>1 DEF RemoveWatchFile, NewWatchFile, Load, Grow
  <1>2. ASSUME NEW q \in Release, RemoveTorrent(q) \/ RemoveTorrentFails(q)
        PROVE  pc = "remove"
    BY <1>2 DEF RemoveTorrent, RemoveTorrentFails
  <1>3. CASE \/ BeginKeepOnlyLatest \/ BeginStagnation \/ CleanupUnavailable
             \/ FinishLoop \/ SaveRemovedHistory \/ SaveRatioHistory
             \/ SaveFails \/ DiskBelowLimit \/ BeginDiskPressure
             \/ DiskUnavailable \/ EndRun \/ StartCleanup \/ Stop
             \/ Tick \/ OtherUse \/ UNCHANGED vars
    BY <1>3
    DEF BeginKeepOnlyLatest, BeginStagnation, CleanupUnavailable, FinishLoop,
        SaveRemovedHistory, SaveRatioHistory, SaveFails, DiskBelowLimit,
        BeginDiskPressure, DiskUnavailable, EndRun, StartCleanup, Stop, Tick,
        OtherUse, vars, seederVars
  <1>4. QED
    BY <1>1, <1>2, <1>3 DEF Next, CleanupStep, Environment

(* Stagnation removes no copy held for less than the window, whatever      *)
(* samples an earlier copy of it left in the ratio history.                *)
THEOREM NeverJudgedTooNew ==
    ASSUME Calm
    PROVE  Spec => TooNewToJudge
  <1>. DEFINE OldOnly == \A r \in held \ held' :
                            mode = "stagnant" => today - loaded[r] >= Window
  <1>1. ASSUME CalmInv, JudgedInv, [Next]_vars PROVE OldOnly
    <2>1. SUFFICES ASSUME NEW r \in held \ held', mode = "stagnant"
                   PROVE  today - loaded[r] >= Window
      OBVIOUS
    <2>2. pc = "remove" /\ r \in todo
      BY <1>1, WhoRemoves, RemovalsArePlanned DEF CalmInv
    <2>3. QED
      BY <1>1, <2>1, <2>2 DEF JudgedInv, LongHeld
  <1>2. CalmInv /\ JudgedInv /\ [Next]_vars => [OldOnly]_vars
    BY <1>1
  <1>3. Init => JudgedInv
    BY JudgedInit
  <1>4. CalmInv /\ JudgedInv /\ [Next]_vars => JudgedInv'
    BY JudgedStep
  <1>5. QED
    BY <1>2, <1>3, <1>4, CalmKept, PTL DEF Spec, TooNewToJudge
==============================================================================
