--------------------------- MODULE Cleanup_proof ---------------------------
(***************************************************************************)
(* Proofs about Cleanup: its type correctness, and the safety properties   *)
(* that hold whichever step fails and wherever the container stops: what   *)
(* the daemon and the watch folder keep, then what stands in the files.    *)
(***************************************************************************)
EXTENDS Cleanup, FiniteSetTheorems, WellFoundedInduction, TLAPS

(* Writing one entry keeps a dict a dict.                                  *)
LEMMA PutDict ==
    ASSUME NEW V, NEW d, IsDict(d, V), NEW k \in Release, NEW v \in V
    PROVE  IsDict(Put(d, k, v), V)
  BY DEF IsDict, Put

LEMMA EmptyDict == ASSUME NEW V PROVE IsDict(Empty, V)
  BY DEF IsDict, Empty

(* What is written down of a ratio is a ratio.                             *)
LEMMA RoundedType == ASSUME NEW x \in Ratio PROVE Rounded(x) \in Ratio
  <1>1. CASE x < 0
    BY <1>1 DEF Rounded
  <1>2. CASE x >= 0
    <2>1. RatioUnit \in Nat /\ RatioUnit >= 1 /\ MaxRatio \in Nat
      BY RatioAssumption
    <2>2. x \in Nat /\ x <= MaxRatio
      BY <1>2, RatioAssumption DEF Ratio
    <2>. DEFINE y == (2 * x + RatioUnit) \div (2 * RatioUnit)
    <2>3. y \in Nat /\ y <= x
      <3>1. x = 0 => y = 0
        BY <2>1, Z3
      <3>2. y \in Nat
        BY <2>1, <2>2, Z3
      <3>3. y <= x
        BY <2>1, <2>2, Z3
      <3>. QED BY <3>2, <3>3
    <2>. QED BY <2>2, <2>3, <2>1, <1>2 DEF Rounded, Ratio
  <1>. QED BY <1>1, <1>2 DEF Ratio

-----------------------------------------------------------------------------
(* Updated keeps samples samples.                                          *)
LEMMA UpdatedType ==
    ASSUME NEW S \in SUBSET Sample, NEW on, NEW x \in Ratio, today \in Day
    PROVE  Updated(S, on, x, today) \in SUBSET Sample
  BY DEF Updated, OfThisCopy, Sample

(* A file reads as what it holds or as nothing.                            *)
LEMMA ReadDict ==
    ASSUME NEW V, NEW d, IsDict(d, V), NEW b, NEW h \in ReadBack(d, b)
    PROVE  IsDict(h, V)
  BY EmptyDict DEF ReadBack

LEMMA UpdatedHistoryType ==
    ASSUME SeederTypeOK, NEW log, IsDict(log, SUBSET Sample), NEW removals
    PROVE  IsDict(UpdatedHistory(log, removals), SUBSET Sample)
  <1>1. ASSUME NEW r \in held
        PROVE  Updated(Samples(r, log), RemovedOn(r, removals), ratio[r], today)
                  \in SUBSET Sample
    <2>1. Samples(r, log) \in SUBSET Sample
      BY DEF IsDict, Samples
    <2>2. ratio[r] \in Ratio /\ today \in Day
      BY DEF SeederTypeOK
    <2>. QED BY <2>1, <2>2, UpdatedType
  <1>. QED BY <1>1 DEF UpdatedHistory, IsDict, SeederTypeOK

LEMMA ForgetType == ASSUME Forget PROVE CleanupTypeOK'
  BY EmptyDict, RatioAssumption DEF Forget, CleanupTypeOK, Ratio

-----------------------------------------------------------------------------
(* Type correctness.                                                       *)
LEMMA TypeInit == Init => TypeOK
  BY EmptyDict, RatioAssumption, SeederAssumption
  DEF Init, SeederInit, CleanupInit, TypeOK, SeederTypeOK, CleanupTypeOK,
      Day, Ratio, WatchFile

LEMMA TypeLoad ==
    ASSUME TypeOK, NEW r \in Release, Load(r), UNCHANGED passVars
    PROVE  TypeOK'
  BY SeederAssumption
  DEF TypeOK, SeederTypeOK, CleanupTypeOK, Load, clockVars, fileVars,
      passVars, WatchFile

LEMMA TypeStep == TypeOK /\ [Next]_vars => TypeOK'
  <1> SUFFICES ASSUME TypeOK, [Next]_vars PROVE TypeOK'
    OBVIOUS
  <1>. USE DEF TypeOK, SeederTypeOK, CleanupPC, clockVars, daemonVars, fileVars
  <1>1. CASE BeginKeepOnlyLatest
    <2>1. IsDict(ledger', Removal)
      BY <1>1, ReadDict DEF BeginKeepOnlyLatest
    <2>. QED BY <1>1, <2>1 DEF BeginKeepOnlyLatest, CleanupTypeOK, Superseded
  <1>2. CASE BeginStagnation
    <2>1. IsDict(ledger', Removal)
      BY <1>2, ReadDict DEF BeginStagnation
    <2>2. IsDict(history', SUBSET Sample)
      BY <1>2, ReadDict, UpdatedHistoryType DEF BeginStagnation
    <2>. QED BY <1>2, <2>1, <2>2 DEF BeginStagnation, CleanupTypeOK, Superseded
  <1>3. CASE CleanupUnavailable
    BY <1>3 DEF CleanupUnavailable, CleanupTypeOK, passVars
  <1>4. ASSUME NEW r \in Release, RemoveTorrent(r) PROVE TypeOK'
    BY <1>4, RatioAssumption
    DEF RemoveTorrent, Removed, CleanupTypeOK, Ratio
  <1>5. ASSUME NEW r \in Release, RemoveTorrentFails(r) PROVE TypeOK'
    BY <1>5, RatioAssumption, ForgetType
    DEF RemoveTorrentFails, Removed, Abandon, AfterPass, Ratio
  <1>6. ASSUME NEW r \in Release, RemoveWatchFile(r) PROVE TypeOK'
    <2>1. [date |-> today, ratio |-> Rounded(seen[r])] \in Removal
      BY RoundedType DEF CleanupTypeOK, Removal
    <2>2. IsDict(ledger', Removal)
      BY <1>6, <2>1, PutDict DEF RemoveWatchFile, CleanupTypeOK
    <2>. QED BY <1>6, <2>2 DEF RemoveWatchFile, CleanupTypeOK, WatchFile
  <1>7. CASE FinishLoop
    BY <1>7 DEF FinishLoop, CleanupTypeOK, passVars
  <1>8. CASE SaveRemovedHistory
    BY <1>8, ForgetType
    DEF SaveRemovedHistory, Abandon, AfterPass, CleanupTypeOK, passVars
  <1>9. CASE SaveRatioHistory
    BY <1>9, ForgetType DEF SaveRatioHistory, Abandon, AfterPass, CleanupTypeOK
  <1>10. CASE SaveFails
    BY <1>10, ForgetType DEF SaveFails, Abandon, AfterPass
  <1>11. CASE DiskBelowLimit
    BY <1>11 DEF DiskBelowLimit, CleanupTypeOK, passVars
  <1>12. CASE BeginDiskPressure
    <2>1. IsDict(ledger', Removal)
      BY <1>12, ReadDict DEF BeginDiskPressure
    <2>. QED BY <1>12, <2>1 DEF BeginDiskPressure, CleanupTypeOK, Superseded
  <1>13. CASE DiskUnavailable
    BY <1>13 DEF DiskUnavailable, CleanupTypeOK, passVars
  <1>14. CASE EndRun
    BY <1>14 DEF EndRun, CleanupTypeOK, passVars
  <1>15. CASE StartCleanup
    BY <1>15 DEF StartCleanup, CleanupTypeOK, passVars
  <1>16. CASE Stop
    BY <1>16, ForgetType DEF Stop
  <1>17. ASSUME NEW r \in Release, NewWatchFile(r) PROVE TypeOK'
    BY <1>17 DEF NewWatchFile, CleanupTypeOK, passVars, WatchFile
  <1>18. CASE Environment /\ UNCHANGED passVars
    <2>1. CASE Tick
      BY <1>18, <2>1, SeederAssumption
      DEF Tick, CleanupTypeOK, passVars, Day
    <2>2. CASE OtherUse
      BY <1>18, <2>2 DEF OtherUse, CleanupTypeOK, passVars
    <2>3. ASSUME NEW r \in Release, Load(r) PROVE TypeOK'
      BY <1>18, <2>3, TypeLoad
    <2>4. ASSUME NEW r \in Release, Grow(r) PROVE TypeOK'
      BY <1>18, <2>4, RatioAssumption DEF Grow, CleanupTypeOK, passVars, Ratio
    <2>. QED BY <1>18, <2>1, <2>2, <2>3, <2>4 DEF Environment
  <1>19. CASE UNCHANGED vars
    BY <1>19 DEF vars, seederVars, passVars, CleanupTypeOK
  <1>. QED
    BY <1>1, <1>2, <1>3, <1>4, <1>5, <1>6, <1>7, <1>8, <1>9, <1>10, <1>11,
       <1>12, <1>13, <1>14, <1>15, <1>16, <1>17, <1>18, <1>19
    DEF Next, CleanupStep

(* Whatever fails and wherever the run is stopped, every variable keeps    *)
(* its type.                                                               *)
THEOREM TypeCorrect == Spec => []TypeOK
  BY TypeInit, TypeStep, PTL DEF Spec

-----------------------------------------------------------------------------
(* Of what is newer than a superseded torrent, something is superseded by  *)
(* nothing: a plan made of superseded torrents leaves it out.              *)
LEMMA NewestLeftOut ==
    ASSUME NEW H \in SUBSET Release, NEW a \in [Release -> Nat],
           NEW r \in Superseded(H, a)
    PROVE  \E q \in H \ Superseded(H, a) : Newer(q, r, a)
  <1>. DEFINE Above(q) == {p \in H : Newer(p, q, a)}
              C        == Above(r)
              T        == {Above(q) : q \in C}
              R        == StrictSubsetOrdering(H)
  <1>1. IsFiniteSet(H) /\ r \in H
    BY ReleaseAssumption, FS_Subset DEF Superseded
  <1>2. \A q \in H : Rank(q, a) \in Nat
    BY ReleaseAssumption DEF Rank
  <1>3. T # {} /\ T \subseteq SUBSET H
    BY DEF Superseded
  <1>4. IsWellFoundedOn(R, SUBSET H)
    BY <1>1, FS_StrictSubsetOrderingWellFounded, FS_FiniteSubsetsOfFinite
  <1>5. \E S \in T : \A U \in T : ~(<<U, S>> \in R)
    <2>. HIDE DEF T, R
    <2>. QED BY <1>3, <1>4, WFMin
  <1>6. PICK q \in C : \A p \in C : ~(<<Above(p), Above(q)>> \in R)
    BY <1>5
  <1>7. ASSUME NEW p \in H, Newer(p, q, a) PROVE FALSE
    <2>1. p \in C
      BY <1>2, <1>1, <1>6, <1>7 DEF Newer
    <2>2. Above(p) \subseteq Above(q)
      BY <1>2, <1>6, <1>7 DEF Newer
    <2>3. p \in Above(q) /\ p \notin Above(p)
      BY <1>2, <1>7 DEF Newer
    <2>. QED BY <1>6, <2>1, <2>2, <2>3 DEF StrictSubsetOrdering
  <1>. QED BY <1>6, <1>7 DEF Superseded

(* The strengthening that makes NewestKept and HeldHasWatchFile inductive: *)
(* every torrent of the plan has a newer one outside the plan, and what is *)
(* being removed is the one torrent whose file is still in /watch.         *)
PlanSafe ==
    /\ \A r \in todo : \E q \in held \ todo : Newer(q, r, added)
    /\ todo \subseteq held \cup removing

RemovingSafe ==
    /\ pc # "unlink" => removing = {}
    /\ \A r, q \in removing : r = q
    /\ \A r \in removing : r \notin held /\ watch[r] = "added"

SafeInv == TypeOK /\ PlanSafe /\ RemovingSafe /\ HeldHasWatchFile

LEMMA SafeInit == Init => SafeInv
  <1> SUFFICES ASSUME Init PROVE SafeInv
    OBVIOUS
  <1>1. TypeOK
    BY TypeInit
  <1>. QED
    BY <1>1 DEF Init, SeederInit, CleanupInit, SafeInv, PlanSafe,
                RemovingSafe, HeldHasWatchFile

(* The plan of a pass.                                                     *)
LEMMA PlanMade ==
    ASSUME TypeOK, todo' \subseteq Superseded(held, added),
           UNCHANGED <<held, added>>, removing = {}, UNCHANGED removing
    PROVE  PlanSafe'
  <1>1. held \in SUBSET Release /\ added \in [Release -> Nat]
    BY DEF TypeOK, SeederTypeOK
  <1>2. \A r \in todo' : \E q \in held \ Superseded(held, added) :
                              Newer(q, r, added)
    BY <1>1, NewestLeftOut
  <1>3. todo' \subseteq held
    BY DEF Superseded
  <1>. QED BY <1>2, <1>3 DEF PlanSafe

LEMMA ForgottenPlan ==
    ASSUME Forget PROVE PlanSafe' /\ RemovingSafe'
  BY DEF Forget, PlanSafe, RemovingSafe

LEMMA SafeStep == SafeInv /\ [Next]_vars => SafeInv'
  <1> SUFFICES ASSUME SafeInv, [Next]_vars PROVE SafeInv'
    OBVIOUS
  <1>. USE DEF SafeInv
  <1>0. TypeOK'
    BY TypeStep
  <1>. USE DEF clockVars, daemonVars, fileVars, passVars
  <1>1. CASE BeginKeepOnlyLatest
    BY <1>0, <1>1, PlanMade
    DEF BeginKeepOnlyLatest, RemovingSafe, HeldHasWatchFile
  <1>2. CASE BeginStagnation
    BY <1>0, <1>2, PlanMade
    DEF BeginStagnation, RemovingSafe, HeldHasWatchFile
  <1>3. CASE CleanupUnavailable \/ FinishLoop \/ DiskBelowLimit
             \/ DiskUnavailable \/ EndRun \/ StartCleanup
    BY <1>0, <1>3
    DEF CleanupUnavailable, FinishLoop, DiskBelowLimit, DiskUnavailable,
        EndRun, StartCleanup, PlanSafe, RemovingSafe, HeldHasWatchFile
  <1>4. ASSUME NEW r \in Release, RemoveTorrent(r) PROVE SafeInv'
    <2>1. removing = {} /\ r \in todo /\ r \in held
      BY <1>4 DEF RemoveTorrent, IsNext, RemovingSafe, PlanSafe
    <2>2. PlanSafe'
      BY <1>4, <2>1 DEF RemoveTorrent, Removed, PlanSafe, Newer, Rank
    <2>3. RemovingSafe' /\ HeldHasWatchFile'
      BY <1>4, <2>1
      DEF RemoveTorrent, Removed, RemovingSafe, HeldHasWatchFile
    <2>. QED BY <1>0, <2>2, <2>3
  <1>5. ASSUME NEW r \in Release, RemoveTorrentFails(r) PROVE SafeInv'
    BY <1>0, <1>5, ForgottenPlan
    DEF RemoveTorrentFails, Removed, Abandon, HeldHasWatchFile
  <1>6. ASSUME NEW r \in Release, RemoveWatchFile(r) PROVE SafeInv'
    <2>1. removing = {r} /\ r \notin held
      BY <1>6 DEF RemoveWatchFile, RemovingSafe
    <2>2. PlanSafe'
      BY <1>6, <2>1 DEF RemoveWatchFile, PlanSafe
    <2>3. RemovingSafe' /\ HeldHasWatchFile'
      BY <1>6, <2>1
      DEF RemoveWatchFile, RemovingSafe, HeldHasWatchFile, TypeOK, SeederTypeOK
    <2>. QED BY <1>0, <2>2, <2>3
  <1>7. CASE SaveRemovedHistory
    BY <1>0, <1>7, ForgottenPlan
    DEF SaveRemovedHistory, Abandon, PlanSafe, RemovingSafe, HeldHasWatchFile
  <1>8. CASE SaveRatioHistory \/ SaveFails \/ Stop
    BY <1>0, <1>8, ForgottenPlan
    DEF SaveRatioHistory, SaveFails, Stop, Abandon, HeldHasWatchFile
  <1>9. CASE BeginDiskPressure
    BY <1>0, <1>9, PlanMade
    DEF BeginDiskPressure, RemovingSafe, HeldHasWatchFile
  <1>10. ASSUME NEW r \in Release, NewWatchFile(r) PROVE SafeInv'
    BY <1>0, <1>10
    DEF NewWatchFile, PlanSafe, RemovingSafe, HeldHasWatchFile, TypeOK,
        SeederTypeOK
  <1>11. ASSUME NEW r \in Release, Load(r), UNCHANGED passVars PROVE SafeInv'
    <2>1. r \notin held /\ r \notin removing /\ r \notin todo
      BY <1>11 DEF Load, HeldHasWatchFile, RemovingSafe, PlanSafe
    <2>2. /\ held' = held \cup {r}
          /\ \A q \in Release \ {r} : added'[q] = added[q]
      BY <1>11 DEF Load, TypeOK, SeederTypeOK
    <2>3. PlanSafe'
      <3>1. \A p, q \in Release \ {r} :
               Newer(p, q, added) => Newer(p, q, added')
        BY <2>2 DEF Newer, Rank
      <3>2. held \subseteq Release /\ todo \subseteq Release
        BY DEF TypeOK, SeederTypeOK, CleanupTypeOK
      <3>. QED BY <1>11, <2>1, <2>2, <3>1, <3>2 DEF PlanSafe
    <2>4. RemovingSafe' /\ HeldHasWatchFile'
      BY <1>11, <2>1
      DEF Load, RemovingSafe, HeldHasWatchFile, TypeOK, SeederTypeOK,
          CleanupTypeOK
    <2>. QED BY <1>0, <2>3, <2>4
  <1>12. ASSUME NEW r \in Release, Grow(r), UNCHANGED passVars PROVE SafeInv'
    BY <1>0, <1>12
    DEF Grow, PlanSafe, RemovingSafe, HeldHasWatchFile
  <1>13. CASE (Tick \/ OtherUse) /\ UNCHANGED passVars
    BY <1>0, <1>13
    DEF Tick, OtherUse, PlanSafe, RemovingSafe, HeldHasWatchFile
  <1>14. CASE UNCHANGED vars
    BY <1>0, <1>14
    DEF vars, seederVars, PlanSafe, RemovingSafe, HeldHasWatchFile
  <1>. QED
    BY <1>1, <1>2, <1>3, <1>4, <1>5, <1>6, <1>7, <1>8, <1>9, <1>10, <1>11,
       <1>12, <1>13, <1>14
    DEF Next, CleanupStep, Environment

LEMMA Safe == Spec => []SafeInv
  BY SafeInit, SafeStep, PTL DEF Spec

(* A torrent the daemon holds always has its renamed file in /watch: it is *)
(* never taken for one to fetch, nor is its file removed while it seeds.   *)
THEOREM HeldTorrentHasWatchFile == Spec => []HeldHasWatchFile
  BY Safe, PTL DEF SafeInv

(* Only a pass of cleanup takes torrents from the daemon, and only those   *)
(* of its plan.                                                            *)
LEMMA RemovalsArePlanned ==
    ASSUME SafeInv, [Next]_vars, NEW r \in held \ held'
    PROVE  r \in todo /\ held' = held \ {r} /\ UNCHANGED added
  <1>. USE DEF clockVars, daemonVars, fileVars, passVars
  <1>1. ASSUME NEW q \in Release, RemoveTorrent(q) \/ RemoveTorrentFails(q)
        PROVE  r \in todo /\ held' = held \ {r} /\ UNCHANGED added
    BY <1>1 DEF RemoveTorrent, RemoveTorrentFails, Removed, IsNext
  <1>2. ASSUME NEW q \in Release, \/ RemoveWatchFile(q) \/ NewWatchFile(q)
                                  \/ Load(q) \/ Grow(q)
        PROVE  FALSE
    BY <1>2 DEF RemoveWatchFile, NewWatchFile, Load, Grow
  <1>3. CASE \/ BeginKeepOnlyLatest \/ BeginStagnation \/ CleanupUnavailable
             \/ FinishLoop \/ SaveRemovedHistory \/ SaveRatioHistory
             \/ SaveFails \/ DiskBelowLimit \/ BeginDiskPressure
             \/ DiskUnavailable \/ EndRun \/ StartCleanup \/ Stop
             \/ Tick \/ OtherUse \/ UNCHANGED vars
    BY <1>3
    DEF BeginKeepOnlyLatest, BeginStagnation, CleanupUnavailable, FinishLoop,
        SaveRemovedHistory, SaveRatioHistory, SaveFails, DiskBelowLimit,
        BeginDiskPressure, DiskUnavailable, EndRun, StartCleanup, Stop, Tick,
        OtherUse, vars, seederVars
  <1>. QED BY <1>1, <1>2, <1>3 DEF Next, CleanupStep, Environment

(* The newest torrent of a type is never removed, by stagnation, by        *)
(* keep-only-latest or for disk space, however old the plan has become.    *)
THEOREM NewestNeverRemoved == Spec => NewestKept
  <1>1. ASSUME SafeInv, [Next]_vars, NEW r \in held \ held'
        PROVE  \E q \in held' : Newer(q, r, added)
    BY <1>1, RemovalsArePlanned DEF SafeInv, PlanSafe
  <1>2. SafeInv /\ [Next]_vars
          => [\A r \in held \ held' : \E q \in held' : Newer(q, r, added)]_vars
    BY <1>1
  <1>. QED BY <1>2, Safe, PTL DEF Spec, NewestKept

-----------------------------------------------------------------------------
(* What Cleanup keeps on disk: the removed history forgets nothing, the    *)
(* ratio history stays spaced and bounded.                                 *)

(* Nothing a run holds or has saved is dated after today.                  *)
DatedBy(h, day) == \A r \in DOMAIN h : h[r].date <= day

Spaced(S) ==
    \A s, t \in S :
        s # t => /\ s.date - t.date >= Interval \/ t.date - s.date >= Interval
                 /\ s.date - t.date <= MaxAge

SamplesGood(h, day) ==
    \A r \in DOMAIN h : Spaced(h[r]) /\ \A s \in h[r] : s.date <= day

(* The strengthening: while a pass can still save it, the removed history  *)
(* in memory has every record of the one on disk, none with an earlier     *)
(* date, if the file could be opened when the pass began.                  *)
Covers(new, old) ==
    /\ DOMAIN old \subseteq DOMAIN new
    /\ \A r \in DOMAIN old : new[r].date >= old[r].date

LedgerInv ==
    /\ DatedBy(removedHistory, today)
    /\ DatedBy(ledger, today)
    /\ ~ReadFails /\ pc \in {"remove", "unlink", "saveRemoved"}
          => Covers(ledger, removedHistory)

SamplesInv == SamplesGood(ratioHistory, today) /\ SamplesGood(history, today)

FilesInv == TypeOK /\ LedgerInv /\ SamplesInv

-----------------------------------------------------------------------------
LEMMA EmptyFiles ==
    ASSUME NEW day PROVE DatedBy(Empty, day) /\ SamplesGood(Empty, day)
  BY DEF Empty, DatedBy, SamplesGood

LEMMA FilesInit == Init => FilesInv
  <1> SUFFICES ASSUME Init PROVE FilesInv
    OBVIOUS
  <1>1. TypeOK
    BY TypeInit
  <1>. QED
    BY <1>1, EmptyFiles
    DEF Init, SeederInit, CleanupInit, FilesInv, LedgerInv, SamplesInv

(* The sample of the day keeps its distance from the ones it joins, and    *)
(* pruning leaves no two farther apart than the age it prunes at.          *)
LEMMA UpdatedSpaced ==
    ASSUME NEW S \in SUBSET Sample, Spaced(S), NEW on \in Int, NEW x \in Ratio,
           NEW day \in Day, \A s \in S : s.date <= day
    PROVE  /\ Spaced(Updated(S, on, x, day))
           /\ \A s \in Updated(S, on, x, day) : s.date <= day
  <1>. DEFINE mine  == OfThisCopy(S, on)
              new   == [date |-> day, ratio |-> x]
              taken == IF SampleDue(mine, day) THEN mine \cup {new} ELSE mine
              U     == Updated(S, on, x, day)
  <1>1. mine \subseteq S
    BY DEF OfThisCopy
  <1>2. U = {s \in taken : day - s.date <= MaxAge}
    BY DEF Updated
  <1>3. \A s \in taken : s.date \in Int /\ s.date <= day
    BY <1>1 DEF Sample, Day
  <1>4. ASSUME NEW s \in taken, NEW t \in taken, s # t
        PROVE  s.date - t.date >= Interval \/ t.date - s.date >= Interval
    <2>1. CASE s \in mine /\ t \in mine
      BY <1>1, <1>4, <2>1 DEF Spaced
    <2>2. CASE s = new /\ t \in mine /\ SampleDue(mine, day)
      BY <2>2 DEF SampleDue
    <2>3. CASE t = new /\ s \in mine /\ SampleDue(mine, day)
      BY <2>3 DEF SampleDue
    <2>. QED BY <1>4, <2>1, <2>2, <2>3
  <1>5. ASSUME NEW s \in U, NEW t \in U PROVE s.date - t.date <= MaxAge
    <2>. HIDE DEF taken
    <2>. QED BY <1>2, <1>3, <1>5, HistoryAssumption DEF MaxAge, Day
  <1>6. Spaced(U)
    <2>. HIDE DEF taken, U
    <2>. QED BY <1>2, <1>4, <1>5 DEF Spaced
  <1>. QED BY <1>2, <1>3, <1>6

LEMMA UpdatedHistoryGood ==
    ASSUME FilesInv,
           NEW log \in ReadBack(ratioHistory, ReadFails),
           NEW removals \in ReadBack(removedHistory, ReadFails)
    PROVE  SamplesGood(UpdatedHistory(log, removals), today)
  <1> SUFFICES ASSUME NEW r \in held
               PROVE  LET U == Updated(Samples(r, log), RemovedOn(r, removals),
                                       ratio[r], today)
                      IN  Spaced(U) /\ \A s \in U : s.date <= today
    BY DEF SamplesGood, UpdatedHistory
  <1>a. IsDict(log, SUBSET Sample) /\ IsDict(removals, Removal)
    BY ReadDict DEF FilesInv, TypeOK, SeederTypeOK
  <1>b. SamplesGood(log, today)
    BY EmptyFiles DEF ReadBack, FilesInv, SamplesInv
  <1>1. Samples(r, log) \in SUBSET Sample
    BY <1>a DEF IsDict, Samples
  <1>2. Spaced(Samples(r, log)) /\ \A s \in Samples(r, log) : s.date <= today
    BY <1>b DEF SamplesGood, Samples, Spaced
  <1>3. RemovedOn(r, removals) \in Int
    BY <1>a DEF IsDict, Removal, Day, RemovedOn
  <1>4. ratio[r] \in Ratio /\ today \in Day
    BY DEF FilesInv, TypeOK, SeederTypeOK
  <1>. QED BY <1>1, <1>2, <1>3, <1>4, UpdatedSpaced

(* One more removal, dated today, leaves every record covered.             *)
LEMMA PutCovers ==
    ASSUME TypeOK, DatedBy(removedHistory, today), DatedBy(ledger, today),
           Covers(ledger, removedHistory), NEW r \in Release, NEW x \in Ratio
    PROVE  LET new == Put(ledger, r, [date |-> today, ratio |-> x])
           IN  DatedBy(new, today) /\ Covers(new, removedHistory)
  <1>. DEFINE new == Put(ledger, r, [date |-> today, ratio |-> x])
  <1>1. today \in Int
    BY DEF TypeOK, SeederTypeOK, Day
  <1>2. /\ DOMAIN new = DOMAIN ledger \cup {r}
        /\ new[r].date = today
        /\ \A n \in DOMAIN ledger \ {r} : new[n] = ledger[n]
    BY DEF Put
  <1>. HIDE DEF new
  <1>3. DatedBy(new, today)
    BY <1>1, <1>2 DEF DatedBy
  <1>4. Covers(new, removedHistory)
    BY <1>1, <1>2 DEF DatedBy, Covers
  <1>. QED BY <1>3, <1>4 DEF new

LEMMA CoversItself ==
    ASSUME TypeOK PROVE Covers(removedHistory, removedHistory)
  BY DEF TypeOK, SeederTypeOK, IsDict, Removal, Day, Covers

(* What a pass begins with is the file, or nothing if that did not open.   *)
LEMMA ReadLedger ==
    ASSUME FilesInv, NEW h \in ReadBack(removedHistory, ReadFails)
    PROVE  DatedBy(h, today) /\ (~ReadFails => Covers(h, removedHistory))
  <1>1. DatedBy(h, today)
    BY EmptyFiles DEF ReadBack, FilesInv, LedgerInv
  <1>2. ~ReadFails => Covers(h, removedHistory)
    BY CoversItself DEF ReadBack, FilesInv
  <1>. QED BY <1>1, <1>2

(* Once a pass is forgotten only the files count.                          *)
LEMMA ForgottenFiles ==
    ASSUME Forget, pc' \notin {"remove", "unlink", "saveRemoved"},
           UNCHANGED today,
           DatedBy(removedHistory', today), SamplesGood(ratioHistory', today)
    PROVE  LedgerInv' /\ SamplesInv'
  BY EmptyFiles DEF Forget, LedgerInv, SamplesInv

LEMMA FilesStep == FilesInv /\ [Next]_vars => FilesInv'
  <1> SUFFICES ASSUME FilesInv, [Next]_vars PROVE FilesInv'
    OBVIOUS
  <1>. USE DEF FilesInv
  <1>0. TypeOK'
    BY TypeStep
  <1>. USE DEF clockVars, daemonVars, fileVars, passVars
  <1>1. CASE BeginKeepOnlyLatest \/ BeginDiskPressure
    BY <1>0, <1>1, ReadLedger
    DEF BeginKeepOnlyLatest, BeginDiskPressure, LedgerInv, SamplesInv
  <1>2. CASE BeginStagnation
    BY <1>0, <1>2, ReadLedger, UpdatedHistoryGood
    DEF BeginStagnation, LedgerInv, SamplesInv
  <1>3. CASE CleanupUnavailable \/ FinishLoop \/ DiskBelowLimit
             \/ DiskUnavailable \/ EndRun \/ StartCleanup
    BY <1>0, <1>3
    DEF CleanupUnavailable, FinishLoop, DiskBelowLimit, DiskUnavailable,
        EndRun, StartCleanup, LedgerInv, SamplesInv
  <1>4. ASSUME NEW r \in Release, RemoveTorrent(r) PROVE FilesInv'
    BY <1>0, <1>4 DEF RemoveTorrent, LedgerInv, SamplesInv
  <1>5. ASSUME NEW r \in Release, RemoveTorrentFails(r) PROVE FilesInv'
    BY <1>0, <1>5, ForgottenFiles
    DEF RemoveTorrentFails, Abandon, AfterPass, LedgerInv, SamplesInv
  <1>6. ASSUME NEW r \in Release, RemoveWatchFile(r) PROVE FilesInv'
    <2>1. Rounded(seen[r]) \in Ratio
      BY RoundedType DEF TypeOK, CleanupTypeOK
    <2>2. /\ ledger' = Put(ledger, r,
                            [date |-> today, ratio |-> Rounded(seen[r])])
          /\ pc = "unlink"
          /\ UNCHANGED <<today, removedHistory, ratioHistory, history>>
      BY <1>6 DEF RemoveWatchFile
    <2>3. DatedBy(ledger', today)
      BY <2>2 DEF LedgerInv, DatedBy, Put, TypeOK, SeederTypeOK, Day
    <2>4. ~ReadFails => Covers(ledger', removedHistory)
      BY <2>1, <2>2, PutCovers DEF LedgerInv
    <2>. QED BY <1>0, <2>2, <2>3, <2>4 DEF LedgerInv, SamplesInv
  <1>7. CASE SaveRemovedHistory
    BY <1>0, <1>7, ForgottenFiles
    DEF SaveRemovedHistory, Abandon, AfterPass, LedgerInv, SamplesInv
  <1>8. CASE SaveRatioHistory \/ SaveFails \/ Stop
    BY <1>0, <1>8, ForgottenFiles
    DEF SaveRatioHistory, SaveFails, Stop, Abandon, AfterPass, LedgerInv,
        SamplesInv
  <1>9. CASE Tick /\ UNCHANGED passVars
    <2>1. today \in Int /\ today' \in Int /\ today <= today'
      BY <1>0, <1>9 DEF Tick, TypeOK, SeederTypeOK, Day
    <2>2. pc' = "idle" /\ UNCHANGED <<removedHistory, ratioHistory, ledger, history>>
      BY <1>9 DEF Tick
    <2>3. LedgerInv'
      BY <2>1, <2>2
      DEF LedgerInv, DatedBy, TypeOK, SeederTypeOK, CleanupTypeOK, IsDict,
          Removal, Day
    <2>4. SamplesInv'
      BY <2>1, <2>2
      DEF SamplesInv, SamplesGood, TypeOK, SeederTypeOK, CleanupTypeOK, IsDict,
          Sample, Day
    <2>. QED BY <1>0, <2>3, <2>4
  <1>10. ASSUME NEW r \in Release,
                NewWatchFile(r) \/ ((Load(r) \/ Grow(r)) /\ UNCHANGED passVars)
         PROVE  FilesInv'
    BY <1>0, <1>10 DEF NewWatchFile, Load, Grow, LedgerInv, SamplesInv
  <1>11. CASE OtherUse /\ UNCHANGED passVars
    BY <1>0, <1>11 DEF OtherUse, LedgerInv, SamplesInv
  <1>12. CASE UNCHANGED vars
    BY <1>0, <1>12 DEF vars, seederVars, LedgerInv, SamplesInv
  <1>. QED
    BY <1>1, <1>2, <1>3, <1>4, <1>5, <1>6, <1>7, <1>8, <1>9, <1>10, <1>11, <1>12
    DEF Next, CleanupStep, Environment

LEMMA FilesKept == Spec => []FilesInv
  BY FilesInit, FilesStep, PTL DEF Spec

(* However long the container runs, a torrent's samples lie at least the   *)
(* interval apart and within window plus interval of each other.           *)
THEOREM HistoryBounded == Spec => []SamplesSpaced
  <1>1. FilesInv => SamplesSpaced
    BY DEF FilesInv, SamplesInv, SamplesGood, Spaced, SamplesSpaced
  <1>. QED BY <1>1, FilesKept, PTL

(* The removed history is only ever written by a pass that still has all   *)
(* of it.                                                                  *)
LEMMA HistorySaves ==
    ASSUME FilesInv, [Next]_vars, removedHistory' # removedHistory
    PROVE  pc = "saveRemoved" /\ removedHistory' = ledger
  BY DEF Next, CleanupStep, Environment, clockVars, daemonVars, fileVars,
         passVars, vars, seederVars, BeginKeepOnlyLatest, BeginStagnation,
         CleanupUnavailable, RemoveTorrent, RemoveTorrentFails,
         RemoveWatchFile, FinishLoop, SaveRemovedHistory, SaveRatioHistory,
         SaveFails, DiskBelowLimit, BeginDiskPressure, DiskUnavailable, EndRun,
         StartCleanup, Stop, NewWatchFile, Tick, OtherUse, Load, Grow

(* As long as the file can be opened, whatever else fails and wherever a   *)
(* run is stopped, no record of a removal is lost from it again and none   *)
(* goes back in time.  A pass that cannot open it does lose them.          *)
THEOREM RemovedHistoryKept ==
    ASSUME "read" \notin Faults PROVE Spec => RemovedHistoryGrows
  <1>1. ASSUME FilesInv, [Next]_vars
        PROVE  Covers(removedHistory', removedHistory)
    <2>1. CASE removedHistory' = removedHistory
      BY <1>1, <2>1, CoversItself DEF FilesInv
    <2>2. CASE removedHistory' # removedHistory
      BY <1>1, <2>2, HistorySaves DEF FilesInv, LedgerInv, ReadFails
    <2>. QED BY <2>1, <2>2
  <1>. DEFINE Grows ==
         /\ DOMAIN removedHistory \subseteq DOMAIN removedHistory'
         /\ \A r \in DOMAIN removedHistory :
               removedHistory'[r].date >= removedHistory[r].date
  <1>2. FilesInv /\ [Next]_vars => [Grows]_vars
    BY <1>1 DEF Covers
  <1>. QED BY <1>2, FilesKept, PTL DEF Spec, RemovedHistoryGrows
=============================================================================
