-------------------------- MODULE DailyRun_proof --------------------------
(***************************************************************************)
(* The whole daily run implements Cleanup (CleansUp), for every value of   *)
(* the constants.                                                          *)
(***************************************************************************)
EXTENDS DailyRun, TLAPS

(* A run that has begun is not due any more: what lets its handing over to *)
(* cleanup be Cleanup's start of a run.                                    *)
NotDueTwice == pc # "idle" => ~due

(* Cleaning and Half take the same decisions from the same names.          *)
LEMMA SameDecisions ==
    /\ Cleaning!Superseded(held, added) = Half!Superseded(held, added)
    /\ Cleaning!DiskFull <=> Half!DiskFull
    /\ \A l, h : Cleaning!UpdatedHistory(l, h) = Half!UpdatedHistory(l, h)
    /\ \A d : Cleaning!ReadBack(d, Cleaning!ReadFails) = Half!ReadBack(d, Half!ReadFails)
    /\ \A r : Cleaning!IsNext(r) <=> Half!IsNext(r)
    /\ \A x : Cleaning!Rounded(x) = Half!Rounded(x)
    /\ \A S, x : Cleaning!Stagnant(S, x, today) <=> Half!Stagnant(S, x, today)
    /\ \A d, r, v : Cleaning!Put(d, r, v) = Half!Put(d, r, v)
    /\ Cleaning!Empty = Half!Empty
  <1>1. \A q, r : Cleaning!Newer(q, r, added) <=> Half!Newer(q, r, added)
    BY DEF Cleaning!Newer, Half!Newer, Cleaning!Rank, Half!Rank
  <1>2. Cleaning!Superseded(held, added) = Half!Superseded(held, added)
    BY <1>1 DEF Cleaning!Superseded, Half!Superseded
  <1>3. Cleaning!DiskFull <=> Half!DiskFull
    <2>1. Cleaning!Cardinality(held) = Half!Cardinality(held)
      BY DEF Cleaning!Cardinality, Half!Cardinality, Cleaning!IsFiniteSet, Half!IsFiniteSet
    <2>2. QED
      BY <2>1 DEF Cleaning!DiskFull, Half!DiskFull, Cleaning!UsedSpace, Half!UsedSpace
  <1>4. \A l, h : Cleaning!UpdatedHistory(l, h) = Half!UpdatedHistory(l, h)
    BY DEF Cleaning!UpdatedHistory, Half!UpdatedHistory, Cleaning!Updated, Half!Updated,
         Cleaning!Samples, Half!Samples, Cleaning!RemovedOn, Half!RemovedOn,
         Cleaning!OfThisCopy, Half!OfThisCopy, Cleaning!SampleDue, Half!SampleDue,
         Cleaning!MaxAge, Half!MaxAge
  <1>5. \A r : Cleaning!IsNext(r) <=> Half!IsNext(r)
    BY <1>1, <1>3 DEF Cleaning!IsNext, Half!IsNext
  <1>6. \A x : Cleaning!Rounded(x) = Half!Rounded(x)
    BY DEF Cleaning!Rounded, Half!Rounded
  <1>7. \A S, x : Cleaning!Stagnant(S, x, today) <=> Half!Stagnant(S, x, today)
    BY DEF Cleaning!Stagnant, Half!Stagnant, Cleaning!OldEnough, Half!OldEnough,
           Cleaning!IsAnchor, Half!IsAnchor
  <1>8. \A d, r, v : Cleaning!Put(d, r, v) = Half!Put(d, r, v)
    BY DEF Cleaning!Put, Half!Put
  <1>9. Cleaning!Empty = Half!Empty
    BY DEF Cleaning!Empty, Half!Empty
  <1>10. \A d : Cleaning!ReadBack(d, Cleaning!ReadFails) = Half!ReadBack(d, Half!ReadFails)
    BY DEF Cleaning!ReadBack, Half!ReadBack, Cleaning!ReadFails, Half!ReadFails,
           Cleaning!Empty, Half!Empty
  <1>11. QED
    BY <1>2, <1>3, <1>4, <1>5, <1>6, <1>7, <1>8, <1>9, <1>10

LEMMA CleansUpInit == Init => Half!Init
  BY DEF Init, SeederInit, FetchPC, Cleaning!CleanupInit, Half!Init, Half!SeederInit,
         Half!CleanupInit, Cleaning!Empty, Half!Empty, Empty

(* Where pc is one of cleanup's own, Half sees it as it is.                *)
LEMMA CleaningImplements ==
    ASSUME Cleaning!CleanupStep
    PROVE  Half!CleanupStep
  <1>. USE SameDecisions
       DEF FetchPC, Cleaning!clockVars, Half!clockVars, Cleaning!daemonVars,
           Half!daemonVars, Cleaning!fileVars, Half!fileVars, Cleaning!passVars,
           Half!passVars
  <1>1. ASSUME Cleaning!BeginKeepOnlyLatest PROVE Half!BeginKeepOnlyLatest
    BY <1>1 DEF Cleaning!BeginKeepOnlyLatest, Half!BeginKeepOnlyLatest
  <1>2. ASSUME Cleaning!BeginStagnation PROVE Half!BeginStagnation
    BY <1>2 DEF Cleaning!BeginStagnation, Half!BeginStagnation
  <1>3. ASSUME Cleaning!CleanupUnavailable PROVE Half!CleanupUnavailable
    BY <1>3 DEF Cleaning!CleanupUnavailable, Half!CleanupUnavailable
  <1>4. ASSUME Cleaning!FinishLoop PROVE Half!FinishLoop
    BY <1>4 DEF Cleaning!FinishLoop, Half!FinishLoop
  <1>5. ASSUME Cleaning!SaveRemovedHistory PROVE Half!SaveRemovedHistory
    BY <1>5 DEF Cleaning!SaveRemovedHistory, Half!SaveRemovedHistory, Cleaning!Abandon, Half!Abandon, Cleaning!AfterPass,
       Half!AfterPass, Cleaning!Forget, Half!Forget
  <1>6. ASSUME Cleaning!SaveRatioHistory PROVE Half!SaveRatioHistory
    BY <1>6 DEF Cleaning!SaveRatioHistory, Half!SaveRatioHistory, Cleaning!Abandon, Half!Abandon, Cleaning!AfterPass,
       Half!AfterPass, Cleaning!Forget, Half!Forget
  <1>7. ASSUME Cleaning!SaveFails PROVE Half!SaveFails
    BY <1>7 DEF Cleaning!SaveFails, Half!SaveFails, Cleaning!Abandon, Half!Abandon, Cleaning!AfterPass,
       Half!AfterPass, Cleaning!Forget, Half!Forget
  <1>8. ASSUME Cleaning!DiskBelowLimit PROVE Half!DiskBelowLimit
    BY <1>8 DEF Cleaning!DiskBelowLimit, Half!DiskBelowLimit
  <1>9. ASSUME Cleaning!BeginDiskPressure PROVE Half!BeginDiskPressure
    BY <1>9 DEF Cleaning!BeginDiskPressure, Half!BeginDiskPressure
  <1>10. ASSUME Cleaning!DiskUnavailable PROVE Half!DiskUnavailable
    BY <1>10 DEF Cleaning!DiskUnavailable, Half!DiskUnavailable
  <1>11. ASSUME Cleaning!EndRun PROVE Half!EndRun
    BY <1>11 DEF Cleaning!EndRun, Half!EndRun
  <1>12. ASSUME NEW r \in Release, Cleaning!RemoveTorrent(r) PROVE Half!RemoveTorrent(r)
    BY <1>12 DEF Cleaning!RemoveTorrent, Half!RemoveTorrent, Cleaning!Removed, Half!Removed
  <1>13. ASSUME NEW r \in Release, Cleaning!RemoveTorrentFails(r) PROVE Half!RemoveTorrentFails(r)
    BY <1>13 DEF Cleaning!RemoveTorrentFails, Half!RemoveTorrentFails, Cleaning!Removed, Half!Removed, Cleaning!Abandon, Half!Abandon, Cleaning!AfterPass,
       Half!AfterPass, Cleaning!Forget, Half!Forget
  <1>14. ASSUME NEW r \in Release, Cleaning!RemoveWatchFile(r) PROVE Half!RemoveWatchFile(r)
    BY <1>14 DEF Cleaning!RemoveWatchFile, Half!RemoveWatchFile
  <1>15. QED
    BY <1>1, <1>2, <1>3, <1>4, <1>5, <1>6, <1>7, <1>8, <1>9, <1>10, <1>11, <1>12, <1>13, <1>14
    DEF Cleaning!CleanupStep, Half!CleanupStep

(* What the stop of a run, and the daemon and its surroundings, do.        *)
LEMMA StopImplements ==
    ASSUME pc \in Cleaning!CleanupPC, Cleaning!Stop
    PROVE  Half!Stop
  BY SameDecisions
  DEF FetchPC, Cleaning!CleanupPC, Cleaning!Stop, Half!Stop, Cleaning!Forget, Half!Forget,
      Cleaning!daemonVars, Half!daemonVars, Cleaning!fileVars, Half!fileVars

LEMMA SurroundingImplements ==
    ASSUME Environment
    PROVE  Half!Environment
  <1>. USE DEF FetchPC, clockVars, daemonVars, fileVars, Half!clockVars,
              Half!daemonVars, Half!fileVars
  <1>1. ASSUME Tick PROVE Half!Tick
    BY <1>1 DEF Tick, Half!Tick
  <1>2. ASSUME OtherUse PROVE Half!OtherUse
    BY <1>2 DEF OtherUse, Half!OtherUse
  <1>3. ASSUME NEW r \in Release, Load(r) PROVE Half!Load(r)
    BY <1>3 DEF Load, Half!Load
  <1>4. ASSUME NEW r \in Release, Grow(r) PROVE Half!Grow(r)
    BY <1>4 DEF Grow, Half!Grow
  <1>5. QED
    BY <1>1, <1>2, <1>3, <1>4 DEF Environment, Half!Environment

(* A step of the first half is no step of Cleanup, but for a file written  *)
(* to the watch folder and for the hand-over.                              *)
LEMMA FetchingImplements ==
    ASSUME FetchingStep, UNCHANGED passVars, NotDueTwice
    PROVE  \/ Half!StartCleanup
           \/ \E r \in Release : Half!NewWatchFile(r)
           \/ UNCHANGED Half!vars
  <1>. USE DEF FetchPC, passVars, clockVars, daemonVars, fileVars, seederVars,
              Half!clockVars, Half!daemonVars, Half!fileVars, Half!seederVars,
              Half!passVars
  <1>1. ASSUME NEW r \in Release, Download(r) PROVE Half!NewWatchFile(r)
    BY <1>1 DEF Download, Half!NewWatchFile
  <1>2. ASSUME NEW r \in Release, CheckedInDemand(r) PROVE Half!NewWatchFile(r)
    BY <1>2 DEF CheckedInDemand, PassedOver, Half!NewWatchFile
  <1>3. ASSUME LogRatios PROVE Half!StartCleanup
    BY <1>3 DEF LogRatios, Half!StartCleanup, NotDueTwice
  <1>4. ASSUME NEW r \in Release,
               \/ LeaveRelease(r) \/ PassOver(r) \/ CheckedNoDemand(r)
               \/ AddingFails(r) \/ EvaluationRaises(r)
        PROVE  UNCHANGED Half!vars
    BY <1>4 DEF LeaveRelease, PassOver, CheckedNoDemand, AddingFails,
                EvaluationRaises, Half!vars
  <1>5. ASSUME NEW t \in IsoTypes, ReadSite(t) PROVE UNCHANGED Half!vars
    BY <1>5 DEF ReadSite, Half!vars
  <1>6. ASSUME StartRun PROVE UNCHANGED Half!vars
    BY <1>6 DEF StartRun, Half!vars
  <1>7. ASSUME EndFetch \/ BeginOldCheck \/ AbandonOldCheck \/ EndOldCheck
        PROVE  UNCHANGED Half!vars
    BY <1>7 DEF EndFetch, BeginOldCheck, AbandonOldCheck, EndOldCheck, Half!vars
  <1>8. ASSUME StopLogging \/ StopFetching PROVE UNCHANGED Half!vars
    BY <1>8 DEF StopLogging, StopFetching, Half!vars
  <1>9. QED
    BY <1>1, <1>2, <1>3, <1>4, <1>5, <1>6, <1>7, <1>8 DEF FetchingStep

LEMMA CleansUpStep == NotDueTwice /\ [Next]_vars => [Half!Next]_Half!vars
  <1>1. SUFFICES ASSUME NotDueTwice, [Next]_vars PROVE [Half!Next]_Half!vars
    OBVIOUS
  <1>2. CASE Fetch
    BY <1>1, <1>2, FetchingImplements DEF Fetch, Half!Next
  <1>3. CASE Clean
    BY <1>3, CleaningImplements DEF Clean, Half!Next
  <1>4. CASE StopRun
    BY <1>4, StopImplements DEF StopRun, Half!Next
  <1>5. CASE Surrounding
    BY <1>5, SurroundingImplements
       DEF Surrounding, Half!Next, passVars, Half!passVars
  <1>6. CASE Upstream
    BY <1>6 DEF Upstream, Publish, Half!vars, seederVars, clockVars, daemonVars,
           fileVars, passVars, Half!seederVars, Half!clockVars, Half!daemonVars,
           Half!fileVars, Half!passVars
  <1>7. CASE UNCHANGED vars
    BY <1>7 DEF vars, Half!vars, seederVars, clockVars, daemonVars, fileVars, passVars,
           Half!seederVars, Half!clockVars, Half!daemonVars, Half!fileVars, Half!passVars
  <1>8. QED
    BY <1>1, <1>2, <1>3, <1>4, <1>5, <1>6, <1>7 DEF Next

LEMMA NotDueTwiceInv == Spec => []NotDueTwice
  <1>1. Init => NotDueTwice
    BY DEF Init, SeederInit, NotDueTwice
  <1>2. NotDueTwice /\ [Next]_vars => NotDueTwice'
    <2>1. SUFFICES ASSUME NotDueTwice, [Next]_vars PROVE NotDueTwice'
      OBVIOUS
    <2>. USE DEF NotDueTwice
    <2>2. CASE Fetch
      BY <2>1, <2>2
      DEF Fetch, FetchingStep, StartRun, ReadSite, LeaveRelease, Download, PassOver,
          CheckedNoDemand, CheckedInDemand, AddingFails, EvaluationRaises, EndFetch,
          BeginOldCheck, AbandonOldCheck, EndOldCheck, LogRatios, StopLogging, StopFetching, clockVars, seederVars
    <2>3. CASE Clean
      BY <2>1, <2>3
      DEF Clean, Cleaning!CleanupStep, Cleaning!BeginKeepOnlyLatest,
          Cleaning!BeginStagnation, Cleaning!CleanupUnavailable, Cleaning!RemoveTorrent,
          Cleaning!RemoveTorrentFails, Cleaning!RemoveWatchFile, Cleaning!FinishLoop,
          Cleaning!SaveRemovedHistory, Cleaning!SaveRatioHistory, Cleaning!SaveFails,
          Cleaning!DiskBelowLimit, Cleaning!BeginDiskPressure, Cleaning!DiskUnavailable,
          Cleaning!EndRun, Cleaning!clockVars
    <2>4. CASE StopRun
      BY <2>4 DEF StopRun, Cleaning!Stop
    <2>5. CASE Surrounding
      BY <2>1, <2>5 DEF Surrounding, Environment, Tick, OtherUse, Load, Grow, clockVars
    <2>6. CASE Upstream
      BY <2>1, <2>6 DEF Upstream, Publish, seederVars, clockVars
    <2>7. CASE UNCHANGED vars
      BY <2>1, <2>7 DEF vars, seederVars, clockVars
    <2>8. QED
      BY <2>1, <2>2, <2>3, <2>4, <2>5, <2>6, <2>7 DEF Next
  <1>3. QED
    BY <1>1, <1>2, PTL DEF Spec

(* The whole run is a run of Cleanup: its first half does nothing to the   *)
(* daemon, the watch folder, the disk or the histories but write files     *)
(* where there are none, whatever fails and wherever it is stopped.        *)
THEOREM RunCleansUp == Spec => CleansUp
  <1>1. Init => Half!Init
    BY CleansUpInit
  <1>2. NotDueTwice /\ [Next]_vars => [Half!Next]_Half!vars
    BY CleansUpStep
  <1>3. QED
    BY <1>1, <1>2, NotDueTwiceInv, PTL DEF Spec, CleansUp, Half!Spec
=============================================================================
