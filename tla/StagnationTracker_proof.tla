---------------------- MODULE StagnationTracker_proof ----------------------
(***************************************************************************)
(* Proofs about StagnationTracker: for every window, interval and growth   *)
(* threshold there is always a sample to judge by, and a torrent that has  *)
(* stopped growing is removed within window plus interval days.            *)
(***************************************************************************)
EXTENDS StagnationTracker, WellFoundedInduction, TLAPS

(* The constants as numbers.                                               *)
LEMMA Numbers ==
    /\ Interval \in Nat /\ Interval >= 1
    /\ Window \in Nat /\ MinDelta \in Nat /\ MinDelta >= 1
    /\ MaxAge \in Nat /\ MaxAge = Window + Interval
    /\ Enough \in Nat /\ Enough = MaxAge + 1
    /\ MaxRatio \in Nat /\ MaxMisses \in Nat
  BY HistoryAssumption, TrackerAssumption DEF MaxAge, Enough

LEMMA CountOnType ==
    ASSUME NEW n \in 0 .. Enough
    PROVE  CountOn(n) \in 0 .. Enough /\ n <= CountOn(n) /\ CountOn(n) <= n + 1
  BY Numbers DEF CountOn

(* What is in the history after a run: samples kept and today's.           *)
LEMMA SampledFrom ==
    ASSUME TypeOK
    PROVE  /\ \A s \in Sampled : /\ s \in samples \cup {[date |-> 0, ratio |-> ratio]}
                                 /\ s.date <= 0 /\ -s.date <= MaxAge
           /\ \A s \in samples : -s.date <= MaxAge => s \in Sampled
  BY Numbers DEF TypeOK, Sampled, Updated, OfThisCopy, SampleDue, NoRemoval

(* A run leaves a sample younger than the interval.                        *)
LEMMA SampledFresh ==
    ASSUME TypeOK
    PROVE  \E s \in Sampled : -s.date < Interval
  <1>. DEFINE mine == OfThisCopy(samples, NoRemoval)
  <1>1. \A s \in mine : s \in samples /\ s.date \in Int /\ s.date <= 0
    BY DEF OfThisCopy, TypeOK
  <1>2. CASE SampleDue(mine, 0)
    <2>. DEFINE new == [date |-> 0, ratio |-> ratio]
    <2>1. 0 - new.date <= MaxAge /\ -new.date < Interval
      BY Numbers
    <2>2. new \in Sampled
      BY <1>2, <2>1 DEF Sampled, Updated
    <2>. QED BY <2>1, <2>2
  <1>3. CASE ~SampleDue(mine, 0)
    <2>1. PICK s \in mine : ~(0 - s.date >= Interval)
      BY <1>3 DEF SampleDue
    <2>2. -s.date < Interval /\ -s.date <= MaxAge
      BY <1>1, <2>1, Numbers
    <2>. QED BY <1>1, <2>2, SampledFrom
  <1>. QED BY <1>2, <1>3

LEMMA SampledType ==
    ASSUME TypeOK
    PROVE  /\ Sampled \subseteq [date : Int, ratio : 0 .. MaxRatio]
           /\ \A s \in Sampled : s.date <= 0
  BY SampledFrom DEF TypeOK

LEMMA AgedType ==
    ASSUME TypeOK
    PROVE  /\ Aged(samples) \subseteq [date : Int, ratio : 0 .. MaxRatio]
           /\ \A s \in Aged(samples) : s.date <= -1
           /\ \A s \in Aged(samples) : \E t \in samples :
                 s.date = t.date - 1 /\ s.ratio = t.ratio
           /\ \A t \in samples : \E s \in Aged(samples) :
                 s.date = t.date - 1 /\ s.ratio = t.ratio
  <1>. DEFINE older(t) == [t EXCEPT !.date = @ - 1]
  <1>1. ASSUME NEW t \in samples
        PROVE  /\ older(t) \in [date : Int, ratio : 0 .. MaxRatio]
               /\ older(t).date = t.date - 1 /\ older(t).ratio = t.ratio
               /\ t.date \in Int /\ t.date <= 0
    <2>1. t \in [date : Int, ratio : 0 .. MaxRatio] /\ t.date <= 0
      BY DEF TypeOK
    <2>2. t.date - 1 \in Int
      BY <2>1
    <2>. QED BY <2>1, <2>2
  <1>2. Aged(samples) = {older(t) : t \in samples}
    BY DEF Aged
  <1>. HIDE DEF older
  <1>3. \A s \in Aged(samples) : s.date <= -1
    BY <1>1, <1>2
  <1>. QED BY <1>1, <1>2, <1>3

-----------------------------------------------------------------------------
(* The strengthening: after n daily runs in a row, every age below n and   *)
(* up to the window has a sample no more than an interval older; what is   *)
(* as young as the flat days carries the present ratio.  Overnight, before *)
(* the day's run, both are a day older.                                    *)
Covered(from) ==
    \A a \in from .. Window : a < streak + from =>
        \E s \in samples : a <= -s.date /\ -s.date <= a + Interval

FlatSince(from) ==
    \A s \in samples : -s.date < flat + from => s.ratio = ratio

TrackInv ==
    /\ TypeOK
    /\ flat <= streak
    /\ IF ran THEN Covered(0) /\ FlatSince(0)
       ELSE /\ Covered(1) /\ FlatSince(1)
            /\ \A s \in samples : s.date <= -1

LEMMA TrackInit == Init => TrackInv
  <1>. SUFFICES ASSUME Init PROVE TrackInv
    OBVIOUS
  <1>1. TypeOK /\ flat <= streak
    <2>1. 0 \in 0 .. MaxRatio /\ 0 \in 0 .. MaxMisses /\ 0 \in 0 .. Enough
      BY Numbers
    <2>2. samples \subseteq [date : Int, ratio : 0 .. MaxRatio]
      BY DEF Init
    <2>3. \A s \in samples : s.date <= 0
      BY DEF Init
    <2>4. /\ ratio \in 0 .. MaxRatio /\ misses \in 0 .. MaxMisses
          /\ streak \in 0 .. Enough /\ flat \in 0 .. Enough /\ flat <= streak
      BY <2>1 DEF Init
    <2>. QED BY <2>2, <2>3, <2>4 DEF Init, TypeOK
  <1>2. Covered(1) /\ FlatSince(1) /\ \A s \in samples : s.date <= -1
    BY Numbers DEF Init, Covered, FlatSince
  <1>. QED BY <1>1, <1>2 DEF Init, TrackInv

(* A run, the first of its day or a later one, whose samples are saved.    *)
LEMMA RunTracked ==
    ASSUME TrackInv, samples' = Sampled, ratio' = ratio, ran' = TRUE,
           \/ ~ran /\ streak' = CountOn(streak) /\ flat' = CountOn(flat)
           \/ ran /\ streak' = streak /\ flat' = flat
    PROVE  Covered(0)' /\ FlatSince(0)' /\ flat' <= streak'
  <1>. USE DEF TrackInv
  <1>1. streak \in 0 .. Enough /\ flat \in 0 .. Enough /\ flat <= streak
    BY DEF TypeOK
  <1>2. flat' <= streak'
    BY <1>1, Numbers DEF CountOn
  <1>3. Covered(0)'
    <2>. SUFFICES ASSUME NEW a \in 0 .. Window, a < streak'
                  PROVE  \E s \in Sampled : a <= -s.date /\ -s.date <= a + Interval
      <3>1. streak' + 0 = streak'
        BY <1>1, CountOnType
      <3>. QED BY <3>1 DEF Covered
    <2>1. CASE a = 0
      <3>1. PICK s \in Sampled : -s.date < Interval
        BY SampledFresh
      <3>2. s.date \in Int /\ s.date <= 0
        BY SampledType
      <3>. QED BY <2>1, <3>1, <3>2, Numbers
    <2>2. CASE a >= 1
      <3>1. \E s \in samples : a <= -s.date /\ -s.date <= a + Interval
        BY <2>2, <1>1, CountOnType, Numbers DEF Covered
      <3>2. PICK s \in samples : a <= -s.date /\ -s.date <= a + Interval
        BY <3>1
      <3>3. s.date \in Int
        BY DEF TypeOK
      <3>4. -s.date <= MaxAge
        BY <3>2, <3>3, Numbers
      <3>. QED BY <3>2, <3>4, SampledFrom
    <2>. QED BY <2>1, <2>2, Numbers
  <1>4. FlatSince(0)'
    <2>. SUFFICES ASSUME NEW s \in Sampled, -s.date < flat'
                  PROVE  s.ratio = ratio
      BY CountOnType, <1>1, SampledType DEF FlatSince
    <2>1. CASE s = [date |-> 0, ratio |-> ratio]
      BY <2>1
    <2>2. CASE s \in samples
      BY <2>2, <1>1, CountOnType, SampledType DEF FlatSince, TypeOK
    <2>. QED BY <2>1, <2>2, SampledFrom
  <1>. QED BY <1>2, <1>3, <1>4

LEMMA TrackStep == TrackInv /\ [Next]_vars => TrackInv'
  <1>. SUFFICES ASSUME TrackInv, [Next]_vars PROVE TrackInv'
    OBVIOUS
  <1>. USE DEF TrackInv
  <1>0. streak \in 0 .. Enough /\ flat \in 0 .. Enough /\ Judged \in BOOLEAN
    BY DEF TypeOK, Judged, Stagnant
  <1>1. CASE DailyRun
    <2>1. TypeOK'
      BY <1>1, <1>0, SampledType, CountOnType DEF DailyRun, TypeOK
    <2>. QED BY <1>1, <2>1, RunTracked DEF DailyRun
  <1>2. CASE SecondRun
    <2>1. TypeOK'
      BY <1>2, <1>0, SampledType DEF SecondRun, TypeOK
    <2>. QED BY <1>2, <2>1, RunTracked DEF SecondRun
  <1>3. CASE UnsavedRun
    BY <1>3, <1>0 DEF UnsavedRun, TypeOK, Covered, FlatSince
  <1>4. CASE NextDay
    <2>1. TypeOK' /\ \A s \in samples' : s.date <= -1
      <3>1. /\ samples' \subseteq [date : Int, ratio : 0 .. MaxRatio]
            /\ \A s \in samples' : s.date <= -1
        BY <1>4, AgedType DEF NextDay
      <3>2. \A s \in samples' : s.date <= 0
        BY <3>1
      <3>. QED BY <1>4, <3>1, <3>2 DEF NextDay, TypeOK
    <2>2. Covered(1)'
      <3>. SUFFICES ASSUME NEW a \in 1 .. Window, a < streak + 1
                    PROVE  \E s \in samples' : a <= -s.date /\ -s.date <= a + Interval
        BY <1>4 DEF Covered, NextDay
      <3>1. PICK t \in samples : a - 1 <= -t.date /\ -t.date <= a - 1 + Interval
        BY <1>4, <1>0, Numbers DEF Covered, NextDay
      <3>2. PICK s \in samples' : s.date = t.date - 1
        BY <1>4, AgedType DEF NextDay
      <3>. QED BY <3>1, <3>2, Numbers DEF TypeOK
    <2>3. FlatSince(1)'
      <3>. SUFFICES ASSUME NEW s \in samples', -s.date < flat + 1
                    PROVE  s.ratio = ratio
        BY <1>4 DEF FlatSince, NextDay
      <3>1. PICK t \in samples : s.date = t.date - 1 /\ s.ratio = t.ratio
        BY <1>4, AgedType DEF NextDay
      <3>2. -t.date < flat
        BY <3>1, <1>0 DEF TypeOK
      <3>. QED BY <1>4, <3>1, <3>2, <1>0 DEF FlatSince, NextDay
    <2>. QED BY <1>4, <2>1, <2>2, <2>3 DEF NextDay
  <1>5. CASE DayMissed
    <2>1. TypeOK' /\ \A s \in samples' : s.date <= -1
      BY <1>5, AgedType, Numbers DEF DayMissed, TypeOK
    <2>2. Covered(1)' /\ FlatSince(1)'
      BY <1>5, <2>1 DEF DayMissed, Covered, FlatSince, TypeOK
    <2>. QED BY <1>5, <2>1, <2>2 DEF DayMissed
  <1>6. CASE Grow
    <2>1. TypeOK'
      BY <1>6, Numbers DEF Grow, TypeOK
    <2>2. \A n \in {0, 1} : Covered(n) => Covered(n)'
      BY <1>6 DEF Grow, Covered
    <2>3. ran => FlatSince(0)'
      BY <1>6 DEF Grow, FlatSince, TypeOK
    <2>4. ~ran => FlatSince(1)'
      BY <1>6 DEF Grow, FlatSince, TypeOK
    <2>. QED BY <1>6, <2>1, <2>2, <2>3, <2>4, <1>0 DEF Grow
  <1>7. CASE Supersede
    BY <1>7 DEF Supersede, TypeOK, Covered, FlatSince
  <1>8. CASE UNCHANGED vars
    BY <1>8 DEF vars, TypeOK, Covered, FlatSince
  <1>. QED BY <1>1, <1>2, <1>3, <1>4, <1>5, <1>6, <1>7, <1>8 DEF Next

LEMMA Track == Spec => []TrackInv
  BY TrackInit, TrackStep, PTL DEF Spec

(* Every variable of StagnationTracker keeps its type.                     *)
THEOREM TrackerTypeCorrect == Spec => []TypeOK
  <1>1. TrackInv => TypeOK
    BY DEF TrackInv
  <1>. QED BY <1>1, Track, PTL

(* However many samples are pruned, and whatever days were missed before,  *)
(* more than a window of daily runs leaves a sample to judge by.           *)
THEOREM AnchorAlwaysKept == Spec => []AnchorKept
  <1>1. TrackInv => AnchorKept
    <2>. SUFFICES ASSUME TrackInv, ran, streak > Window
                  PROVE  OldEnough(samples, 0) # {}
      BY DEF AnchorKept
    <2>1. PICK s \in samples : Window <= -s.date
      BY Numbers DEF TrackInv, Covered, TypeOK
    <2>2. s.date \in Int
      BY DEF TrackInv, TypeOK
    <2>. QED BY <2>1, <2>2, Numbers DEF OldEnough
  <1>. QED BY <1>1, Track, PTL

-----------------------------------------------------------------------------
(* Among samples old enough to judge by, one is the oldest.                *)
LEMMA AnchorExists ==
    ASSUME TypeOK, OldEnough(Sampled, 0) # {}
    PROVE  \E a \in Sampled : IsAnchor(a, Sampled, 0)
  <1>. DEFINE Old  == OldEnough(Sampled, 0)
              Mark(s) == MaxAge + s.date
              Marks == {Mark(s) : s \in Old}
  <1>1. \A s \in Old : s \in Sampled /\ s.date \in Int /\ Mark(s) \in Nat
    BY SampledFrom, SampledType, Numbers DEF OldEnough
  <1>2. Marks \subseteq Nat /\ Marks # {}
    BY <1>1
  <1>3. PICK m \in Marks : \A n \in Marks : ~(<<n, m>> \in OpToRel(<, Nat))
    <2>. HIDE DEF Marks
    <2>. QED BY <1>2, NatLessThanWellFounded, WFMin
  <1>4. \A n \in Marks : m <= n
    <2>. HIDE DEF Marks
    <2>1. ASSUME NEW n \in Marks PROVE ~(n < m)
      BY <1>2, <1>3 DEF OpToRel
    <2>. QED BY <1>2, <2>1
  <1>5. PICK a \in Old : m = Mark(a)
    OBVIOUS
  <1>6. ASSUME NEW s \in Old PROVE a.date <= s.date
    <2>1. Mark(a) <= Mark(s)
      BY <1>4, <1>5
    <2>. QED BY <1>1, <2>1, Numbers
  <1>. QED BY <1>1, <1>6 DEF IsAnchor

(* A superseded torrent whose ratio has not changed for window plus        *)
(* interval days of runs is removed by the run that sees the last of them. *)
THEOREM FlatAlwaysRemoved == Spec => FlatIsRemoved
  <1>1. ASSUME TrackInv, TrackInv', [Next]_vars
        PROVE  superseded /\ ~ran /\ ran' /\ flat' = Enough => gone'
    <2>. SUFFICES ASSUME superseded, ~ran, ran', flat' = Enough
                  PROVE  gone'
      OBVIOUS
    <2>1. DailyRun
      BY <1>1 DEF Next, vars, SecondRun, UnsavedRun, NextDay, DayMissed,
                  Grow, Supersede, TrackInv, TypeOK
    <2>2. samples' = Sampled /\ gone' = Judged /\ ratio' = ratio
      BY <2>1 DEF DailyRun
    <2>3. Covered(0)' /\ FlatSince(0)' /\ TypeOK
      BY <1>1 DEF TrackInv
    <2>10. streak' > Window
      BY <1>1, Numbers DEF TrackInv, TypeOK
    <2>4. PICK s \in Sampled : Window <= -s.date
      <3>1. \A n \in 0 .. Window : n < streak' + 0 =>
               \E s \in Sampled : n <= -s.date /\ -s.date <= n + Interval
        BY <2>2, <2>3 DEF Covered
      <3>2. streak' \in Nat /\ Window \in 0 .. Window
        BY <1>1, Numbers DEF TrackInv, TypeOK
      <3>3. Window < streak' + 0
        <4>. DEFINE n == streak'
        <4>1. n \in Nat /\ n > Window
          BY <2>10, <3>2
        <4>. HIDE DEF n
        <4>2. Window < n + 0
          BY <4>1, Numbers
        <4>. QED BY <4>2 DEF n
      <3>. QED BY <3>1, <3>2, <3>3
    <2>5. OldEnough(Sampled, 0) # {}
      BY <2>3, <2>4, SampledType, Numbers DEF OldEnough
    <2>6. PICK a \in Sampled : IsAnchor(a, Sampled, 0)
      BY <2>3, <2>5, AnchorExists
    <2>7. -a.date < Enough
      BY <2>3, SampledFrom, SampledType, Numbers
    <2>8. a.ratio = ratio
      <3>1. \A x \in Sampled : -x.date < flat' + 0 => x.ratio = ratio
        BY <2>2, <2>3 DEF FlatSince
      <3>2. flat' + 0 = Enough
        BY Numbers
      <3>. QED BY <2>6, <2>7, <3>1, <3>2
    <2>9. ratio - a.ratio < MinDelta
      BY <2>3, <2>8, Numbers DEF TypeOK
    <2>. QED BY <2>2, <2>6, <2>9 DEF Judged, Stagnant, IsAnchor
  <1>. QED BY <1>1, Track, PTL DEF Spec, FlatIsRemoved
-----------------------------------------------------------------------------
(* Counting dates from today changes nothing: the step from Cleanup's      *)
(* dates to this module's.                                                 *)

Entry == [date : Int, ratio : Int]
DatedFrom(S, day) == {[s EXCEPT !.date = @ - day] : s \in S}

LEMMA DatedFromIn ==
    ASSUME NEW S \in SUBSET Entry, NEW day \in Int, NEW t
    PROVE  t \in DatedFrom(S, day) <=>
              t \in Entry /\ [date |-> t.date + day, ratio |-> t.ratio] \in S
  <1>. DEFINE back(s) == [s EXCEPT !.date = @ - day]
  <1>1. ASSUME NEW s \in S, t = back(s)
        PROVE  t \in Entry /\ [date |-> t.date + day, ratio |-> t.ratio] \in S
    <2>1. s \in Entry
      OBVIOUS
    <2>2. t = [date |-> s.date - day, ratio |-> s.ratio]
      BY <1>1, <2>1 DEF Entry
    <2>3. t \in Entry /\ t.date + day = s.date /\ t.ratio = s.ratio
      BY <2>1, <2>2 DEF Entry
    <2>4. s = [date |-> s.date, ratio |-> s.ratio]
      BY <2>1 DEF Entry
    <2>. QED BY <2>3, <2>4
  <1>2. ASSUME t \in Entry, [date |-> t.date + day, ratio |-> t.ratio] \in S
        PROVE  \E s \in S : t = back(s)
    <2>. DEFINE s == [date |-> t.date + day, ratio |-> t.ratio]
    <2>1. t = [date |-> t.date, ratio |-> t.ratio] /\ t.date \in Int
      BY <1>2 DEF Entry
    <2>2. back(s) = [date |-> s.date - day, ratio |-> s.ratio]
      BY <1>2 DEF Entry
    <2>. QED BY <1>2, <2>1, <2>2
  <1>. QED BY <1>1, <1>2 DEF DatedFrom

LEMMA DueFrom ==
    ASSUME NEW S \in SUBSET Entry, NEW day \in Int
    PROVE  SampleDue(DatedFrom(S, day), 0) <=> SampleDue(S, day)
  <1>1. ASSUME NEW s \in S
        PROVE  \E t \in DatedFrom(S, day) : 0 - t.date = day - s.date
    <2>. DEFINE t == [date |-> s.date - day, ratio |-> s.ratio]
    <2>1. s = [date |-> s.date, ratio |-> s.ratio] /\ s.date \in Int /\ s.ratio \in Int
      BY DEF Entry
    <2>2. t \in Entry /\ t.date + day = s.date
      BY <2>1 DEF Entry
    <2>3. t \in DatedFrom(S, day)
      BY <2>1, <2>2, DatedFromIn
    <2>. QED BY <2>1, <2>3
  <1>2. ASSUME NEW t \in DatedFrom(S, day)
        PROVE  \E s \in S : 0 - t.date = day - s.date
    <2>1. t \in Entry /\ [date |-> t.date + day, ratio |-> t.ratio] \in S
      BY DatedFromIn
    <2>2. t.date \in Int
      BY <2>1 DEF Entry
    <2>. QED BY <2>1, <2>2
  <1>. QED BY <1>1, <1>2 DEF SampleDue

(* A removal on record that is older than every sample makes no            *)
(* difference, so NoRemoval stands for any such and for none.              *)
LEMMA OlderRemoval ==
    ASSUME NEW S \in SUBSET Entry, NEW on \in Int, NEW x \in Int,
           \A s \in S : s.date > on
    PROVE  Updated(S, on, x, 0) = Updated(S, NoRemoval, x, 0)
  <1>. DEFINE recent == OfThisCopy(S, NoRemoval)
  <1>1. \A s \in S : s.date \in Int
    BY DEF Entry
  <1>2. OfThisCopy(S, on) = S
    BY DEF OfThisCopy
  <1>3. \A s \in S : 0 - s.date <= MaxAge <=> s \in recent
    BY <1>1, Numbers DEF OfThisCopy, NoRemoval
  <1>4. \A s \in S : s \notin recent => 0 - s.date >= Interval
    BY <1>1, <1>3, Numbers
  <1>5. recent \subseteq S
    BY DEF OfThisCopy
  <1>6. SampleDue(S, 0) <=> SampleDue(recent, 0)
    BY <1>4, <1>5 DEF SampleDue
  <1>. DEFINE now == [date |-> 0, ratio |-> x]
  <1>7. ASSUME NEW t
        PROVE  t \in Updated(S, on, x, 0) <=> t \in Updated(S, NoRemoval, x, 0)
    <2>1. t \in Updated(S, on, x, 0)
             <=> /\ t \in S \/ (SampleDue(S, 0) /\ t = now)
                 /\ 0 - t.date <= MaxAge
      BY <1>2 DEF Updated
    <2>2. t \in Updated(S, NoRemoval, x, 0)
             <=> /\ t \in recent \/ (SampleDue(recent, 0) /\ t = now)
                 /\ 0 - t.date <= MaxAge
      BY DEF Updated
    <2>. HIDE DEF recent, now
    <2>. QED BY <1>3, <1>5, <1>6, <2>1, <2>2
  <1>. QED BY <1>7

(* update_ratio_history with dates counted from today is                   *)
(* update_ratio_history, and so is what plan_stagnation_cleanup makes of   *)
(* it: what is proved and checked here of a sample's age holds of the      *)
(* dates Cleanup keeps, on any day.                                        *)
THEOREM JudgedByAge ==
    ASSUME NEW S \in SUBSET Entry, NEW day \in Int, NEW on \in Int, NEW x \in Int
    PROVE  /\ Updated(DatedFrom(S, day), on - day, x, 0)
                 = DatedFrom(Updated(S, on, x, day), day)
           /\ Stagnant(DatedFrom(S, day), x, 0) <=> Stagnant(S, x, day)
  <1>. DEFINE new  == [date |-> day, ratio |-> x]
              now  == [date |-> 0, ratio |-> x]
              mine == OfThisCopy(S, on)
              aged == OfThisCopy(DatedFrom(S, day), on - day)
              then(t) == [date |-> t.date + day, ratio |-> t.ratio]
  <1>0. new \in Entry /\ now \in Entry /\ MaxAge \in Int /\ Window \in Int
    BY Numbers DEF Entry
  <1>1. aged = DatedFrom(mine, day)
    <2>1. mine \in SUBSET Entry
      BY DEF OfThisCopy
    <2>2. ASSUME NEW t
          PROVE  t \in aged <=> t \in DatedFrom(mine, day)
      <3>1. t \in Entry => (t.date > on - day <=> t.date + day > on)
        BY DEF Entry
      <3>2. t \in DatedFrom(mine, day) <=> t \in Entry /\ then(t) \in mine
        BY <2>1, DatedFromIn
      <3>3. t \in DatedFrom(S, day) <=> t \in Entry /\ then(t) \in S
        BY DatedFromIn
      <3>. QED BY <3>1, <3>2, <3>3 DEF OfThisCopy
    <2>. QED BY <2>2
  <1>2. Updated(S, on, x, day) \in SUBSET Entry
    BY <1>0 DEF Updated, OfThisCopy
  <1>3. ASSUME NEW t
        PROVE  t \in Updated(DatedFrom(S, day), on - day, x, 0)
                  <=> t \in DatedFrom(Updated(S, on, x, day), day)
    <2>1. SampleDue(aged, 0) <=> SampleDue(mine, day)
      BY <1>1, DueFrom DEF OfThisCopy
    <2>2. t \in aged <=> t \in Entry /\ then(t) \in mine
      <3>1. mine \in SUBSET Entry
        BY DEF OfThisCopy
      <3>. QED BY <1>1, <3>1, DatedFromIn
    <2>3. t \in Entry => (t = now <=> then(t) = new)
      <3>1. t \in Entry => t = [date |-> t.date, ratio |-> t.ratio] /\ t.date \in Int
        BY DEF Entry
      <3>2. t \in Entry => (t.date + day = day <=> t.date = 0)
        BY <3>1
      <3>. QED BY <3>1, <3>2
    <2>4. t \in Entry => (0 - t.date <= MaxAge <=> day - then(t).date <= MaxAge)
      <3>1. t \in Entry => t.date \in Int
        BY DEF Entry
      <3>. QED BY <1>0, <3>1
    <2>5. t \in DatedFrom(Updated(S, on, x, day), day)
             <=> t \in Entry /\ then(t) \in Updated(S, on, x, day)
      BY <1>2, DatedFromIn
    <2>6. t \in Updated(DatedFrom(S, day), on - day, x, 0)
             <=> /\ t \in aged \/ (SampleDue(aged, 0) /\ t = now)
                 /\ 0 - t.date <= MaxAge
      BY DEF Updated
    <2>7. then(t) \in Updated(S, on, x, day)
             <=> /\ then(t) \in mine \/ (SampleDue(mine, day) /\ then(t) = new)
                 /\ day - then(t).date <= MaxAge
      BY DEF Updated
    <2>. HIDE DEF mine, aged, now, new, then
    <2>. QED BY <1>0, <2>1, <2>2, <2>3, <2>4, <2>5, <2>6, <2>7
  <1>4. ASSUME NEW s \in S
        PROVE  /\ [date |-> s.date - day, ratio |-> s.ratio] \in DatedFrom(S, day)
               /\ s.date \in Int /\ s.ratio \in Int
    <2>. DEFINE t == [date |-> s.date - day, ratio |-> s.ratio]
    <2>1. s = [date |-> s.date, ratio |-> s.ratio] /\ s.date \in Int /\ s.ratio \in Int
      BY DEF Entry
    <2>2. t \in Entry /\ t.date + day = s.date
      BY <2>1 DEF Entry
    <2>. QED BY <2>1, <2>2, DatedFromIn
  <1>5. ASSUME NEW t \in DatedFrom(S, day)
        PROVE  then(t) \in S /\ t.date \in Int /\ t.ratio \in Int
    BY DatedFromIn DEF Entry
  <1>6. ASSUME Stagnant(DatedFrom(S, day), x, 0) PROVE Stagnant(S, x, day)
    <2>1. PICK a \in DatedFrom(S, day) :
             /\ 0 - a.date >= Window /\ x - a.ratio < MinDelta
             /\ \A s \in DatedFrom(S, day) : 0 - s.date >= Window => a.date <= s.date
      BY <1>6 DEF Stagnant, OldEnough, IsAnchor
    <2>2. then(a) \in S /\ day - then(a).date >= Window
      BY <1>0, <1>5, <2>1
    <2>3. ASSUME NEW s \in S, day - s.date >= Window PROVE then(a).date <= s.date
      <3>. DEFINE u == [date |-> s.date - day, ratio |-> s.ratio]
      <3>1. u \in DatedFrom(S, day) /\ 0 - u.date >= Window
        BY <1>0, <1>4, <2>3
      <3>2. a.date <= u.date
        BY <2>1, <3>1
      <3>3. a.date <= s.date - day
        BY <3>2
      <3>4. a.date \in Int /\ s.date \in Int /\ then(a).date = a.date + day
        BY <1>4, <1>5
      <3>. HIDE DEF then
      <3>. QED BY <3>3, <3>4
    <2>4. x - then(a).ratio < MinDelta
      BY <2>1
    <2>. HIDE DEF then
    <2>. QED BY <2>2, <2>3, <2>4 DEF Stagnant, OldEnough, IsAnchor
  <1>7. ASSUME Stagnant(S, x, day) PROVE Stagnant(DatedFrom(S, day), x, 0)
    <2>1. PICK a \in S :
             /\ day - a.date >= Window /\ x - a.ratio < MinDelta
             /\ \A s \in S : day - s.date >= Window => a.date <= s.date
      BY <1>7 DEF Stagnant, OldEnough, IsAnchor
    <2>. DEFINE b == [date |-> a.date - day, ratio |-> a.ratio]
    <2>2. b \in DatedFrom(S, day) /\ 0 - b.date >= Window /\ x - b.ratio < MinDelta
      BY <1>0, <1>4, <2>1
    <2>3. ASSUME NEW t \in DatedFrom(S, day), 0 - t.date >= Window PROVE b.date <= t.date
      <3>1. then(t) \in S /\ day - then(t).date >= Window /\ t.date \in Int
        BY <1>0, <1>5, <2>3
      <3>2. a.date <= then(t).date
        BY <2>1, <3>1
      <3>3. a.date <= t.date + day
        BY <3>2
      <3>4. a.date \in Int /\ b.date = a.date - day
        BY <1>4
      <3>. HIDE DEF b
      <3>. QED BY <3>1, <3>3, <3>4
    <2>. HIDE DEF b
    <2>. QED BY <2>2, <2>3 DEF Stagnant, OldEnough, IsAnchor
  <1>. QED BY <1>3, <1>6, <1>7
=============================================================================
