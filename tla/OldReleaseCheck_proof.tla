----------------------- MODULE OldReleaseCheck_proof -----------------------
(***************************************************************************)
(* Proofs about OldReleaseCheck: for any trackers, answers, failures and   *)
(* stops, the numbers a scrape returns are the torrent's own, it gives up  *)
(* only at its last tracker, no partial file is ever seen, and the check   *)
(* implements DemandCheck.                                                 *)
(***************************************************************************)
EXTENDS OldReleaseCheck, TLAPS

Asking == stage \in {"connect", "scrape"}

(* A datagram that names the latest request belongs to it.                 *)
AnswersOurs ==
    /\ \A m \in answers : m.txn <= txn
    /\ stage = "scrape" =>
          \A m \in answers : m.txn = txn => m.from = Current /\ m.about = scraping

(* What has been returned, and whom it was asked of.                       *)
ResultOurs ==
    result # NoStats =>
        /\ stage = "scraped"
        /\ result.from = result.tracker
        /\ result.about = scraping
        /\ result.from \in Asked(scraping)

ScrapeInv ==
    /\ ScrapeTypeOK
    /\ stage # "idle" => scraping \in Release
    /\ Asking => More /\ at >= 1 /\ Current \notin Blocked
    /\ at >= 1
    /\ AnswersOurs
    /\ ResultOurs

(* Where the check is, and what that says of the scrape.                   *)
Round == {"first look", "second look", "fetch", "scrape", "write"}

PlaceInv ==
    /\ CheckTypeOK
    /\ pc \in Round => current \in Release /\ current \in candidates
    /\ IF pc = "scrape" THEN stage # "idle" /\ scraping = current
       ELSE stage = "idle"
    /\ pc = "write" <=> writing # "idle"

(* What the looks have found stays so: only the check adds to /watch.      *)
FolderInv ==
    /\ Watch!WatchTypeOK
    /\ Watch!NoPartialFile
    /\ \A r \in Release : torrent[r] = "absent" \/ loaded[r] = "absent"
    /\ pc \in {"second look", "fetch", "scrape"} \/ writing \notin {"idle", "saved"}
          => torrent[current] = "absent"
    /\ pc \in {"fetch", "scrape"} \/ writing \notin {"idle", "saved"}
          => loaded[current] = "absent"
    /\ writing # "idle" => current \in WantedReleases
    /\ writing = "replace" => part[current] = "whole"

IInv == ScrapeInv /\ PlaceInv /\ FolderInv

-----------------------------------------------------------------------------
LEMMA OfTheList ==
    ASSUME scraping \in Release, at \in Nat, at >= 1, More
    PROVE  /\ Current \in Tracker
           /\ Current \in ToSet(Announce[scraping])
  <1>1. Announce[scraping] \in Seq(Tracker)
    BY ScrapeAssumption
  <1>2. at \in DOMAIN Announce[scraping]
    BY <1>1 DEF More, Urls
  <1>. QED BY <1>1, <1>2 DEF Current, Urls, ToSet

(* What a step that sends nothing leaves as it was.                        *)
LEMMA AnswersKept ==
    ASSUME ScrapeInv, UNCHANGED <<txn, answers>>, stage' # "scrape"
    PROVE  AnswersOurs'
  BY DEF ScrapeInv, AnswersOurs

LEMMA ReturnInv ==
    ASSUME ScrapeInv, stage # "idle", NEW stats \in Stats \cup {NoStats},
           stats # NoStats => /\ stats.from = stats.tracker
                              /\ stats.about = scraping
                              /\ stats.from \in Asked(scraping),
           Return(stats), UNCHANGED <<txn, answers>>
    PROVE  ScrapeInv' /\ stage' # "idle" /\ scraping' = scraping
  <1>1. ScrapeTypeOK'
    BY DEF ScrapeInv, Return, ScrapeTypeOK, Stages
  <1>2. AnswersOurs'
    BY AnswersKept DEF Return
  <1>3. ResultOurs'
    BY DEF Return, ResultOurs, Asked
  <1>. QED BY <1>1, <1>2, <1>3 DEF Return, ScrapeInv, Asking

LEMMA NextTrackerInv ==
    ASSUME ScrapeInv, stage \notin {"idle", "scraped"}, NextTracker,
           UNCHANGED <<txn, answers>>
    PROVE  ScrapeInv' /\ stage' # "idle" /\ scraping' = scraping
  <1>1. ScrapeTypeOK'
    BY DEF ScrapeInv, NextTracker, ScrapeTypeOK, Stages
  <1>2. AnswersOurs'
    BY AnswersKept DEF NextTracker
  <1>3. ResultOurs'
    BY DEF NextTracker, ScrapeInv, ResultOurs
  <1>4. at' >= 1
    BY DEF NextTracker, ScrapeInv, ScrapeTypeOK
  <1>. QED BY <1>1, <1>2, <1>3, <1>4 DEF NextTracker, ScrapeInv, Asking

(* A request: only its own answer can carry its id.                        *)
LEMMA AskInv ==
    ASSUME ScrapeInv, stage \in {"trackers", "connect"},
           More, Current \notin Blocked,
           NEW action \in {"connect", "scrape"}, Ask(action), stage' = action,
           UNCHANGED <<scraping, at, result>>
    PROVE  ScrapeInv' /\ stage' # "idle" /\ scraping' = scraping
  <1>. DEFINE new == [action |-> action, txn |-> txn + 1,
                      from |-> Current, about |-> scraping]
  <1>1. /\ txn \in Nat /\ at \in Nat /\ at >= 1 /\ scraping \in Release
        /\ answers \subseteq Answer
    BY DEF ScrapeInv, ScrapeTypeOK
  <1>2. new \in Answer
    BY <1>1, OfTheList DEF Answer
  <1>3. txn' = txn + 1 /\ \A m \in answers' : m \in answers \/ m = new
    BY DEF Ask
  <1>4. ScrapeTypeOK'
    <2>1. answers' \subseteq Answer
      BY <1>1, <1>2, <1>3
    <2>. QED BY <1>1, <1>3, <2>1 DEF ScrapeInv, ScrapeTypeOK, Stages
  <1>5. \A m \in answers : m.txn \in Nat /\ m.txn <= txn
    BY <1>1 DEF ScrapeInv, AnswersOurs, Answer
  <1>6. Current' = Current /\ More' = More
    BY DEF Current, More, Urls
  <1>7. AnswersOurs'
    <2>1. \A m \in answers' : m.txn <= txn' /\ (m.txn = txn' => m = new)
      BY <1>1, <1>3, <1>5
    <2>. HIDE DEF new
    <2>2. new.from = Current /\ new.about = scraping
      BY DEF new
    <2>. QED BY <1>6, <2>1, <2>2 DEF AnswersOurs
  <1>8. ResultOurs'
    BY DEF ScrapeInv, ResultOurs
  <1>. QED BY <1>1, <1>4, <1>6, <1>7, <1>8 DEF ScrapeInv, Asking

LEMMA ScrapeStepInv ==
    ASSUME ScrapeInv, ScrapeStep
    PROVE  ScrapeInv' /\ stage' # "idle" /\ scraping' = scraping
  <1>1. CASE Exhausted
    BY <1>1, ReturnInv DEF Exhausted
  <1>2. CASE SkipTracker
    BY <1>2, NextTrackerInv DEF SkipTracker
  <1>3. CASE RaiseMalformed
    BY <1>3, ReturnInv DEF RaiseMalformed
  <1>4. CASE AskConnect
    BY <1>4, AskInv DEF AskConnect
  <1>5. CASE UdpFails
    BY <1>5, NextTrackerInv DEF UdpFails
  <1>6. CASE TryHttp
    <2>. DEFINE stats == [tracker |-> Current, from |-> Current, about |-> scraping]
    <2>1. stage = "trackers" /\ More /\ Current \notin Blocked /\ UNCHANGED <<txn, answers>>
      BY <1>6 DEF TryHttp
    <2>2. CASE NextTracker
      BY <2>1, <2>2, NextTrackerInv
    <2>3. CASE Return(stats)
      <3>1. scraping \in Release /\ at \in Nat /\ at >= 1
        BY <2>1 DEF ScrapeInv, ScrapeTypeOK
      <3>2. Current \in Tracker /\ Current \in Asked(scraping)
        BY <2>1, <3>1, OfTheList DEF Asked
      <3>3. stats \in Stats
        BY <3>1, <3>2 DEF Stats
      <3>4. /\ stats.from = stats.tracker /\ stats.about = scraping
            /\ stats.from \in Asked(scraping)
        BY <3>2
      <3>. HIDE DEF stats
      <3>. QED BY <2>1, <2>3, <3>3, <3>4, ReturnInv
    <2>. QED BY <1>6, <2>2, <2>3 DEF TryHttp
  <1>7. ASSUME NEW m \in answers, ReceiveConnect(m)
        PROVE  ScrapeInv' /\ stage' # "idle" /\ scraping' = scraping
    <2>1. stage = "connect" /\ More /\ Current \notin Blocked
      BY <1>7 DEF ReceiveConnect, ScrapeInv, Asking
    <2>2. CASE IsAnswer(m)
      BY <1>7, <2>1, <2>2, AskInv DEF ReceiveConnect
    <2>3. CASE ~IsAnswer(m)
      BY <1>7, <2>1, <2>3, NextTrackerInv DEF ReceiveConnect
    <2>. QED BY <2>2, <2>3
  <1>8. ASSUME NEW m \in answers, ReceiveScrape(m)
        PROVE  ScrapeInv' /\ stage' # "idle" /\ scraping' = scraping
    <2>1. /\ stage = "scrape" /\ More /\ Current \notin Blocked
          /\ UNCHANGED <<txn, answers>>
      BY <1>8 DEF ReceiveScrape, ScrapeInv, Asking
    <2>2. CASE IsAnswer(m)
      <3>. DEFINE stats == [tracker |-> Current, from |-> m.from, about |-> m.about]
      <3>1. m.from = Current /\ m.about = scraping
        BY <2>1, <2>2 DEF IsAnswer, ScrapeInv, AnswersOurs
      <3>2. scraping \in Release /\ at \in Nat /\ at >= 1
        BY <2>1 DEF ScrapeInv, ScrapeTypeOK
      <3>3. Current \in Tracker /\ Current \in Asked(scraping)
        BY <2>1, <3>2, OfTheList DEF Asked
      <3>4. stats \in Stats
        BY <3>1, <3>2, <3>3 DEF Stats
      <3>5. /\ stats.from = stats.tracker /\ stats.about = scraping
            /\ stats.from \in Asked(scraping)
        BY <3>1, <3>3
      <3>6. Return(stats)
        BY <1>8, <2>2 DEF ReceiveScrape
      <3>. HIDE DEF stats
      <3>. QED BY <2>1, <3>4, <3>5, <3>6, ReturnInv
    <2>3. CASE ~IsAnswer(m)
      BY <1>8, <2>1, <2>3, NextTrackerInv DEF ReceiveScrape
    <2>. QED BY <2>2, <2>3
  <1>. QED BY <1>1, <1>2, <1>3, <1>4, <1>5, <1>6, <1>7, <1>8 DEF ScrapeStep

LEMMA ForgetInv ==
    ASSUME ScrapeInv, ForgetScrape, UNCHANGED <<txn, answers>>
    PROVE  ScrapeInv' /\ stage' = "idle"
  <1>1. ScrapeTypeOK'
    BY DEF ScrapeInv, ForgetScrape, ScrapeTypeOK, Stages
  <1>2. AnswersOurs'
    BY AnswersKept DEF ForgetScrape
  <1>. QED BY <1>1, <1>2 DEF ForgetScrape, ScrapeInv, ResultOurs, Asking

LEMMA BeginInv ==
    ASSUME ScrapeInv, NEW r \in Release, BeginScrape(r)
    PROVE  ScrapeInv' /\ stage' # "idle" /\ scraping' = r
  <1>1. ScrapeTypeOK'
    BY DEF ScrapeInv, BeginScrape, ScrapeTypeOK, Stages
  <1>2. AnswersOurs'
    BY AnswersKept DEF BeginScrape
  <1>. QED BY <1>1, <1>2 DEF BeginScrape, ScrapeInv, ResultOurs, Asking

LEMMA ScrapeUnchanged ==
    ASSUME ScrapeInv, UNCHANGED scrapeVars
    PROVE  ScrapeInv' /\ stage' = stage /\ scraping' = scraping
  BY DEF scrapeVars, ScrapeInv, ScrapeTypeOK, AnswersOurs, ResultOurs, Asking,
         More, Current, Urls

-----------------------------------------------------------------------------
(* Continue ends a round with nothing being written.                       *)
LEMMA ContinueInv ==
    ASSUME IInv, Continue, stage' = "idle", writing' = "idle",
           UNCHANGED <<part, torrent, loaded>>
    PROVE  PlaceInv' /\ FolderInv'
  <1>1. PlaceInv'
    BY DEF IInv, PlaceInv, Continue, CheckTypeOK, CheckPC, Round
  <1>2. FolderInv'
    <2>1. Watch!WatchTypeOK' /\ Watch!NoPartialFile'
      BY DEF IInv, FolderInv, Watch!WatchTypeOK, Watch!NoPartialFile
    <2>. QED BY <2>1 DEF IInv, FolderInv, Continue
  <1>. QED BY <1>1, <1>2

(* Steps of the loop that touch no file and do not write.                  *)
LEMMA FilesUnchanged ==
    ASSUME IInv, UNCHANGED watchVars, UNCHANGED current,
           pc' \in {"idle", "loop", "first look"} \/ pc' = pc
    PROVE  FolderInv'
  <1>1. Watch!WatchTypeOK' /\ Watch!NoPartialFile'
    BY DEF IInv, FolderInv, watchVars, Watch!WatchTypeOK, Watch!NoPartialFile
  <1>. QED BY <1>1 DEF IInv, FolderInv, watchVars

LEMMA StartCheckInv == IInv /\ StartCheck => IInv'
  <1>. SUFFICES ASSUME IInv, StartCheck PROVE IInv'
    OBVIOUS
  <1>1. ScrapeInv' /\ stage' = stage /\ scraping' = scraping
    BY ScrapeUnchanged DEF StartCheck, IInv
  <1>2. PlaceInv'
    BY <1>1 DEF StartCheck, IInv, PlaceInv, CheckTypeOK, CheckPC, Round, watchVars
  <1>3. FolderInv'
    <2>1. UNCHANGED watchVars /\ UNCHANGED current /\ pc' = "loop"
      BY DEF StartCheck
    <2>. QED BY <2>1, FilesUnchanged
  <1>. QED BY <1>1, <1>2, <1>3 DEF IInv

LEMMA NextCandidateInv == ASSUME IInv, NEW r \in Release, NextCandidate(r) PROVE IInv'
  <1>1. ScrapeInv' /\ stage' = stage /\ scraping' = scraping
    BY ScrapeUnchanged DEF NextCandidate, IInv
  <1>2. PlaceInv'
    BY <1>1 DEF NextCandidate, IInv, PlaceInv, CheckTypeOK, CheckPC, Round, watchVars
  <1>3. FolderInv'
    <2>1. Watch!WatchTypeOK' /\ Watch!NoPartialFile'
      BY DEF IInv, NextCandidate, FolderInv, watchVars, Watch!WatchTypeOK,
             Watch!NoPartialFile
    <2>2. writing = "idle"
      BY DEF NextCandidate, IInv, PlaceInv
    <2>. QED BY <2>1, <2>2 DEF IInv, NextCandidate, FolderInv, watchVars
  <1>. QED BY <1>1, <1>2, <1>3 DEF IInv

LEMMA LookInv ==
    ASSUME IInv, FirstLook \/ SecondLook
    PROVE  IInv'
  <1>1. /\ pc \in {"first look", "second look"}
        /\ UNCHANGED <<scrapeVars, watchVars>>
    BY DEF FirstLook, SecondLook, Look
  <1>2. ScrapeInv' /\ stage' = stage /\ scraping' = scraping
    BY <1>1, ScrapeUnchanged DEF IInv
  <1>3. stage = "idle" /\ writing = "idle"
    BY <1>1 DEF IInv, PlaceInv
  <1>4. CASE Continue
    BY <1>1, <1>2, <1>3, <1>4, ContinueInv DEF IInv, watchVars
  <1>5. CASE ~Continue
    <2>1. /\ UNCHANGED <<candidates, current, stops>>
          /\ \/ pc = "first look" /\ pc' = "second look" /\ torrent[current] = "absent"
             \/ pc = "second look" /\ pc' = "fetch" /\ loaded[current] = "absent"
      BY <1>5 DEF FirstLook, SecondLook, Look, WatchFilePaths
    <2>2. PlaceInv'
      BY <1>1, <1>2, <1>3, <2>1
      DEF IInv, PlaceInv, CheckTypeOK, CheckPC, Round, watchVars
    <2>3. Watch!WatchTypeOK' /\ Watch!NoPartialFile'
      BY <1>1 DEF IInv, FolderInv, watchVars, Watch!WatchTypeOK, Watch!NoPartialFile
    <2>4. FolderInv'
      BY <1>1, <1>3, <2>1, <2>3 DEF IInv, FolderInv, watchVars
    <2>. QED BY <1>2, <2>2, <2>4 DEF IInv
  <1>. QED BY <1>4, <1>5

LEMMA FetchInv == IInv /\ FetchMetadata => IInv'
  <1>. SUFFICES ASSUME IInv, FetchMetadata PROVE IInv'
    OBVIOUS
  <1>1. pc = "fetch" /\ stage = "idle" /\ writing = "idle" /\ current \in Release
    BY DEF FetchMetadata, IInv, PlaceInv, Round
  <1>2. UNCHANGED watchVars
    BY DEF FetchMetadata
  <1>3. CASE Continue /\ UNCHANGED scrapeVars
    BY <1>1, <1>2, <1>3, ScrapeUnchanged, ContinueInv DEF IInv, watchVars
  <1>4. CASE BeginScrape(current) /\ pc' = "scrape" /\ UNCHANGED <<candidates, current, stops>>
    <2>1. ScrapeInv' /\ stage' # "idle" /\ scraping' = current
      BY <1>1, <1>4, BeginInv DEF IInv
    <2>2. PlaceInv'
      BY <1>1, <1>2, <1>4, <2>1
      DEF IInv, PlaceInv, CheckTypeOK, CheckPC, Round, watchVars
    <2>3. Watch!WatchTypeOK' /\ Watch!NoPartialFile'
      BY <1>2 DEF IInv, FolderInv, watchVars, Watch!WatchTypeOK, Watch!NoPartialFile
    <2>4. FolderInv'
      BY <1>1, <1>2, <1>4, <2>3 DEF IInv, FolderInv, watchVars
    <2>. QED BY <2>1, <2>2, <2>4 DEF IInv
  <1>. QED BY <1>3, <1>4 DEF FetchMetadata

LEMMA ScrapeRoundInv == IInv /\ Scrape => IInv'
  <1>. SUFFICES ASSUME IInv, Scrape PROVE IInv'
    OBVIOUS
  <1>1. ScrapeInv' /\ stage' # "idle" /\ scraping' = scraping
    BY ScrapeStepInv DEF Scrape, IInv
  <1>2. UNCHANGED watchVars /\ UNCHANGED checkVars /\ pc = "scrape"
    BY DEF Scrape
  <1>3. PlaceInv'
    BY <1>1, <1>2 DEF IInv, PlaceInv, CheckTypeOK, checkVars, watchVars
  <1>4. FolderInv'
    BY <1>2, FilesUnchanged DEF checkVars
  <1>. QED BY <1>1, <1>3, <1>4 DEF IInv

LEMMA DecideInv == IInv /\ Decide => IInv'
  <1>. SUFFICES ASSUME IInv, Decide PROVE IInv'
    OBVIOUS
  <1>1. ScrapeInv' /\ stage' = "idle"
    BY ForgetInv DEF Decide, IInv
  <1>2. /\ pc = "scrape" /\ writing = "idle" /\ scraping = current
        /\ current \in Release /\ UNCHANGED <<part, torrent, loaded>>
    BY DEF Decide, IInv, PlaceInv, Round
  <1>3. CASE ~Keep
    BY <1>1, <1>2, <1>3, ContinueInv DEF Decide, IInv
  <1>4. CASE Keep
    <2>1. pc' = "write" /\ writing' = "open" /\ UNCHANGED <<candidates, current, stops>>
      BY <1>4 DEF Decide
    <2>2. current \in WantedReleases
      BY <1>2, <1>4 DEF Keep, IInv, ScrapeInv, ResultOurs, WantedReleases
    <2>3. PlaceInv'
      BY <1>1, <1>2, <2>1 DEF IInv, PlaceInv, CheckTypeOK, CheckPC, Round
    <2>4. Watch!WatchTypeOK' /\ Watch!NoPartialFile'
      BY <1>2, <2>1 DEF IInv, FolderInv, Watch!WatchTypeOK, Watch!NoPartialFile
    <2>5. FolderInv'
      BY <1>2, <2>1, <2>2, <2>4 DEF IInv, FolderInv
    <2>. QED BY <1>1, <2>3, <2>5 DEF IInv
  <1>. QED BY <1>3, <1>4

-----------------------------------------------------------------------------
LEMMA WriteInv == IInv /\ Write => IInv'
  <1>. SUFFICES ASSUME IInv, Write PROVE IInv'
    OBVIOUS
  <1>1. ScrapeInv' /\ stage' = stage /\ scraping' = scraping
    BY ScrapeUnchanged DEF Write, IInv
  <1>2. /\ pc = "write" /\ UNCHANGED checkVars /\ current \in Release
        /\ Watch!WriteStep(current)
    BY DEF Write, IInv, PlaceInv, Round
  <1>3. writing' # "idle"
    BY <1>2 DEF Watch!WriteStep, Watch!OpenPart, Watch!WritePart, Watch!Replace,
                Watch!WriteFails, Watch!TidyPart
  <1>4. PlaceInv'
    BY <1>1, <1>2, <1>3 DEF IInv, PlaceInv, CheckTypeOK, checkVars, Round
  <1>. SUFFICES FolderInv'
    BY <1>1, <1>4 DEF IInv
  <1>a. /\ part \in [Release -> Watch!File] /\ torrent \in [Release -> Watch!File]
        /\ loaded \in [Release -> Watch!File]
        /\ writing \in {"open", "write", "replace", "tidy"}
        /\ torrent[current] = "absent" /\ loaded[current] = "absent"
    BY <1>2 DEF IInv, FolderInv, Watch!WatchTypeOK, Watch!WriteStep, Watch!OpenPart,
                Watch!WritePart, Watch!Replace, Watch!WriteFails, Watch!TidyPart
  <1>b. /\ \A r \in Release : torrent[r] # "partial" /\ loaded[r] # "partial"
        /\ \A r \in Release : torrent[r] = "absent" \/ loaded[r] = "absent"
        /\ current \in WantedReleases /\ pc' = "write" /\ current' = current
        /\ writing = "replace" => part[current] = "whole"
    BY <1>2, <1>a DEF IInv, FolderInv, Watch!NoPartialFile, checkVars
  (* A step that puts nothing under either name, but for the last.         *)
  <1>c. ASSUME part' \in [Release -> Watch!File], UNCHANGED <<torrent, loaded>>,
               writing' \in {"write", "replace", "tidy", "failed"},
               writing' = "replace" => part'[current] = "whole"
        PROVE  FolderInv'
    <2>1. Watch!WatchTypeOK' /\ Watch!NoPartialFile'
      BY <1>a, <1>b, <1>c DEF Watch!WatchTypeOK, Watch!NoPartialFile
    <2>. QED BY <1>a, <1>b, <1>c, <2>1 DEF FolderInv
  <1>5. CASE Watch!OpenPart(current)
    BY <1>2, <1>5, <1>a, <1>c DEF Watch!OpenPart, Watch!File
  <1>6. CASE Watch!WritePart(current)
    BY <1>2, <1>6, <1>a, <1>c DEF Watch!WritePart, Watch!File
  <1>7. CASE Watch!Replace(current)
    <2>1. /\ torrent' = [torrent EXCEPT ![current] = "whole"]
          /\ part' = [part EXCEPT ![current] = "absent"]
          /\ writing' = "saved" /\ loaded' = loaded
      BY <1>7, <1>b DEF Watch!Replace
    <2>2. Watch!WatchTypeOK'
      BY <1>a, <2>1 DEF Watch!WatchTypeOK, Watch!File
    <2>3. \A r \in Release : torrent'[r] = IF r = current THEN "whole" ELSE torrent[r]
      BY <1>a, <2>1
    <2>4. /\ Watch!NoPartialFile'
          /\ \A r \in Release : torrent'[r] = "absent" \/ loaded'[r] = "absent"
      BY <1>a, <1>b, <2>1, <2>3 DEF Watch!NoPartialFile
    <2>. QED BY <1>b, <2>1, <2>2, <2>4 DEF FolderInv
  <1>8. CASE Watch!WriteFails
    BY <1>8, <1>a, <1>c DEF Watch!WriteFails, Watch!folderVars
  <1>9. CASE Watch!TidyPart(current)
    BY <1>2, <1>9, <1>a, <1>c DEF Watch!TidyPart, Watch!File
  <1>. QED BY <1>2, <1>5, <1>6, <1>7, <1>8, <1>9 DEF Watch!WriteStep

LEMMA WrittenInv == IInv /\ Written => IInv'
  <1>. SUFFICES ASSUME IInv, Written PROVE IInv'
    OBVIOUS
  <1>1. ScrapeInv' /\ stage' = stage /\ scraping' = scraping
    BY ScrapeUnchanged DEF Written, IInv
  <1>2. stage = "idle"
    BY DEF Written, IInv, PlaceInv
  <1>. QED BY <1>1, <1>2, ContinueInv DEF Written, IInv

LEMMA EndCheckInv == IInv /\ EndCheck => IInv'
  <1>. SUFFICES ASSUME IInv, EndCheck PROVE IInv'
    OBVIOUS
  <1>1. stage = "idle" /\ pc' = "idle" /\ UNCHANGED watchVars /\ UNCHANGED current
    BY DEF EndCheck, IInv, PlaceInv
  <1>2. ScrapeInv'
    BY <1>1 DEF EndCheck, IInv, ScrapeInv, ScrapeTypeOK, AnswersOurs, ResultOurs,
                Asking
  <1>3. PlaceInv'
    BY <1>1 DEF EndCheck, IInv, PlaceInv, CheckTypeOK, CheckPC, Round, watchVars
  <1>. QED BY <1>1, <1>2, <1>3, FilesUnchanged DEF IInv

LEMMA EvaluationRaisesInv == IInv /\ EvaluationRaises => IInv'
  <1>. SUFFICES ASSUME IInv, EvaluationRaises PROVE IInv'
    OBVIOUS
  <1>1. /\ stage' = "idle" /\ pc' = "idle" /\ UNCHANGED watchVars
        /\ writing = "idle" /\ writing' = "idle"
    BY DEF EvaluationRaises, ForgetScrape, watchVars, IInv, PlaceInv
  <1>2. ScrapeInv'
    BY <1>1 DEF EvaluationRaises, ForgetScrape, IInv, ScrapeInv, ScrapeTypeOK, Stages,
                AnswersOurs, ResultOurs, Asking
  <1>3. PlaceInv'
    BY <1>1 DEF EvaluationRaises, IInv, PlaceInv, CheckTypeOK, CheckPC, Round
  <1>4. Watch!WatchTypeOK' /\ Watch!NoPartialFile'
    BY <1>1 DEF IInv, FolderInv, watchVars, Watch!WatchTypeOK, Watch!NoPartialFile
  <1>5. FolderInv'
    BY <1>1, <1>4 DEF IInv, FolderInv, watchVars
  <1>. QED BY <1>2, <1>3, <1>5 DEF IInv

LEMMA StopInv == IInv /\ Stop => IInv'
  <1>. SUFFICES ASSUME IInv, Stop PROVE IInv'
    OBVIOUS
  <1>1. ScrapeInv' /\ stage' = "idle"
    BY ForgetInv DEF Stop, IInv
  <1>2. PlaceInv'
    <2>1. stops' \in 0 .. MaxStops
      BY CheckAssumption DEF Stop, IInv, PlaceInv, CheckTypeOK
    <2>2. CheckTypeOK'
      BY <2>1 DEF Stop, CheckTypeOK, CheckPC
    <2>. QED BY <1>1, <2>2 DEF Stop, PlaceInv, Round
  <1>3. Watch!WatchTypeOK' /\ Watch!NoPartialFile'
    BY DEF Stop, IInv, FolderInv, Watch!WatchTypeOK, Watch!NoPartialFile
  <1>4. FolderInv'
    BY <1>3 DEF Stop, IInv, FolderInv
  <1>. QED BY <1>1, <1>2, <1>4 DEF IInv

LEMMA DaemonInv == IInv /\ Daemon => IInv'
  <1>. SUFFICES ASSUME IInv, Daemon PROVE IInv'
    OBVIOUS
  <1>1. ScrapeInv' /\ stage' = stage /\ scraping' = scraping
    BY ScrapeUnchanged DEF Daemon, IInv
  <1>2. UNCHANGED checkVars
    BY DEF Daemon
  <1>3. UNCHANGED writing
    BY DEF Daemon, Watch!LoadWatchFile, Watch!RemoveLoaded
  <1>4. PlaceInv'
    BY <1>1, <1>2, <1>3 DEF IInv, PlaceInv, CheckTypeOK, checkVars
  <1>a. /\ torrent \in [Release -> Watch!File] /\ loaded \in [Release -> Watch!File]
        /\ part' = part /\ Watch!WatchTypeOK
        /\ \A r \in Release : torrent[r] # "partial" /\ loaded[r] # "partial"
        /\ \A r \in Release : torrent[r] = "absent" \/ loaded[r] = "absent"
    BY DEF IInv, FolderInv, Watch!WatchTypeOK, Watch!NoPartialFile, Daemon,
           Watch!LoadWatchFile, Watch!RemoveLoaded
  (* Nothing comes under a name that was looked for in vain.               *)
  <1>b. ASSUME torrent' \in [Release -> Watch!File], loaded' \in [Release -> Watch!File],
               \A r \in Release : /\ torrent'[r] # "partial" /\ loaded'[r] # "partial"
                                  /\ torrent'[r] = "absent" \/ loaded'[r] = "absent"
                                  /\ torrent[r] = "absent" => torrent'[r] = "absent"
                                  /\ torrent[r] = "absent" /\ loaded[r] = "absent"
                                        => loaded'[r] = "absent"
        PROVE  FolderInv'
    <2>1. Watch!WatchTypeOK' /\ Watch!NoPartialFile'
      BY <1>3, <1>a, <1>b DEF Watch!WatchTypeOK, Watch!NoPartialFile
    <2>2. /\ pc' = pc /\ current' = current
          /\ pc \in Round \/ writing \notin {"idle", "saved"} => current \in Release
      BY <1>2 DEF checkVars, IInv, PlaceInv, Round
    <2>3. /\ pc \in {"second look", "fetch", "scrape"} \/ writing \notin {"idle", "saved"}
                => torrent'[current] = "absent"
          /\ pc \in {"fetch", "scrape"} \/ writing \notin {"idle", "saved"}
                => loaded'[current] = "absent"
      BY <1>b, <2>2 DEF IInv, FolderInv, Round
    <2>. QED BY <1>3, <1>a, <1>b, <2>1, <2>2, <2>3 DEF IInv, FolderInv
  <1>5. ASSUME NEW r \in Release, Watch!LoadWatchFile(r) PROVE FolderInv'
    BY <1>5, <1>a, <1>b DEF Watch!LoadWatchFile, Watch!File
  <1>6. ASSUME NEW r \in Release, Watch!RemoveLoaded(r) PROVE FolderInv'
    BY <1>6, <1>a, <1>b DEF Watch!RemoveLoaded, Watch!File
  <1>. QED BY <1>1, <1>4, <1>5, <1>6 DEF Daemon, IInv

LEMMA InitInv == Init => IInv
  <1>. SUFFICES ASSUME Init PROVE IInv
    OBVIOUS
  <1>. USE DEF Init, ScrapeInit, Watch!WatchInit
  <1>1. ScrapeInv
    BY DEF ScrapeInv, ScrapeTypeOK, Stages, Asking, AnswersOurs, ResultOurs
  <1>2. PlaceInv
    BY CheckAssumption DEF PlaceInv, CheckTypeOK, CheckPC, Round
  <1>3. FolderInv
    BY DEF FolderInv, Watch!WatchTypeOK, Watch!NoPartialFile, Watch!File
  <1>. QED BY <1>1, <1>2, <1>3 DEF IInv

LEMMA StepInv == IInv /\ [Next]_vars => IInv'
  <1>. SUFFICES ASSUME IInv, [Next]_vars PROVE IInv'
    OBVIOUS
  <1>1. CASE CheckStep
    BY <1>1, NextCandidateInv, LookInv, FetchInv, ScrapeRoundInv, DecideInv,
       EvaluationRaisesInv, WriteInv, WrittenInv, EndCheckInv DEF CheckStep
  <1>2. CASE UNCHANGED vars
    <2>1. ScrapeInv'
      BY <1>2, ScrapeUnchanged DEF vars, IInv
    <2>2. PlaceInv'
      BY <1>2 DEF vars, scrapeVars, checkVars, watchVars, IInv, PlaceInv, CheckTypeOK
    <2>3. FolderInv'
      BY <1>2, FilesUnchanged DEF vars, checkVars
    <2>. QED BY <2>1, <2>2, <2>3 DEF IInv
  <1>. QED BY <1>1, <1>2, StartCheckInv, StopInv, DaemonInv DEF Next

LEMMA Inv == Spec => []IInv
  <1>. QED BY InitInv, StepInv, PTL DEF Spec

-----------------------------------------------------------------------------
(* Every variable of the check, the scrape and the folder keeps its type,  *)
(* for any releases, trackers, lists and bounds.                           *)
THEOREM CheckTypeCorrect == Spec => []TypeOK
  <1>1. IInv => TypeOK
    BY DEF IInv, ScrapeInv, PlaceInv, FolderInv, TypeOK
  <1>. QED BY <1>1, Inv, PTL

(* No number of another torrent or another tracker is ever returned,       *)
(* however late, lost or doubled the datagrams of any number of requests.  *)
THEOREM StatsAlwaysOurs == Spec => []StatsAreOurs
  <1>1. IInv => StatsAreOurs
    BY DEF IInv, ScrapeInv, ResultOurs, StatsAreOurs
  <1>. QED BY <1>1, Inv, PTL

(* A scrape that ends without numbers has no tracker left to ask, or has   *)
(* come to a malformed URL.                                                *)
LEMMA GivesUpStep ==
    ASSUME ScrapeInv, ScrapeStep, stage # "idle", stage' = "scraped", result' = NoStats
    PROVE  at > Len(Urls) \/ Scheme[Current] = "malformed"
  <1>1. scraping \in Release /\ at \in Nat /\ at >= 1 /\ answers \subseteq Answer
    BY DEF ScrapeInv, ScrapeTypeOK
  <1>2. NoStats \notin Stats
    BY ScrapeAssumption
  <1>3. More => Current \in Tracker
    BY <1>1, OfTheList
  <1>4. CASE Exhausted
    <2>1. Len(Urls) \in Nat
      BY <1>1, ScrapeAssumption DEF Urls
    <2>. QED BY <1>1, <1>4, <2>1 DEF Exhausted, More
  <1>5. CASE RaiseMalformed
    BY <1>5 DEF RaiseMalformed
  <1>6. CASE SkipTracker \/ UdpFails \/ AskConnect
    BY <1>6 DEF SkipTracker, UdpFails, AskConnect, NextTracker
  <1>7. CASE TryHttp
    <2>1. More /\ result' = [tracker |-> Current, from |-> Current, about |-> scraping]
      BY <1>7 DEF TryHttp, Return, NextTracker
    <2>. QED BY <1>1, <1>2, <1>3, <2>1 DEF Stats
  <1>8. ASSUME NEW m \in answers, ReceiveConnect(m)
        PROVE  FALSE
    BY <1>8 DEF ReceiveConnect, NextTracker
  <1>9. ASSUME NEW m \in answers, ReceiveScrape(m)
        PROVE  FALSE
    <2>1. result' = [tracker |-> Current, from |-> m.from, about |-> m.about]
      BY <1>9 DEF ReceiveScrape, Return, NextTracker
    <2>2. More
      BY <1>9 DEF ReceiveScrape, ScrapeInv, Asking
    <2>3. m.from \in Tracker /\ m.about \in Release
      BY <1>1 DEF Answer
    <2>. QED BY <1>2, <1>3, <2>1, <2>2, <2>3 DEF Stats
  <1>. QED BY <1>4, <1>5, <1>6, <1>7, <1>8, <1>9 DEF ScrapeStep

(* scrape_torrent gives up last: whatever trackers fail, are blocked or    *)
(* answer for another request, it ends without numbers only when it has    *)
(* come to the end of its list, or at a malformed URL (see Schemes).       *)
THEOREM AlwaysGivesUpLast == Spec => GivesUpLast
  <1>1. ASSUME IInv, [Next]_vars, stage \notin {"idle", "scraped"},
               stage' = "scraped", result' = NoStats
        PROVE  at > Len(Urls) \/ Scheme[Current] = "malformed"
    <2>1. ASSUME ~Scrape PROVE stage' \in {stage, "idle"}
      <3>1. CASE StartCheck \/ Stop \/ Daemon \/ UNCHANGED vars
        BY <3>1 DEF StartCheck, Stop, Daemon, ForgetScrape, vars, scrapeVars
      <3>2. CASE CheckStep
        <4>1. ~BeginScrape(current)
          BY <1>1 DEF BeginScrape
        <4>. QED BY <2>1, <3>2, <4>1
                 DEF CheckStep, NextCandidate, FirstLook, SecondLook, Look, FetchMetadata,
                     Decide, EvaluationRaises, Write, Written, EndCheck, ForgetScrape,
                     scrapeVars
      <3>. QED BY <1>1, <3>1, <3>2 DEF Next
    <2>2. ScrapeStep
      BY <1>1, <2>1 DEF Scrape
    <2>. QED BY <1>1, <2>2, GivesUpStep DEF IInv
  <1>. QED BY <1>1, Inv, PTL DEF Spec, GivesUpLast

(* Where the steps of the check come in their orders.                      *)
LEMMA RoundLater ==
    LET order == <<"loop", "first look", "second look", "fetch", "scrape", "write">>
    IN  /\ Later(order, "loop", "first look")
        /\ Later(order, "first look", "second look")
        /\ Later(order, "second look", "fetch")
        /\ Later(order, "fetch", "scrape")
        /\ Later(order, "scrape", "write")
  <1>. DEFINE order == <<"loop", "first look", "second look", "fetch", "scrape", "write">>
  <1>1. ASSUME NEW i \in 1 .. 6, NEW j \in 1 .. 6, i < j
        PROVE  Later(order, order[i], order[j])
    <2>1. i \in DOMAIN order /\ j \in DOMAIN order
      OBVIOUS
    <2>. HIDE DEF order
    <2>. QED BY <1>1, <2>1 DEF Later
  <1>2. /\ Later(order, order[1], order[2]) /\ Later(order, order[2], order[3])
        /\ Later(order, order[3], order[4]) /\ Later(order, order[4], order[5])
        /\ Later(order, order[5], order[6])
    <2>. HIDE DEF order
    <2>. QED BY <1>1
  <1>. QED BY <1>2

LEMMA ExchangeLater ==
    LET order == <<"trackers", "connect", "scrape", "scraped">>
    IN  /\ Later(order, "trackers", "connect") /\ Later(order, "trackers", "scraped")
        /\ Later(order, "connect", "scrape") /\ Later(order, "scrape", "scraped")
  <1>. DEFINE order == <<"trackers", "connect", "scrape", "scraped">>
  <1>1. ASSUME NEW i \in 1 .. 4, NEW j \in 1 .. 4, i < j
        PROVE  Later(order, order[i], order[j])
    <2>1. i \in DOMAIN order /\ j \in DOMAIN order
      OBVIOUS
    <2>. HIDE DEF order
    <2>. QED BY <1>1, <2>1 DEF Later
  <1>. QED BY <1>1

LEMMA WriteLater ==
    LET order == <<"open", "write", "replace", "tidy", "failed", "saved">>
    IN  /\ Later(order, "open", "write") /\ Later(order, "open", "tidy")
        /\ Later(order, "write", "replace") /\ Later(order, "write", "tidy")
        /\ Later(order, "replace", "tidy") /\ Later(order, "replace", "saved")
        /\ Later(order, "tidy", "failed")
  <1>. DEFINE order == <<"open", "write", "replace", "tidy", "failed", "saved">>
  <1>1. ASSUME NEW i \in 1 .. 6, NEW j \in 1 .. 6, i < j
        PROVE  Later(order, order[i], order[j])
    <2>1. i \in DOMAIN order /\ j \in DOMAIN order
      OBVIOUS
    <2>. HIDE DEF order
    <2>. QED BY <1>1, <2>1 DEF Later
  <1>. QED BY <1>1

(* The end of a round leaves a candidate fewer.                            *)
LEMMA ContinueForward ==
    ASSUME PlaceInv, pc \in Round, Continue PROVE Forward
  BY DEF PlaceInv, Continue, Forward

(* A scrape goes on to the next of finitely many trackers, or on in its    *)
(* exchange with this one.                                                 *)
LEMMA ScrapeForward ==
    ASSUME ScrapeInv, ScrapeStep, stage # "idle"
    PROVE  /\ scraping' = scraping
           /\ \/ at < at' /\ at' <= Len(Urls) + 1
              \/ /\ at' = at
                 /\ Later(<<"trackers", "connect", "scrape", "scraped">>, stage, stage')
  <1>1. at \in Nat /\ Len(Urls) \in Nat
    BY ScrapeAssumption DEF ScrapeInv, ScrapeTypeOK, Urls
  <1>2. ASSUME NextTracker, More
        PROVE  at < at' /\ at' <= Len(Urls) + 1 /\ scraping' = scraping
    BY <1>1, <1>2 DEF NextTracker, More
  <1>3. Asking => More
    BY DEF ScrapeInv
  <1>4. CASE Exhausted \/ RaiseMalformed
    BY <1>4, ExchangeLater DEF Exhausted, RaiseMalformed, Return
  <1>5. CASE SkipTracker
    BY <1>2, <1>5 DEF SkipTracker
  <1>6. CASE AskConnect
    BY <1>6, ExchangeLater DEF AskConnect
  <1>7. CASE UdpFails
    BY <1>2, <1>3, <1>7 DEF UdpFails, Asking
  <1>8. CASE TryHttp
    <2>1. More /\ stage = "trackers"
      BY <1>8 DEF TryHttp
    <2>2. NextTracker \/ (stage' = "scraped" /\ at' = at /\ scraping' = scraping)
      BY <1>8 DEF TryHttp, Return
    <2>. QED BY <1>2, <2>1, <2>2, ExchangeLater
  <1>9. ASSUME NEW m \in answers, ReceiveConnect(m) \/ ReceiveScrape(m)
        PROVE  \/ NextTracker /\ More
               \/ /\ at' = at /\ scraping' = scraping
                  /\ Later(<<"trackers", "connect", "scrape", "scraped">>, stage, stage')
    BY <1>3, <1>9, ExchangeLater DEF ReceiveConnect, ReceiveScrape, Return, Asking
  <1>. QED BY <1>2, <1>4, <1>5, <1>6, <1>7, <1>8, <1>9 DEF ScrapeStep

LEMMA CheckForward == ASSUME IInv, CheckStep PROVE Forward
  <1>. USE DEF IInv
  <1>1. ASSUME NEW r \in Release, NextCandidate(r) PROVE Forward
    BY <1>1, RoundLater DEF NextCandidate, Forward
  <1>2. CASE FirstLook
    BY <1>2, RoundLater, ContinueForward DEF FirstLook, Look, Round, Forward
  <1>3. CASE SecondLook
    BY <1>3, RoundLater, ContinueForward DEF SecondLook, Look, Round, Forward
  <1>4. CASE FetchMetadata
    BY <1>4, RoundLater, ContinueForward DEF FetchMetadata, Round, Forward
  <1>5. CASE Scrape
    <2>1. stage # "idle"
      BY <1>5 DEF Scrape, PlaceInv
    <2>. QED BY <1>5, <2>1, ScrapeForward DEF Scrape, checkVars, Forward
  <1>6. CASE Decide
    BY <1>6, RoundLater, ContinueForward DEF Decide, Round, Forward
  <1>7. CASE Write
    <2>1. Later(<<"open", "write", "replace", "tidy", "failed", "saved">>, writing, writing')
      BY <1>7, WriteLater
      DEF Write, Watch!WriteStep, Watch!OpenPart, Watch!WritePart, Watch!Replace,
          Watch!WriteFails, Watch!TidyPart
    <2>. QED BY <1>7, <2>1 DEF Write, checkVars, Forward
  <1>8. CASE Written
    BY <1>8, ContinueForward DEF Written, Round
  <1>9. CASE EndCheck
    BY <1>9 DEF EndCheck, Forward
  <1>10. CASE EvaluationRaises
    BY <1>10 DEF EvaluationRaises, Forward
  <1>. QED BY <1>1, <1>2, <1>3, <1>4, <1>5, <1>6, <1>7, <1>8, <1>9, <1>10 DEF CheckStep

(* The check never goes over anything again, for any number of candidates  *)
(* and trackers: the argument by which it ends, short of the fairness that *)
(* each of its waits has a timeout.                                        *)
THEOREM CheckNeverBack == Spec => NeverBack
  <1>1. IInv => [CheckStep => Forward]_vars
    BY CheckForward
  <1>. QED BY <1>1, Inv, PTL DEF NeverBack

(* _write_watch_file is atomic: neither a failure nor a stop at any of its *)
(* steps puts part of a file where the daemon looks.                       *)
THEOREM NeverPartial == Spec => []NoPartialFile
  <1>1. IInv => NoPartialFile
    BY DEF IInv, FolderInv, NoPartialFile
  <1>. QED BY <1>1, Inv, PTL

-----------------------------------------------------------------------------
(* The refinement.  A step either leaves both names of every release as    *)
(* they are, or is the rename that ends a write, or one of the daemon's.   *)

LEMMA Same ==
    ASSUME UNCHANGED <<torrent, loaded>>
    PROVE  UNCHANGED PromisedWatch
  BY DEF PromisedWatch, Promised

LEMMA Saved ==
    ASSUME IInv, pc = "write", Watch!Replace(current)
    PROVE  Promise!Next
  <1>1. /\ current \in Release /\ current \in WantedReleases
        /\ torrent[current] = "absent" /\ loaded[current] = "absent"
        /\ part[current] = "whole"
        /\ torrent \in [Release -> Watch!File]
    BY DEF Watch!Replace, IInv, PlaceInv, Round, FolderInv, Watch!WatchTypeOK
  <1>2. /\ torrent' = [torrent EXCEPT ![current] = "whole"]
        /\ loaded' = loaded
    BY <1>1 DEF Watch!Replace
  <1>3. PromisedWatch[current] = "absent"
    BY <1>1 DEF PromisedWatch, Promised
  <1>4. PromisedWatch' = [PromisedWatch EXCEPT ![current] = "torrent"]
    <2>1. \A r \in Release :
             torrent'[r] = IF r = current THEN "whole" ELSE torrent[r]
      BY <1>1, <1>2
    <2>2. \A r \in Release :
             Promised(r)' = IF r = current THEN "torrent" ELSE Promised(r)
      BY <1>1, <1>2, <2>1 DEF Promised
    <2>. QED BY <2>2 DEF PromisedWatch
  <1>. QED BY <1>1, <1>3, <1>4 DEF Promise!Next, Promise!Add

LEMMA Scanned ==
    ASSUME IInv, NEW r \in Release, Watch!LoadWatchFile(r)
    PROVE  Promise!Next
  <1>1. /\ torrent[r] = "whole" /\ loaded[r] = "absent"
        /\ torrent \in [Release -> Watch!File] /\ loaded \in [Release -> Watch!File]
    BY DEF Watch!LoadWatchFile, IInv, FolderInv, Watch!WatchTypeOK,
           Watch!NoPartialFile, Watch!File
  <1>2. \A q \in Release :
           /\ torrent'[q] = IF q = r THEN "absent" ELSE torrent[q]
           /\ loaded'[q] = IF q = r THEN "whole" ELSE loaded[q]
    BY <1>1 DEF Watch!LoadWatchFile
  <1>3. \A q \in Release : Promised(q)' = IF q = r THEN "added" ELSE Promised(q)
    BY <1>2 DEF Promised
  <1>4. PromisedWatch[r] = "torrent"
    BY <1>1 DEF PromisedWatch, Promised
  <1>5. PromisedWatch' = [PromisedWatch EXCEPT ![r] = "added"]
    BY <1>3 DEF PromisedWatch
  <1>. QED BY <1>4, <1>5 DEF Promise!Next, Promise!Load

LEMMA Taken ==
    ASSUME IInv, NEW r \in Release, Watch!RemoveLoaded(r)
    PROVE  Promise!Next
  <1>1. /\ torrent[r] = "absent" /\ loaded[r] = "whole"
        /\ loaded \in [Release -> Watch!File]
    BY DEF Watch!RemoveLoaded, IInv, FolderInv, Watch!WatchTypeOK,
           Watch!NoPartialFile, Watch!File
  <1>2. /\ torrent' = torrent
        /\ \A q \in Release : loaded'[q] = IF q = r THEN "absent" ELSE loaded[q]
    BY <1>1 DEF Watch!RemoveLoaded
  <1>3. \A q \in Release : Promised(q)' = IF q = r THEN "absent" ELSE Promised(q)
    BY <1>1, <1>2 DEF Promised
  <1>4. PromisedWatch[r] = "added"
    BY <1>1 DEF PromisedWatch, Promised
  <1>5. PromisedWatch' = [PromisedWatch EXCEPT ![r] = "absent"]
    BY <1>3 DEF PromisedWatch
  <1>. QED BY <1>4, <1>5 DEF Promise!Next, Promise!Remove

LEMMA StepPromised == IInv /\ [Next]_vars => [Promise!Next]_PromisedWatch
  <1>. SUFFICES ASSUME IInv, [Next]_vars
                PROVE  Promise!Next \/ UNCHANGED PromisedWatch
    OBVIOUS
  <1>1. CASE UNCHANGED <<torrent, loaded>>
    BY <1>1, Same
  <1>2. CASE Write
    <2>1. Watch!Replace(current) \/ UNCHANGED <<torrent, loaded>>
      BY <1>2 DEF Write, Watch!WriteStep, Watch!OpenPart, Watch!WritePart,
                  Watch!WriteFails, Watch!TidyPart, Watch!folderVars
    <2>. QED BY <1>2, <2>1, Same, Saved DEF Write
  <1>3. CASE Daemon
    BY <1>3, Scanned, Taken DEF Daemon
  <1>4. CASE StartCheck \/ Stop \/ UNCHANGED vars
    <2>1. UNCHANGED <<torrent, loaded>>
      BY <1>4 DEF StartCheck, Stop, vars, watchVars
    <2>. QED BY <1>1, <2>1
  <1>5. CASE CheckStep /\ ~Write
    <2>1. UNCHANGED <<torrent, loaded>>
      BY <1>5 DEF CheckStep, NextCandidate, FirstLook, SecondLook, Look, FetchMetadata,
                  Scrape, Decide, EvaluationRaises, Written, EndCheck, watchVars
    <2>. QED BY <1>1, <2>1
  <1>. QED BY <1>2, <1>3, <1>4, <1>5 DEF Next

(* The old-release check, step by step with its scrapes, writes, failures  *)
(* and stops, does what DemandCheck promises.                              *)
THEOREM DemandCheckImplemented == Spec => ImplementsDemandCheck
  <1>1. Init => Promise!Init
    BY DEF Init, Watch!WatchInit, Promise!Init, PromisedWatch, Promised
  <1>. QED BY <1>1, Inv, StepPromised, PTL
           DEF Spec, ImplementsDemandCheck, Promise!Spec
=============================================================================
