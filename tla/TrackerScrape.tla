--------------------------- MODULE TrackerScrape ---------------------------
(***************************************************************************)
(* torrent_scrape.py: asking a torrent's trackers, one after the other,    *)
(* for the numbers of its swarm.  A UDP tracker is asked twice over a      *)
(* socket that is not connected: whatever datagram arrives first is taken  *)
(* for the answer, and only its action and transaction id tell whether it  *)
(* is.  An answer may be lost, late, or delivered twice, and since the     *)
(* next socket may get the same port, one may arrive when another tracker, *)
(* or another torrent, is being asked about.                               *)
(***************************************************************************)
EXTENDS Integers, Sequences, FiniteSets, SequencesExt

CONSTANTS
    Release,  \* torrents that are asked about
    Tracker,  \* announce URLs
    Announce, \* [Release -> Seq(Tracker)], see AnnounceUrls
    Scheme,   \* [Tracker -> Schemes]
    Blocked,  \* trackers whose host has no address outside this network
    NoStats,  \* scrape_torrent returns None, or raises
    NoRelease,
    MaxAnswers \* bound: datagrams that are not lost, until all have expired

(* What scrape_torrent returns: whose numbers, as in Answer, and the       *)
(* tracker it says they are from.                                          *)
Stats == [tracker : Tracker, from : Tracker, about : Release]

(* "malformed" is a URL whose netloc or port does not parse, or a host     *)
(* with an empty or over-long label: urlsplit and .port raise ValueError   *)
(* for the former, getaddrinfo UnicodeError for the latter.                *)
Schemes == {"udp", "http", "other", "malformed"}

ASSUME ScrapeAssumption ==
    /\ Announce \in [Release -> Seq(Tracker)]
    /\ Scheme \in [Tracker -> Schemes]
    /\ NoRelease \notin Release
    /\ NoStats \notin Stats
    /\ MaxAnswers \in Nat

VARIABLES
    stage,    \* where scrape_torrent is
    scraping, \* the torrent it was called with
    at,       \* the tracker of its list it is at
    txn,      \* the latest transaction id
    answers,  \* every datagram a tracker has sent back
    result    \* what scrape_torrent returned

scrapeVars == <<stage, scraping, at, txn, answers, result>>

Stages == {"idle", "trackers", "connect", "scrape", "scraped"}

(* A UDP answer.  The torrent is not in it: from and about say whose       *)
(* numbers they are, as the tracker meant them.                            *)
Answer == [action : {"connect", "scrape"}, txn : Nat,
           from : Tracker, about : Release]

ScrapeTypeOK ==
    /\ stage \in Stages
    /\ scraping \in Release \cup {NoRelease}
    /\ at \in Nat
    /\ txn \in Nat
    /\ answers \subseteq Answer
    /\ result \in Stats \cup {NoStats}

ScrapeInit ==
    /\ stage = "idle"
    /\ scraping = NoRelease
    /\ at = 1
    /\ txn = 0
    /\ answers = {}
    /\ result = NoStats

-----------------------------------------------------------------------------
(* get_announce_urls: the tiers in order without what came before, and the *)
(* primary, if the file has one, in front unless a tier has it.            *)
AnnounceUrls(tiers, primary) ==
    LET AddUrl(urls, u) == IF Contains(urls, u) THEN urls ELSE Append(urls, u)
        listed == FoldLeft(AddUrl, <<>>, FlattenSeq(tiers))
    IN  SelectSeq(primary, LAMBDA u : ~Contains(listed, u)) \o listed

Urls == Announce[scraping]
Current == Urls[at]
More == at <= Len(Urls)

(* scrape_torrent up to its loop, which a file that does not decode never  *)
(* reaches.                                                                *)
BeginScrape(r) ==
    /\ stage = "idle"
    /\ scraping' = r
    /\ at' = 1
    /\ result' = NoStats
    /\ stage' \in {"trackers", "scraped"}
    /\ UNCHANGED <<txn, answers>>

Return(stats) ==
    /\ result' = stats
    /\ stage' = "scraped"
    /\ UNCHANGED <<scraping, at>>

NextTracker ==
    /\ at' = at + 1
    /\ stage' = "trackers"
    /\ UNCHANGED <<scraping, result>>

Exhausted ==
    /\ stage = "trackers"
    /\ ~More
    /\ Return(NoStats)
    /\ UNCHANGED <<txn, answers>>

(* No scrape for its scheme, a blocked host, or one that does not resolve. *)
SkipTracker ==
    /\ stage = "trackers"
    /\ More
    /\ Scheme[Current] # "malformed"
    /\ NextTracker
    /\ UNCHANGED <<txn, answers>>

(* An exception at the URL: _is_safe_scrape_host catches OSError alone,    *)
(* and the try of scrape_torrent begins only after it.                     *)
RaiseMalformed ==
    /\ stage = "trackers"
    /\ More
    /\ Scheme[Current] = "malformed"
    /\ Return(NoStats)
    /\ UNCHANGED <<txn, answers>>

-----------------------------------------------------------------------------
(* scrape_udp_tracker.  A request draws a fresh id and the tracker answers *)
(* it, unless the request or the answer is lost.                           *)
Ask(action) ==
    /\ txn' = txn + 1
    /\ \/ UNCHANGED answers
       \/ /\ Cardinality(answers) < MaxAnswers
          /\ answers' = answers \cup
              {[action |-> action, txn |-> txn + 1,
                from |-> Current, about |-> scraping]}

AskConnect ==
    /\ stage = "trackers"
    /\ More
    /\ Scheme[Current] = "udp"
    /\ Current \notin Blocked
    /\ Ask("connect")
    /\ stage' = "connect"
    /\ UNCHANGED <<scraping, at, result>>

(* Mutant: the transaction id is not compared.                             *)
IsAnyAnswer(m) == m.action = stage

(* parse_udp_connect_response, parse_udp_scrape_response                   *)
IsAnswer(m) == m.action = stage /\ m.txn = txn

(* The first datagram to arrive decides: one that is not the answer raises.*)
ReceiveConnect(m) ==
    /\ stage = "connect"
    /\ m \in answers
    /\ IF IsAnswer(m)
       THEN Ask("scrape") /\ stage' = "scrape" /\ UNCHANGED <<scraping, at, result>>
       ELSE NextTracker /\ UNCHANGED <<txn, answers>>

ReceiveScrape(m) ==
    /\ stage = "scrape"
    /\ m \in answers
    /\ IF IsAnswer(m)
       THEN Return([tracker |-> Current, from |-> m.from, about |-> m.about])
       ELSE NextTracker
    /\ UNCHANGED <<txn, answers>>

(* Mutant: the exception ends the scrape of the other trackers as well.    *)
UdpFailureEnds ==
    /\ stage \in {"connect", "scrape"}
    /\ Return(NoStats)
    /\ UNCHANGED <<txn, answers>>

(* Mutant: no timeout is set, and only a datagram ends the wait.           *)
UdpFailsNoTimeout ==
    /\ stage \in {"connect", "scrape"}
    /\ \E m \in answers : m.txn = txn
    /\ NextTracker
    /\ UNCHANGED <<txn, answers>>

(* Mutant: a tracker that failed is asked again.                           *)
UdpFailureRetried ==
    /\ stage \in {"connect", "scrape"}
    /\ stage' = "trackers"
    /\ UNCHANGED <<scraping, at, result, txn, answers>>

(* The socket's timeout, a tracker's error action, a datagram too short.   *)
UdpFails ==
    /\ stage \in {"connect", "scrape"}
    /\ NextTracker
    /\ UNCHANGED <<txn, answers>>

(* Mutant: an answer without this torrent is passed on like any other.     *)
TryHttpUnchecked ==
    /\ stage = "trackers"
    /\ More
    /\ Scheme[Current] = "http"
    /\ Current \notin Blocked
    /\ Return([tracker |-> Current])
    /\ UNCHANGED <<txn, answers>>

(* requests.get and parse_scrape_response: the numbers, or a failure, or   *)
(* an answer without this torrent in it.                                   *)
TryHttp ==
    /\ stage = "trackers"
    /\ More
    /\ Scheme[Current] = "http"
    /\ Current \notin Blocked
    /\ \/ Return([tracker |-> Current, from |-> Current, about |-> scraping])
       \/ NextTracker
    /\ UNCHANGED <<txn, answers>>

ScrapeStep ==
    \/ Exhausted \/ SkipTracker \/ RaiseMalformed
    \/ AskConnect \/ UdpFails \/ TryHttp
    \/ \E m \in answers : ReceiveConnect(m) \/ ReceiveScrape(m)

(* What is left of a scrape when the process ends, or the next one begins. *)
ForgetScrape ==
    /\ stage' = "idle"
    /\ scraping' = NoRelease
    /\ at' = 1
    /\ result' = NoStats

-----------------------------------------------------------------------------
(* "Transaction ID mismatch": the numbers returned are those the named     *)
(* tracker gave for this torrent, whatever datagrams of earlier requests   *)
(* arrive on the socket.                                                   *)
StatsAreOurs ==
    result # NoStats => result.from = result.tracker /\ result.about = scraping
=============================================================================
