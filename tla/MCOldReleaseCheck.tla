-------------------------- MODULE MCOldReleaseCheck --------------------------
(***************************************************************************)
(* Two old releases that share the UDP trackers t1 and t2.  k1's primary   *)
(* is a web tracker none of its tiers has, and t1 is in two of them; k2's  *)
(* list goes on with a tracker inside this network and a URL that does not *)
(* parse.  Only k1 is in demand, and only t2 and web say so: t1 sees one   *)
(* leecher too few, and of k2 there are too many seeders, or none.         *)
(***************************************************************************)
EXTENDS OldReleaseCheck

CONSTANTS k1, k2, t1, t2, web, inside, bad

MCAnnounce ==
    [r \in Release |-> IF r = k1 THEN <<web, t1, t2>>
                                 ELSE <<t1, t2, inside, bad>>]

ASSUME MCAnnounceUrls ==
    /\ MCAnnounce[k1] = AnnounceUrls(<<<<t1>>, <<t2, t1>>>>, <<web>>)
    /\ MCAnnounce[k2] = AnnounceUrls(<<<<t1, t2>>, <<inside, bad>>>>, <<t2>>)
    /\ AnnounceUrls(<<<<t2>>, <<t2>>>>, <<>>) = <<t2>>

MCScheme ==
    [t \in Tracker |-> CASE t = web -> "http"
                         [] t = bad -> "malformed"
                         [] OTHER -> "udp"]

MCLeechers ==
    [t \in Tracker |-> [r \in Release |-> IF r = k1 /\ t = t1 THEN 1 ELSE 2]]

MCSeeders ==
    [t \in Tracker |-> [r \in Release |->
        CASE r = k1 -> 2
          [] r = k2 -> IF t = t2 THEN 0 ELSE 3]]
=============================================================================
