----------------------------- MODULE MCStartup -----------------------------
(***************************************************************************)
(* This host and one other on its network, and one login.  The whitelist,  *)
(* port forwarding and the peer limits are set together: to both hosts, on *)
(* and raised, or the latter two to off and to no number.                  *)
(***************************************************************************)
EXTENDS Startup

CONSTANTS local, lan, p

MCEnvs ==
    {e \in Env : <<e.whitelist, e.ports, e.peers>> \in
                     {<<Unset, Unset, Unset>>, <<{lan}, "on", "raised">>,
                      <<Unset, "off", "invalid">>}}
=============================================================================
