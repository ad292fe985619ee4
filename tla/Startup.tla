------------------------------ MODULE Startup ------------------------------
(***************************************************************************)
(* A container's life as entrypoint.sh leads it, time after time:          *)
(* configure_transmission.py merges the environment into settings.json,    *)
(* the daily script begins in the background and waits for the daemon's    *)
(* RPC port, and transmission-daemon reads settings.json, listens, lets    *)
(* the web UI change some of it, and writes all of it back on a clean      *)
(* exit.  While the container is down the operator may edit the file, or   *)
(* create the container anew with another environment.                     *)
(***************************************************************************)
EXTENDS Integers

CONSTANTS
    Whitelists,     \* sets of addresses a whitelist may have
    Localhost,      \* LOCALHOST_WHITELIST
    Login,          \* user names with their passwords
    NoLogin,        \* rpc-authentication-required is off
    Incomplete,     \* only one of user name and password is set
    Unset,          \* a key that settings.json, or the environment, lacks
    Absent,         \* no settings.json
    Unreadable,     \* one that is no JSON
    Timeout,        \* wait_for_transmission_rpc's timeout, in seconds
    ConnectTimeout, \* that of one connection attempt
    Envs,           \* environments the operator may set
    MaxEdits        \* bound: changes by the operator

(* rpc-whitelist with its -enabled; rpc-username and rpc-password with     *)
(* rpc-authentication-required; port-forwarding-enabled; the peer limits.  *)
Key == {"whitelist", "login", "ports", "peers"}

Logins == Login \cup {NoLogin}
Ports == {"on", "off"}
Peers == {"default", "raised"}

Settings == [whitelist : Whitelists \cup {Unset}, login : Logins \cup {Unset},
             ports : Ports \cup {Unset}, peers : Peers \cup {Unset}]

Empty == [whitelist |-> Unset, login |-> Unset, ports |-> Unset, peers |-> Unset]

(* The daemon's own defaults.                                              *)
DaemonDefault == [whitelist |-> Localhost, login |-> NoLogin,
                  ports |-> "on", peers |-> "default"]

(* The environment; a peer limit may be no number above zero.              *)
Env == [whitelist : Whitelists \cup {Unset},
        login : Login \cup {Unset, Incomplete},
        ports : Ports \cup {Unset},
        peers : {Unset, "invalid", "raised"}]

ASSUME StartupAssumption ==
    /\ Envs \subseteq Env
    /\ Localhost \in Whitelists /\ Localhost # {}
    /\ \A w \in Whitelists : Localhost \cup w \in Whitelists
    /\ Unset \notin Whitelists /\ Unset \notin Logins
    /\ Unset \notin Ports /\ Unset \notin Peers
    /\ NoLogin \notin Login \cup {Unset, Incomplete}
    /\ Incomplete \notin Login
    /\ Absent # Unreadable /\ Absent \notin Settings
    /\ Unreadable \notin Settings
    /\ Timeout \in Nat /\ ConnectTimeout \in Nat
    /\ MaxEdits \in Nat

(* The first of these wins.                                                *)
Over(first, second) ==
    [whitelist |-> IF first.whitelist # Unset THEN first.whitelist ELSE second.whitelist,
     login |-> IF first.login # Unset THEN first.login ELSE second.login,
     ports |-> IF first.ports # Unset THEN first.ports ELSE second.ports,
     peers |-> IF first.peers # Unset THEN first.peers ELSE second.peers]

VARIABLES
    env,    \* this container's environment
    file,   \* settings.json: Settings, Absent or Unreadable
    phase,  \* of the container
    daemon, \* of transmission-daemon
    live,   \* the settings it works with
    wait,   \* where wait_for_transmission_rpc is
    elapsed, \* seconds since it began
    answer  \* to the script's first RPC of the run

(* Not the program's: what the properties compare with.                    *)
VARIABLES
    wanted,     \* the last decision on each key, by whoever may decide
    unsaved,    \* keys whose last decision has not reached settings.json
    fresh,      \* load_settings has started fresh on a file that was there
    configured, \* this start's configure_transmission.py went through
    openedAt,   \* when the port opened, counted as elapsed
    edits

waitVars == <<wait, elapsed, answer>>
daemonVars == <<daemon, live, openedAt>>
choiceVars == <<wanted, unsaved, fresh>>
vars == <<env, file, phase, daemonVars, waitVars, choiceVars, configured, edits>>

Never == -1

TypeOK ==
    /\ env \in Env
    /\ file \in Settings \cup {Absent, Unreadable}
    /\ phase \in {"down", "starting", "up"}
    /\ daemon \in {"off", "starting", "listening"}
    /\ live \in Settings
    /\ wait \in {"none", "connect", "trying", "sleep", "ask", "over"}
    /\ elapsed \in 0 .. Timeout + ConnectTimeout
    /\ answer \in {"none", "unavailable", "refused address", "refused login", "accepted"}
    /\ wanted \in Settings
    /\ unsaved \subseteq Key
    /\ fresh \in BOOLEAN
    /\ configured \in BOOLEAN
    /\ openedAt \in {Never} \cup 0 .. Timeout + ConnectTimeout
    /\ edits \in 0 .. MaxEdits

Init ==
    /\ env = Empty
    /\ file = Absent
    /\ phase = "down"
    /\ daemon = "off"
    /\ live = Empty
    /\ wait = "none"
    /\ elapsed = 0
    /\ answer = "none"
    /\ wanted = Empty
    /\ unsaved = {}
    /\ fresh = FALSE
    /\ configured = FALSE
    /\ openedAt = Never
    /\ edits = 0

-----------------------------------------------------------------------------
(* configure_transmission.py.                                              *)

(* Mutant: the entries replace localhost.                                  *)
BuildWhitelistReplacing(entries) == entries

BuildWhitelist(entries) == Localhost \cup entries

(* Mutant: a limit of zero is written like any other.                      *)
AnyPeerLimit(limit) == limit

(* _parse_positive_int                                                     *)
PeerLimit(limit) == IF limit = "invalid" THEN Unset ELSE limit

(* Mutant: off unless the environment says otherwise, at every start.      *)
PortsOffAgain(asked, exists) == IF asked # Unset THEN asked ELSE "off"

(* build_port_forwarding_overrides                                         *)
PortForwarding(asked, exists) ==
    IF asked = Unset /\ ~exists THEN "off" ELSE asked

Overrides ==
    [whitelist |-> IF env.whitelist = Unset THEN Unset
                   ELSE BuildWhitelist(env.whitelist),
     login |-> IF env.login = Incomplete THEN Unset ELSE env.login,
     ports |-> PortForwarding(env.ports, file # Absent),
     peers |-> PeerLimit(env.peers)]

(* What the file says, to whoever can read it.                             *)
Loaded == IF file \in {Absent, Unreadable} THEN Empty ELSE file

(* load_settings: "starting fresh" where it cannot open the file, too.     *)
LoadSettings == {Loaded, Empty}

(* What the README promises of the environment and of a first start.       *)
Decided ==
    [whitelist |-> IF env.whitelist = Unset THEN Unset
                   ELSE Localhost \cup env.whitelist,
     login |-> IF env.login = Incomplete THEN Unset ELSE env.login,
     ports |-> IF env.ports # Unset THEN env.ports
               ELSE IF file = Absent THEN "off" ELSE Unset,
     peers |-> IF env.peers = "invalid" THEN Unset ELSE env.peers]

DecidedKeys == {k \in Key : Decided[k] # Unset}

(* entrypoint.sh goes on whatever comes of it, with the script first.      *)
BeginUp ==
    /\ phase = "starting"
    /\ phase' = "up"
    /\ wait' = "connect"
    /\ wanted' = Over(Decided, wanted)
    /\ UNCHANGED <<env, elapsed, answer, daemonVars, edits>>

(* Nothing is read, or written, without overrides.                         *)
Configure ==
    /\ BeginUp
    /\ \/ /\ Overrides = Empty
          /\ UNCHANGED <<file, fresh>>
       \/ /\ Overrides # Empty
          /\ \E settings \in LoadSettings :
                /\ file' = Over(Overrides, settings)
                /\ fresh' = (fresh \/ file \notin {Absent, settings})
    /\ configured' = TRUE
    /\ unsaved' = unsaved \ DecidedKeys

(* It raises before os.replace.                                            *)
ConfigureFails ==
    /\ BeginUp
    /\ configured' = FALSE
    /\ unsaved' = (unsaved \ DecidedKeys)
                     \cup {k \in DecidedKeys : Decided[k] # Loaded[k]}
    /\ UNCHANGED <<file, fresh>>

-----------------------------------------------------------------------------
(* wait_for_transmission_rpc, and the script's first call after it.        *)

WaitUnchanged == UNCHANGED <<env, file, phase, daemonVars, choiceVars,
                             configured, edits>>

Attempt ==
    /\ wait = "connect"
    /\ elapsed < Timeout
    /\ wait' = IF daemon = "listening" THEN "ask" ELSE "trying"
    /\ UNCHANGED <<elapsed, answer>>
    /\ WaitUnchanged

(* Mutant: the first failure is final.                                     *)
FailForGood ==
    /\ wait = "trying"
    /\ wait' = "over"
    /\ answer' = "unavailable"
    /\ \E d \in 0 .. ConnectTimeout : elapsed' = elapsed + d
    /\ WaitUnchanged

AttemptFails ==
    /\ wait = "trying"
    /\ wait' = "sleep"
    /\ \E d \in 0 .. ConnectTimeout : elapsed' = elapsed + d
    /\ UNCHANGED answer
    /\ WaitUnchanged

(* The port opened while the attempt was under way.                        *)
AttemptSucceeds ==
    /\ wait = "trying"
    /\ daemon = "listening"
    /\ wait' = "ask"
    /\ \E d \in 0 .. ConnectTimeout : elapsed' = elapsed + d
    /\ UNCHANGED answer
    /\ WaitUnchanged

(* Mutant: the time is taken afresh for every attempt.                     *)
SleepAndRestart ==
    /\ wait = "sleep"
    /\ wait' = "connect"
    /\ elapsed' = 0
    /\ UNCHANGED answer
    /\ WaitUnchanged

Sleep ==
    /\ wait = "sleep"
    /\ wait' = "connect"
    /\ elapsed' = elapsed + 1
    /\ UNCHANGED answer
    /\ WaitUnchanged

GiveUp ==
    /\ wait = "connect"
    /\ elapsed >= Timeout
    /\ wait' = "over"
    /\ answer' = "unavailable"
    /\ UNCHANGED elapsed
    /\ WaitUnchanged

(* log_seed_ratios_via_http: the address is checked before the login.      *)
Ask ==
    /\ wait = "ask"
    /\ wait' = "over"
    /\ answer' = IF live.whitelist \cap Localhost = {} THEN "refused address"
                 ELSE IF live.login \in {NoLogin, env.login} THEN "accepted"
                 ELSE "refused login"
    /\ UNCHANGED elapsed
    /\ WaitUnchanged

-----------------------------------------------------------------------------
(* transmission-daemon, which does not start on a file it cannot read.     *)

StartDaemon ==
    /\ phase = "up"
    /\ daemon = "off"
    /\ file # Unreadable
    /\ daemon' = "starting"
    /\ live' = Over(Loaded, DaemonDefault)
    /\ wanted' = Over(wanted, DaemonDefault)
    /\ UNCHANGED <<env, file, phase, openedAt, waitVars, unsaved, fresh, configured,
                   edits>>

Listen ==
    /\ daemon = "starting"
    /\ daemon' = "listening"
    /\ openedAt' = elapsed
    /\ UNCHANGED <<env, file, phase, live, waitVars, choiceVars, configured, edits>>

(* The web UI reaches these two keys alone.                                *)
EditInWebUI ==
    /\ daemon = "listening"
    /\ edits < MaxEdits
    /\ edits' = edits + 1
    /\ \E k \in {"ports", "peers"}, v \in Ports \cup Peers :
          /\ live' = [live EXCEPT ![k] = v]
          /\ live' \in Settings
          /\ wanted' = [wanted EXCEPT ![k] = v]
          /\ unsaved' = unsaved \cup {k}
    /\ UNCHANGED <<env, file, phase, daemon, openedAt, waitVars, fresh, configured>>

(* All of what it works with is written, the changes with it.              *)
SaveSettings ==
    /\ daemon # "off"
    /\ file' = live
    /\ unsaved' = {k \in unsaved : live[k] # wanted[k]}
    /\ UNCHANGED <<wanted, fresh>>

(* "Transmission checkpoints its state ... as it runs", at times unknown.  *)
Checkpoint ==
    /\ SaveSettings
    /\ UNCHANGED <<env, phase, daemonVars, waitVars, configured, edits>>

Down ==
    /\ phase' = "down"
    /\ daemon' = "off"
    /\ live' = Empty
    /\ openedAt' = Never
    /\ wait' = "none"
    /\ elapsed' = 0
    /\ answer' = "none"
    /\ configured' = FALSE
    /\ UNCHANGED <<env, edits>>

(* docker stop: the daemon writes settings.json on its way out.            *)
StopCleanly == SaveSettings /\ Down

(* A kill, or a stop before the daemon runs: it writes nothing.            *)
Kill ==
    /\ phase # "down"
    /\ UNCHANGED <<file, choiceVars>>
    /\ Down

Boot ==
    /\ phase = "down"
    /\ phase' = "starting"
    /\ env' \in Envs
    /\ UNCHANGED <<file, daemonVars, waitVars, choiceVars, configured, edits>>

(* By hand: one key changed or taken out, or the file spoilt.  What was    *)
(* decided before is still what is wanted.                                 *)
EditFile ==
    /\ phase = "down"
    /\ file # Unreadable
    /\ edits < MaxEdits
    /\ edits' = edits + 1
    /\ \/ \E k \in Key, s \in Settings :
             /\ \A other \in Key \ {k} : s[other] = Loaded[other]
             /\ file' = s
             /\ wanted' = [wanted EXCEPT ![k] = s[k]]
             /\ unsaved' = unsaved \ {k}
       \/ /\ file' = Unreadable
          /\ UNCHANGED <<wanted, unsaved>>
    /\ UNCHANGED <<env, phase, daemonVars, waitVars, fresh, configured>>

ScriptStep ==
    Attempt \/ AttemptFails \/ AttemptSucceeds \/ Sleep \/ GiveUp \/ Ask

Next ==
    \/ Boot \/ Configure \/ ConfigureFails
    \/ ScriptStep
    \/ StartDaemon \/ Listen \/ EditInWebUI \/ Checkpoint
    \/ StopCleanly \/ Kill \/ EditFile

(* Every wait of the script has a timeout.  Nothing is assumed of the      *)
(* daemon or the operator.                                                 *)
Spec == Init /\ [][Next]_vars /\ WF_vars(ScriptStep)

-----------------------------------------------------------------------------
(* "an unset env var never touches - or resets - whatever's already on     *)
(* disk": a decision that has reached settings.json, from the environment  *)
(* of this or an earlier container, by hand, through the web UI or by      *)
(* default, is what the daemon works with until the next decision on that  *)
(* key, through any restarts.  Port forwarding, off by default at a first  *)
(* start only, is the key that could be fought over.  Two kinds of loss    *)
(* remain: what a kill catches unsaved, and all that is on disk where      *)
(* load_settings starts fresh on a file it cannot open, or parse.          *)
SavedChoicesStand ==
    daemon # "off" /\ ~fresh => \A k \in Key \ unsaved : live[k] = wanted[k]

(* "localhost ... always stays in the whitelist so the fetch script's own  *)
(* RPC calls keep working", and the script sends the login the daemon was  *)
(* given: whatever was in the file before, it is not shut out by a start   *)
(* that sets the whitelist, or the login.                                  *)
ScriptAdmitted ==
    /\ answer = "refused address" => ~configured \/ env.whitelist = Unset
    /\ answer = "refused login" => ~configured \/ env.login \in {Unset, Incomplete}

(* "False if it still doesn't after `timeout` seconds": a port that opens  *)
(* before the time of a last attempt is not missed, and that comes no more *)
(* than a connection attempt and a second short of the timeout.            *)
WaitFindsDaemon ==
    answer = "unavailable" =>
        openedAt = Never \/ openedAt >= Timeout - ConnectTimeout - 1

(* The script goes on, whether or not the daemon ever listens.             *)
WaitEnds == wait \in {"connect", "trying", "sleep", "ask"} ~> wait \in {"over", "none"}
=============================================================================
