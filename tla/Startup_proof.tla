--------------------------- MODULE Startup_proof ---------------------------
(***************************************************************************)
(* Proofs about Startup, for any addresses, logins, environments, timeouts *)
(* and number of edits, over any number of starts.                         *)
(***************************************************************************)
EXTENDS Startup, TLAPS

(* The clock of the wait, and what a container that is not up has not.     *)
ClockInv ==
    /\ wait = "trying" => elapsed < Timeout
    /\ wait = "sleep" => elapsed < Timeout + ConnectTimeout
    /\ answer = "unavailable" => elapsed >= Timeout
    /\ phase # "up" => /\ wait = "none" /\ answer = "none" /\ elapsed = 0
                       /\ daemon = "off" /\ ~configured
    /\ wait = "ask" => daemon # "off"

(* A port that is open was not when the attempt behind us began.           *)
PortInv ==
    /\ openedAt = Never <=> daemon # "listening"
    /\ openedAt # Never =>
          /\ wait = "trying" => openedAt >= elapsed
          /\ wait = "sleep" => openedAt >= elapsed - ConnectTimeout
          /\ wait = "connect" => openedAt >= elapsed - ConnectTimeout - 1
    /\ WaitFindsDaemon

(* What the file, with the defaults for what it lacks, says is what is     *)
(* wanted, but for what has not been saved.  A file that is spoilt says    *)
(* nothing, until load_settings starts fresh on it.                        *)
ChoiceInv ==
    /\ ~fresh /\ file # Unreadable =>
          \A k \in Key \ unsaved :
             Over(Loaded, DaemonDefault)[k] = Over(wanted, DaemonDefault)[k]
    /\ SavedChoicesStand

(* A start that went through with a whitelist, or a login, put it there.   *)
AdmitInv ==
    /\ configured /\ env.whitelist # Unset =>
          /\ Loaded.whitelist = Localhost \cup env.whitelist
          /\ daemon # "off" => live.whitelist = Localhost \cup env.whitelist
    /\ configured /\ env.login \notin {Unset, Incomplete} =>
          /\ Loaded.login = env.login
          /\ daemon # "off" => live.login = env.login
    /\ ScriptAdmitted

IInv == TypeOK /\ ClockInv /\ PortInv /\ ChoiceInv /\ AdmitInv

-----------------------------------------------------------------------------
(* Settings laid over one another.                                         *)

(* Over gives settings: what a start writes can be read at the next.       *)
LEMMA OverType ==
    ASSUME NEW a \in Settings, NEW b \in Settings
    PROVE  Over(a, b) \in Settings
  BY DEF Over, Settings

(* What is laid over settings, by key.                                     *)
LEMMA OverKey ==
    ASSUME NEW a \in Settings, NEW b \in Settings, NEW k \in Key
    PROVE  /\ a[k] # Unset => Over(a, b)[k] = a[k]
           /\ a[k] = Unset => Over(a, b)[k] = b[k]
  BY DEF Over, Settings, Key

(* Overrides, by key, under the daemon's defaults.                         *)
LEMMA OverridesKey ==
    ASSUME NEW a \in Settings, NEW b \in Settings, NEW k \in Key
    PROVE  /\ a[k] # Unset => Over(Over(a, b), DaemonDefault)[k] = a[k]
           /\ a[k] = Unset => Over(Over(a, b), DaemonDefault)[k]
                                 = Over(b, DaemonDefault)[k]
  <1>1. DaemonDefault \in Settings
    BY StartupAssumption DEF DaemonDefault, Settings, Logins, Ports, Peers
  <1>2. QED
    BY <1>1 DEF Over, Settings, Key

(* Nothing in the environment, nothing changed.                            *)
LEMMA OverEmpty ==
    ASSUME NEW a \in Settings
    PROVE  Over(Empty, a) = a
  BY DEF Over, Settings, Empty

(* The daemon has a default for every key.                                 *)
LEMMA DefaultType ==
    /\ DaemonDefault \in Settings
    /\ Empty \in Settings
    /\ \A k \in Key : DaemonDefault[k] # Unset
  BY StartupAssumption DEF DaemonDefault, Empty, Settings, Key, Logins, Ports, Peers

(* Laid over the defaults, no key is lacking.                              *)
LEMMA OverDefault ==
    ASSUME NEW a \in Settings, NEW k \in Key
    PROVE  /\ Over(a, DaemonDefault)[k] # Unset
           /\ a[k] # Unset => Over(a, DaemonDefault)[k] = a[k]
           /\ a[k] = Unset => Over(a, DaemonDefault)[k] = DaemonDefault[k]
  <1>1. DaemonDefault \in Settings /\ DaemonDefault[k] # Unset
    BY DefaultType
  <1>2. QED
    BY <1>1 DEF Over, Settings, Key

(* load_settings gives settings, whatever the file.                        *)
LEMMA LoadedType ==
    ASSUME TypeOK
    PROVE  /\ Loaded \in Settings
           /\ file \in Settings => Loaded = file
           /\ LoadSettings \subseteq Settings
  BY DefaultType, StartupAssumption DEF TypeOK, Loaded, LoadSettings

(* What configure_transmission.py writes is what the README promises.      *)
LEMMA DecidedIsOverrides ==
    ASSUME TypeOK
    PROVE  /\ Overrides \in Settings
           /\ Decided = Overrides
  <1>1. env \in Env
    BY DEF TypeOK
  <1>2. Overrides \in Settings
    BY <1>1, StartupAssumption
       DEF Overrides, Settings, Env, BuildWhitelist, PortForwarding, PeerLimit,
           Ports, Peers, Logins
  <1>3. Decided = Overrides
    BY <1>1, StartupAssumption
       DEF Overrides, Decided, Env, BuildWhitelist, PortForwarding, PeerLimit, Ports
  <1>4. QED
    BY <1>2, <1>3

-----------------------------------------------------------------------------
(* Type correctness.                                                       *)

LEMMA InitTypeOK == Init => TypeOK
  <1>1. Empty \in Env
    BY DEF Empty, Env
  <1>2. SUFFICES ASSUME Init PROVE TypeOK
    OBVIOUS
  <1>3. 0 \in 0 .. Timeout + ConnectTimeout /\ 0 \in 0 .. MaxEdits
    BY StartupAssumption
  <1>4. QED
    BY <1>1, <1>2, <1>3, DefaultType DEF Init, TypeOK

(* The clock, the wait and the edits.                                      *)
LEMMA ScriptTypeOK ==
    ASSUME TypeOK, ClockInv, ScriptStep
    PROVE  TypeOK'
  <1>1. /\ elapsed \in 0 .. Timeout + ConnectTimeout
        /\ Timeout \in Nat /\ ConnectTimeout \in Nat
    BY StartupAssumption DEF TypeOK
  <1>2. elapsed' \in 0 .. Timeout + ConnectTimeout
    <2>1. CASE AttemptFails \/ AttemptSucceeds
      <3>1. elapsed < Timeout
        BY <2>1 DEF AttemptFails, AttemptSucceeds, ClockInv
      <3>2. PICK d \in 0 .. ConnectTimeout : elapsed' = elapsed + d
        BY <2>1 DEF AttemptFails, AttemptSucceeds
      <3>3. QED
        BY <1>1, <3>1, <3>2
    <2>2. CASE Sleep
      BY <1>1, <2>2 DEF Sleep, ClockInv
    <2>3. CASE Attempt \/ GiveUp \/ Ask
      BY <1>1, <2>3 DEF Attempt, GiveUp, Ask
    <2>4. QED
      BY <2>1, <2>2, <2>3 DEF ScriptStep
  <1>3. wait' \in {"none", "connect", "trying", "sleep", "ask", "over"}
    BY DEF ScriptStep, Attempt, AttemptFails, AttemptSucceeds, Sleep, GiveUp, Ask
  <1>4. answer' \in {"none", "unavailable", "refused address", "refused login", "accepted"}
    <2>1. CASE Ask
      BY <2>1 DEF Ask
    <2>2. CASE ~Ask
      BY <2>2 DEF TypeOK, ScriptStep, Attempt, AttemptFails, AttemptSucceeds, Sleep, GiveUp
    <2>3. QED
      BY <2>1, <2>2
  <1>5. WaitUnchanged
    BY DEF ScriptStep, Attempt, AttemptFails, AttemptSucceeds, Sleep, GiveUp, Ask
  <1>6. QED
    BY <1>2, <1>3, <1>4, <1>5 DEF TypeOK, WaitUnchanged, daemonVars, choiceVars

LEMMA NextTypeOK ==
    ASSUME TypeOK, ClockInv, [Next]_vars
    PROVE  TypeOK'
  <1>a. /\ Loaded \in Settings /\ DaemonDefault \in Settings /\ Empty \in Settings
        /\ Overrides \in Settings /\ Decided \in Settings
    BY LoadedType, DefaultType, DecidedIsOverrides
  <1>b. 0 \in 0 .. Timeout + ConnectTimeout
    BY StartupAssumption
  <1>c. edits \in 0 .. MaxEdits /\ MaxEdits \in Nat
    BY StartupAssumption DEF TypeOK
  <1>1. CASE Boot
    BY <1>1, StartupAssumption DEF Boot, TypeOK, daemonVars, waitVars, choiceVars
  <1>2. CASE Configure
    <2>1. wanted' \in Settings
      BY <1>a, <1>2, OverType DEF Configure, BeginUp, TypeOK
    <2>2. file' \in Settings \cup {Absent, Unreadable} /\ fresh' \in BOOLEAN
      BY <1>a, <1>2, LoadedType, OverType DEF Configure, TypeOK
    <2>3. unsaved' \subseteq Key
      BY <1>2 DEF Configure, TypeOK
    <2>4. QED
      BY <1>2, <2>1, <2>2, <2>3 DEF Configure, BeginUp, TypeOK, daemonVars
  <1>3. CASE ConfigureFails
    <2>1. wanted' \in Settings
      BY <1>a, <1>3, OverType DEF ConfigureFails, BeginUp, TypeOK
    <2>2. unsaved' \subseteq Key
      BY <1>3 DEF ConfigureFails, DecidedKeys, TypeOK
    <2>3. QED
      BY <1>3, <2>1, <2>2 DEF ConfigureFails, BeginUp, TypeOK, daemonVars
  <1>4. CASE ScriptStep
    BY <1>4, ScriptTypeOK
  <1>5. CASE StartDaemon
    <2>1. live' \in Settings /\ wanted' \in Settings
      BY <1>a, <1>5, OverType DEF StartDaemon, TypeOK
    <2>2. QED
      BY <1>5, <2>1 DEF StartDaemon, TypeOK, waitVars
  <1>6. CASE Listen
    BY <1>6 DEF Listen, TypeOK, waitVars, choiceVars
  <1>7. CASE EditInWebUI
    <2>1. PICK k \in {"ports", "peers"}, v \in Ports \cup Peers :
             /\ live' = [live EXCEPT ![k] = v]
             /\ live' \in Settings
             /\ wanted' = [wanted EXCEPT ![k] = v]
             /\ unsaved' = unsaved \cup {k}
      BY <1>7 DEF EditInWebUI
    <2>2. live \in Settings /\ wanted \in Settings
      BY DEF TypeOK
    <2>3. k \in Key /\ live'[k] = v
      BY <2>1, <2>2 DEF Settings, Key
    <2>4. wanted' \in Settings
      BY <2>1, <2>2, <2>3 DEF Settings, Key
    <2>5. unsaved' \subseteq Key
      BY <2>1, <2>3 DEF TypeOK
    <2>6. edits' \in 0 .. MaxEdits
      BY <1>7, <1>c DEF EditInWebUI
    <2>7. QED
      BY <1>7, <2>1, <2>4, <2>5, <2>6 DEF EditInWebUI, TypeOK, waitVars
  <1>8. CASE StopCleanly
    <2>1. /\ Down /\ file' = live /\ UNCHANGED <<wanted, fresh>>
          /\ unsaved' \subseteq unsaved
      BY <1>8 DEF StopCleanly, SaveSettings
    <2>2. QED
      BY <1>a, <1>b, <2>1 DEF Down, TypeOK
  <1>9. CASE Kill
    <2>1. Down /\ UNCHANGED <<file, wanted, unsaved, fresh>>
      BY <1>9 DEF Kill, choiceVars
    <2>2. QED
      BY <1>a, <1>b, <2>1 DEF Down, TypeOK
  <1>10. CASE EditFile
    <2>1. wanted' \in Settings /\ unsaved' \subseteq Key
      <3>1. CASE UNCHANGED <<wanted, unsaved>>
        BY <3>1 DEF TypeOK
      <3>2. ASSUME NEW k \in Key, NEW t \in Settings,
                   wanted' = [wanted EXCEPT ![k] = t[k]], unsaved' = unsaved \ {k}
            PROVE  wanted' \in Settings /\ unsaved' \subseteq Key
        BY <3>2 DEF TypeOK, Settings, Key
      <3>3. QED
        BY <1>10, <3>1, <3>2 DEF EditFile
    <2>2. file' \in Settings \cup {Absent, Unreadable}
      BY <1>10 DEF EditFile
    <2>3. edits' \in 0 .. MaxEdits
      BY <1>10, <1>c DEF EditFile
    <2>4. QED
      BY <1>10, <2>1, <2>2, <2>3 DEF EditFile, TypeOK, daemonVars, waitVars
  <1>13. CASE Checkpoint
    BY <1>13 DEF Checkpoint, SaveSettings, TypeOK, daemonVars, waitVars
  <1>11. CASE UNCHANGED vars
    <2>1. /\ UNCHANGED <<env, file, phase, daemon, live, openedAt, wait, elapsed, answer>>
          /\ UNCHANGED <<wanted, unsaved, fresh, configured, edits>>
      BY <1>11 DEF vars, daemonVars, waitVars, choiceVars
    <2>2. configured' \in BOOLEAN /\ fresh' \in BOOLEAN
      BY <2>1 DEF TypeOK
    <2>3. QED
      BY <2>1, <2>2 DEF TypeOK
  <1>12. QED
    BY <1>1, <1>2, <1>3, <1>4, <1>5, <1>6, <1>7, <1>8, <1>9, <1>10, <1>11, <1>13
       DEF Next

-----------------------------------------------------------------------------
(* The clock of the wait.                                                  *)

LEMMA ScriptClockInv ==
    ASSUME TypeOK, ClockInv, ScriptStep
    PROVE  ClockInv'
  <1>1. /\ elapsed \in 0 .. Timeout + ConnectTimeout
        /\ Timeout \in Nat /\ ConnectTimeout \in Nat
    BY StartupAssumption DEF TypeOK
  <1>2. phase = "up"
    BY DEF ClockInv, ScriptStep, Attempt, AttemptFails, AttemptSucceeds, Sleep, GiveUp, Ask
  <1>3. UNCHANGED <<phase, daemon, configured>>
    BY DEF ScriptStep, Attempt, AttemptFails, AttemptSucceeds, Sleep, GiveUp, Ask,
           WaitUnchanged, daemonVars
  <1>4. /\ wait' = "trying" => elapsed' < Timeout
        /\ wait' = "sleep" => elapsed' < Timeout + ConnectTimeout
        /\ answer' = "unavailable" => elapsed' >= Timeout
        /\ wait' = "ask" => daemon # "off"
    <2>1. CASE AttemptFails
      <3>1. PICK d \in 0 .. ConnectTimeout : elapsed' = elapsed + d
        BY <2>1 DEF AttemptFails
      <3>2. QED
        BY <1>1, <2>1, <3>1 DEF AttemptFails, ClockInv
    <2>2. CASE AttemptSucceeds
      <3>1. PICK d \in 0 .. ConnectTimeout : elapsed' = elapsed + d
        BY <2>2 DEF AttemptSucceeds
      <3>2. QED
        BY <1>1, <2>2, <3>1 DEF AttemptSucceeds, ClockInv
    <2>3. CASE Attempt
      BY <1>1, <2>3 DEF Attempt, ClockInv
    <2>4. CASE Sleep
      BY <1>1, <2>4 DEF Sleep, ClockInv
    <2>5. CASE GiveUp
      BY <1>1, <2>5 DEF GiveUp, ClockInv
    <2>6. CASE Ask
      BY <1>1, <2>6 DEF Ask, ClockInv
    <2>7. QED
      BY <2>1, <2>2, <2>3, <2>4, <2>5, <2>6 DEF ScriptStep
  <1>5. QED
    BY <1>2, <1>3, <1>4 DEF ClockInv

LEMMA NextClockInv ==
    ASSUME TypeOK, ClockInv, [Next]_vars
    PROVE  ClockInv'
  <1>1. CASE Boot
    BY <1>1 DEF Boot, ClockInv, daemonVars, waitVars
  <1>2. CASE Configure \/ ConfigureFails
    BY <1>2 DEF Configure, ConfigureFails, BeginUp, ClockInv, daemonVars
  <1>4. CASE ScriptStep
    BY <1>4, ScriptClockInv
  <1>5. CASE StartDaemon
    BY <1>5 DEF StartDaemon, ClockInv, waitVars
  <1>6. CASE Listen
    BY <1>6 DEF Listen, ClockInv, waitVars
  <1>7. CASE EditInWebUI
    BY <1>7 DEF EditInWebUI, ClockInv, waitVars
  <1>8. CASE StopCleanly \/ Kill
    <2>1. Down
      BY <1>8 DEF StopCleanly, Kill
    <2>2. QED
      BY <2>1 DEF Down, ClockInv
  <1>10. CASE EditFile
    BY <1>10 DEF EditFile, ClockInv, daemonVars, waitVars
  <1>11. CASE UNCHANGED vars
    BY <1>11 DEF vars, daemonVars, waitVars, ClockInv
  <1>13. CASE Checkpoint
    BY <1>13 DEF Checkpoint, ClockInv, daemonVars, waitVars
  <1>12. QED
    BY <1>1, <1>2, <1>4, <1>5, <1>6, <1>7, <1>8, <1>10, <1>11, <1>13 DEF Next

-----------------------------------------------------------------------------
(* When the port opened.                                                   *)

LEMMA ScriptPortInv ==
    ASSUME TypeOK, ClockInv, PortInv, ScriptStep
    PROVE  PortInv'
  <1>1. /\ elapsed \in 0 .. Timeout + ConnectTimeout
        /\ openedAt \in {Never} \cup 0 .. Timeout + ConnectTimeout
        /\ Timeout \in Nat /\ ConnectTimeout \in Nat
    BY StartupAssumption DEF TypeOK
  <1>2. UNCHANGED <<daemon, openedAt>>
    BY DEF ScriptStep, Attempt, AttemptFails, AttemptSucceeds, Sleep, GiveUp, Ask,
           WaitUnchanged, daemonVars
  <1>3. SUFFICES ASSUME openedAt # Never
                 PROVE  /\ wait' = "trying" => openedAt >= elapsed'
                        /\ wait' = "sleep" => openedAt >= elapsed' - ConnectTimeout
                        /\ wait' = "connect" => openedAt >= elapsed' - ConnectTimeout - 1
                        /\ answer' = "unavailable" =>
                              openedAt >= Timeout - ConnectTimeout - 1
    BY <1>2 DEF PortInv, WaitFindsDaemon
  <1>4. /\ daemon = "listening"
        /\ openedAt \in 0 .. Timeout + ConnectTimeout
    BY <1>1, <1>3 DEF PortInv
  <1>5. CASE Attempt
    BY <1>3, <1>4, <1>5 DEF Attempt, PortInv, WaitFindsDaemon
  <1>6. CASE AttemptFails
    <2>1. PICK d \in 0 .. ConnectTimeout : elapsed' = elapsed + d
      BY <1>6 DEF AttemptFails
    <2>2. openedAt >= elapsed
      BY <1>3, <1>6 DEF AttemptFails, PortInv
    <2>3. openedAt >= elapsed' - ConnectTimeout
      BY <1>1, <1>4, <2>1, <2>2
    <2>4. QED
      BY <1>3, <1>6, <2>3 DEF AttemptFails, PortInv, WaitFindsDaemon
  <1>7. CASE AttemptSucceeds
    BY <1>3, <1>7 DEF AttemptSucceeds, PortInv, WaitFindsDaemon
  <1>8. CASE Sleep
    <2>1. openedAt >= elapsed - ConnectTimeout
      BY <1>3, <1>8 DEF Sleep, PortInv
    <2>2. openedAt >= elapsed' - ConnectTimeout - 1
      BY <1>1, <1>4, <1>8, <2>1 DEF Sleep
    <2>3. QED
      BY <1>3, <1>8, <2>2 DEF Sleep, PortInv, WaitFindsDaemon
  <1>9. CASE GiveUp
    <2>1. /\ openedAt >= elapsed - ConnectTimeout - 1
          /\ elapsed >= Timeout
      BY <1>3, <1>9 DEF GiveUp, PortInv
    <2>2. openedAt >= Timeout - ConnectTimeout - 1
      BY <1>1, <1>4, <2>1
    <2>3. QED
      BY <1>9, <2>2 DEF GiveUp
  <1>10. CASE Ask
    BY <1>3, <1>10 DEF Ask, PortInv, WaitFindsDaemon
  <1>11. QED
    BY <1>5, <1>6, <1>7, <1>8, <1>9, <1>10 DEF ScriptStep

LEMMA NextPortInv ==
    ASSUME TypeOK, ClockInv, PortInv, [Next]_vars
    PROVE  PortInv'
  <1>1. CASE Boot
    BY <1>1 DEF Boot, PortInv, WaitFindsDaemon, daemonVars, waitVars
  <1>2. CASE Configure \/ ConfigureFails
    <2>1. daemon # "listening" /\ answer # "unavailable"
      BY <1>2 DEF Configure, ConfigureFails, BeginUp, ClockInv
    <2>2. UNCHANGED <<daemon, openedAt, answer>>
      BY <1>2 DEF Configure, ConfigureFails, BeginUp, daemonVars
    <2>3. QED
      BY <2>1, <2>2 DEF PortInv, WaitFindsDaemon
  <1>4. CASE ScriptStep
    BY <1>4, ScriptPortInv
  <1>5. CASE StartDaemon
    BY <1>5 DEF StartDaemon, PortInv, WaitFindsDaemon, waitVars
  <1>6. CASE Listen
    <2>1. /\ elapsed \in 0 .. Timeout + ConnectTimeout
          /\ Timeout \in Nat /\ ConnectTimeout \in Nat
      BY StartupAssumption DEF TypeOK
    <2>2. /\ elapsed >= elapsed - ConnectTimeout
          /\ elapsed >= elapsed - ConnectTimeout - 1
          /\ elapsed >= elapsed
          /\ elapsed # Never
      BY <2>1 DEF Never
    <2>3. answer = "unavailable" => elapsed >= Timeout - ConnectTimeout - 1
      BY <2>1 DEF ClockInv
    <2>4. QED
      BY <1>6, <2>2, <2>3 DEF Listen, PortInv, WaitFindsDaemon, waitVars
  <1>7. CASE EditInWebUI
    BY <1>7 DEF EditInWebUI, PortInv, WaitFindsDaemon, waitVars
  <1>8. CASE StopCleanly \/ Kill
    <2>1. Down
      BY <1>8 DEF StopCleanly, Kill
    <2>2. QED
      BY <2>1 DEF Down, PortInv, WaitFindsDaemon
  <1>10. CASE EditFile
    BY <1>10 DEF EditFile, PortInv, WaitFindsDaemon, daemonVars, waitVars
  <1>11. CASE UNCHANGED vars
    BY <1>11 DEF vars, daemonVars, waitVars, PortInv, WaitFindsDaemon
  <1>13. CASE Checkpoint
    BY <1>13 DEF Checkpoint, PortInv, WaitFindsDaemon, daemonVars, waitVars
  <1>12. QED
    BY <1>1, <1>2, <1>4, <1>5, <1>6, <1>7, <1>8, <1>10, <1>11, <1>13 DEF Next

-----------------------------------------------------------------------------
(* Whose choice stands.                                                    *)

(* What a start makes of the file: its overrides, over what it read.       *)
LEMMA Configured ==
    ASSUME TypeOK, Configure
    PROVE  \E settings \in Settings :
              /\ Loaded' = Over(Overrides, settings)
              /\ ~fresh' => settings = Loaded /\ ~fresh
              /\ file' = Unreadable \/ file = Unreadable => fresh' \/ Overrides = Empty
  <1>1. Overrides \in Settings /\ Loaded \in Settings /\ LoadSettings \subseteq Settings
    BY LoadedType, DecidedIsOverrides
  <1>2. CASE Overrides = Empty /\ UNCHANGED <<file, fresh>>
    <2>1. Loaded' = Loaded
      BY <1>2 DEF Loaded
    <2>2. Loaded = Over(Overrides, Loaded)
      BY <1>1, <1>2, OverEmpty
    <2>3. QED
      BY <1>1, <1>2, <2>1, <2>2
  <1>3. CASE Overrides # Empty
    <2>1. PICK settings \in LoadSettings :
             /\ file' = Over(Overrides, settings)
             /\ fresh' = (fresh \/ file \notin {Absent, settings})
      BY <1>3 DEF Configure
    <2>2. settings \in Settings /\ file' \in Settings
      BY <1>1, <2>1, OverType
    <2>3. file' \notin {Absent, Unreadable} /\ settings # Unreadable
      BY <2>2, StartupAssumption
    <2>4. Loaded' = Over(Overrides, settings)
      BY <2>1, <2>3 DEF Loaded
    <2>5. ASSUME ~fresh' PROVE settings = Loaded /\ ~fresh /\ file # Unreadable
      <3>1. ~fresh /\ file \in {Absent, settings}
        BY <2>1, <2>5
      <3>2. CASE file = Absent
        BY <2>1, <3>1, <3>2, StartupAssumption DEF Loaded, LoadSettings
      <3>3. CASE file = settings
        BY <2>2, <2>3, <3>1, <3>3, LoadedType
      <3>4. QED
        BY <3>1, <3>2, <3>3
    <2>6. QED
      BY <2>2, <2>3, <2>4, <2>5
  <1>4. QED
    BY <1>2, <1>3 DEF Configure

(* A start that goes through puts its decisions into the file, and changes *)
(* nothing else there if it can read it.                                   *)
LEMMA ConfigureChoice ==
    ASSUME TypeOK, ClockInv, ChoiceInv, Configure
    PROVE  ChoiceInv'
  <1>1. /\ Overrides \in Settings /\ Decided = Overrides /\ wanted \in Settings
        /\ Loaded \in Settings
    BY LoadedType, DecidedIsOverrides DEF TypeOK
  <1>2. wanted' = Over(Overrides, wanted) /\ unsaved' = unsaved \ DecidedKeys
    BY <1>1 DEF Configure, BeginUp
  <1>3. PICK settings \in Settings :
           /\ Loaded' = Over(Overrides, settings)
           /\ ~fresh' => settings = Loaded /\ ~fresh
           /\ file' = Unreadable \/ file = Unreadable => fresh' \/ Overrides = Empty
    BY Configured
  <1>4. ASSUME ~fresh', file' # Unreadable, NEW k \in Key \ unsaved'
        PROVE  Over(Loaded', DaemonDefault)[k] = Over(wanted', DaemonDefault)[k]
    <2>1. Loaded' = Over(Overrides, Loaded) /\ ~fresh
      BY <1>3, <1>4
    <2>2. CASE Overrides[k] # Unset
      BY <1>1, <1>2, <2>1, <2>2, OverridesKey
    <2>3. CASE Overrides[k] = Unset
      <3>1. k \notin unsaved
        BY <1>1, <1>2, <1>4, <2>3 DEF DecidedKeys
      <3>2. file # Unreadable
        <4>1. Overrides = Empty => file' = file
          BY DEF Configure
        <4>2. QED
          BY <1>3, <1>4, <4>1
      <3>3. Over(Loaded, DaemonDefault)[k] = Over(wanted, DaemonDefault)[k]
        BY <2>1, <3>1, <3>2 DEF ChoiceInv
      <3>4. QED
        BY <1>1, <1>2, <2>1, <2>3, <3>3, OverridesKey
    <2>4. QED
      BY <2>2, <2>3
  <1>5. daemon' = "off"
    BY DEF Configure, BeginUp, ClockInv, daemonVars
  <1>6. QED
    BY <1>4, <1>5 DEF ChoiceInv, SavedChoicesStand

(* One that fails leaves its decisions unsaved, but for those on disk.     *)
LEMMA ConfigureFailsChoice ==
    ASSUME TypeOK, ClockInv, ChoiceInv, ConfigureFails
    PROVE  ChoiceInv'
  <1>1. /\ Overrides \in Settings /\ Decided = Overrides /\ wanted \in Settings
        /\ Loaded \in Settings
    BY LoadedType, DecidedIsOverrides DEF TypeOK
  <1>2. /\ wanted' = Over(Overrides, wanted) /\ UNCHANGED <<file, fresh>>
        /\ unsaved' = (unsaved \ DecidedKeys)
                         \cup {k \in DecidedKeys : Decided[k] # Loaded[k]}
    BY <1>1 DEF ConfigureFails, BeginUp
  <1>3. Loaded' = Loaded
    BY <1>2 DEF Loaded
  <1>4. ASSUME ~fresh', file' # Unreadable, NEW k \in Key \ unsaved'
        PROVE  Over(Loaded, DaemonDefault)[k] = Over(wanted', DaemonDefault)[k]
    <2>1. CASE Overrides[k] # Unset
      <3>1. Loaded[k] = Overrides[k]
        BY <1>1, <1>2, <1>4, <2>1 DEF DecidedKeys
      <3>2. QED
        BY <1>1, <1>2, <2>1, <3>1, OverridesKey, OverDefault
    <2>2. CASE Overrides[k] = Unset
      <3>1. k \notin unsaved
        BY <1>1, <1>2, <1>4, <2>2 DEF DecidedKeys
      <3>2. Over(Loaded, DaemonDefault)[k] = Over(wanted, DaemonDefault)[k]
        BY <1>2, <1>4, <3>1 DEF ChoiceInv
      <3>3. QED
        BY <1>1, <1>2, <2>2, <3>2, OverridesKey
    <2>3. QED
      BY <2>1, <2>2
  <1>5. daemon' = "off"
    BY DEF ConfigureFails, BeginUp, ClockInv, daemonVars
  <1>6. QED
    BY <1>3, <1>4, <1>5 DEF ChoiceInv, SavedChoicesStand

(* The daemon takes over the file, and gives what it lacks its defaults.   *)
LEMMA StartDaemonChoice ==
    ASSUME TypeOK, ChoiceInv, StartDaemon
    PROVE  ChoiceInv'
  <1>1. /\ file # Unreadable /\ UNCHANGED <<file, unsaved, fresh>>
        /\ live' = Over(Loaded, DaemonDefault) /\ wanted' = Over(wanted, DaemonDefault)
    BY DEF StartDaemon
  <1>2. Loaded' = Loaded
    BY <1>1 DEF Loaded
  <1>3. wanted' \in Settings
    BY <1>1, DefaultType, OverType DEF TypeOK
  <1>4. ASSUME NEW k \in Key
        PROVE  Over(wanted', DaemonDefault)[k] = wanted'[k]
    <2>1. wanted'[k] # Unset
      BY <1>1, OverDefault DEF TypeOK
    <2>2. QED
      BY <1>3, <2>1, OverDefault
  <1>5. QED
    BY <1>1, <1>2, <1>4 DEF ChoiceInv, SavedChoicesStand

(* What the daemon writes is what is wanted, where it does not differ.     *)
LEMMA SaveSettingsChoice ==
    ASSUME TypeOK, ChoiceInv, SaveSettings
    PROVE  /\ \A k \in Key \ unsaved' :
                 ~fresh' => Over(Loaded', DaemonDefault)[k] = Over(wanted', DaemonDefault)[k]
           /\ ~fresh' => \A k \in Key \ unsaved' : live[k] = wanted'[k]
  <1>1. /\ file' = live /\ UNCHANGED <<wanted, fresh>> /\ daemon # "off"
        /\ unsaved' = {k \in unsaved : live[k] # wanted[k]}
    BY DEF SaveSettings
  <1>2. live \in Settings /\ wanted \in Settings
    BY DEF TypeOK
  <1>3. Loaded' = live
    BY <1>1, <1>2, StartupAssumption DEF Loaded
  <1>4. ASSUME ~fresh', NEW k \in Key \ unsaved'
        PROVE  live[k] = wanted[k]
    BY <1>1, <1>4 DEF ChoiceInv, SavedChoicesStand
  <1>5. QED
    BY <1>1, <1>2, <1>3, <1>4, OverDefault

(* The operator decides on one key, and the rest is as it was.             *)
LEMMA EditFileChoice ==
    ASSUME TypeOK, ClockInv, ChoiceInv, EditFile
    PROVE  ChoiceInv'
  <1>1. daemon' = "off" /\ fresh' = fresh /\ file # Unreadable
    BY DEF EditFile, ClockInv, daemonVars
  <1>2. CASE file' = Unreadable
    BY <1>1, <1>2 DEF ChoiceInv, SavedChoicesStand
  <1>3. ASSUME NEW k \in Key, NEW s \in Settings,
               \A other \in Key \ {k} : s[other] = Loaded[other],
               file' = s, wanted' = [wanted EXCEPT ![k] = s[k]],
               unsaved' = unsaved \ {k}
        PROVE  ChoiceInv'
    <2>1. Loaded' = s
      BY <1>3, StartupAssumption DEF Loaded
    <2>2. /\ wanted \in Settings /\ wanted' \in Settings /\ Loaded \in Settings
          /\ wanted'[k] = s[k]
          /\ \A other \in Key \ {k} : wanted'[other] = wanted[other]
      BY <1>3, LoadedType DEF TypeOK, Settings, Key
    <2>3. ASSUME ~fresh, NEW j \in Key \ unsaved'
          PROVE  Over(s, DaemonDefault)[j] = Over(wanted', DaemonDefault)[j]
      <3>1. CASE j = k
        BY <2>2, <3>1, OverDefault
      <3>2. CASE j # k
        <4>1. Over(Loaded, DaemonDefault)[j] = Over(wanted, DaemonDefault)[j]
          BY <1>1, <1>3, <2>3, <3>2 DEF ChoiceInv
        <4>2. Over(s, DaemonDefault)[j] = Over(Loaded, DaemonDefault)[j]
          BY <1>3, <2>2, <3>2, OverDefault
        <4>3. Over(wanted', DaemonDefault)[j] = Over(wanted, DaemonDefault)[j]
          BY <2>2, <3>2, OverDefault
        <4>4. QED
          BY <4>1, <4>2, <4>3
      <3>3. QED
        BY <3>1, <3>2
    <2>4. QED
      BY <1>1, <2>1, <2>3 DEF ChoiceInv, SavedChoicesStand
  <1>4. QED
    BY <1>2, <1>3 DEF EditFile

LEMMA NextChoiceInv ==
    ASSUME TypeOK, ClockInv, ChoiceInv, [Next]_vars
    PROVE  ChoiceInv'
  <1>1. CASE Boot \/ ScriptStep \/ Listen \/ UNCHANGED vars
    <2>1. UNCHANGED <<file, live, wanted, unsaved, fresh>>
      BY <1>1 DEF Boot, ScriptStep, Attempt, AttemptFails, AttemptSucceeds, Sleep,
              GiveUp, Ask, WaitUnchanged, Listen, vars, daemonVars, choiceVars
    <2>2. daemon = "off" <=> daemon' = "off"
      BY <1>1 DEF Boot, ScriptStep, Attempt, AttemptFails, AttemptSucceeds, Sleep,
              GiveUp, Ask, WaitUnchanged, Listen, vars, daemonVars
    <2>3. Loaded' = Loaded
      BY <2>1 DEF Loaded
    <2>4. QED
      BY <2>1, <2>2, <2>3 DEF ChoiceInv, SavedChoicesStand
  <1>2. CASE Configure
    BY <1>2, ConfigureChoice
  <1>3. CASE ConfigureFails
    BY <1>3, ConfigureFailsChoice
  <1>4. CASE StartDaemon
    BY <1>4, StartDaemonChoice
  <1>5. CASE EditInWebUI
    <2>1. PICK k \in {"ports", "peers"}, v \in Ports \cup Peers :
             /\ live' = [live EXCEPT ![k] = v]
             /\ wanted' = [wanted EXCEPT ![k] = v]
             /\ live' \in Settings
             /\ unsaved' = unsaved \cup {k}
      BY <1>5 DEF EditInWebUI
    <2>2. daemon = "listening" /\ daemon' = daemon /\ UNCHANGED <<file, fresh>>
      BY <1>5 DEF EditInWebUI
    <2>3. Loaded' = Loaded
      BY <2>2 DEF Loaded
    <2>4. wanted \in Settings /\ live \in Settings /\ live'[k] = v
      BY <2>1 DEF TypeOK, Settings
    <2>5. wanted' \in Settings
      BY <2>1, <2>4 DEF Settings
    <2>6. \A j \in Key \ unsaved' : live'[j] = live[j] /\ wanted'[j] = wanted[j]
      BY <2>1, <2>4 DEF Settings, Key
    <2>7. \A j \in Key \ unsaved' :
             Over(wanted', DaemonDefault)[j] = Over(wanted, DaemonDefault)[j]
      BY <2>4, <2>5, <2>6, OverDefault
    <2>8. QED
      BY <2>1, <2>2, <2>3, <2>6, <2>7 DEF ChoiceInv, SavedChoicesStand
  <1>6. CASE Checkpoint \/ StopCleanly
    <2>1. SaveSettings
      BY <1>6 DEF Checkpoint, StopCleanly
    <2>2. daemon' = "off" \/ live' = live
      BY <1>6 DEF Checkpoint, StopCleanly, Down, daemonVars
    <2>3. QED
      BY <2>1, <2>2, SaveSettingsChoice DEF ChoiceInv, SavedChoicesStand
  <1>7. CASE Kill
    <2>1. daemon' = "off" /\ UNCHANGED <<file, wanted, unsaved, fresh>>
      BY <1>7 DEF Kill, Down, choiceVars
    <2>2. Loaded' = Loaded
      BY <2>1 DEF Loaded
    <2>3. QED
      BY <2>1, <2>2 DEF ChoiceInv, SavedChoicesStand
  <1>8. CASE EditFile
    BY <1>8, EditFileChoice
  <1>9. QED
    BY <1>1, <1>2, <1>3, <1>4, <1>5, <1>6, <1>7, <1>8 DEF Next

-----------------------------------------------------------------------------
(* The script is let in.                                                   *)

(* While a start is configured its environment does not change.            *)
LEMMA ConfigureAdmit ==
    ASSUME TypeOK, ClockInv, Configure
    PROVE  AdmitInv'
  <1>1. Overrides \in Settings /\ env \in Env
    BY DecidedIsOverrides DEF TypeOK
  <1>2. PICK settings \in Settings : Loaded' = Over(Overrides, settings)
    BY Configured
  <1>3. env' = env /\ daemon' = "off" /\ answer' = "none"
    BY DEF Configure, BeginUp, ClockInv, daemonVars
  <1>4. ASSUME env.whitelist # Unset
        PROVE  Loaded'.whitelist = Localhost \cup env.whitelist
    <2>1. Localhost \cup env.whitelist # Unset
      BY <1>1, <1>4, StartupAssumption DEF Env
    <2>2. Overrides.whitelist = Localhost \cup env.whitelist
      BY <1>4 DEF Overrides, BuildWhitelist
    <2>3. QED
      BY <1>2, <2>1, <2>2 DEF Over
  <1>5. ASSUME env.login \notin {Unset, Incomplete}
        PROVE  Loaded'.login = env.login
    <2>1. Overrides.login = env.login
      BY <1>5 DEF Overrides
    <2>2. QED
      BY <1>2, <1>5, <2>1 DEF Over
  <1>6. QED
    BY <1>3, <1>4, <1>5 DEF AdmitInv, ScriptAdmitted

(* The daemon takes over what the start put there.                         *)
LEMMA StartDaemonAdmit ==
    ASSUME TypeOK, AdmitInv, StartDaemon
    PROVE  AdmitInv'
  <1>1. UNCHANGED <<env, file, configured, answer>> /\ env \in Env
    BY DEF StartDaemon, waitVars, TypeOK
  <1>2. Loaded' = Loaded /\ live' = Over(Loaded, DaemonDefault)
    BY <1>1 DEF Loaded, StartDaemon
  <1>3. ASSUME configured, env.whitelist # Unset
        PROVE  live'.whitelist = Localhost \cup env.whitelist
    <2>1. Localhost \cup env.whitelist # Unset
      BY <1>1, <1>3, StartupAssumption DEF Env
    <2>2. Loaded.whitelist = Localhost \cup env.whitelist
      BY <1>3 DEF AdmitInv
    <2>3. QED
      BY <1>2, <2>1, <2>2 DEF Over
  <1>4. ASSUME configured, env.login \notin {Unset, Incomplete}
        PROVE  live'.login = env.login
    <2>1. Loaded.login = env.login
      BY <1>4 DEF AdmitInv
    <2>2. QED
      BY <1>2, <1>4, <2>1 DEF Over
  <1>5. QED
    BY <1>1, <1>2, <1>3, <1>4 DEF AdmitInv, ScriptAdmitted

(* What the script is answered is the daemon's word on its settings.       *)
LEMMA AskAdmit ==
    ASSUME TypeOK, ClockInv, AdmitInv, Ask
    PROVE  AdmitInv'
  <1>1. UNCHANGED <<env, file, configured, daemon, live>> /\ daemon # "off"
    BY DEF Ask, WaitUnchanged, daemonVars, ClockInv
  <1>2. Loaded' = Loaded
    BY <1>1 DEF Loaded
  <1>3. answer' = "refused address" => ~configured \/ env.whitelist = Unset
    <2>1. SUFFICES ASSUME configured, env.whitelist # Unset
                   PROVE  answer' # "refused address"
      OBVIOUS
    <2>2. live.whitelist = Localhost \cup env.whitelist
      BY <1>1, <2>1 DEF AdmitInv
    <2>3. live.whitelist \cap Localhost # {}
      BY <2>2, StartupAssumption
    <2>4. QED
      BY <2>3 DEF Ask
  <1>4. answer' = "refused login" => ~configured \/ env.login \in {Unset, Incomplete}
    <2>1. SUFFICES ASSUME configured, env.login \notin {Unset, Incomplete}
                   PROVE  answer' # "refused login"
      OBVIOUS
    <2>2. live.login = env.login
      BY <1>1, <2>1 DEF AdmitInv
    <2>3. QED
      BY <2>2 DEF Ask
  <1>5. QED
    BY <1>1, <1>2, <1>3, <1>4 DEF AdmitInv, ScriptAdmitted

LEMMA NextAdmitInv ==
    ASSUME TypeOK, ClockInv, AdmitInv, [Next]_vars
    PROVE  AdmitInv'
  <1>1. CASE Boot \/ EditFile
    <2>1. ~configured' /\ answer' = "none"
      BY <1>1 DEF Boot, EditFile, ClockInv, waitVars
    <2>2. QED
      BY <2>1 DEF AdmitInv, ScriptAdmitted
  <1>2. CASE Configure
    BY <1>2, ConfigureAdmit
  <1>3. CASE ConfigureFails
    BY <1>3 DEF ConfigureFails, BeginUp, ClockInv, AdmitInv, ScriptAdmitted
  <1>4. CASE Ask
    BY <1>4, AskAdmit
  <1>5. CASE ScriptStep /\ ~Ask
    <2>1. UNCHANGED <<env, file, configured, daemon, live>>
      BY <1>5 DEF ScriptStep, Attempt, AttemptFails, AttemptSucceeds, Sleep, GiveUp,
              WaitUnchanged, daemonVars
    <2>2. answer' = answer \/ answer' = "unavailable"
      BY <1>5 DEF ScriptStep, Attempt, AttemptFails, AttemptSucceeds, Sleep, GiveUp
    <2>3. Loaded' = Loaded
      BY <2>1 DEF Loaded
    <2>4. QED
      BY <2>1, <2>2, <2>3 DEF AdmitInv, ScriptAdmitted
  <1>6. CASE StartDaemon
    BY <1>6, StartDaemonAdmit
  <1>7. CASE EditInWebUI
    <2>1. PICK k \in {"ports", "peers"}, v \in Ports \cup Peers :
             live' = [live EXCEPT ![k] = v]
      BY <1>7 DEF EditInWebUI
    <2>2. live'.whitelist = live.whitelist /\ live'.login = live.login
      BY <2>1 DEF TypeOK, Settings
    <2>3. UNCHANGED <<env, file, configured, daemon, answer>>
      BY <1>7 DEF EditInWebUI, waitVars
    <2>4. Loaded' = Loaded
      BY <2>3 DEF Loaded
    <2>5. QED
      BY <2>2, <2>3, <2>4 DEF AdmitInv, ScriptAdmitted
  <1>8. CASE StopCleanly \/ Kill
    <2>1. ~configured' /\ answer' = "none"
      BY <1>8 DEF StopCleanly, Kill, Down
    <2>2. QED
      BY <2>1 DEF AdmitInv, ScriptAdmitted
  <1>11. CASE Checkpoint
    <2>1. /\ file' = live /\ UNCHANGED <<env, configured, answer, live, daemon>>
          /\ daemon # "off" /\ live \in Settings
      BY <1>11 DEF Checkpoint, SaveSettings, daemonVars, waitVars, TypeOK
    <2>2. Loaded' = live
      BY <2>1, StartupAssumption DEF Loaded
    <2>3. QED
      BY <2>1, <2>2 DEF AdmitInv, ScriptAdmitted
  <1>9. CASE Listen \/ UNCHANGED vars
    <2>1. UNCHANGED <<env, file, configured, live, answer>>
      BY <1>9 DEF Listen, vars, daemonVars, waitVars
    <2>2. daemon = "off" <=> daemon' = "off"
      BY <1>9 DEF Listen, vars, daemonVars
    <2>3. Loaded' = Loaded
      BY <2>1 DEF Loaded
    <2>4. QED
      BY <2>1, <2>2, <2>3 DEF AdmitInv, ScriptAdmitted
  <1>10. QED
    BY <1>1, <1>2, <1>3, <1>4, <1>5, <1>6, <1>7, <1>8, <1>9, <1>11 DEF Next

-----------------------------------------------------------------------------
(* The invariant, and what follows.                                        *)

LEMMA InitIInv == Init => IInv
  <1>1. SUFFICES ASSUME Init PROVE IInv
    OBVIOUS
  <1>2. TypeOK
    BY <1>1, InitTypeOK
  <1>3. ClockInv /\ PortInv
    BY <1>1 DEF Init, ClockInv, PortInv, WaitFindsDaemon
  <1>4. Loaded = wanted
    BY <1>1 DEF Init, Loaded
  <1>5. ChoiceInv /\ AdmitInv
    BY <1>1, <1>4 DEF Init, ChoiceInv, SavedChoicesStand, AdmitInv, ScriptAdmitted
  <1>6. QED
    BY <1>2, <1>3, <1>5 DEF IInv

LEMMA Invariant == Spec => []IInv
  <1>1. Init => IInv
    BY InitIInv
  <1>2. IInv /\ [Next]_vars => IInv'
    <2>1. SUFFICES ASSUME IInv, [Next]_vars PROVE IInv'
      OBVIOUS
    <2>2. TypeOK /\ ClockInv /\ PortInv /\ ChoiceInv /\ AdmitInv
      BY <2>1 DEF IInv
    <2>3. TypeOK' /\ ClockInv' /\ PortInv' /\ ChoiceInv' /\ AdmitInv'
      BY <2>1, <2>2, NextTypeOK, NextClockInv, NextPortInv, NextChoiceInv, NextAdmitInv
    <2>4. QED
      BY <2>3 DEF IInv
  <1>3. QED
    BY <1>1, <1>2, PTL DEF Spec

(* Whatever the environment, the file and the edits, every value stays one *)
(* the settings may have: configure_transmission.py writes no limit or     *)
(* whitelist the daemon could not take.                                    *)
THEOREM StartupTypeCorrect == Spec => []TypeOK
  <1>1. IInv => TypeOK
    BY DEF IInv
  <1>2. QED
    BY <1>1, Invariant, PTL

(* A decision that has reached settings.json is what the daemon works with *)
(* until the next on its key, through any number of starts, stops, kills,  *)
(* failing starts and edits, so long as load_settings can read the file:   *)
(* where it starts fresh, all that the file said is lost.                  *)
THEOREM SavedChoicesAlwaysStand == Spec => []SavedChoicesStand
  <1>1. IInv => SavedChoicesStand
    BY DEF IInv, ChoiceInv
  <1>2. QED
    BY <1>1, Invariant, PTL

(* A start that sets the whitelist or the login does not shut out the      *)
(* script, whatever was in the file.                                       *)
THEOREM ScriptAlwaysAdmitted == Spec => []ScriptAdmitted
  <1>1. IInv => ScriptAdmitted
    BY DEF IInv, AdmitInv
  <1>2. QED
    BY <1>1, Invariant, PTL

(* wait_for_transmission_rpc gives up only on a port that opened no more   *)
(* than an attempt and a second before its timeout, for any timeouts.      *)
THEOREM WaitNeverMisses == Spec => []WaitFindsDaemon
  <1>1. IInv => WaitFindsDaemon
    BY DEF IInv, PortInv
  <1>2. QED
    BY <1>1, Invariant, PTL
=============================================================================
