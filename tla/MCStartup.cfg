SPECIFICATION Spec
CONSTANTS
    local = local
    lan = lan
    p = p
    NoLogin = NoLogin
    Incomplete = Incomplete
    Unset = Unset
    Absent = Absent
    Unreadable = Unreadable
    Whitelists = {{local}, {lan}, {local, lan}}
    Localhost = {local}
    Login = {p}
    Envs <- MCEnvs
    Timeout = 3
    ConnectTimeout = 1
    MaxEdits = 1
INVARIANTS TypeOK SavedChoicesStand ScriptAdmitted WaitFindsDaemon
PROPERTIES WaitEnds
