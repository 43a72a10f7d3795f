--------------------------- MODULE RuntimeManager ---------------------------
(***************************************************************************)
(* The runtime manager (packages/runtime-manager/src): profiles in one     *)
(* configuration file, secrets in the keychain, containers and development *)
(* processes, and the wait for readiness, as the commands init, bootstrap, *)
(* up, down, restart, profile, secrets, auth and model of the command line *)
(* drive them.                                                             *)
(*                                                                         *)
(* Commands are processes of their own: each reads the whole file, awaits, *)
(* and writes the whole file back, and may die in between or while it      *)
(* writes.  Keychain, container runtime and services are external.         *)
(***************************************************************************)
EXTENDS Naturals, FiniteSets

CONSTANTS
    Cli,          \* commands that may run at once
    RmName,       \* names of profiles; "local" is the one the manager makes
    RmProvider,   \* model providers that need a key; "local" needs none
    RmArgs,       \* options of a start: container runtime or "", with search
    RmAwaited,    \* services a start waits for: api, hatchet, worker, web
    RmOpBound,    \* commands in a behaviour
    RmWaitBound   \* probes in the 20 seconds ensureRuntimeReady waits

\* The manager makes the profile "local"; "local" and "unset" are no providers with a key.
ASSUME RuntimeAssumption ==
    /\ "local" \in RmName /\ RmProvider \cap {"local", "unset"} = {}
    /\ "api" \in RmAwaited /\ "search" \notin RmAwaited
    /\ RmArgs \subseteq [rt : {"", "podman", "docker"}, search : BOOLEAN]
    /\ RmOpBound \in Nat /\ RmWaitBound \in Nat

SecretNames == RmProvider \cup {"open_lagrange_token"}
Absent == [mode |-> "absent"]

VARIABLES
    rmConfig,    \* config.yaml: state, current profile, profiles
    rmKeychain,  \* account -> the profile whose secret it holds
    rmStacks,    \* container runtimes with the stack up
    rmDev,       \* development processes alive, by generation
    rmPids,      \* the generation state.json records
    rmJob,       \* command -> its step, arguments and what it has read
    rmEnv,       \* the environment of the latest start: profile, key wanted, key given
    rmReport,    \* what it reported: mode of the profile, services and probes made
    rmKept,      \* history: secrets set and neither deleted nor replaced with their profile
    rmOverlap,   \* history: two commands overlapped, or one died
    rmOps

rmVars == <<rmConfig, rmKeychain, rmStacks, rmDev, rmPids, rmJob, rmEnv, rmReport, rmKept, rmOverlap, rmOps>>

Idle == [step |-> "idle"]
NoConfig == [state |-> "missing", current |-> "none", profiles |-> [n \in RmName |-> Absent]]
Service == RmAwaited \cup {"search"}
NoReport == [mode |-> "local", services |-> [s \in Service |-> "none"], probes |-> 0]
NoEnv == [profile |-> "none", wanted |-> "none", key |-> "none"]

-----------------------------------------------------------------------------
(* Profiles                                                                *)

defaultLocalProfile(rt, search) ==
    [mode |-> "local", ownership |-> "managed", runtime |-> rt, auth |-> "none", refs |-> {},
     active |-> "local", providers |-> {"local"}, search |-> IF search THEN 1 ELSE 0]
remoteProfile ==
    [mode |-> "remote", ownership |-> "external", runtime |-> "external", auth |-> "token",
     refs |-> {"open_lagrange_token"}, active |-> "unset", providers |-> {}, search |-> 0]

\* After open-lagrange init.
RmInit ==
    /\ rmConfig = [NoConfig EXCEPT !.state = "ok", !.current = "local", !.profiles["local"] = defaultLocalProfile("podman", FALSE)]
    /\ rmKeychain = [a \in RmName \X SecretNames |-> "none"]
    /\ rmStacks = {} /\ rmDev = {} /\ rmPids = 0 /\ rmJob = [c \in Cli |-> Idle]
    /\ rmEnv = NoEnv /\ rmReport = NoReport /\ rmKept = {} /\ rmOverlap = FALSE /\ rmOps = 0

\* activeModelProviderKey, without the environment variable: openai by default.
activeKey(p) == IF p.active = "unset" THEN "openai" ELSE p.active

hasLocalSearxng(p) == p.search > 0
withOptionalSearch(p, search) == IF search /\ ~hasLocalSearxng(p) THEN [p EXCEPT !.search = @ + 1] ELSE p

\* An openai provider that is not the active one goes, with its reference: every
\* provider the commands configure is a factory default.
pruneLegacyDefaultOpenAi(p) ==
    IF p.active # "openai" /\ "openai" \in p.providers
    THEN [p EXCEPT !.providers = @ \ {"openai"}, !.refs = @ \ {"openai"}]
    ELSE p

\* Mutant: a start writes the default profile over the configured one.
freshProfile(existing, rt, search) == defaultLocalProfile(rt, search)

managedLocalProfile(existing, rt, search) ==
    IF existing.mode # "local" THEN defaultLocalProfile(rt, search)
    ELSE withOptionalSearch(pruneLegacyDefaultOpenAi([existing EXCEPT !.runtime = rt]), search)

readable(conf) == conf.state = "ok"
currentProfile(conf) == conf.profiles[conf.current]

-----------------------------------------------------------------------------
(* Secrets                                                                 *)

accountFor(p, name) == <<p, name>>
resolveSecret(p, profile, name) ==
    IF name \in profile.refs THEN rmKeychain[accountFor(p, name)] ELSE "none"

-----------------------------------------------------------------------------
(* Commands                                                                *)

runtimeOr(rt) == IF rt = "" THEN "podman" ELSE rt  \* detectRuntime asks podman first

Start(c, step, args) ==
    /\ rmJob[c].step = "idle" /\ rmOps < RmOpBound /\ rmOps' = rmOps + 1
    /\ rmJob' = [rmJob EXCEPT ![c] = [step |-> step, args |-> args, conf |-> rmConfig]]
    /\ rmOverlap' = (rmOverlap \/ \E d \in Cli \ {c} : rmJob[d].step # "idle")
    /\ rmEnv' = NoEnv /\ rmReport' = NoReport
    /\ UNCHANGED <<rmConfig, rmKeychain, rmStacks, rmDev, rmPids, rmKept>>

\* The configuration a command writes, from the one it read.
Put(conf, name, profile) == [conf EXCEPT !.profiles[name] = profile]
Save(c, conf, kept, next) ==
    /\ rmConfig' = [conf EXCEPT !.state = "ok"]
    /\ rmKept' = kept
    /\ rmJob' = [rmJob EXCEPT ![c] = next]
    /\ UNCHANGED <<rmStacks, rmDev, rmPids, rmEnv, rmReport, rmOverlap, rmOps>>
Fail(c) ==
    /\ rmJob' = [rmJob EXCEPT ![c] = Idle]
    /\ UNCHANGED <<rmConfig, rmKeychain, rmStacks, rmDev, rmPids, rmEnv, rmReport, rmKept, rmOverlap, rmOps>>
Forget(name) == {k \in rmKept : k[1] # name}

\* initRuntime: a file that cannot be read counts as none.
initConfig(conf, args) ==
    LET existing == IF readable(conf) THEN conf ELSE NoConfig
    IN  [state |-> "ok", current |-> "local",
         profiles |-> [existing.profiles EXCEPT
             !["local"] = managedLocalProfile(existing.profiles["local"], runtimeOr(args.rt), args.search)]]
initRuntime(c) ==
    LET j == rmJob[c] IN
    /\ j.step = "init"
    /\ Save(c, initConfig(j.conf, j.args),
            IF readable(j.conf)
            THEN IF j.conf.profiles["local"].mode = "local" THEN rmKept ELSE Forget("local")
            ELSE {}, Idle)
    /\ UNCHANGED rmKeychain

\* ensureBootstrapProfile: an external local profile is refused unless forced.
ensureBootstrapProfile(c, next) ==
    LET j == rmJob[c]
        external == readable(j.conf) /\ j.conf.profiles["local"].mode = "local"
                    /\ j.conf.profiles["local"].ownership = "external"
    IN  \/ external /\ ~j.args.force /\ Fail(c)
        \/ /\ j.args.force \/ ~external
           /\ Save(c, initConfig(j.conf, j.args),
                   IF readable(j.conf)
                   THEN IF j.conf.profiles["local"].mode = "local" THEN rmKept ELSE Forget("local")
                   ELSE {}, next)
           /\ UNCHANGED rmKeychain
\* It goes on to start what it wrote.
bootstrapLocalRuntime(c) ==
    LET j == rmJob[c] IN
    /\ j.step = "bootstrap"
    /\ ensureBootstrapProfile(c, [step |-> "up", conf |-> NoConfig,
            args |-> [rt |-> runtimeOr(j.args.rt), search |-> j.args.search, dev |-> FALSE]])

\* setCurrentProfile, addLocalProfile, addRemoteProfile, removeProfile: a profile that is
\* added has a reference to a token, also a local one that needs none.
addedLocal == [defaultLocalProfile("docker", FALSE) EXCEPT !.refs = {"open_lagrange_token"}]
setCurrentProfile(conf, name) == IF conf.profiles[name] = Absent THEN NoConfig ELSE [conf EXCEPT !.current = name]
addProfile(conf, name, profile) == Put(conf, name, profile)
removeProfile(conf, name) ==
    LET left == {n \in RmName \ {name} : conf.profiles[n] # Absent}
    IN  IF conf.current # name THEN Put(conf, name, Absent)
        ELSE IF left = {} THEN NoConfig
        ELSE [Put(conf, name, Absent) EXCEPT !.current = CHOOSE n \in left : TRUE]
ChangeProfiles(c) ==
    LET j == rmJob[c]
        name == j.args.name
        next == CASE j.args.what = "use" -> setCurrentProfile(j.conf, name)
                  [] j.args.what = "add-local" -> addProfile(j.conf, name, addedLocal)
                  [] j.args.what = "add-remote" -> addProfile(j.conf, name, remoteProfile)
                  [] j.args.what = "remove" -> removeProfile(j.conf, name)
    IN  /\ j.step = "profile"
        /\ \/ (~readable(j.conf) \/ next = NoConfig) /\ Fail(c)
           \/ /\ readable(j.conf) /\ next # NoConfig
              /\ Save(c, next, IF j.args.what = "use" THEN rmKept ELSE Forget(name), Idle)
              /\ UNCHANGED rmKeychain

\* setCurrentProfileSecret, deleteCurrentProfileSecret: the keychain first, if there is
\* one, then the file.
ChangeKeychain(c) ==
    LET j == rmJob[c]
        p == j.conf.current
    IN  /\ j.step = "secret"
        /\ \/ Fail(c)
           \/ /\ readable(j.conf)
              /\ rmKeychain' = [rmKeychain EXCEPT ![accountFor(p, j.args.name)] = IF j.args.set THEN p ELSE "none"]
              /\ rmKept' = IF j.args.set THEN rmKept ELSE rmKept \ {<<p, j.args.name>>}
              /\ rmJob' = [rmJob EXCEPT ![c].step = "ref"]
              /\ UNCHANGED <<rmConfig, rmStacks, rmDev, rmPids, rmEnv, rmReport, rmOverlap, rmOps>>
WriteRef(c) ==
    LET j == rmJob[c]
        p == j.conf.current
        profile == j.conf.profiles[p]
        token == j.args.name = "open_lagrange_token"
    IN  /\ j.step = "ref"
        /\ Save(c, Put(j.conf, p,
                    [profile EXCEPT !.refs = IF j.args.set THEN @ \cup {j.args.name} ELSE @ \ {j.args.name},
                                    !.auth = IF ~token THEN @ ELSE IF j.args.set THEN "token" ELSE "none"]),
                IF j.args.set THEN rmKept \cup {<<p, j.args.name>>} ELSE rmKept, Idle)
        /\ UNCHANGED rmKeychain

\* configureCurrentProfileModelProvider: makes the reference it needs, without a value.
configureModelProvider(c) ==
    LET j == rmJob[c]
        p == j.conf.current
        key == j.args.name
    IN  /\ j.step = "model"
        /\ \/ ~readable(j.conf) /\ Fail(c)
           \/ /\ readable(j.conf)
              /\ Save(c, Put(j.conf, p,
                          [j.conf.profiles[p] EXCEPT
                              !.providers = @ \cup {key},
                              !.active = IF j.args.set THEN key ELSE @,
                              !.refs = IF key = "local" THEN @ ELSE @ \cup {key}]), rmKept, Idle)
              /\ UNCHANGED rmKeychain

-----------------------------------------------------------------------------
(* Starting and stopping                                                   *)

\* startLocalRuntime, localProfile: a remote profile is refused; without a readable file
\* it is initRuntime's turn, then what that wrote is used.  The profile as it was read
\* goes along.
Reinit(c) ==
    LET j == rmJob[c]
        conf == initConfig(rmConfig, j.args)
    IN  /\ ~readable(rmConfig)
        /\ Save(c, conf, {}, [step |-> "compose", args |-> j.args, name |-> "local",
                              read |-> conf.profiles["local"], profile |-> conf.profiles["local"]])
        /\ UNCHANGED rmKeychain
startLocalRuntime(c) ==
    LET j == rmJob[c]
        read == currentProfile(rmConfig)
        chosen == IF j.args.rt = "" THEN read ELSE [read EXCEPT !.runtime = j.args.rt]
        pruned == pruneLegacyDefaultOpenAi(chosen)
        persist == j.args.search \/ j.args.rt # "" \/ pruned # chosen
    IN  /\ j.step = "up"
        /\ \/ Reinit(c)
           \/ readable(rmConfig) /\ read.mode # "local" /\ Fail(c)
           \/ /\ readable(rmConfig) /\ read.mode = "local"
              /\ rmJob' = [rmJob EXCEPT ![c] =
                    [step |-> IF persist THEN "persist" ELSE "compose", args |-> j.args, name |-> rmConfig.current,
                     read |-> read, profile |-> withOptionalSearch(pruned, j.args.search)]]
              /\ UNCHANGED <<rmConfig, rmKeychain, rmStacks, rmDev, rmPids, rmEnv, rmReport, rmKept, rmOverlap, rmOps>>

\* persistCurrentProfile reads the file again.
persistCurrentProfile(c) ==
    LET j == rmJob[c] IN
    /\ j.step = "persist"
    /\ \/ Reinit(c)
       \/ /\ readable(rmConfig)
          /\ Save(c, Put(rmConfig, j.name, j.profile), rmKept, [j EXCEPT !.step = "compose"])
          /\ UNCHANGED rmKeychain

\* runtimeEnv: the key the runtime gets, and (history) the one the profile had when read.
runtimeEnv(name, read, profile) ==
    LET key(p) == IF activeKey(p) = "local" THEN "none" ELSE resolveSecret(name, p, activeKey(p))
    IN  [profile |-> name, wanted |-> key(read), key |-> key(profile)]
\* state.json remembers the processes started last, and keeps them after they stopped.
startDevProcesses == rmDev' = rmDev \cup {rmOps} /\ rmPids' = rmOps
stopDevProcesses == rmDev' = rmDev \ {rmPids} /\ UNCHANGED rmPids
\* Without a working container runtime, or when a build fails, the command fails.
composeUp(c) ==
    LET j == rmJob[c] IN
    /\ j.step = "compose"
    /\ \/ Fail(c)
       \/ /\ rmStacks' = rmStacks \cup {j.profile.runtime}
          /\ rmEnv' = runtimeEnv(j.name, j.read, j.profile)
          /\ IF j.args.dev THEN startDevProcesses ELSE UNCHANGED <<rmDev, rmPids>>
          /\ rmJob' = [rmJob EXCEPT ![c] = [step |-> "ready", probes |-> 0]]
          /\ UNCHANGED <<rmConfig, rmKeychain, rmReport, rmKept, rmOverlap, rmOps>>

\* A probe answers as it likes; "none" is no service to ask.
Answers == {"running", "error", "unreachable"}
\* getRuntimeStatus asks, under the profile that is current now, each service of a local
\* one, search if it is configured, and of a remote one the API.
getRuntimeStatus(conf) ==
    LET profile == currentProfile(conf)
        asked == IF ~readable(conf) THEN {}
                 ELSE IF profile.mode # "local" THEN {"api"}
                 ELSE RmAwaited \cup {s \in {"search"} : hasLocalSearxng(profile)}
    IN  {[mode |-> IF readable(conf) THEN profile.mode ELSE "local",
          services |-> [s \in Service |-> IF s \in asked THEN answer[s] ELSE "none"]] :
             answer \in [Service -> Answers]}
\* ensureRuntimeReady: probe until nothing is pending, but for search, or the time is over.
hasStartupPendingStatus(status) ==
    status.mode = "local" /\ \E s \in RmAwaited : status.services[s] = "unreachable"
ensureRuntimeReady(c, status) ==
    LET j == rmJob[c] IN
    /\ j.step = "ready"
    /\ IF hasStartupPendingStatus(status) /\ j.probes < RmWaitBound
       THEN rmJob' = [rmJob EXCEPT ![c].probes = @ + 1] /\ UNCHANGED rmReport
       ELSE /\ rmJob' = [rmJob EXCEPT ![c] = Idle]
            /\ rmReport' = [mode |-> status.mode, services |-> status.services, probes |-> j.probes]
    /\ UNCHANGED <<rmConfig, rmKeychain, rmStacks, rmDev, rmPids, rmEnv, rmKept, rmOverlap, rmOps>>

\* bootstrapSteps, serviceStep: a service that was not asked is a warning.
serviceStep(state) ==
    CASE state = "running" -> "completed" [] state = "error" -> "failed" [] state = "unreachable" -> "pending"
      [] OTHER -> "warning"

\* stopLocalRuntime: the processes state.json names, and the stack of the runtime the
\* current profile names; restartLocalRuntime goes on to start.
stopLocalRuntime(c) ==
    LET j == rmJob[c]
        profile == currentProfile(rmConfig)
        next == IF j.args.restart THEN [step |-> "up", args |-> [rt |-> "", search |-> FALSE, dev |-> FALSE], conf |-> NoConfig]
                ELSE Idle
    IN  /\ j.step = "down"
        /\ \/ ~readable(rmConfig) /\ Fail(c)
           \/ /\ readable(rmConfig)
              /\ rmJob' = [rmJob EXCEPT ![c] = next]
              /\ IF profile.mode = "local"
                 THEN stopDevProcesses /\ rmStacks' = rmStacks \ {profile.runtime}
                 ELSE UNCHANGED <<rmDev, rmPids, rmStacks>>
              /\ UNCHANGED <<rmConfig, rmKeychain, rmEnv, rmReport, rmKept, rmOverlap, rmOps>>

\* A command is killed, once and in a behaviour without overlaps; if it was writing the
\* file, the file may be cut short.
Kill(c) ==
    /\ rmJob[c].step # "idle" /\ ~rmOverlap
    /\ rmJob' = [rmJob EXCEPT ![c] = Idle]
    /\ rmConfig' \in {rmConfig} \cup IF rmJob[c].step \in {"init", "bootstrap", "profile", "model", "ref", "persist"} THEN {[NoConfig EXCEPT !.state = "torn"]} ELSE {}
    /\ rmOverlap' = TRUE
    /\ UNCHANGED <<rmKeychain, rmStacks, rmDev, rmPids, rmEnv, rmReport, rmKept, rmOps>>

\* A user makes the local profile external in the file.
EditByHand ==
    /\ \A c \in Cli : rmJob[c].step = "idle"
    /\ readable(rmConfig) /\ rmConfig.profiles["local"].mode = "local"
    /\ rmConfig.profiles["local"].ownership = "managed" /\ rmOps < RmOpBound /\ rmOps' = rmOps + 1
    /\ rmConfig' = [rmConfig EXCEPT !.profiles["local"].ownership = "external"]
    /\ UNCHANGED <<rmKeychain, rmStacks, rmDev, rmPids, rmJob, rmEnv, rmReport, rmKept, rmOverlap>>

Command(c) ==
    \/ \E a \in RmArgs : Start(c, "init", a)
    \/ \E a \in RmArgs, f \in BOOLEAN : Start(c, "bootstrap", [rt |-> a.rt, search |-> a.search, force |-> f])
    \/ \E a \in RmArgs, d \in BOOLEAN : Start(c, "up", [rt |-> a.rt, search |-> a.search, dev |-> d])
    \/ \E r \in BOOLEAN : Start(c, "down", [restart |-> r])
    \/ \E w \in {"use", "add-local", "add-remote", "remove"}, n \in RmName : Start(c, "profile", [what |-> w, name |-> n])
    \/ \E n \in SecretNames, s \in BOOLEAN : Start(c, "secret", [name |-> n, set |-> s])
    \/ \E n \in RmProvider \cup {"local"}, s \in BOOLEAN : Start(c, "model", [name |-> n, set |-> s])

RmNext ==
    \/ \E c \in Cli :
        \/ Command(c) \/ initRuntime(c) \/ bootstrapLocalRuntime(c) \/ ChangeProfiles(c)
        \/ ChangeKeychain(c) \/ WriteRef(c) \/ configureModelProvider(c)
        \/ startLocalRuntime(c) \/ persistCurrentProfile(c) \/ composeUp(c) \/ stopLocalRuntime(c) \/ Kill(c)
        \/ \E s \in getRuntimeStatus(rmConfig) : ensureRuntimeReady(c, s)
    \/ EditByHand

RmSpec == RmInit /\ [][RmNext]_rmVars

-----------------------------------------------------------------------------
(* Properties                                                              *)

\* However commands overlap or die, a file that can be read names a current profile it
\* has: no command writes a configuration after which every other one fails.
CurrentExists == readable(rmConfig) => currentProfile(rmConfig) # Absent

\* The runtime gets the key of the provider that is active, exactly when the profile had
\* one when the command read it: tidying away old defaults never costs the key in use.
KeyReachesRuntime == rmEnv.key = rmEnv.wanted

\* Commands that run one after the other keep every secret that was set: initialising,
\* bootstrapping and starting again lose neither value nor reference, except for the
\* openai provider while another one is active.
SecretsKept ==
    ~rmOverlap => \A k \in rmKept :
        LET profile == rmConfig.profiles[k[1]] IN
        /\ rmKeychain[<<k[1], k[2]>>] = k[1]
        /\ k[2] \in profile.refs \/ (k[2] = "openai" /\ profile.active # "openai")

\* Search is configured at most once, however often it is asked for.
SearchOnce == readable(rmConfig) => \A n \in RmName : rmConfig.profiles[n] = Absent \/ rmConfig.profiles[n].search <= 1

\* Every step of a report that is pending, but for search, stands for a whole wait, if
\* the profile that was current then is local; other profiles report no such step than
\* that of the API.
PendingMeansWaited ==
    \A s \in Service :
        serviceStep(rmReport.services[s]) = "pending" =>
            IF rmReport.mode = "local" THEN s = "search" \/ rmReport.probes = RmWaitBound ELSE s = "api"

\* The configuration stays usable through every command: its profile exists,
\* its secrets are kept and reach the runtime.
RuntimeConfigSound ==
  /\ CurrentExists
  /\ KeyReachesRuntime
  /\ SecretsKept
  /\ SearchOnce
  /\ PendingMeansWaited
=============================================================================
