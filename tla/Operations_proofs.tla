-------------------------- MODULE Operations_proofs --------------------------
(***************************************************************************)
(* Proofs about the components a user operates: RuntimeManager, for any    *)
(* number of commands at once, TuiSession, for any order in which results  *)
(* come in, WebConsole, for any number of requests in flight, WebAccess,   *)
(* for any limits, clients and servers, and ResearchView, for any pages    *)
(* found and any order in which nodes end.                                 *)
(***************************************************************************)
EXTENDS RuntimeManager, TuiSession, WebConsole, WebAccess, ResearchView,
        FiniteSetTheorems, SequenceTheorems, WellFoundedInduction, TLAPS

-----------------------------------------------------------------------------
(* RuntimeManager.  The property speaks of the configuration file and the  *)
(* keychain.  A command writes back what it made of the file it read, so   *)
(* the invariant says of every copy what it says of the file, and, while   *)
(* commands come one at a time, that the copies are not stale.             *)

Provider == RmProvider \cup {"local"}
Runtime == {"", "podman", "docker", "external"}

\* A profile, and a configuration.
ProfileShape ==
    [mode : {"local", "remote"}, ownership : {"managed", "external"}, runtime : Runtime, auth : {"none", "token"},
     refs : SUBSET SecretNames, active : Provider \cup {"unset"}, providers : SUBSET Provider, search : 0..1]
ConfigShape ==
    [state : {"ok", "torn", "missing"}, current : RmName \cup {"none"}, profiles : [RmName -> ProfileShape \cup {Absent}]]

\* A local profile names its provider.
GoodProfile(p) == p \in ProfileShape /\ (p.mode = "local" => p.active # "unset")

\* A configuration that can be read has its current profile.
GoodConf(conf) ==
    /\ conf \in ConfigShape
    /\ \A n \in RmName : conf.profiles[n] = Absent \/ GoodProfile(conf.profiles[n])
    /\ readable(conf) => conf.current \in RmName /\ conf.profiles[conf.current] # Absent

\* The profile q has the key of its provider if p has it.
SameKey(p, q) == activeKey(p) = activeKey(q) /\ (activeKey(p) \in p.refs <=> activeKey(p) \in q.refs)

\* The profile has the reference, or has tidied it away; and what q keeps of p.
Has(p, s) == s \in p.refs \/ (s = "openai" /\ p.active # "openai")
Keeps(p, q) == \A s \in SecretNames : Has(p, s) => Has(q, s)

\* The commands, by the step they are at.
StartArgs == [rt : {"", "podman", "docker"}, search : BOOLEAN]
UpArgs == [rt : {"", "podman", "docker"}, search : BOOLEAN, dev : BOOLEAN]
Options(args) == args.rt \in {"", "podman", "docker"} /\ args.search \in BOOLEAN
InitJob == [step : {"init"}, args : StartArgs, conf : ConfigShape]
BootJob == [step : {"bootstrap"}, args : [rt : {"", "podman", "docker"}, search : BOOLEAN, force : BOOLEAN], conf : ConfigShape]
UpJob == [step : {"up"}, args : UpArgs, conf : ConfigShape]
DownJob == [step : {"down"}, args : [restart : BOOLEAN], conf : ConfigShape]
ProfileJob == [step : {"profile"}, args : [what : {"use", "add-local", "add-remote", "remove"}, name : RmName], conf : ConfigShape]
SecretJob == [step : {"secret", "ref"}, args : [name : SecretNames, set : BOOLEAN], conf : ConfigShape]
ModelJob == [step : {"model"}, args : [name : Provider, set : BOOLEAN], conf : ConfigShape]
RunJob == [step : {"persist", "compose"}, args : UpArgs, name : RmName, read : ProfileShape, profile : ProfileShape]
ReadyJob == [step : {"ready"}, probes : 0..RmWaitBound]

Reading == {"init", "bootstrap", "profile", "secret", "ref", "model"}

JobShape(j) ==
    \/ j = Idle
    \/ j \in InitJob \/ j \in BootJob \/ j \in UpJob \/ j \in DownJob \/ j \in ProfileJob
    \/ j \in SecretJob \/ j \in ModelJob \/ j \in RunJob \/ j \in ReadyJob

\* What a command holds.
JobHolds(j) ==
    /\ JobShape(j)
    /\ j.step \in Reading => GoodConf(j.conf)
    /\ j.step = "ref" => readable(j.conf)
    /\ j.step \in {"persist", "compose"} =>
          GoodProfile(j.read) /\ GoodProfile(j.profile) /\ SameKey(j.read, j.profile) /\ Keeps(j.read, j.profile)

\* The copy of a command is not stale, and the keychain is as it made it.
InStep(j, conf, chain, kept) ==
    /\ j.step \in Reading => j.conf = conf
    /\ j.step = "persist" => j.read = conf.profiles[j.name]
    /\ j.step = "ref" => IF j.args.set THEN chain[<<j.conf.current, j.args.name>>] = j.conf.current
                         ELSE <<j.conf.current, j.args.name>> \notin kept

\* Every secret that was set is in the keychain and in its profile.
KeptHolds(kept, conf, chain) ==
    \A n \in RmName, s \in SecretNames :
        <<n, s>> \in kept => chain[<<n, s>>] = n /\ conf.profiles[n] # Absent /\ Has(conf.profiles[n], s)

\* What a status report says.
ReportHolds(report) ==
    \A s \in Service : report.services[s] = "unreachable" =>
        IF report.mode = "local" THEN s = "search" \/ report.probes = RmWaitBound ELSE s = "api"

\* Commands one at a time.
Orderly ==
    /\ readable(rmConfig) /\ KeptHolds(rmKept, rmConfig, rmKeychain)
    /\ \A c, d \in Cli : rmJob[c] # Idle /\ rmJob[d] # Idle => c = d
    /\ \A c \in Cli : InStep(rmJob[c], rmConfig, rmKeychain, rmKept)

\* The inductive invariant.
RmInv ==
    /\ GoodConf(rmConfig) /\ DOMAIN rmJob = Cli /\ \A c \in Cli : JobHolds(rmJob[c])
    /\ rmJob = [c \in Cli |-> rmJob[c]]
    /\ rmKeychain \in [RmName \X SecretNames -> RmName \cup {"none"}]
    /\ rmKept \subseteq RmName \X SecretNames /\ rmOverlap \in BOOLEAN
    /\ KeyReachesRuntime /\ ReportHolds(rmReport)
    /\ ~rmOverlap => Orderly

-----------------------------------------------------------------------------
(* Profiles.                                                               *)

LEMMA DefaultGood ==
  ASSUME NEW rt \in Runtime, NEW search \in BOOLEAN
  PROVE  GoodProfile(defaultLocalProfile(rt, search)) /\ defaultLocalProfile(rt, search).mode = "local"
BY DEF defaultLocalProfile, GoodProfile, ProfileShape, Provider

LEMMA AddedGood == GoodProfile(addedLocal)
<1> DEFINE p == defaultLocalProfile("docker", FALSE)
<1>1. GoodProfile(p)
  BY DefaultGood DEF Runtime
<1>2. {"open_lagrange_token"} \in SUBSET SecretNames
  BY DEF SecretNames
<1>3. addedLocal = [p EXCEPT !.refs = {"open_lagrange_token"}]
  BY DEF addedLocal
<1> HIDE DEF p
<1> QED BY <1>1, <1>2, <1>3 DEF GoodProfile, ProfileShape

LEMMA RemoteGood == GoodProfile(remoteProfile)
<1>1. {"open_lagrange_token"} \in SUBSET SecretNames /\ {} \in SUBSET Provider /\ 0 \in 0..1
  BY DEF SecretNames
<1>2. remoteProfile.mode = "remote"
  BY DEF remoteProfile
<1>3. remoteProfile \in ProfileShape
  BY <1>1 DEF remoteProfile, ProfileShape, Runtime
<1> QED BY <1>2, <1>3 DEF GoodProfile

LEMMA AbsentIsNot == ASSUME NEW p, GoodProfile(p) PROVE p # Absent /\ p.mode # "absent"
BY DEF GoodProfile, ProfileShape, Absent

\* Another runtime, an old default tidied away, search added once: the profile keeps
\* its key and what it was given.
LEMMA RuntimeGood ==
  ASSUME NEW p, GoodProfile(p), NEW rt \in Runtime
  PROVE  LET q == [p EXCEPT !.runtime = rt]
         IN  GoodProfile(q) /\ SameKey(p, q) /\ Keeps(p, q) /\ q.mode = p.mode
BY DEF GoodProfile, ProfileShape, SameKey, Keeps, Has, activeKey

LEMMA PruneGood ==
  ASSUME NEW p, GoodProfile(p), p.mode = "local"
  PROVE  LET q == pruneLegacyDefaultOpenAi(p)
         IN  GoodProfile(q) /\ SameKey(p, q) /\ Keeps(p, q) /\ q.mode = p.mode
BY DEF GoodProfile, ProfileShape, SameKey, Keeps, Has, activeKey, pruneLegacyDefaultOpenAi

LEMMA SearchGood ==
  ASSUME NEW p, GoodProfile(p), NEW search \in BOOLEAN
  PROVE  LET q == withOptionalSearch(p, search)
         IN  GoodProfile(q) /\ SameKey(p, q) /\ Keeps(p, q) /\ q.mode = p.mode
<1>1. CASE search /\ ~hasLocalSearxng(p)
  <2>1. p.search = 0
    BY <1>1 DEF hasLocalSearxng, GoodProfile, ProfileShape
  <2>2. withOptionalSearch(p, search) = [p EXCEPT !.search = 1]
    BY <1>1, <2>1 DEF withOptionalSearch
  <2> QED BY <2>2 DEF GoodProfile, ProfileShape, SameKey, Keeps, Has, activeKey
<1>2. CASE ~(search /\ ~hasLocalSearxng(p))
  BY <1>2 DEF withOptionalSearch, SameKey, Keeps
<1> QED BY <1>1, <1>2

LEMMA KeyTransitive ==
  ASSUME NEW p, NEW q, NEW r, SameKey(p, q), SameKey(q, r), Keeps(p, q), Keeps(q, r)
  PROVE  SameKey(p, r) /\ Keeps(p, r)
BY DEF SameKey, Keeps

\* managedLocalProfile: a local profile keeps what it has, another one is replaced.
LEMMA ManagedGood ==
  ASSUME NEW p, p = Absent \/ GoodProfile(p), NEW rt \in Runtime, NEW search \in BOOLEAN
  PROVE  LET q == managedLocalProfile(p, rt, search)
         IN  GoodProfile(q) /\ (p.mode = "local" => Keeps(p, q))
<1>1. CASE p.mode # "local"
  BY <1>1, DefaultGood DEF managedLocalProfile
<1>2. CASE p.mode = "local"
  <2>1. GoodProfile(p)
    BY <1>2 DEF Absent
  <2> DEFINE q1 == [p EXCEPT !.runtime = rt]
             q2 == pruneLegacyDefaultOpenAi(q1)
             q3 == withOptionalSearch(q2, search)
  <2>2. GoodProfile(q1) /\ Keeps(p, q1) /\ q1.mode = "local" /\ SameKey(p, q1)
    BY <1>2, <2>1, RuntimeGood
  <2>3. managedLocalProfile(p, rt, search) = q3
    BY <1>2 DEF managedLocalProfile
  <2> HIDE DEF q1
  <2>4. GoodProfile(q2) /\ Keeps(q1, q2) /\ SameKey(q1, q2)
    BY <2>2, PruneGood
  <2> HIDE DEF q2
  <2>5. GoodProfile(q3) /\ Keeps(q2, q3) /\ SameKey(q2, q3)
    BY <2>4, SearchGood
  <2> HIDE DEF q3
  <2> QED BY <2>2, <2>3, <2>4, <2>5, KeyTransitive
<1> QED BY <1>1, <1>2

-----------------------------------------------------------------------------
(* Configurations.                                                         *)

\* The file as it is written.
Written(conf) == [conf EXCEPT !.state = "ok"]

\* A profile is put into a configuration that can be read.
LEMMA PutGood ==
  ASSUME NEW conf, GoodConf(conf), readable(conf), NEW n \in RmName, NEW p, GoodProfile(p)
  PROVE  LET d == Written(Put(conf, n, p))
         IN  /\ GoodConf(d) /\ readable(d) /\ d.current = conf.current /\ d.profiles[n] = p
             /\ \A m \in RmName : m # n => d.profiles[m] = conf.profiles[m]
<1> DEFINE ps == [conf.profiles EXCEPT ![n] = p]
           d == Written(Put(conf, n, p))
<1>1. conf \in ConfigShape /\ conf.state = "ok" /\ p \in ProfileShape /\ p # Absent
  BY AbsentIsNot DEF GoodConf, readable, GoodProfile
<1>2. ps \in [RmName -> ProfileShape \cup {Absent}] /\ ps[n] = p /\ \A m \in RmName : m # n => ps[m] = conf.profiles[m]
  BY <1>1 DEF ConfigShape
<1>3. d = [conf EXCEPT !.profiles = ps, !.state = "ok"]
  BY <1>1 DEF Written, Put, ConfigShape
<1> HIDE DEF ps, d
<1>4. d \in ConfigShape /\ d.profiles = ps /\ d.current = conf.current /\ d.state = "ok"
  BY <1>1, <1>2, <1>3 DEF ConfigShape
<1>5. \A m \in RmName : d.profiles[m] = Absent \/ GoodProfile(d.profiles[m])
  BY <1>2, <1>4 DEF GoodConf
<1>6. d.current \in RmName /\ d.profiles[d.current] # Absent
  BY <1>1, <1>2, <1>4 DEF GoodConf
<1>7. GoodConf(d)
  BY <1>4, <1>5, <1>6 DEF GoodConf
<1> QED BY <1>2, <1>4, <1>7 DEF readable, d

\* initConfig: the local profile is made or kept, and current; the others stay, if the
\* file could be read.
LEMMA InitConfigGood ==
  ASSUME NEW conf, GoodConf(conf), NEW args, Options(args)
  PROVE  LET d == initConfig(conf, args)
             e == Written(d)
         IN  /\ GoodConf(e) /\ readable(e) /\ GoodProfile(d.profiles["local"])
             /\ readable(conf) =>
                   /\ \A m \in RmName : m # "local" => e.profiles[m] = conf.profiles[m]
                   /\ conf.profiles["local"].mode = "local" => Keeps(conf.profiles["local"], e.profiles["local"])
<1> DEFINE existing == IF readable(conf) THEN conf ELSE NoConfig
           l == managedLocalProfile(existing.profiles["local"], runtimeOr(args.rt), args.search)
           ps == [existing.profiles EXCEPT !["local"] = l]
           d == initConfig(conf, args)
           e == Written(d)
<1>0. "local" \in RmName
  BY RuntimeAssumption
<1>1. /\ existing.profiles \in [RmName -> ProfileShape \cup {Absent}]
      /\ \A m \in RmName : existing.profiles[m] = Absent \/ GoodProfile(existing.profiles[m])
  BY DEF GoodConf, ConfigShape, NoConfig
<1>2. runtimeOr(args.rt) \in Runtime
  BY DEF Options, runtimeOr, Runtime
<1>3. d = [state |-> "ok", current |-> "local", profiles |-> ps]
  BY DEF initConfig
<1>x. readable(conf) => existing = conf
  OBVIOUS
<1> HIDE DEF existing
<1>3a. args.search \in BOOLEAN
  BY Zenon DEF Options
<1>4. GoodProfile(l) /\ (existing.profiles["local"].mode = "local" => Keeps(existing.profiles["local"], l))
  BY <1>0, <1>1, <1>2, <1>3a, ManagedGood
<1> HIDE DEF l
<1>5. /\ ps \in [RmName -> ProfileShape \cup {Absent}] /\ ps["local"] = l
      /\ \A m \in RmName : m # "local" => ps[m] = existing.profiles[m]
  BY <1>0, <1>1, <1>4 DEF GoodProfile
<1> HIDE DEF ps, d
<1>6. d \in ConfigShape /\ d.profiles = ps
  BY <1>0, <1>3, <1>5 DEF ConfigShape
<1>7. e \in ConfigShape /\ e.profiles = ps /\ e.current = "local" /\ e.state = "ok"
  BY <1>0, <1>3, <1>5 DEF ConfigShape, Written
<1> HIDE DEF e
<1>8. \A m \in RmName : e.profiles[m] = Absent \/ GoodProfile(e.profiles[m])
  BY <1>1, <1>4, <1>5, <1>7
<1>9. GoodConf(e) /\ readable(e)
  BY <1>0, <1>4, <1>5, <1>7, <1>8, AbsentIsNot DEF GoodConf, readable
<1> QED BY <1>4, <1>5, <1>6, <1>7, <1>9, <1>x DEF d, e

-----------------------------------------------------------------------------
(* Steps.                                                                  *)

LEMMA IdleHolds == JobHolds(Idle) /\ Idle.step = "idle"
BY DEF JobHolds, JobShape, Idle, Reading

\* Which command is at which step.
LEMMA JobByStep ==
  ASSUME NEW j, JobShape(j)
  PROVE  /\ j.step = "idle" <=> j = Idle
         /\ j.step = "init" => j \in InitJob
         /\ j.step = "bootstrap" => j \in BootJob
         /\ j.step = "up" => j \in UpJob
         /\ j.step = "down" => j \in DownJob
         /\ j.step = "profile" => j \in ProfileJob
         /\ j.step \in {"secret", "ref"} => j \in SecretJob
         /\ j.step = "model" => j \in ModelJob
         /\ j.step \in {"persist", "compose"} => j \in RunJob
         /\ j.step = "ready" => j \in ReadyJob
<1>1. j = Idle => j.step = "idle"
  BY DEF Idle
<1>2. /\ j \in InitJob => j.step = "init"
      /\ j \in BootJob => j.step = "bootstrap"
      /\ j \in UpJob => j.step = "up"
      /\ j \in DownJob => j.step = "down"
      /\ j \in ProfileJob => j.step = "profile"
      /\ j \in SecretJob => j.step \in {"secret", "ref"}
      /\ j \in ModelJob => j.step = "model"
      /\ j \in RunJob => j.step \in {"persist", "compose"}
      /\ j \in ReadyJob => j.step = "ready"
  BY DEF InitJob, BootJob, UpJob, DownJob, ProfileJob, SecretJob, ModelJob, RunJob, ReadyJob
<1> QED BY <1>1, <1>2 DEF JobShape

\* One command moves: what all jobs hold, and that one is at work at most.
LEMMA Moved ==
  ASSUME RmInv, NEW c \in Cli, NEW next, JobHolds(next), rmJob' = [rmJob EXCEPT ![c] = next]
  PROVE  /\ DOMAIN rmJob' = Cli /\ rmJob' = [d \in Cli |-> rmJob'[d]] /\ rmJob'[c] = next
         /\ \A d \in Cli : d # c => rmJob'[d] = rmJob[d]
         /\ \A d \in Cli : JobHolds(rmJob'[d])
<1>1. rmJob = [d \in Cli |-> rmJob[d]]
  BY DEF RmInv
<1>2. rmJob' = [d \in Cli |-> IF d = c THEN next ELSE rmJob[d]]
  BY <1>1
<1>3. rmJob'[c] = next /\ (\A d \in Cli : d # c => rmJob'[d] = rmJob[d]) /\ DOMAIN rmJob' = Cli
  BY <1>2
<1>4. rmJob' = [d \in Cli |-> rmJob'[d]]
  BY <1>2
<1> QED BY <1>3, <1>4 DEF RmInv

\* With commands one at a time and one at work, the others are idle.
LEMMA OthersIdle ==
  ASSUME RmInv, ~rmOverlap, NEW c \in Cli, rmJob[c] # Idle, NEW d \in Cli, d # c
  PROVE  rmJob[d] = Idle
BY DEF RmInv, Orderly

\* A command writes the file.
LEMMA SaveKeeps ==
  ASSUME RmInv, NEW c \in Cli, rmJob[c] # Idle, NEW conf, NEW kept, NEW next, Save(c, conf, kept, next),
         UNCHANGED rmKeychain, GoodConf(Written(conf)), readable(Written(conf)), JobHolds(next),
         next.step \in {"idle", "up", "compose"}, kept \subseteq RmName \X SecretNames,
         ~rmOverlap => KeptHolds(kept, Written(conf), rmKeychain)
  PROVE  RmInv'
<1>1. /\ rmConfig' = Written(conf) /\ rmKept' = kept /\ rmJob' = [rmJob EXCEPT ![c] = next]
      /\ UNCHANGED <<rmEnv, rmReport, rmOverlap>>
  BY DEF Save, Written
<1>2. /\ DOMAIN rmJob' = Cli /\ rmJob' = [d \in Cli |-> rmJob'[d]] /\ rmJob'[c] = next
      /\ \A d \in Cli : d # c => rmJob'[d] = rmJob[d]
      /\ \A d \in Cli : JobHolds(rmJob'[d])
  BY <1>1, Moved
<1>3. ASSUME ~rmOverlap PROVE Orderly'
  <2>1. \A d \in Cli : d # c => rmJob'[d] = Idle
    BY <1>2, <1>3, OthersIdle
  <2>2. \A d \in Cli : InStep(rmJob'[d], rmConfig', rmKeychain', rmKept')
    BY <1>2, <2>1, IdleHolds DEF InStep, Reading
  <2> QED BY <1>1, <1>3, <2>1, <2>2 DEF Orderly
<1> QED BY <1>1, <1>2, <1>3 DEF RmInv, KeyReachesRuntime

\* A command moves on and writes neither the file nor the keychain.
LEMMA MovesOn ==
  ASSUME RmInv, NEW c \in Cli, rmJob[c] # Idle, NEW next, JobHolds(next), rmJob' = [rmJob EXCEPT ![c] = next],
         InStep(next, rmConfig, rmKeychain, rmKept) \/ rmOverlap,
         UNCHANGED <<rmConfig, rmKeychain, rmKept, rmOverlap>>, KeyReachesRuntime', ReportHolds(rmReport')
  PROVE  RmInv'
<1>2. /\ DOMAIN rmJob' = Cli /\ rmJob' = [d \in Cli |-> rmJob'[d]] /\ rmJob'[c] = next
      /\ \A d \in Cli : d # c => rmJob'[d] = rmJob[d]
      /\ \A d \in Cli : JobHolds(rmJob'[d])
  BY Moved
<1>3. ASSUME ~rmOverlap PROVE Orderly'
  <2>1. \A d \in Cli : d # c => rmJob'[d] = Idle
    BY <1>2, <1>3, OthersIdle
  <2>2. \A d \in Cli : InStep(rmJob'[d], rmConfig', rmKeychain', rmKept')
    BY <1>2, <1>3, <2>1, IdleHolds DEF InStep, Reading
  <2> QED BY <1>3, <2>1, <2>2 DEF RmInv, Orderly
<1> QED BY <1>2, <1>3 DEF RmInv

\* A command gives up.
LEMMA FailKeeps ==
  ASSUME RmInv, NEW c \in Cli, rmJob[c] # Idle, Fail(c)
  PROVE  RmInv'
<1>1. KeyReachesRuntime' /\ ReportHolds(rmReport')
  BY DEF Fail, RmInv, KeyReachesRuntime
<1>2. InStep(Idle, rmConfig, rmKeychain, rmKept)
  BY IdleHolds DEF InStep, Reading
<1> QED BY <1>1, <1>2, IdleHolds, MovesOn DEF Fail

\* Secrets are kept when their profiles are.
LEMMA KeptStays ==
  ASSUME NEW kept, NEW conf, NEW chain, KeptHolds(kept, conf, chain), NEW d, NEW n \in RmName,
         d.profiles[n] # Absent, Keeps(conf.profiles[n], d.profiles[n]),
         \A m \in RmName : m # n => d.profiles[m] = conf.profiles[m]
  PROVE  KeptHolds(kept, d, chain)
BY DEF KeptHolds, Keeps

\* Those of a profile that is replaced are forgotten.
LEMMA KeptForgotten ==
  ASSUME NEW conf, NEW chain, KeptHolds(rmKept, conf, chain), NEW d, NEW n \in RmName,
         \A m \in RmName : m # n => d.profiles[m] = conf.profiles[m]
  PROVE  KeptHolds(Forget(n), d, chain)
<1> SUFFICES ASSUME NEW m \in RmName, NEW s \in SecretNames, <<m, s>> \in Forget(n)
             PROVE  chain[<<m, s>>] = m /\ d.profiles[m] # Absent /\ Has(d.profiles[m], s)
  BY DEF KeptHolds
<1>1. <<m, s>> \in rmKept /\ m # n
  BY DEF Forget
<1> QED BY <1>1 DEF KeptHolds

\* A command reads the file and begins.
LEMMA Starts ==
  ASSUME RmInv, NEW c \in Cli, NEW step \in {"init", "bootstrap", "up", "down", "profile", "secret", "model"}, NEW args,
         Start(c, step, args), JobShape([step |-> step, args |-> args, conf |-> rmConfig])
  PROVE  RmInv'
<1> DEFINE next == [step |-> step, args |-> args, conf |-> rmConfig]
<1>1. /\ rmJob[c].step = "idle" /\ rmJob' = [rmJob EXCEPT ![c] = next]
      /\ rmOverlap' = (rmOverlap \/ \E d \in Cli \ {c} : rmJob[d].step # "idle")
      /\ rmEnv' = NoEnv /\ rmReport' = NoReport
      /\ UNCHANGED <<rmConfig, rmKeychain, rmKept>>
  BY DEF Start
<1>2. next.step = step /\ next.conf = rmConfig /\ JobShape(next)
  OBVIOUS
<1> HIDE DEF next
<1>3. JobHolds(next)
  BY <1>2 DEF JobHolds, RmInv, Reading
<1>4. /\ DOMAIN rmJob' = Cli /\ rmJob' = [d \in Cli |-> rmJob'[d]] /\ rmJob'[c] = next
      /\ \A d \in Cli : d # c => rmJob'[d] = rmJob[d]
      /\ \A d \in Cli : JobHolds(rmJob'[d])
  BY <1>1, <1>3, Moved
<1>5. rmOverlap' \in BOOLEAN
  BY <1>1, Zenon
<1>6. KeyReachesRuntime'
  BY <1>1 DEF KeyReachesRuntime, NoEnv
<1>7. ReportHolds(rmReport')
  BY <1>1 DEF ReportHolds, NoReport
<1>8. ASSUME ~rmOverlap' PROVE Orderly'
  <2>1. ~rmOverlap /\ \A d \in Cli : d # c => rmJob[d].step = "idle"
    BY <1>1, <1>8
  <2>2. \A d \in Cli : d # c => rmJob'[d] = Idle
    BY <1>4, <2>1, JobByStep DEF RmInv, JobHolds
  <2>3. InStep(next, rmConfig, rmKeychain, rmKept)
    BY <1>2 DEF InStep
  <2>4. \A d \in Cli : InStep(rmJob'[d], rmConfig', rmKeychain', rmKept')
    BY <1>1, <1>4, <2>2, <2>3, IdleHolds DEF InStep, Reading
  <2> QED BY <1>1, <1>4, <2>1, <2>2, <2>4 DEF RmInv, Orderly
<1> QED BY <1>1, <1>4, <1>5, <1>6, <1>7, <1>8 DEF RmInv

LEMMA CommandInv == ASSUME RmInv, NEW c \in Cli, Command(c) PROVE RmInv'
<1>0. rmConfig \in ConfigShape
  BY DEF RmInv, GoodConf
<1>1. ASSUME NEW a \in RmArgs, Start(c, "init", a) PROVE RmInv'
  <2>1. [step |-> "init", args |-> a, conf |-> rmConfig] \in InitJob
    BY <1>0, RuntimeAssumption DEF InitJob, StartArgs
  <2> QED BY <1>1, <2>1, Starts DEF JobShape
<1>2. ASSUME NEW a \in RmArgs, NEW f \in BOOLEAN, Start(c, "bootstrap", [rt |-> a.rt, search |-> a.search, force |-> f])
      PROVE  RmInv'
  <2>1. [step |-> "bootstrap", args |-> [rt |-> a.rt, search |-> a.search, force |-> f], conf |-> rmConfig] \in BootJob
    BY <1>0, RuntimeAssumption DEF BootJob
  <2> QED BY <1>2, <2>1, Starts DEF JobShape
<1>3. ASSUME NEW a \in RmArgs, NEW f \in BOOLEAN, Start(c, "up", [rt |-> a.rt, search |-> a.search, dev |-> f])
      PROVE  RmInv'
  <2>1. [step |-> "up", args |-> [rt |-> a.rt, search |-> a.search, dev |-> f], conf |-> rmConfig] \in UpJob
    BY <1>0, RuntimeAssumption DEF UpJob, UpArgs
  <2> QED BY <1>3, <2>1, Starts DEF JobShape
<1>4. ASSUME NEW r \in BOOLEAN, Start(c, "down", [restart |-> r]) PROVE RmInv'
  <2>1. [step |-> "down", args |-> [restart |-> r], conf |-> rmConfig] \in DownJob
    BY <1>0 DEF DownJob
  <2> QED BY <1>4, <2>1, Starts DEF JobShape
<1>5. ASSUME NEW w \in {"use", "add-local", "add-remote", "remove"}, NEW n \in RmName,
             Start(c, "profile", [what |-> w, name |-> n])
      PROVE  RmInv'
  <2>1. [step |-> "profile", args |-> [what |-> w, name |-> n], conf |-> rmConfig] \in ProfileJob
    BY <1>0 DEF ProfileJob
  <2> QED BY <1>5, <2>1, Starts DEF JobShape
<1>6. ASSUME NEW n \in SecretNames, NEW s \in BOOLEAN, Start(c, "secret", [name |-> n, set |-> s]) PROVE RmInv'
  <2>1. [step |-> "secret", args |-> [name |-> n, set |-> s], conf |-> rmConfig] \in SecretJob
    BY <1>0 DEF SecretJob
  <2> QED BY <1>6, <2>1, Starts DEF JobShape
<1>7. ASSUME NEW n \in Provider, NEW s \in BOOLEAN, Start(c, "model", [name |-> n, set |-> s]) PROVE RmInv'
  <2>1. [step |-> "model", args |-> [name |-> n, set |-> s], conf |-> rmConfig] \in ModelJob
    BY <1>0 DEF ModelJob
  <2> QED BY <1>7, <2>1, Starts DEF JobShape
<1> QED BY <1>1, <1>2, <1>3, <1>4, <1>5, <1>6, <1>7 DEF Command, Provider

\* initConfig is written, by init or bootstrap: secrets are kept, or their profile was
\* not a local one.
LEMMA InitWritten ==
  ASSUME RmInv, NEW c \in Cli, NEW next, JobHolds(next), next.step \in {"idle", "up"},
         NEW conf, GoodConf(conf), rmJob[c] # Idle, ~rmOverlap => conf = rmConfig,
         NEW args, Options(args),
         Save(c, initConfig(conf, args),
              IF readable(conf)
              THEN IF conf.profiles["local"].mode = "local" THEN rmKept ELSE Forget("local")
              ELSE {}, next),
         UNCHANGED rmKeychain
  PROVE  RmInv'
<1> DEFINE d == initConfig(conf, args)
           e == Written(d)
           kept == IF readable(conf)
                   THEN IF conf.profiles["local"].mode = "local" THEN rmKept ELSE Forget("local")
                   ELSE {}
<1>0. "local" \in RmName
  BY RuntimeAssumption
<1>1. /\ GoodConf(e) /\ readable(e) /\ GoodProfile(d.profiles["local"])
      /\ readable(conf) =>
            /\ \A m \in RmName : m # "local" => e.profiles[m] = conf.profiles[m]
            /\ conf.profiles["local"].mode = "local" => Keeps(conf.profiles["local"], e.profiles["local"])
  BY InitConfigGood
<1>2. Save(c, d, kept, next)
  OBVIOUS
<1>3. kept \subseteq RmName \X SecretNames
  BY DEF RmInv, Forget
<1>4. e.profiles["local"] # Absent
  <2>1. e.profiles = d.profiles
    BY DEF Written, initConfig
  <2> QED BY <1>1, <2>1, AbsentIsNot
<1> HIDE DEF d, e
<1>5. ASSUME ~rmOverlap PROVE KeptHolds(kept, e, rmKeychain)
  <2>1. conf = rmConfig /\ readable(conf) /\ KeptHolds(rmKept, conf, rmKeychain)
    BY <1>5 DEF RmInv, Orderly
  <2>2. CASE conf.profiles["local"].mode = "local"
    BY <1>0, <1>1, <1>4, <2>1, <2>2, KeptStays
  <2>3. CASE conf.profiles["local"].mode # "local"
    BY <1>0, <1>1, <2>1, <2>3, KeptForgotten
  <2> QED BY <2>2, <2>3
<1> HIDE DEF kept
<1> QED BY <1>1, <1>2, <1>3, <1>5, SaveKeeps DEF e

\* A command at a step reads what the step needs.
LEMMA AtWork ==
  ASSUME RmInv, NEW c \in Cli, rmJob[c].step # "idle"
  PROVE  /\ rmJob[c] # Idle /\ JobHolds(rmJob[c]) /\ JobShape(rmJob[c])
         /\ ~rmOverlap => InStep(rmJob[c], rmConfig, rmKeychain, rmKept)
BY IdleHolds DEF RmInv, Orderly, JobHolds

LEMMA InitRuntimeInv == ASSUME RmInv, NEW c \in Cli, initRuntime(c) PROVE RmInv'
<1> DEFINE j == rmJob[c]
<1>1. j.step = "init"
  BY DEF initRuntime
<1>2. /\ j # Idle /\ JobHolds(j) /\ JobShape(j)
      /\ ~rmOverlap => InStep(j, rmConfig, rmKeychain, rmKept)
  BY <1>1, AtWork
<1>3. j \in InitJob
  BY <1>1, <1>2, JobByStep
<1>4. GoodConf(j.conf) /\ (~rmOverlap => j.conf = rmConfig)
  BY <1>1, <1>2 DEF JobHolds, InStep, Reading
<1>5. Options(j.args)
  <2>1. j.args \in StartArgs
    BY <1>3 DEF InitJob
  <2> HIDE DEF j
  <2> QED BY <2>1 DEF Options, StartArgs
<1> QED BY <1>2, <1>4, <1>5, IdleHolds, InitWritten DEF initRuntime

LEMMA BootstrapInv == ASSUME RmInv, NEW c \in Cli, bootstrapLocalRuntime(c) PROVE RmInv'
<1> DEFINE j == rmJob[c]
           next == [step |-> "up", conf |-> NoConfig,
                    args |-> [rt |-> runtimeOr(j.args.rt), search |-> j.args.search, dev |-> FALSE]]
<1>1. j.step = "bootstrap" /\ ensureBootstrapProfile(c, next)
  BY DEF bootstrapLocalRuntime
<1>2. /\ j # Idle /\ JobHolds(j) /\ JobShape(j)
      /\ ~rmOverlap => InStep(j, rmConfig, rmKeychain, rmKept)
  BY <1>1, AtWork
<1>3. j \in BootJob
  BY <1>1, <1>2, JobByStep
<1>4. GoodConf(j.conf) /\ (~rmOverlap => j.conf = rmConfig)
  BY <1>1, <1>2 DEF JobHolds, InStep, Reading
<1>5. Options(j.args)
  <2>1. j.args \in [rt : {"", "podman", "docker"}, search : BOOLEAN, force : BOOLEAN]
    BY <1>3 DEF BootJob
  <2> HIDE DEF j
  <2> QED BY <2>1 DEF Options
<1>6. JobHolds(next) /\ next.step = "up"
  <2>1. NoConfig \in ConfigShape
    BY DEF NoConfig, ConfigShape
  <2>2. PICK rt \in {"", "podman", "docker"} : rt = runtimeOr(j.args.rt)
    BY <1>5 DEF Options, runtimeOr
  <2>3. PICK s \in BOOLEAN : s = j.args.search
    BY <1>5, Zenon DEF Options
  <2>4. PICK no \in BOOLEAN : no = FALSE
    OBVIOUS
  <2>5. next = [step |-> "up", conf |-> NoConfig, args |-> [rt |-> rt, search |-> s, dev |-> no]]
    BY <2>2, <2>3, <2>4, Zenon
  <2>6. [step |-> "up", conf |-> NoConfig, args |-> [rt |-> rt, search |-> s, dev |-> no]] \in UpJob
    BY <2>1 DEF UpJob, UpArgs
  <2>7. next.step = "up"
    OBVIOUS
  <2> HIDE DEF next
  <2> QED BY <2>5, <2>6, <2>7 DEF JobHolds, JobShape, Reading
<1> HIDE DEF next
<1>7. CASE Fail(c)
  BY <1>2, <1>7, FailKeeps
<1>8. CASE /\ Save(c, initConfig(j.conf, j.args),
                   IF readable(j.conf)
                   THEN IF j.conf.profiles["local"].mode = "local" THEN rmKept ELSE Forget("local")
                   ELSE {}, next)
           /\ UNCHANGED rmKeychain
  BY <1>2, <1>4, <1>5, <1>6, <1>8, InitWritten
<1> QED BY <1>1, <1>7, <1>8 DEF ensureBootstrapProfile

\* Another profile becomes the current one; a profile is taken out.
LEMMA UseGood ==
  ASSUME NEW conf, GoodConf(conf), NEW n \in RmName, conf.profiles[n] # Absent
  PROVE  LET d == Written([conf EXCEPT !.current = n])
         IN  GoodConf(d) /\ readable(d) /\ d.profiles = conf.profiles
<1> DEFINE d == Written([conf EXCEPT !.current = n])
<1>1. d \in ConfigShape /\ d.state = "ok" /\ d.current = n /\ d.profiles = conf.profiles
  BY DEF Written, GoodConf, ConfigShape
<1> HIDE DEF d
<1>2. GoodConf(d) /\ readable(d)
  BY <1>1 DEF GoodConf, readable
<1> QED BY <1>1, <1>2 DEF d

LEMMA RemoveGood ==
  ASSUME NEW conf, GoodConf(conf), readable(conf), NEW n \in RmName, removeProfile(conf, n) # NoConfig
  PROVE  LET d == Written(removeProfile(conf, n))
         IN  GoodConf(d) /\ readable(d) /\ \A m \in RmName : m # n => d.profiles[m] = conf.profiles[m]
<1> DEFINE left == {m \in RmName \ {n} : conf.profiles[m] # Absent}
           cur == IF conf.current # n THEN conf.current ELSE CHOOSE m \in left : TRUE
           ps == [conf.profiles EXCEPT ![n] = Absent]
           r == removeProfile(conf, n)
           d == Written(r)
<1>1. conf \in ConfigShape /\ conf.current \in RmName /\ conf.profiles[conf.current] # Absent
  BY DEF GoodConf
<1>2. conf.current # n \/ left # {}
  BY DEF removeProfile
<1>3. cur \in RmName /\ cur # n /\ conf.profiles[cur] # Absent
  BY <1>1, <1>2
<1>4. /\ ps \in [RmName -> ProfileShape \cup {Absent}] /\ ps[n] = Absent
      /\ \A m \in RmName : m # n => ps[m] = conf.profiles[m]
  BY <1>1 DEF ConfigShape
<1>5. d.current = cur /\ d.profiles = ps /\ d.state = "ok" /\ d \in [state : {"ok"}, current : {cur}, profiles : {ps}]
  <2>1. CASE conf.current # n
    <3>1. r = [conf EXCEPT !.profiles = ps]
      BY <1>1, <2>1 DEF removeProfile, Put, ConfigShape
    <3> HIDE DEF r, ps
    <3> QED BY <1>1, <2>1, <3>1 DEF Written, ConfigShape
  <2>2. CASE conf.current = n
    <3>1. r = [conf EXCEPT !.profiles = ps, !.current = cur]
      BY <1>1, <1>2, <2>2 DEF removeProfile, Put, ConfigShape
    <3> HIDE DEF r, ps, cur
    <3> QED BY <1>1, <2>2, <3>1 DEF Written, ConfigShape
  <2> QED BY <2>1, <2>2
<1> HIDE DEF d, ps, cur
<1>6. d \in ConfigShape
  BY <1>3, <1>4, <1>5 DEF ConfigShape
<1>7. GoodConf(d) /\ readable(d)
  BY <1>3, <1>4, <1>5, <1>6 DEF GoodConf, readable
<1> QED BY <1>4, <1>5, <1>7 DEF d

LEMMA ProfilesInv == ASSUME RmInv, NEW c \in Cli, ChangeProfiles(c) PROVE RmInv'
<1> DEFINE j == rmJob[c]
           name == j.args.name
           what == j.args.what
           new == CASE what = "use" -> setCurrentProfile(j.conf, name)
                    [] what = "add-local" -> addProfile(j.conf, name, addedLocal)
                    [] what = "add-remote" -> addProfile(j.conf, name, remoteProfile)
                    [] what = "remove" -> removeProfile(j.conf, name)
           kept == IF what = "use" THEN rmKept ELSE Forget(name)
           d == Written(new)
<1>1. j.step = "profile"
  BY DEF ChangeProfiles
<1>2. /\ j # Idle /\ JobHolds(j) /\ JobShape(j)
      /\ ~rmOverlap => InStep(j, rmConfig, rmKeychain, rmKept)
  BY <1>1, AtWork
<1>3. name \in RmName /\ what \in {"use", "add-local", "add-remote", "remove"}
  BY <1>1, <1>2, JobByStep DEF ProfileJob
<1>4. GoodConf(j.conf) /\ (~rmOverlap => j.conf = rmConfig)
  BY <1>1, <1>2 DEF JobHolds, InStep, Reading
<1>5. \/ Fail(c)
      \/ readable(j.conf) /\ new # NoConfig /\ Save(c, new, kept, Idle) /\ UNCHANGED rmKeychain
  BY DEF ChangeProfiles
<1>6. CASE readable(j.conf) /\ new # NoConfig /\ Save(c, new, kept, Idle) /\ UNCHANGED rmKeychain
  <2>1. /\ GoodConf(d) /\ readable(d)
        /\ \A m \in RmName : m # name => d.profiles[m] = j.conf.profiles[m]
        /\ what = "use" => d.profiles = j.conf.profiles
    <3> HIDE DEF j
    <3>1. CASE what = "use"
      <4>1. new = [j.conf EXCEPT !.current = name] /\ j.conf.profiles[name] # Absent
        BY <1>6, <3>1 DEF setCurrentProfile
      <4> HIDE DEF new, name, what
      <4> QED BY <1>3, <1>4, <4>1, UseGood
    <3>2. CASE what = "add-local"
      <4> DEFINE made == addedLocal
      <4>1. new = Put(j.conf, name, made)
        BY <3>2 DEF addProfile
      <4>2. GoodProfile(made)
        BY AddedGood
      <4> HIDE DEF new, name, what, made
      <4> QED BY <1>3, <1>4, <1>6, <3>2, <4>1, <4>2, PutGood
    <3>3. CASE what = "add-remote"
      <4>1. new = Put(j.conf, name, remoteProfile)
        BY <3>3 DEF addProfile
      <4> HIDE DEF new, name, what
      <4> QED BY <1>3, <1>4, <1>6, <3>3, <4>1, RemoteGood, PutGood
    <3>4. CASE what = "remove"
      <4>1. new = removeProfile(j.conf, name)
        BY <3>4
      <4> HIDE DEF new, name, what
      <4> QED BY <1>3, <1>4, <1>6, <3>4, <4>1, RemoveGood
    <3> QED BY <1>3, <3>1, <3>2, <3>3, <3>4
  <2>2. kept \subseteq RmName \X SecretNames
    BY DEF RmInv, Forget
  <2> HIDE DEF d
  <2>3. ASSUME ~rmOverlap PROVE KeptHolds(kept, d, rmKeychain)
    <3>1. KeptHolds(rmKept, j.conf, rmKeychain)
      BY <1>4, <2>3 DEF RmInv, Orderly
    <3>2. CASE what = "use"
      BY <2>1, <3>1, <3>2 DEF KeptHolds
    <3>3. CASE what # "use"
      BY <1>3, <2>1, <3>1, <3>3, KeptForgotten
    <3> QED BY <3>2, <3>3
  <2> HIDE DEF new, kept, j
  <2> QED BY <1>2, <1>6, <2>1, <2>2, <2>3, IdleHolds, SaveKeeps DEF d, j
<1>7. CASE Fail(c)
  BY <1>2, <1>7, FailKeeps
<1> QED BY <1>5, <1>6, <1>7

\* The keychain is written first, the reference in the file after it.
LEMMA KeychainInv == ASSUME RmInv, NEW c \in Cli, ChangeKeychain(c) PROVE RmInv'
<1> DEFINE j == rmJob[c]
           p == j.conf.current
           key == j.args.name
           next == [j EXCEPT !.step = "ref"]
<1>1. j.step = "secret"
  BY DEF ChangeKeychain
<1>2. /\ j # Idle /\ JobHolds(j) /\ JobShape(j)
      /\ ~rmOverlap => InStep(j, rmConfig, rmKeychain, rmKept)
  BY <1>1, AtWork
<1>3. j \in SecretJob
  BY <1>1, <1>2, JobByStep
<1>4. GoodConf(j.conf) /\ (~rmOverlap => j.conf = rmConfig)
  BY <1>1, <1>2 DEF JobHolds, InStep, Reading
<1>5. PICK set \in BOOLEAN : set = j.args.set
  <2> HIDE DEF j
  <2> QED BY <1>3 DEF SecretJob
<1>6. CASE Fail(c)
  BY <1>2, <1>6, FailKeeps
<1>7. CASE /\ readable(j.conf)
           /\ rmKeychain' = [rmKeychain EXCEPT ![accountFor(p, key)] = IF j.args.set THEN p ELSE "none"]
           /\ rmKept' = IF j.args.set THEN rmKept ELSE rmKept \ {<<p, key>>}
           /\ rmJob' = [rmJob EXCEPT ![c].step = "ref"]
           /\ UNCHANGED <<rmConfig, rmStacks, rmDev, rmPids, rmEnv, rmReport, rmOverlap, rmOps>>
  <2>1. p \in RmName /\ key \in SecretNames
    <3> HIDE DEF j
    <3> QED BY <1>3, <1>4, <1>7 DEF GoodConf, SecretJob
  <2>2. rmJob' = [rmJob EXCEPT ![c] = next]
    BY <1>7
  <2>3. next \in SecretJob /\ next.step = "ref" /\ next.conf = j.conf /\ next.args = j.args
    <3> HIDE DEF j
    <3> QED BY <1>3 DEF SecretJob
  <2> HIDE DEF next
  <2>4. JobHolds(next)
    BY <1>4, <1>7, <2>3 DEF JobHolds, JobShape, Reading
  <2>5. /\ DOMAIN rmJob' = Cli /\ rmJob' = [d \in Cli |-> rmJob'[d]] /\ rmJob'[c] = next
        /\ \A d \in Cli : d # c => rmJob'[d] = rmJob[d]
        /\ \A d \in Cli : JobHolds(rmJob'[d])
    BY <2>2, <2>4, Moved
  <2> HIDE DEF p, key
  <2>6. <<p, key>> \in RmName \X SecretNames /\ rmKeychain \in [RmName \X SecretNames -> RmName \cup {"none"}]
    BY <2>1 DEF RmInv
  <2>7. rmKeychain' = [rmKeychain EXCEPT ![<<p, key>>] = IF set THEN p ELSE "none"]
    BY <1>5, <1>7 DEF accountFor
  <2>8. rmKeychain' \in [RmName \X SecretNames -> RmName \cup {"none"}]
    BY <2>1, <2>6, <2>7
  <2>9. /\ rmKeychain'[<<p, key>>] = IF set THEN p ELSE "none"
        /\ \A n \in RmName, s \in SecretNames : <<n, s>> # <<p, key>> => rmKeychain'[<<n, s>>] = rmKeychain[<<n, s>>]
    BY <2>6, <2>7
  <2>10. rmKept' = IF set THEN rmKept ELSE rmKept \ {<<p, key>>}
    BY <1>5, <1>7
  <2>11. rmKept' \subseteq RmName \X SecretNames
    BY <2>10 DEF RmInv
  <2>12. ASSUME ~rmOverlap PROVE Orderly'
    <3>1. readable(rmConfig) /\ KeptHolds(rmKept, rmConfig, rmKeychain) /\ j.conf = rmConfig
      BY <1>4, <2>12 DEF RmInv, Orderly
    <3>2. \A d \in Cli : d # c => rmJob'[d] = Idle
      BY <1>2, <2>5, <2>12, OthersIdle
    <3>3. KeptHolds(rmKept', rmConfig, rmKeychain')
      <4> SUFFICES ASSUME NEW n \in RmName, NEW s \in SecretNames, <<n, s>> \in rmKept'
                   PROVE  rmKeychain'[<<n, s>>] = n /\ rmConfig.profiles[n] # Absent /\ Has(rmConfig.profiles[n], s)
        BY DEF KeptHolds
      <4>1. <<n, s>> \in rmKept /\ (<<n, s>> = <<p, key>> => set)
        BY <2>10
      <4> QED BY <2>9, <3>1, <4>1 DEF KeptHolds
    <3>4. InStep(next, rmConfig, rmKeychain', rmKept')
      <4>1. next.conf = rmConfig
        BY <2>3, <3>1
      <4>2. IF set THEN rmKeychain'[<<p, key>>] = p ELSE <<p, key>> \notin rmKept'
        BY <2>9, <2>10
      <4>3. next.conf.current = p /\ next.args.name = key /\ next.args.set = set
        BY <1>5, <2>3 DEF p, key
      <4> QED BY <2>3, <4>1, <4>2, <4>3 DEF InStep
    <3>5. \A d \in Cli : InStep(rmJob'[d], rmConfig, rmKeychain', rmKept')
      BY <2>5, <3>2, <3>4, IdleHolds DEF InStep, Reading
    <3> QED BY <1>7, <2>5, <3>1, <3>2, <3>3, <3>5 DEF Orderly
  <2>13. KeyReachesRuntime' /\ ReportHolds(rmReport') /\ GoodConf(rmConfig')
    BY <1>7 DEF RmInv, KeyReachesRuntime
  <2> QED BY <1>7, <2>5, <2>8, <2>11, <2>12, <2>13 DEF RmInv
<1> QED BY <1>6, <1>7 DEF ChangeKeychain

LEMMA RefInv == ASSUME RmInv, NEW c \in Cli, WriteRef(c) PROVE RmInv'
<1> DEFINE j == rmJob[c]
           p == j.conf.current
           key == j.args.name
           old == j.conf.profiles[p]
           token == key = "open_lagrange_token"
           new == [old EXCEPT !.refs = IF j.args.set THEN @ \cup {key} ELSE @ \ {key},
                              !.auth = IF ~token THEN @ ELSE IF j.args.set THEN "token" ELSE "none"]
           kept == IF j.args.set THEN rmKept \cup {<<p, key>>} ELSE rmKept
           d == Written(Put(j.conf, p, new))
<1>1. j.step = "ref" /\ Save(c, Put(j.conf, p, new), kept, Idle) /\ UNCHANGED rmKeychain
  BY DEF WriteRef
<1>2. /\ j # Idle /\ JobHolds(j) /\ JobShape(j)
      /\ ~rmOverlap => InStep(j, rmConfig, rmKeychain, rmKept)
  BY <1>1, AtWork
<1>3. j \in SecretJob
  BY <1>1, <1>2, JobByStep
<1>4. GoodConf(j.conf) /\ readable(j.conf) /\ (~rmOverlap => j.conf = rmConfig)
  BY <1>1, <1>2 DEF JobHolds, InStep, Reading
<1>5. PICK set \in BOOLEAN : set = j.args.set
  <2> HIDE DEF j
  <2> QED BY <1>3 DEF SecretJob
<1>6. p \in RmName /\ key \in SecretNames
  <2> HIDE DEF j
  <2> QED BY <1>3, <1>4 DEF GoodConf, SecretJob
<1>7. GoodProfile(old)
  BY <1>4, <1>6 DEF GoodConf
<1>8. PICK refs \in SUBSET SecretNames : refs = IF set THEN old.refs \cup {key} ELSE old.refs \ {key}
  BY <1>6, <1>7 DEF GoodProfile, ProfileShape
<1>9. PICK auth \in {"none", "token"} : auth = IF ~token THEN old.auth ELSE IF set THEN "token" ELSE "none"
  BY <1>7 DEF GoodProfile, ProfileShape
<1>10. new = [old EXCEPT !.refs = refs, !.auth = auth]
  BY <1>5, <1>7, <1>8, <1>9 DEF GoodProfile, ProfileShape
<1>11. GoodProfile(new) /\ new.refs = refs /\ new.active = old.active
  <2> HIDE DEF old, new
  <2> QED BY <1>7, <1>10 DEF GoodProfile, ProfileShape
<1>12. kept = IF set THEN rmKept \cup {<<p, key>>} ELSE rmKept
  BY <1>5
<1>13. ~rmOverlap => IF set THEN rmKeychain[<<p, key>>] = p ELSE <<p, key>> \notin rmKept
  BY <1>1, <1>2, <1>5 DEF InStep
<1>14. ~rmOverlap => KeptHolds(rmKept, j.conf, rmKeychain)
  BY <1>4 DEF RmInv, Orderly
<1>15. old = j.conf.profiles[p]
  OBVIOUS
<1> HIDE DEF new, p, key, kept, old
<1>16. /\ GoodConf(d) /\ readable(d) /\ d.profiles[p] = new
       /\ \A m \in RmName : m # p => d.profiles[m] = j.conf.profiles[m]
  <2> HIDE DEF j
  <2> QED BY <1>4, <1>6, <1>11, PutGood
<1> HIDE DEF d
<1>17. kept \subseteq RmName \X SecretNames
  BY <1>6, <1>12 DEF RmInv
<1>18. ASSUME ~rmOverlap PROVE KeptHolds(kept, d, rmKeychain)
  <2> SUFFICES ASSUME NEW n \in RmName, NEW s \in SecretNames, <<n, s>> \in kept
               PROVE  rmKeychain[<<n, s>>] = n /\ d.profiles[n] # Absent /\ Has(d.profiles[n], s)
    BY DEF KeptHolds
  <2> HIDE DEF j
  <2>1. CASE <<n, s>> = <<p, key>>
    <3>1. set /\ rmKeychain[<<p, key>>] = p
      BY <1>12, <1>13, <1>18, <2>1
    <3>2. d.profiles[n] = new /\ new # Absent /\ s \in new.refs
      BY <1>8, <1>11, <1>16, <2>1, <3>1, AbsentIsNot
    <3> QED BY <2>1, <3>1, <3>2 DEF Has
  <2>2. CASE <<n, s>> # <<p, key>>
    <3>1. rmKeychain[<<n, s>>] = n /\ j.conf.profiles[n] # Absent /\ Has(j.conf.profiles[n], s)
      BY <1>12, <1>14, <1>18, <2>2 DEF KeptHolds
    <3>2. CASE n # p
      BY <1>16, <3>1, <3>2
    <3>3. CASE n = p
      <4>1. s # key
        BY <2>2, <3>3
      <4>2. Has(new, s)
        BY <1>8, <1>11, <1>15, <3>1, <3>3, <4>1 DEF Has
      <4> QED BY <1>11, <1>16, <3>1, <3>3, <4>2, AbsentIsNot
    <3> QED BY <3>2, <3>3
  <2> QED BY <2>1, <2>2
<1> QED BY <1>1, <1>2, <1>16, <1>17, <1>18, IdleHolds, SaveKeeps DEF d

\* Configuring a provider adds the reference it needs and takes none away.
LEMMA ModelInv == ASSUME RmInv, NEW c \in Cli, configureModelProvider(c) PROVE RmInv'
<1> DEFINE j == rmJob[c]
           p == j.conf.current
           key == j.args.name
           old == j.conf.profiles[p]
           new == [old EXCEPT !.providers = @ \cup {key},
                              !.active = IF j.args.set THEN key ELSE @,
                              !.refs = IF key = "local" THEN @ ELSE @ \cup {key}]
           d == Written(Put(j.conf, p, new))
<1>1. j.step = "model"
  BY DEF configureModelProvider
<1>2. /\ j # Idle /\ JobHolds(j) /\ JobShape(j)
      /\ ~rmOverlap => InStep(j, rmConfig, rmKeychain, rmKept)
  BY <1>1, AtWork
<1>3. j \in ModelJob
  BY <1>1, <1>2, JobByStep
<1>4. GoodConf(j.conf) /\ (~rmOverlap => j.conf = rmConfig)
  BY <1>1, <1>2 DEF JobHolds, InStep, Reading
<1>5. CASE Fail(c)
  BY <1>2, <1>5, FailKeeps
<1>6. CASE readable(j.conf) /\ Save(c, Put(j.conf, p, new), rmKept, Idle) /\ UNCHANGED rmKeychain
  <2>1. PICK set \in BOOLEAN : set = j.args.set
    <3> HIDE DEF j
    <3> QED BY <1>3 DEF ModelJob
  <2>2. p \in RmName /\ key \in Provider
    <3> HIDE DEF j
    <3> QED BY <1>3, <1>4, <1>6 DEF GoodConf, ModelJob
  <2>3. GoodProfile(old)
    BY <1>4, <1>6, <2>2 DEF GoodConf
  <2>4. PICK refs \in SUBSET SecretNames : refs = IF key = "local" THEN old.refs ELSE old.refs \cup {key}
    <3>1. key # "local" => key \in SecretNames
      BY <2>2 DEF Provider, SecretNames
    <3> QED BY <2>3, <3>1 DEF GoodProfile, ProfileShape
  <2>5. PICK active \in Provider \cup {"unset"} : active = IF set THEN key ELSE old.active
    BY <2>2, <2>3 DEF GoodProfile, ProfileShape
  <2>6. PICK providers \in SUBSET Provider : providers = old.providers \cup {key}
    BY <2>2, <2>3 DEF GoodProfile, ProfileShape
  <2>7. new = [old EXCEPT !.providers = providers, !.active = active, !.refs = refs]
    BY <2>1, <2>3, <2>4, <2>5, <2>6 DEF GoodProfile, ProfileShape
  <2>8. key # "unset"
    BY <2>2, RuntimeAssumption DEF Provider
  <2>9. GoodProfile(new) /\ Keeps(old, new)
    <3>1. active # "unset" \/ active = old.active
      BY <2>5, <2>8
    <3>2. old.refs \subseteq refs /\ (active = old.active \/ active # "openai" \/ "openai" \in refs)
      BY <2>4, <2>5
    <3> HIDE DEF old, new
    <3>3. new \in ProfileShape /\ new.refs = refs /\ new.active = active /\ new.mode = old.mode
      BY <2>3, <2>7 DEF GoodProfile, ProfileShape
    <3> QED BY <2>3, <3>1, <3>2, <3>3 DEF GoodProfile, Keeps, Has
  <2>10. ~rmOverlap => KeptHolds(rmKept, j.conf, rmKeychain)
    BY <1>4 DEF RmInv, Orderly
  <2>11. old = j.conf.profiles[p]
    OBVIOUS
  <2> HIDE DEF new, p, key, old
  <2>12. /\ GoodConf(d) /\ readable(d) /\ d.profiles[p] = new
         /\ \A m \in RmName : m # p => d.profiles[m] = j.conf.profiles[m]
    <3> HIDE DEF j
    <3> QED BY <1>4, <1>6, <2>2, <2>9, PutGood
  <2> HIDE DEF d
  <2>13. rmKept \subseteq RmName \X SecretNames
    BY DEF RmInv
  <2>14. ~rmOverlap => KeptHolds(rmKept, d, rmKeychain)
    <3> HIDE DEF j
    <3> QED BY <2>2, <2>9, <2>10, <2>11, <2>12, AbsentIsNot, KeptStays
  <2> QED BY <1>2, <1>6, <2>12, <2>13, <2>14, IdleHolds, SaveKeeps DEF d
<1> QED BY <1>5, <1>6 DEF configureModelProvider

-----------------------------------------------------------------------------
(* Starting and stopping.                                                  *)

\* Reinit happens after a torn write only.
LEMMA ReinitInv ==
  ASSUME RmInv, NEW c \in Cli, rmJob[c] # Idle, NEW args \in UpArgs, rmJob[c].args = args, Reinit(c)
  PROVE  RmInv'
<1> DEFINE conf == initConfig(rmConfig, args)
           l == conf.profiles["local"]
           next == [step |-> "compose", args |-> args, name |-> "local", read |-> l, profile |-> l]
<1>1. ~readable(rmConfig) /\ Save(c, conf, {}, next) /\ UNCHANGED rmKeychain
  BY DEF Reinit
<1>2. Options(args)
  BY DEF UpArgs, Options
<1>3. GoodConf(Written(conf)) /\ readable(Written(conf)) /\ GoodProfile(l)
  BY <1>2, InitConfigGood DEF RmInv
<1> HIDE DEF conf, l
<1>4. next \in RunJob /\ next.step = "compose" /\ next.read = l /\ next.profile = l
  BY <1>3, RuntimeAssumption DEF RunJob, GoodProfile
<1> HIDE DEF next
<1>5. JobHolds(next)
  BY <1>3, <1>4 DEF JobHolds, JobShape, Reading, SameKey, Keeps
<1>6. rmOverlap
  BY <1>1 DEF RmInv, Orderly
<1> QED BY <1>1, <1>3, <1>4, <1>5, <1>6, SaveKeeps

LEMMA UpInv == ASSUME RmInv, NEW c \in Cli, startLocalRuntime(c) PROVE RmInv'
<1> DEFINE j == rmJob[c]
           read == currentProfile(rmConfig)
           chosen == IF j.args.rt = "" THEN read ELSE [read EXCEPT !.runtime = j.args.rt]
           pruned == pruneLegacyDefaultOpenAi(chosen)
           persist == j.args.search \/ j.args.rt # "" \/ pruned # chosen
           with == withOptionalSearch(pruned, j.args.search)
           next == [step |-> IF persist THEN "persist" ELSE "compose", args |-> j.args, name |-> rmConfig.current,
                    read |-> read, profile |-> with]
<1>1. j.step = "up"
  BY DEF startLocalRuntime
<1>2. j # Idle /\ JobHolds(j) /\ JobShape(j)
  BY <1>1, AtWork
<1>3. PICK args \in UpArgs : args = j.args
  BY <1>1, <1>2, JobByStep DEF UpJob
<1>4. /\ args.rt \in {"", "podman", "docker"} /\ args.rt \in Runtime
  BY DEF UpArgs, Runtime
<1>5. PICK search \in BOOLEAN : search = args.search
  BY DEF UpArgs
<1>6. CASE Reinit(c)
  BY <1>2, <1>3, <1>6, ReinitInv
<1>7. CASE Fail(c)
  BY <1>2, <1>7, FailKeeps
<1>8. CASE /\ readable(rmConfig) /\ read.mode = "local" /\ rmJob' = [rmJob EXCEPT ![c] = next]
           /\ UNCHANGED <<rmConfig, rmKeychain, rmStacks, rmDev, rmPids, rmEnv, rmReport, rmKept, rmOverlap, rmOps>>
  <2>1. rmConfig.current \in RmName /\ read = rmConfig.profiles[rmConfig.current] /\ GoodProfile(read)
    BY <1>8 DEF RmInv, GoodConf, currentProfile
  <2>2. PICK step \in {"persist", "compose"} : step = IF persist THEN "persist" ELSE "compose"
    OBVIOUS
  <2>3. next = [step |-> step, args |-> args, name |-> rmConfig.current, read |-> read, profile |-> with]
    BY <1>3, <2>2
  <2>4. with = withOptionalSearch(pruned, search)
    BY <1>3, <1>5
  <2> HIDE DEF read, with
  <2>5. GoodProfile(chosen) /\ SameKey(read, chosen) /\ Keeps(read, chosen) /\ chosen.mode = "local"
    <3>1. CASE args.rt = ""
      BY <1>3, <1>8, <2>1, <3>1 DEF SameKey, Keeps
    <3>2. CASE args.rt # ""
      <4>1. chosen = [read EXCEPT !.runtime = args.rt]
        BY <1>3, <3>2
      <4> HIDE DEF chosen
      <4> QED BY <1>4, <1>8, <2>1, <4>1, RuntimeGood
    <3> QED BY <3>1, <3>2
  <2> HIDE DEF chosen
  <2>6. GoodProfile(pruned) /\ SameKey(chosen, pruned) /\ Keeps(chosen, pruned)
    BY <2>5, PruneGood
  <2> HIDE DEF pruned
  <2>7. GoodProfile(with) /\ SameKey(pruned, with) /\ Keeps(pruned, with)
    BY <2>4, <2>6, SearchGood
  <2>8. SameKey(read, with) /\ Keeps(read, with)
    BY <2>5, <2>6, <2>7, KeyTransitive
  <2>9. next.step = step /\ next.read = read /\ next.profile = with /\ next.name = rmConfig.current
    BY <2>3
  <2>10. next \in RunJob
    BY <2>1, <2>3, <2>7 DEF RunJob, GoodProfile
  <2> HIDE DEF next
  <2>11. JobHolds(next)
    BY <2>1, <2>7, <2>8, <2>9, <2>10 DEF JobHolds, JobShape, Reading
  <2>12. InStep(next, rmConfig, rmKeychain, rmKept)
    BY <2>1, <2>9 DEF InStep, Reading
  <2>13. KeyReachesRuntime' /\ ReportHolds(rmReport')
    BY <1>8 DEF RmInv, KeyReachesRuntime
  <2> QED BY <1>2, <1>8, <2>11, <2>12, <2>13, MovesOn
<1> QED BY <1>6, <1>7, <1>8 DEF startLocalRuntime

LEMMA PersistInv == ASSUME RmInv, NEW c \in Cli, persistCurrentProfile(c) PROVE RmInv'
<1> DEFINE j == rmJob[c]
           next == [j EXCEPT !.step = "compose"]
           d == Written(Put(rmConfig, j.name, j.profile))
<1>1. j.step = "persist"
  BY DEF persistCurrentProfile
<1>2. /\ j # Idle /\ JobHolds(j) /\ JobShape(j)
      /\ ~rmOverlap => InStep(j, rmConfig, rmKeychain, rmKept)
  BY <1>1, AtWork
<1>3. j \in RunJob
  BY <1>1, <1>2, JobByStep
<1>4. GoodProfile(j.read) /\ GoodProfile(j.profile) /\ SameKey(j.read, j.profile) /\ Keeps(j.read, j.profile)
  BY <1>1, <1>2 DEF JobHolds
<1>5. PICK args \in UpArgs : args = j.args
  BY <1>3 DEF RunJob
<1>6. CASE Reinit(c)
  BY <1>2, <1>5, <1>6, ReinitInv
<1>7. CASE readable(rmConfig) /\ Save(c, Put(rmConfig, j.name, j.profile), rmKept, next) /\ UNCHANGED rmKeychain
  <2>1. next \in RunJob /\ next.step = "compose" /\ next.read = j.read /\ next.profile = j.profile /\ j.name \in RmName
    <3> HIDE DEF j
    <3> QED BY <1>3 DEF RunJob
  <2> HIDE DEF next
  <2>2. JobHolds(next)
    BY <1>4, <2>1 DEF JobHolds, JobShape, Reading
  <2>3. /\ GoodConf(d) /\ readable(d) /\ d.profiles[j.name] = j.profile
        /\ \A m \in RmName : m # j.name => d.profiles[m] = rmConfig.profiles[m]
    <3>1. GoodConf(rmConfig)
      BY DEF RmInv
    <3> HIDE DEF j
    <3> QED BY <1>4, <1>7, <2>1, <3>1, PutGood
  <2> HIDE DEF d
  <2>4. ASSUME ~rmOverlap PROVE KeptHolds(rmKept, d, rmKeychain)
    <3>1. KeptHolds(rmKept, rmConfig, rmKeychain) /\ j.read = rmConfig.profiles[j.name]
      BY <1>1, <1>2, <2>4 DEF RmInv, Orderly, InStep
    <3> HIDE DEF j
    <3> QED BY <1>4, <2>1, <2>3, <3>1, AbsentIsNot, KeptStays
  <2>5. rmKept \subseteq RmName \X SecretNames
    BY DEF RmInv
  <2> QED BY <1>2, <1>7, <2>1, <2>2, <2>3, <2>4, <2>5, SaveKeeps DEF d
<1> QED BY <1>6, <1>7 DEF persistCurrentProfile

LEMMA WaitBound == RmWaitBound \in Nat
BY RuntimeAssumption

\* The key that reaches the runtime is the one the profile had.
LEMMA ComposeInv == ASSUME RmInv, NEW c \in Cli, composeUp(c) PROVE RmInv'
<1> DEFINE j == rmJob[c]
           next == [step |-> "ready", probes |-> 0]
<1>1. j.step = "compose"
  BY DEF composeUp
<1>2. j # Idle /\ JobHolds(j) /\ JobShape(j)
  BY <1>1, AtWork
<1>3. SameKey(j.read, j.profile)
  BY <1>1, <1>2 DEF JobHolds
<1>4. CASE Fail(c)
  BY <1>2, <1>4, FailKeeps
<1>5. CASE /\ rmEnv' = runtimeEnv(j.name, j.read, j.profile) /\ rmJob' = [rmJob EXCEPT ![c] = next]
           /\ UNCHANGED <<rmConfig, rmKeychain, rmReport, rmKept, rmOverlap, rmOps>>
  <2>1. KeyReachesRuntime'
    BY <1>3, <1>5 DEF KeyReachesRuntime, runtimeEnv, resolveSecret, SameKey
  <2>2. next \in ReadyJob /\ next.step = "ready"
    <3>1. 0 \in 0..RmWaitBound
      BY WaitBound
    <3> QED BY <3>1 DEF ReadyJob
  <2> HIDE DEF next
  <2>3. JobHolds(next) /\ InStep(next, rmConfig, rmKeychain, rmKept)
    BY <2>2 DEF JobHolds, JobShape, InStep, Reading
  <2>4. ReportHolds(rmReport')
    BY <1>5 DEF RmInv
  <2> QED BY <1>2, <1>5, <2>1, <2>3, <2>4, MovesOn
<1> QED BY <1>4, <1>5 DEF composeUp

\* Of a profile that is not local only the API is asked.
LEMMA NoPendingElsewhere ==
  ASSUME NEW conf, NEW status \in getRuntimeStatus(conf), status.mode # "local",
         NEW s \in Service, status.services[s] = "unreachable"
  PROVE  s = "api"
<1>1. PICK says \in [Service -> Answers] :
        LET asked == IF ~readable(conf) THEN {}
                     ELSE IF currentProfile(conf).mode # "local" THEN {"api"}
                     ELSE RmAwaited \cup {x \in {"search"} : hasLocalSearxng(currentProfile(conf))}
        IN  status = [mode |-> IF readable(conf) THEN currentProfile(conf).mode ELSE "local",
                      services |-> [x \in Service |-> IF x \in asked THEN says[x] ELSE "none"]]
  BY DEF getRuntimeStatus
<1>2. status.mode = IF readable(conf) THEN currentProfile(conf).mode ELSE "local"
  BY <1>1
<1>3. readable(conf) /\ currentProfile(conf).mode # "local"
  BY <1>2
<1>4. status.services = [x \in Service |-> IF x \in {"api"} THEN says[x] ELSE "none"]
  BY <1>1, <1>3
<1> QED BY <1>4

\* A report with a service still pending comes after the whole wait.
LEMMA ReadyInv ==
  ASSUME RmInv, NEW c \in Cli, NEW status \in getRuntimeStatus(rmConfig), ensureRuntimeReady(c, status)
  PROVE  RmInv'
<1> DEFINE j == rmJob[c]
           next == [j EXCEPT !.probes = @ + 1]
<1>1. j.step = "ready"
  BY DEF ensureRuntimeReady
<1>2. j # Idle /\ JobHolds(j) /\ JobShape(j)
  BY <1>1, AtWork
<1>3. j \in ReadyJob
  BY <1>1, <1>2, JobByStep
<1>4. j.probes \in 0..RmWaitBound
  <2> HIDE DEF j
  <2> QED BY <1>3 DEF ReadyJob
<1>5. UNCHANGED <<rmConfig, rmKeychain, rmEnv, rmKept, rmOverlap>>
  BY DEF ensureRuntimeReady
<1>6. KeyReachesRuntime'
  BY <1>5 DEF RmInv, KeyReachesRuntime
<1>7. CASE hasStartupPendingStatus(status) /\ j.probes < RmWaitBound
  <2>1. rmJob' = [rmJob EXCEPT ![c] = next] /\ UNCHANGED rmReport
    BY <1>7 DEF ensureRuntimeReady
  <2>2. next \in ReadyJob /\ next.step = "ready"
    <3>1. j.probes + 1 \in 0..RmWaitBound
      BY <1>4, <1>7, WaitBound
    <3> HIDE DEF j
    <3> QED BY <1>3, <3>1 DEF ReadyJob
  <2> HIDE DEF next
  <2>3. JobHolds(next) /\ InStep(next, rmConfig, rmKeychain, rmKept)
    BY <2>2 DEF JobHolds, JobShape, InStep, Reading
  <2>4. ReportHolds(rmReport')
    BY <2>1 DEF RmInv
  <2> QED BY <1>2, <1>5, <1>6, <2>1, <2>3, <2>4, MovesOn
<1>8. CASE ~(hasStartupPendingStatus(status) /\ j.probes < RmWaitBound)
  <2>1. /\ rmJob' = [rmJob EXCEPT ![c] = Idle]
        /\ rmReport' = [mode |-> status.mode, services |-> status.services, probes |-> j.probes]
    BY <1>8 DEF ensureRuntimeReady
  <2>2. ReportHolds(rmReport')
    <3>1. rmReport'.mode = status.mode /\ rmReport'.services = status.services /\ rmReport'.probes = j.probes
      BY <2>1
    <3> SUFFICES ASSUME NEW s \in Service, status.services[s] = "unreachable"
                 PROVE  IF status.mode = "local" THEN s = "search" \/ j.probes = RmWaitBound ELSE s = "api"
      BY <3>1 DEF ReportHolds
    <3>2. CASE status.mode = "local"
      <4>1. s = "search" \/ s \in RmAwaited
        BY DEF Service
      <4> QED BY <1>4, <1>8, <3>2, <4>1, WaitBound DEF hasStartupPendingStatus
    <3>3. CASE status.mode # "local"
      BY <3>3, NoPendingElsewhere
    <3> QED BY <3>2, <3>3
  <2>3. InStep(Idle, rmConfig, rmKeychain, rmKept)
    BY IdleHolds DEF InStep, Reading
  <2> QED BY <1>2, <1>5, <1>6, <2>1, <2>2, <2>3, IdleHolds, MovesOn
<1> QED BY <1>7, <1>8

LEMMA DownInv == ASSUME RmInv, NEW c \in Cli, stopLocalRuntime(c) PROVE RmInv'
<1> DEFINE j == rmJob[c]
           again == [step |-> "up", args |-> [rt |-> "", search |-> FALSE, dev |-> FALSE], conf |-> NoConfig]
           next == IF j.args.restart THEN again ELSE Idle
<1>1. j.step = "down"
  BY DEF stopLocalRuntime
<1>2. j # Idle /\ JobHolds(j) /\ JobShape(j)
  BY <1>1, AtWork
<1>3. CASE Fail(c)
  BY <1>2, <1>3, FailKeeps
<1>4. CASE /\ rmJob' = [rmJob EXCEPT ![c] = next]
           /\ UNCHANGED <<rmConfig, rmKeychain, rmEnv, rmReport, rmKept, rmOverlap, rmOps>>
  <2>1. again \in UpJob /\ again.step = "up"
    <3>1. NoConfig \in ConfigShape
      BY DEF NoConfig, ConfigShape
    <3>2. PICK no \in BOOLEAN : no = FALSE
      OBVIOUS
    <3>3. again = [step |-> "up", args |-> [rt |-> "", search |-> no, dev |-> no], conf |-> NoConfig]
      BY <3>2, Zenon
    <3>4. [step |-> "up", args |-> [rt |-> "", search |-> no, dev |-> no], conf |-> NoConfig] \in UpJob
      BY <3>1 DEF UpJob, UpArgs
    <3>5. again.step = "up"
      OBVIOUS
    <3> HIDE DEF again
    <3> QED BY <3>3, <3>4, <3>5
  <2>2. next = again \/ next = Idle
    BY Zenon
  <2> HIDE DEF again, next
  <2>3. JobHolds(next) /\ InStep(next, rmConfig, rmKeychain, rmKept)
    BY <2>1, <2>2, IdleHolds DEF JobHolds, JobShape, InStep, Reading
  <2>4. KeyReachesRuntime' /\ ReportHolds(rmReport')
    BY <1>4 DEF RmInv, KeyReachesRuntime
  <2> QED BY <1>2, <1>4, <2>3, <2>4, MovesOn
<1> QED BY <1>3, <1>4 DEF stopLocalRuntime

\* A torn file cannot be read, and names no profile.
LEMMA KillInv == ASSUME RmInv, NEW c \in Cli, Kill(c) PROVE RmInv'
<1> DEFINE torn == [NoConfig EXCEPT !.state = "torn"]
<1>1. GoodConf(torn)
  BY DEF GoodConf, ConfigShape, NoConfig, readable
<1> HIDE DEF torn
<1>2. rmConfig' = rmConfig \/ rmConfig' = torn
  BY DEF Kill, torn
<1>3. GoodConf(rmConfig')
  BY <1>1, <1>2 DEF RmInv
<1>4. rmJob' = [rmJob EXCEPT ![c] = Idle] /\ UNCHANGED <<rmKeychain, rmEnv, rmReport, rmKept>>
  BY DEF Kill
<1>5. rmOverlap' /\ rmOverlap' \in BOOLEAN
  BY DEF Kill
<1>6. /\ DOMAIN rmJob' = Cli /\ rmJob' = [d \in Cli |-> rmJob'[d]]
      /\ \A d \in Cli : JobHolds(rmJob'[d])
  BY <1>4, IdleHolds, Moved
<1>7. KeyReachesRuntime' /\ ReportHolds(rmReport')
  BY <1>4 DEF RmInv, KeyReachesRuntime
<1> QED BY <1>3, <1>4, <1>5, <1>6, <1>7 DEF RmInv

LEMMA EditInv == ASSUME RmInv, EditByHand PROVE RmInv'
<1> DEFINE l == rmConfig.profiles["local"]
           new == [l EXCEPT !.ownership = "external"]
           d == Written(Put(rmConfig, "local", new))
<1>0. "local" \in RmName
  BY RuntimeAssumption
<1>1. /\ readable(rmConfig) /\ l.mode = "local" /\ GoodConf(rmConfig)
      /\ UNCHANGED <<rmKeychain, rmJob, rmEnv, rmReport, rmKept, rmOverlap>>
      /\ \A c \in Cli : rmJob[c].step = "idle"
  BY DEF EditByHand, RmInv
<1>2. GoodProfile(l)
  BY <1>0, <1>1 DEF GoodConf, Absent
<1>3. GoodProfile(new) /\ Keeps(l, new)
  <2> HIDE DEF l
  <2> QED BY <1>2 DEF GoodProfile, ProfileShape, Keeps, Has
<1>4. rmConfig' = d
  <2>1. rmConfig \in ConfigShape /\ rmConfig.state = "ok"
    BY <1>1 DEF GoodConf, readable
  <2>2. rmConfig' = Put(rmConfig, "local", new)
    BY DEF EditByHand, Put
  <2>3. PICK ps : ps = [rmConfig.profiles EXCEPT !["local"] = new]
    OBVIOUS
  <2> HIDE DEF new
  <2>4. Put(rmConfig, "local", new) = [state |-> "ok", current |-> rmConfig.current, profiles |-> ps]
    BY <2>1, <2>3 DEF Put, ConfigShape
  <2>5. d = [state |-> "ok", current |-> rmConfig.current, profiles |-> ps]
    BY <2>4 DEF Written
  <2> QED BY <2>2, <2>4, <2>5
<1> HIDE DEF new
<1>5. /\ GoodConf(d) /\ readable(d) /\ d.profiles["local"] = new
      /\ \A m \in RmName : m # "local" => d.profiles[m] = rmConfig.profiles[m]
  BY <1>0, <1>1, <1>3, PutGood
<1>6. l = rmConfig.profiles["local"]
  OBVIOUS
<1> HIDE DEF d, l
<1>7. ASSUME ~rmOverlap PROVE Orderly'
  <2>1. KeptHolds(rmKept, rmConfig, rmKeychain)
    BY <1>7 DEF RmInv, Orderly
  <2>2. KeptHolds(rmKept, d, rmKeychain)
    BY <1>0, <1>3, <1>5, <1>6, <2>1, AbsentIsNot, KeptStays
  <2>3. \A c \in Cli : rmJob[c] = Idle
    BY <1>1, JobByStep DEF RmInv, JobHolds
  <2>4. \A c \in Cli : InStep(rmJob[c], d, rmKeychain, rmKept)
    BY <2>3, IdleHolds DEF InStep, Reading
  <2> QED BY <1>1, <1>4, <1>5, <2>2, <2>3, <2>4 DEF Orderly
<1>8. KeyReachesRuntime'
  BY <1>1 DEF RmInv, KeyReachesRuntime
<1> QED BY <1>1, <1>4, <1>5, <1>7, <1>8 DEF RmInv

-----------------------------------------------------------------------------
(* The invariant, and the property.                                        *)

LEMMA StutterInv == ASSUME RmInv, UNCHANGED rmVars PROVE RmInv'
<1>1. UNCHANGED <<rmConfig, rmKeychain, rmJob, rmEnv, rmReport, rmKept, rmOverlap>>
  BY DEF rmVars
<1>2. KeyReachesRuntime' /\ (~rmOverlap => Orderly')
  BY <1>1 DEF RmInv, KeyReachesRuntime, Orderly
<1> QED BY <1>1, <1>2 DEF RmInv

LEMMA InitHolds == RmInit => RmInv
<1> SUFFICES ASSUME RmInit PROVE RmInv
  OBVIOUS
<1>0. "local" \in RmName
  BY RuntimeAssumption
<1> DEFINE l == defaultLocalProfile("podman", FALSE)
           ps == [n \in RmName |-> IF n = "local" THEN l ELSE Absent]
<1>1. GoodProfile(l) /\ l # Absent
  BY DefaultGood, AbsentIsNot DEF Runtime
<1>2. rmConfig = [NoConfig EXCEPT !.state = "ok", !.current = "local", !.profiles["local"] = l]
  BY DEF RmInit
<1> HIDE DEF l
<1>3. rmConfig = [state |-> "ok", current |-> "local", profiles |-> ps]
  BY <1>0, <1>2 DEF NoConfig
<1>4. ps \in [RmName -> ProfileShape \cup {Absent}] /\ ps["local"] = l /\ \A n \in RmName : n # "local" => ps[n] = Absent
  BY <1>0, <1>1 DEF GoodProfile
<1> HIDE DEF ps
<1>5. GoodConf(rmConfig) /\ readable(rmConfig)
  BY <1>0, <1>1, <1>3, <1>4 DEF GoodConf, ConfigShape, readable
<1>6. /\ rmJob = [c \in Cli |-> Idle] /\ DOMAIN rmJob = Cli /\ rmJob = [c \in Cli |-> rmJob[c]]
      /\ \A c \in Cli : rmJob[c] = Idle
  BY DEF RmInit
<1>7. rmKeychain \in [RmName \X SecretNames -> RmName \cup {"none"}] /\ rmKept = {} /\ rmOverlap \in BOOLEAN
  BY DEF RmInit
<1>8. KeyReachesRuntime
  BY DEF RmInit, KeyReachesRuntime, NoEnv
<1>9. ReportHolds(rmReport)
  BY DEF RmInit, ReportHolds, NoReport
<1>10. KeptHolds(rmKept, rmConfig, rmKeychain)
  BY <1>7 DEF KeptHolds
<1>11. \A c \in Cli : InStep(rmJob[c], rmConfig, rmKeychain, rmKept)
  BY <1>6, IdleHolds DEF InStep, Reading
<1>12. Orderly
  BY <1>5, <1>6, <1>10, <1>11 DEF Orderly
<1> QED BY <1>5, <1>6, <1>7, <1>8, <1>9, <1>12, IdleHolds DEF RmInv

LEMMA InvIsSound == RmInv => RuntimeConfigSound
<1> SUFFICES ASSUME RmInv PROVE RuntimeConfigSound
  OBVIOUS
<1>1. CurrentExists
  BY DEF RmInv, GoodConf, CurrentExists, currentProfile
<1>2. KeyReachesRuntime
  BY DEF RmInv
<1>3. SecretsKept
  <2> SUFFICES ASSUME ~rmOverlap, NEW k \in rmKept
               PROVE  /\ rmKeychain[<<k[1], k[2]>>] = k[1]
                      /\ \/ k[2] \in rmConfig.profiles[k[1]].refs
                         \/ k[2] = "openai" /\ rmConfig.profiles[k[1]].active # "openai"
    BY DEF SecretsKept
  <2>1. k \in RmName \X SecretNames /\ k = <<k[1], k[2]>> /\ k[1] \in RmName /\ k[2] \in SecretNames
    BY DEF RmInv
  <2> QED BY <2>1 DEF RmInv, Orderly, KeptHolds, Has
<1>4. SearchOnce
  <2> SUFFICES ASSUME NEW n \in RmName, rmConfig.profiles[n] # Absent PROVE rmConfig.profiles[n].search <= 1
    BY DEF SearchOnce
  <2>1. rmConfig.profiles[n] \in ProfileShape
    BY DEF RmInv, GoodConf, GoodProfile
  <2>2. rmConfig.profiles[n].search \in 0..1
    BY <2>1 DEF ProfileShape
  <2> QED BY <2>2
<1>5. PendingMeansWaited
  <2>1. \A state : serviceStep(state) = "pending" => state = "unreachable"
    BY DEF serviceStep
  <2>2. ReportHolds(rmReport)
    BY DEF RmInv
  <2> QED BY <2>1, <2>2 DEF PendingMeansWaited, ReportHolds
<1> QED BY <1>1, <1>2, <1>3, <1>4, <1>5 DEF RuntimeConfigSound

\* Whatever commands overlap and wherever one dies, a file that can be read names a
\* profile it has, the runtime gets the key in use, and search is configured once; one
\* command after the other, no secret that was set is lost.
THEOREM RuntimeConfigSoundHolds == RmSpec => []RuntimeConfigSound
<1>1. RmInit => RmInv
  BY InitHolds
<1>2. RmInv /\ [RmNext]_rmVars => RmInv'
  <2> SUFFICES ASSUME RmInv, [RmNext]_rmVars PROVE RmInv'
    OBVIOUS
  <2>1. ASSUME NEW c \in Cli,
               \/ Command(c) \/ initRuntime(c) \/ bootstrapLocalRuntime(c) \/ ChangeProfiles(c)
               \/ ChangeKeychain(c) \/ WriteRef(c) \/ configureModelProvider(c)
               \/ startLocalRuntime(c) \/ persistCurrentProfile(c) \/ composeUp(c) \/ stopLocalRuntime(c) \/ Kill(c)
               \/ \E s \in getRuntimeStatus(rmConfig) : ensureRuntimeReady(c, s)
        PROVE  RmInv'
    BY <2>1, CommandInv, InitRuntimeInv, BootstrapInv, ProfilesInv, KeychainInv, RefInv, ModelInv, UpInv, PersistInv,
       ComposeInv, DownInv, KillInv, ReadyInv
  <2> QED BY <2>1, EditInv, StutterInv DEF RmNext
<1> QED BY <1>1, <1>2, InvIsSound, PTL DEF RmSpec

-----------------------------------------------------------------------------
(* TuiSession                                                              *)

Read == [run : TuRun \cup {None}, why : {"event", "fallback"}, aborted : BOOLEAN]

\* A read is of the run on display, or its stream was aborted; a fallback read of another
\* run was under way when the run changed.
ReadHolds(r, run, late) == r.run = run \/ (r.aborted /\ (r.why = "fallback" => late))

\* A dispatch with an argument is a decision or names a run.
Decision == {"approval.approve", "approval.reject"}
NamesItsRun(j) == j.arg = <<>> \/ j.event \in Decision \/ j.arg[1] \in TuRun

\* The inductive invariant: besides, what waits for /confirm is what was shown last.
TuInv ==
    /\ tuReads \subseteq Read /\ tuRun \in TuRun \cup {None} /\ tuLate \in BOOLEAN
    /\ \A j \in tuJobs : NamesItsRun(j)
    /\ \A r \in tuReads : ReadHolds(r, tuRun, tuLate)
    /\ tuFlow = None \/ tuFlow = tuShownFlow
    /\ SessionKeepsControl

\* What informs changes nothing outside the session.
LEMMA InformationalChangesNothing == \A e \in Informational : effect(e) = "nothing"
BY DEF Informational, effect, planEffect, runEffect, remoteEffect

LEMMA Dispatched ==
  ASSUME TuInv, NEW event, NEW from \in {"text", "confirm", "command"}, NEW arg, Dispatch(event, from, arg),
         from = "text" => effect(event) = "nothing", from = "confirm" => event = tuShownFlow
  PROVE  TextOnlyInforms' /\ ConfirmRunsWhatWasShown'
BY DEF TuInv, Dispatch, SessionKeepsControl, TextOnlyInforms, ConfirmRunsWhatWasShown

LEMMA PlainTextInv == ASSUME TuInv, NEW text \in TuText, PlainText(text) PROVE TuInv'
<1> DEFINE event == routeIntent(text)
<1>1. UNCHANGED <<tuRun, tuOpened, tuReads, tuLate>>
  BY DEF PlainText
<1>2. \A r \in tuReads' : ReadHolds(r, tuRun', tuLate')
  BY <1>1 DEF TuInv
<1>3. SwitchSticks'
  BY <1>1 DEF TuInv, SessionKeepsControl, SwitchSticks
<1>4. CASE ~requires_confirmation(event) /\ Dispatch(event, "text", <<>>) /\ UNCHANGED <<tuFlow, tuShownFlow>>
  <2>1. effect(event) = "nothing"
    BY <1>4, InformationalChangesNothing DEF requires_confirmation
  <2> HIDE DEF event
  <2>2. TextOnlyInforms' /\ ConfirmRunsWhatWasShown'
    BY <1>4, <2>1, Dispatched
  <2>3. \A j \in tuJobs' : NamesItsRun(j)
    BY <1>4 DEF TuInv, Dispatch, NamesItsRun
  <2> QED BY <1>1, <1>2, <1>3, <1>4, <2>2, <2>3 DEF TuInv, SessionKeepsControl
<1>5. CASE \/ tuFlow' = event /\ tuShownFlow' = event /\ UNCHANGED <<tuJobs, tuStarted>>
           \/ tuFlow' = firstOfSeveral /\ tuShownFlow' = "plan.compose" /\ UNCHANGED <<tuJobs, tuStarted>>
  <2>1. tuFlow' = tuShownFlow' /\ UNCHANGED <<tuJobs, tuStarted>>
    BY <1>5 DEF firstOfSeveral
  <2>2. TextOnlyInforms' /\ ConfirmRunsWhatWasShown'
    BY <2>1 DEF TuInv, SessionKeepsControl, TextOnlyInforms, ConfirmRunsWhatWasShown
  <2> QED BY <1>1, <1>2, <1>3, <2>1, <2>2 DEF TuInv, SessionKeepsControl
<1> QED BY <1>4, <1>5 DEF PlainText

LEMMA SlashInv == ASSUME TuInv, NEW command \in TuCommand, SlashCommand(command) PROVE TuInv'
<1>1. UNCHANGED <<tuFlow, tuShownFlow, tuRun, tuOpened, tuReads, tuLate>>
  BY DEF SlashCommand
<1>2. \A r \in tuReads' : ReadHolds(r, tuRun', tuLate')
  BY <1>1 DEF TuInv
<1>3. SwitchSticks'
  BY <1>1 DEF TuInv, SessionKeepsControl, SwitchSticks
<1>4. CASE tuFlow # None /\ Dispatch(tuFlow, "confirm", <<>>)
  <2>1. TextOnlyInforms' /\ ConfirmRunsWhatWasShown'
    BY <1>4, Dispatched DEF TuInv
  <2>2. \A j \in tuJobs' : NamesItsRun(j)
    BY <1>4 DEF TuInv, Dispatch, NamesItsRun
  <2> QED BY <1>1, <1>2, <1>3, <2>1, <2>2 DEF TuInv, SessionKeepsControl
<1>5. ASSUME NEW arg \in slashArgs(command), Dispatch(command, "command", arg) PROVE TuInv'
  <2>1. TextOnlyInforms' /\ ConfirmRunsWhatWasShown'
    BY <1>5, Dispatched
  <2>2. arg = <<>> \/ command \in Decision \/ arg[1] \in TuRun
    BY <1>5 DEF slashArgs, Decision
  <2>3. \A j \in tuJobs' : NamesItsRun(j)
    BY <1>5, <2>2 DEF TuInv, Dispatch, NamesItsRun
  <2> QED BY <1>1, <1>2, <1>3, <2>1, <2>3 DEF TuInv, SessionKeepsControl
<1>6. CASE UNCHANGED <<tuJobs, tuStarted>>
  <2>1. TextOnlyInforms' /\ ConfirmRunsWhatWasShown'
    BY <1>6 DEF TuInv, SessionKeepsControl, TextOnlyInforms, ConfirmRunsWhatWasShown
  <2> QED BY <1>1, <1>2, <1>3, <1>6, <2>1 DEF TuInv, SessionKeepsControl
<1> QED BY <1>4, <1>5, <1>6 DEF SlashCommand

\* Another run comes on display: every read that is left is aborted.
LEMMA Switched ==
  ASSUME TuInv, NEW rest \in SUBSET tuReads, NEW run \in TuRun \cup {None}, run # tuRun,
         tuReads' = {[r EXCEPT !.aborted = TRUE] : r \in rest},
         tuLate' = (tuLate \/ \E r \in rest : r.why = "fallback")
  PROVE  tuReads' \subseteq Read /\ tuLate' \in BOOLEAN /\ (tuLate => tuLate') /\ \A r \in tuReads' : ReadHolds(r, run, tuLate')
<1>1. tuLate' \in BOOLEAN /\ (tuLate => tuLate')
  BY Zenon
<1> SUFFICES ASSUME NEW s \in tuReads' PROVE s \in Read /\ ReadHolds(s, run, tuLate')
  BY <1>1
<1>2. PICK r \in rest : s = [r EXCEPT !.aborted = TRUE]
  OBVIOUS
<1>3. r \in Read
  BY DEF TuInv
<1>4. s \in Read /\ s.aborted /\ s.why = r.why
  BY <1>2, <1>3 DEF Read
<1>5. s.why = "fallback" => tuLate'
  BY <1>4
<1> QED BY <1>4, <1>5 DEF ReadHolds

LEMMA FinishInv == ASSUME TuInv, NEW job \in tuJobs, Finish(job) PROVE TuInv'
<1>1. tuJobs' = tuJobs \ {job} /\ UNCHANGED <<tuShownFlow, tuStarted>> /\ (tuFlow' = tuFlow \/ tuFlow' = None)
  BY DEF Finish
<1>2. TextOnlyInforms' /\ ConfirmRunsWhatWasShown'
  BY <1>1 DEF TuInv, SessionKeepsControl, TextOnlyInforms, ConfirmRunsWhatWasShown
<1>3. /\ tuReads' \subseteq Read /\ tuRun' \in TuRun \cup {None} /\ tuLate' \in BOOLEAN
      /\ \A r \in tuReads' : ReadHolds(r, tuRun', tuLate')
      /\ SwitchSticks'
  <2>1. CASE UNCHANGED <<tuRun, tuOpened, tuReads, tuLate>>
    BY <2>1 DEF TuInv, SessionKeepsControl, SwitchSticks
  <2>2. ASSUME NEW run \in TuRun, Show(run), tuOpened' = run
        PROVE  /\ tuReads' \subseteq Read /\ tuRun' \in TuRun \cup {None} /\ tuLate' \in BOOLEAN
               /\ \A r \in tuReads' : ReadHolds(r, tuRun', tuLate')
               /\ SwitchSticks'
    <3>1. tuRun' = run
      BY <2>2 DEF Show
    <3>2. SwitchSticks'
      BY <2>2, <3>1 DEF SwitchSticks
    <3>3. CASE run = tuRun
      BY <2>2, <3>1, <3>2, <3>3 DEF Show, TuInv
    <3>4. CASE run # tuRun
      BY <2>2, <3>1, <3>2, <3>4, Switched DEF Show
    <3> QED BY <3>3, <3>4
  <2>3. ASSUME job.event = "run.show" \/ effect(job.event) = "run"
        PROVE  \A run \in (IF job.arg = <<>> THEN TuRun ELSE {job.arg[1]}) : run \in TuRun
    <3>1. \A e \in Decision : e # "run.show" /\ effect(e) = "decision"
      BY DEF Decision, effect, planEffect, runEffect, remoteEffect
    <3>2. job.arg = <<>> \/ job.arg[1] \in TuRun
      BY <2>3, <3>1 DEF TuInv, NamesItsRun
    <3> QED BY <3>2
  <2> QED BY <2>1, <2>2, <2>3 DEF Finish
<1> QED BY <1>1, <1>2, <1>3 DEF TuInv, SessionKeepsControl

LEMMA ReadsInv == ASSUME TuInv, OnEvent \/ OnReconnect PROVE TuInv'
<1>1. UNCHANGED <<tuFlow, tuShownFlow, tuJobs, tuStarted, tuRun, tuOpened, tuLate>>
  BY DEF OnEvent, OnReconnect
<1>2. PICK no \in BOOLEAN : no = FALSE
  OBVIOUS
<1>3. PICK why \in {"event", "fallback"} : tuReads' \subseteq tuReads \cup {[run |-> tuRun, why |-> why, aborted |-> no]}
  BY <1>2 DEF OnEvent, OnReconnect
<1>4. [run |-> tuRun, why |-> why, aborted |-> no] \in Read
  BY DEF TuInv, Read
<1>5. \A r \in tuReads' : r \in Read /\ ReadHolds(r, tuRun, tuLate)
  BY <1>3, <1>4 DEF TuInv, ReadHolds
<1>6. SessionKeepsControl'
  BY <1>1 DEF TuInv, SessionKeepsControl, TextOnlyInforms, ConfirmRunsWhatWasShown, SwitchSticks
<1> QED BY <1>1, <1>5, <1>6 DEF TuInv

\* A snapshot of another run is shown only if it is a fallback read that was under way.
LEMMA ArriveInv == ASSUME TuInv, NEW read \in tuReads, Arrive(read) PROVE TuInv'
<1> DEFINE rest == tuReads \ {read}
<1>1. UNCHANGED <<tuFlow, tuShownFlow, tuJobs, tuStarted, tuOpened>>
  BY DEF Arrive
<1>2. TextOnlyInforms' /\ ConfirmRunsWhatWasShown'
  BY <1>1 DEF TuInv, SessionKeepsControl, TextOnlyInforms, ConfirmRunsWhatWasShown
<1>3. CASE mayShow(read) /\ read.run # tuRun
  <2>1. tuLate
    BY <1>3 DEF TuInv, ReadHolds, mayShow
  <2>2. /\ tuRun' = read.run /\ tuReads' = {[r EXCEPT !.aborted = TRUE] : r \in rest}
        /\ tuLate' = (tuLate \/ \E r \in rest : r.why = "fallback")
    BY <1>3 DEF Arrive
  <2>3. read.run \in TuRun \cup {None} /\ rest \in SUBSET tuReads
    BY DEF TuInv, Read
  <2>4. /\ tuReads' \subseteq Read /\ tuLate' \in BOOLEAN /\ (tuLate => tuLate')
        /\ \A r \in tuReads' : ReadHolds(r, tuRun', tuLate')
    BY <1>3, <2>2, <2>3, Switched
  <2>5. SwitchSticks'
    BY <2>1, <2>4 DEF SwitchSticks
  <2> QED BY <1>1, <1>2, <2>2, <2>3, <2>4, <2>5 DEF TuInv, SessionKeepsControl
<1>4. CASE ~(mayShow(read) /\ read.run # tuRun)
  <2>1. tuReads' = rest /\ UNCHANGED <<tuRun, tuLate>>
    BY <1>4 DEF Arrive
  <2>2. SwitchSticks'
    BY <1>1, <2>1 DEF TuInv, SessionKeepsControl, SwitchSticks
  <2> QED BY <1>1, <1>2, <2>1, <2>2 DEF TuInv, SessionKeepsControl
<1> QED BY <1>3, <1>4

LEMMA TuRest ==
  ASSUME TuInv, UNCHANGED <<tuFlow, tuShownFlow, tuJobs, tuStarted, tuRun, tuOpened, tuReads, tuLate>>
  PROVE  TuInv'
BY DEF TuInv, SessionKeepsControl, TextOnlyInforms, ConfirmRunsWhatWasShown, SwitchSticks

\* However dispatches, reads and polls overlap and in whatever order they end: text alone
\* changes nothing outside the session, /confirm dispatches the flow shown last, and the
\* run opened last stays on display unless a fallback read was under way.
THEOREM SessionKeepsControlHolds == TuSpec => []SessionKeepsControl
<1>1. TuInit => TuInv
  BY DEF TuInit, TuInv, SessionKeepsControl, TextOnlyInforms, ConfirmRunsWhatWasShown, SwitchSticks
<1>2. TuInv /\ [TuNext]_tuVars => TuInv'
  <2> SUFFICES ASSUME TuInv, [TuNext]_tuVars PROVE TuInv'
    OBVIOUS
  <2>1. CASE Poll \/ (\E p \in TuProject : StatusArrives(p)) \/ UNCHANGED tuVars
    <3>1. UNCHANGED <<tuFlow, tuShownFlow, tuJobs, tuStarted, tuRun, tuOpened, tuReads, tuLate>>
      BY <2>1 DEF Poll, StatusArrives, tuVars
    <3> QED BY <3>1, TuRest
  <2>2. CASE OnEvent \/ OnReconnect
    BY <2>2, ReadsInv
  <2>3. CASE \/ \E t \in TuText : PlainText(t)
             \/ \E c \in TuCommand : SlashCommand(c)
             \/ \E j \in tuJobs : Finish(j)
             \/ \E r \in tuReads : Arrive(r)
    BY <2>3, PlainTextInv, SlashInv, FinishInv, ArriveInv
  <2> QED BY <2>1, <2>2, <2>3 DEF TuNext
<1>3. TuInv => SessionKeepsControl
  BY DEF TuInv
<1> QED BY <1>1, <1>2, <1>3, PTL DEF TuSpec

-----------------------------------------------------------------------------
(* WebConsole                                                              *)

Item == [n : Nat, numbered : BOOLEAN]
Once(t) == \A i, j \in DOMAIN t : t[i].n = t[j].n => i = j
Get == [step : {"none", "sent", "answered"}, version : Nat]

\* How far a control request is.
WcStep == {"none", "run.cancelled", "approval.resolved", "node.started", "accepted"}

\* A snapshot of at least the first v events is on the page or on its way.
Covered(v, upTo, gets) ==
    \/ v <= upTo
    \/ \E g \in WcSlot : gets[g].step = "sent" \/ (gets[g].step = "answered" /\ v <= gets[g].version)

\* The inductive invariant.
WcInv ==
    /\ wcLog \in Seq(RunEventType) /\ wcTimeline \in Seq(Item) /\ Once(wcTimeline)
    /\ wcGets \in [WcSlot -> Get] /\ wcUpTo \in Nat /\ wcSeen \in Nat /\ wcPosted \in Nat
    /\ wcTimer \in BOOLEAN /\ wcExcused \in BOOLEAN
    /\ wcSeen <= Len(wcLog) /\ wcPosted <= Len(wcLog)
    /\ ~wcExcused => wcTimer \/ Covered(wcSeen, wcUpTo, wcGets)
    /\ wcPosts \in [WcPost -> WcStep]
    /\ ~wcExcused => (\E p \in WcPost : wcPosts[p] = "accepted") \/ Covered(wcPosted, wcUpTo, wcGets)

LEMMA InvShows == WcInv => ConsoleCatchesUp
<1> SUFFICES ASSUME WcInv PROVE ConsoleCatchesUp
  OBVIOUS
<1>1. TimelineOnce
  BY DEF WcInv, TimelineOnce, Once
<1>2. ASSUME Settled PROVE wcSeen <= wcUpTo /\ wcPosted <= wcUpTo
  <2>1. ~wcExcused /\ ~wcTimer /\ (\A p \in WcPost : wcPosts[p] # "accepted") /\ \A g \in WcSlot : wcGets[g].step = "none"
    BY <1>2 DEF Settled, NoGet
  <2> QED BY <2>1 DEF WcInv, Covered
<1> QED BY <1>1, <1>2 DEF ConsoleCatchesUp, SettledIsFresh, ControlIsShown

\* Inserting an event that is not there keeps each event once.
LEMMA InsertedOnce ==
  ASSUME NEW t \in Seq(Item), Once(t), NEW e \in Nat, \A i \in DOMAIN t : t[i].n # e
  PROVE  inserted(t, e) \in Seq(Item) /\ Once(inserted(t, e))
<1> DEFINE low == {i \in DOMAIN t : t[i].numbered /\ t[i].n <= e}
           b == Cardinality(low)
           u == SubSeq(t, 1, b)
           v == SubSeq(t, b + 1, Len(t))
           x == [n |-> e, numbered |-> TRUE]
           r == u \o <<x>> \o v
<1>1. b \in 0..Len(t)
  <2>1. Len(t) \in Nat /\ low \subseteq 1..Len(t)
    OBVIOUS
  <2>2. IsFiniteSet(1..Len(t)) /\ Cardinality(1..Len(t)) = Len(t)
    <3> DEFINE m == Len(t)
    <3>1. m \in Nat
      OBVIOUS
    <3> HIDE DEF m
    <3>2. 1 \in Int /\ m \in Int
      BY <3>1
    <3>3. IsFiniteSet(1..m) /\ Cardinality(1..m) = IF 1 > m THEN 0 ELSE m - 1 + 1
      BY <3>2, FS_Interval
    <3>4. (IF 1 > m THEN 0 ELSE m - 1 + 1) = m
      BY <3>1
    <3> QED BY <3>3, <3>4 DEF m
  <2>3. IsFiniteSet(low) /\ b <= Len(t)
    BY <2>1, <2>2, FS_Subset
  <2>4. b \in Nat
    BY <2>3, FS_CardinalityType
  <2> HIDE DEF b
  <2> QED BY <2>1, <2>3, <2>4
<1>2. inserted(t, e) = r
  BY DEF inserted
<1> HIDE DEF b
<1>3. PICK one \in Item : one = x /\ one.n = e
  <2>1. PICK so \in BOOLEAN : so = TRUE
    OBVIOUS
  <2>2. [n |-> e, numbered |-> so] \in Item /\ [n |-> e, numbered |-> so].n = e
    BY DEF Item
  <2>3. x = [n |-> e, numbered |-> so]
    BY <2>1, Zenon
  <2> QED BY <2>2, <2>3
<1>4. r = u \o <<one>> \o v
  BY <1>3
<1> HIDE DEF x, r
<1>5. u \in Seq(Item) /\ Len(u) = b /\ \A i \in 1..b : u[i] = t[i]
  BY <1>1
<1>6. v \in Seq(Item) /\ Len(v) = Len(t) - b /\ \A i \in 1..(Len(t) - b) : v[i] = t[b + i]
  BY <1>1
<1> HIDE DEF u, v
<1> DEFINE w == u \o <<one>>
<1>7. w \in Seq(Item) /\ Len(w) = b + 1 /\ (\A i \in 1..b : w[i] = t[i]) /\ w[b + 1] = one
  BY <1>1, <1>5
<1>8. r = w \o v
  BY <1>4
<1> HIDE DEF w
<1>9. PICK m \in Nat : m = Len(t)
  OBVIOUS
<1>10. r \in Seq(Item) /\ Len(r) = m + 1
  <2>1. w \o v \in Seq(Item) /\ Len(w \o v) = Len(w) + Len(v)
    BY <1>6, <1>7, ConcatProperties
  <2>2. (b + 1) + (m - b) = m + 1
    BY <1>1, <1>9
  <2> QED BY <1>6, <1>7, <1>8, <1>9, <2>1, <2>2
<1>11. \A i \in 1..(m + 1) : r[i] = IF i <= b + 1 THEN w[i] ELSE v[i - (b + 1)]
  BY <1>1, <1>6, <1>7, <1>8, <1>9, ConcatProperties
<1>12. \A i \in 1..(m + 1) : r[i] = IF i <= b THEN t[i] ELSE IF i = b + 1 THEN one ELSE t[i - 1]
  <2> SUFFICES ASSUME NEW i \in 1..(m + 1)
               PROVE  r[i] = IF i <= b THEN t[i] ELSE IF i = b + 1 THEN one ELSE t[i - 1]
    OBVIOUS
  <2>1. CASE i <= b + 1
    BY <1>1, <1>7, <1>9, <1>11, <2>1
  <2>2. CASE i > b + 1
    <3>1. i - (b + 1) \in 1..(m - b) /\ b + (i - (b + 1)) = i - 1 /\ ~(i <= b + 1)
      BY <1>1, <1>9, <2>2
    <3>2. r[i] = v[i - (b + 1)]
      BY <1>11, <3>1
    <3>3. v[i - (b + 1)] = t[b + (i - (b + 1))]
      BY <1>6, <1>9, <3>1
    <3>4. i # b + 1 /\ ~(i <= b)
      BY <1>1, <2>2
    <3> QED BY <3>1, <3>2, <3>3, <3>4
  <2> QED BY <1>1, <2>1, <2>2
<1>13. Once(r)
  <2>1. DOMAIN t = 1..m /\ DOMAIN r = 1..(m + 1)
    BY <1>9, <1>10
  <2> SUFFICES ASSUME NEW i \in 1..(m + 1), NEW j \in 1..(m + 1), i < j, r[i].n = r[j].n PROVE FALSE
    BY <2>1 DEF Once
  <2>2. CASE i = b + 1
    <3>1. r[i] = one /\ r[j] = t[j - 1] /\ j - 1 \in 1..m
      BY <1>1, <1>9, <1>12, <2>2
    <3> QED BY <1>3, <2>1, <3>1
  <2>3. CASE j = b + 1
    <3>1. r[j] = one /\ r[i] = t[i] /\ i \in 1..m
      BY <1>1, <1>9, <1>12, <2>3
    <3> QED BY <1>3, <2>1, <3>1
  <2>4. CASE i # b + 1 /\ j # b + 1
    <3>1. PICK k \in 1..m, l \in 1..m : k < l /\ r[i] = t[k] /\ r[j] = t[l]
      <4>1. CASE j <= b
        BY <1>1, <1>9, <1>12, <4>1
      <4>2. CASE i <= b /\ j > b
        <5>1. r[i] = t[i] /\ r[j] = t[j - 1] /\ i \in 1..m /\ j - 1 \in 1..m /\ i < j - 1
          BY <1>1, <1>9, <1>12, <2>4, <4>2
        <5> QED BY <5>1
      <4>3. CASE i > b
        <5>1. r[i] = t[i - 1] /\ r[j] = t[j - 1] /\ i - 1 \in 1..m /\ j - 1 \in 1..m /\ i - 1 < j - 1
          BY <1>1, <1>9, <1>12, <2>4, <4>3
        <5> QED BY <5>1
      <4> QED BY <1>1, <4>1, <4>2, <4>3
    <3>2. k = l
      BY <2>1, <3>1 DEF Once
    <3> QED BY <3>1, <3>2
  <2> QED BY <2>2, <2>3, <2>4
<1> QED BY <1>2, <1>10, <1>13

\* A request is sent: a whole snapshot is on its way.
LEMMA SentCovers ==
  ASSUME WcInv, NEW g \in WcSlot, FreeGet(g), wcGets' = [wcGets EXCEPT ![g].step = "sent"]
  PROVE  wcGets' \in [WcSlot -> Get] /\ \A v, upTo : Covered(v, upTo, wcGets')
<1>1. wcGets' = [wcGets EXCEPT ![g] = [wcGets[g] EXCEPT !.step = "sent"]] /\ wcGets[g] \in Get
  BY DEF WcInv
<1>2. [wcGets[g] EXCEPT !.step = "sent"] \in Get /\ [wcGets[g] EXCEPT !.step = "sent"].step = "sent"
  BY <1>1 DEF Get
<1>3. wcGets' \in [WcSlot -> Get] /\ wcGets'[g].step = "sent"
  BY <1>1, <1>2 DEF WcInv
<1> QED BY <1>3 DEF Covered

\* What the page holds besides does not change.
LEMMA SentInv ==
  ASSUME WcInv, NEW g \in WcSlot, FreeGet(g), wcGets' = [wcGets EXCEPT ![g].step = "sent"],
         wcTimer' \in BOOLEAN, wcPosts' \in [WcPost -> WcStep],
         UNCHANGED <<wcLog, wcTimeline, wcUpTo, wcSeen, wcPosted, wcExcused>>
  PROVE  WcInv'
BY SentCovers DEF WcInv

\* Everything that fetches a snapshot.
LEMMA SendsInv ==
  ASSUME WcInv, NEW g \in WcSlot,
         \/ PressRefresh(g) \/ TimerFires(g) \/ StreamFails(g) \/ ErrorFrame(g)
         \/ \E p \in WcPost : ControlAnswered(p, g)
  PROVE  WcInv'
<1>1. /\ FreeGet(g) /\ wcGets' = [wcGets EXCEPT ![g].step = "sent"]
      /\ UNCHANGED <<wcLog, wcTimeline, wcUpTo, wcSeen, wcPosted, wcExcused>>
  BY DEF PressRefresh, TimerFires, StreamFails, ErrorFrame, ControlAnswered, Sent
<1>2. wcTimer' = wcTimer \/ wcTimer' = FALSE
  BY DEF PressRefresh, TimerFires, StreamFails, ErrorFrame, ControlAnswered
<1>3. wcTimer' \in BOOLEAN
  BY <1>2 DEF WcInv
<1>4. wcPosts' \in [WcPost -> WcStep]
  <2>1. wcPosts' = wcPosts \/ \E p \in WcPost : wcPosts' = [wcPosts EXCEPT ![p] = "none"]
    BY DEF PressRefresh, TimerFires, StreamFails, ErrorFrame, ControlAnswered
  <2> QED BY <2>1 DEF WcInv, WcStep
<1> QED BY <1>1, <1>3, <1>4, SentInv

\* What is remembered when the page may be behind from here on.
LEMMA Excused ==
  ASSUME WcInv, NEW now \in BOOLEAN, Excuse(now)
  PROVE  /\ wcExcused' \in BOOLEAN /\ wcSeen' \in Nat /\ wcPosted' \in Nat
         /\ wcSeen' <= Len(wcLog) /\ wcPosted' <= Len(wcLog)
         /\ ~wcExcused' => ~wcExcused /\ ~now /\ wcSeen' = wcSeen /\ wcPosted' = wcPosted
<1>1. wcExcused' = (wcExcused \/ now)
  BY DEF Excuse
<1>2. wcExcused' \in BOOLEAN /\ (~wcExcused' => ~wcExcused /\ ~now)
  BY <1>1, Zenon
<1>3. Len(wcLog) \in Nat
  BY DEF WcInv
<1>4. CASE now
  <2>1. wcSeen' = 0 /\ wcPosted' = 0
    BY <1>4 DEF Excuse
  <2> QED BY <1>2, <1>3, <1>4, <2>1
<1>5. CASE ~now
  <2>1. wcSeen' = wcSeen /\ wcPosted' = wcPosted
    BY <1>5 DEF Excuse
  <2> QED BY <1>2, <2>1 DEF WcInv
<1> QED BY <1>4, <1>5

LEMMA ServeInv == ASSUME WcInv, NEW g \in WcSlot, ServeSnapshot(g) PROVE WcInv'
<1> DEFINE got == [step |-> "answered", version |-> Len(wcLog)]
<1>1. wcGets' = [wcGets EXCEPT ![g] = got]
  BY DEF ServeSnapshot
<1>2. UNCHANGED <<wcLog, wcTimeline, wcUpTo, wcTimer, wcPosts, wcSeen, wcPosted, wcExcused>>
  BY DEF ServeSnapshot
<1>3. got \in Get /\ got.step = "answered" /\ got.version = Len(wcLog)
  BY DEF Get, WcInv
<1> HIDE DEF got
<1>4. wcGets' \in [WcSlot -> Get] /\ wcGets'[g] = got
  BY <1>1, <1>3 DEF WcInv
<1>5. \A v, upTo : v <= Len(wcLog) => Covered(v, upTo, wcGets')
  BY <1>3, <1>4 DEF Covered
<1> QED BY <1>2, <1>4, <1>5 DEF WcInv

LEMMA LandInv == ASSUME WcInv, NEW g \in WcSlot, LandSnapshot(g) PROVE WcInv'
<1> DEFINE new == wcGets[g].version
           shown == [i \in 1..new |-> [n |-> i, numbered |-> FALSE]]
<1>1. /\ wcGets[g].step = "answered" /\ wcGets' = [wcGets EXCEPT ![g] = NoGet] /\ wcUpTo' = new
      /\ wcTimeline' = shown /\ UNCHANGED <<wcLog, wcTimer, wcPosts>>
  BY DEF LandSnapshot
<1>2. Excuse(new < wcUpTo)
  BY DEF LandSnapshot
<1>3. new \in Nat
  BY DEF WcInv, Get
<1>4. shown \in Seq(Item) /\ Once(shown)
  <2>1. PICK no \in BOOLEAN : no = FALSE
    OBVIOUS
  <2>2. shown = [i \in 1..new |-> [n |-> i, numbered |-> no]]
    BY <2>1, Zenon
  <2> HIDE DEF shown, new
  <2>3. shown \in [1..new -> Item]
    BY <1>3, <2>2 DEF Item
  <2>4. shown \in Seq(Item)
    BY <1>3, <2>3
  <2>5. \A i \in 1..new : shown[i].n = i
    BY <2>2
  <2> QED BY <2>3, <2>4, <2>5 DEF Once
<1> HIDE DEF shown, new
<1>5. NoGet \in Get /\ wcGets' \in [WcSlot -> Get]
  BY <1>1 DEF WcInv, NoGet, Get
<1>6. \A h \in WcSlot : h # g => wcGets'[h] = wcGets[h]
  BY <1>1 DEF WcInv
<1>7. ASSUME NEW v \in Nat, ~(new < wcUpTo), Covered(v, wcUpTo, wcGets) PROVE Covered(v, wcUpTo', wcGets')
  <2>1. CASE v <= wcUpTo
    BY <1>1, <1>3, <1>7, <2>1 DEF Covered, WcInv
  <2>2. ASSUME NEW h \in WcSlot, wcGets[h].step = "sent" \/ (wcGets[h].step = "answered" /\ v <= wcGets[h].version)
        PROVE  Covered(v, wcUpTo', wcGets')
    <3>1. CASE h = g
      BY <1>1, <2>2, <3>1 DEF Covered, new
    <3>2. CASE h # g
      BY <1>6, <2>2, <3>2 DEF Covered
    <3> QED BY <3>1, <3>2
  <2> QED BY <1>7, <2>1, <2>2 DEF Covered
<1>8. /\ wcExcused' \in BOOLEAN /\ wcSeen' \in Nat /\ wcPosted' \in Nat
      /\ wcSeen' <= Len(wcLog) /\ wcPosted' <= Len(wcLog)
      /\ ~wcExcused' => ~wcExcused /\ ~(new < wcUpTo) /\ wcSeen' = wcSeen /\ wcPosted' = wcPosted
  <2>1. PICK now \in BOOLEAN : now <=> (new < wcUpTo)
    OBVIOUS
  <2>2. Excuse(now)
    BY <1>2, <2>1 DEF Excuse
  <2> QED BY <2>1, <2>2, Excused
<1>9. wcUpTo' \in Nat /\ wcTimeline' \in Seq(Item) /\ Once(wcTimeline')
  BY <1>1, <1>3, <1>4
<1>10. wcSeen' <= Len(wcLog') /\ wcPosted' <= Len(wcLog') /\ wcLog' \in Seq(RunEventType) /\ wcTimer' \in BOOLEAN
  BY <1>1, <1>8 DEF WcInv
<1>11. ~wcExcused' => wcTimer' \/ Covered(wcSeen', wcUpTo', wcGets')
  BY <1>1, <1>7, <1>8 DEF WcInv
<1>12. ~wcExcused' => (\E p \in WcPost : wcPosts'[p] = "accepted") \/ Covered(wcPosted', wcUpTo', wcGets')
  BY <1>1, <1>7, <1>8 DEF WcInv
<1>13. wcPosts' \in [WcPost -> WcStep]
  BY <1>1 DEF WcInv
<1> QED BY <1>5, <1>8, <1>9, <1>10, <1>11, <1>12, <1>13 DEF WcInv

LEMMA LoseInv == ASSUME WcInv, (\E g \in WcSlot : LoseSnapshot(g)) \/ (\E p \in WcPost : ControlFails(p)) PROVE WcInv'
<1>1. wcGets' \in [WcSlot -> Get]
  <2>1. NoGet \in Get /\ wcGets \in [WcSlot -> Get]
    BY DEF NoGet, Get, WcInv
  <2>2. wcGets' = wcGets \/ \E g \in WcSlot : wcGets' = [wcGets EXCEPT ![g] = NoGet]
    BY DEF LoseSnapshot, ControlFails
  <2> QED BY <2>1, <2>2
<1>2. Excuse(TRUE) /\ UNCHANGED <<wcLog, wcTimeline, wcUpTo, wcTimer>>
  BY DEF LoseSnapshot, ControlFails
<1>3. PICK now \in BOOLEAN : now /\ Excuse(now)
  BY <1>2, Zenon
<1>4. wcExcused' /\ wcExcused' \in BOOLEAN /\ wcSeen' \in Nat /\ wcPosted' \in Nat
      /\ wcSeen' <= Len(wcLog) /\ wcPosted' <= Len(wcLog)
  BY <1>3, Excused
<1>5. wcPosts' \in [WcPost -> WcStep]
  <2>1. wcPosts' = wcPosts \/ \E p \in WcPost : wcPosts' = [wcPosts EXCEPT ![p] = "none"]
    BY DEF LoseSnapshot, ControlFails
  <2> QED BY <2>1 DEF WcInv, WcStep
<1> QED BY <1>1, <1>2, <1>4, <1>5 DEF WcInv

LEMMA TokenInv == ASSUME WcInv, ChangeToken PROVE WcInv'
<1>1. Excuse(wcTimer) /\ wcTimer \in BOOLEAN /\ UNCHANGED <<wcLog, wcTimeline, wcUpTo, wcPosts>>
  BY DEF ChangeToken, WcInv
<1>2. wcTimer' \in BOOLEAN
  BY DEF ChangeToken
<1>3. /\ wcExcused' \in BOOLEAN /\ wcSeen' \in Nat /\ wcPosted' \in Nat
      /\ wcSeen' <= Len(wcLog) /\ wcPosted' <= Len(wcLog)
      /\ ~wcExcused' => ~wcExcused /\ ~wcTimer /\ wcSeen' = wcSeen /\ wcPosted' = wcPosted
  BY <1>1, Excused
<1>4. CASE wcGets' = wcGets
  BY <1>1, <1>2, <1>3, <1>4 DEF WcInv
<1>5. CASE \E g \in WcSlot : FreeGet(g) /\ wcGets' = Sent(g)
  <2>1. wcGets' \in [WcSlot -> Get] /\ \A v, upTo : Covered(v, upTo, wcGets')
    BY <1>5, SentCovers DEF Sent
  <2> QED BY <1>1, <1>2, <1>3, <2>1 DEF WcInv
<1> QED BY <1>4, <1>5 DEF ChangeToken

\* The run goes on.
LEMMA EmitInv == ASSUME WcInv, NEW t \in WcType, Emit(t) PROVE WcInv'
<1>1. wcLog' = Append(wcLog, t) /\ t \in RunEventType
  BY ConsoleAssumption DEF Emit
<1>2. wcLog' \in Seq(RunEventType) /\ Len(wcLog) <= Len(wcLog') /\ Len(wcLog') \in Nat
  BY <1>1 DEF WcInv
<1>3. UNCHANGED <<wcTimeline, wcUpTo, wcTimer, wcGets, wcPosts, wcSeen, wcPosted, wcExcused>>
  BY DEF Emit
<1> QED BY <1>2, <1>3 DEF WcInv

\* A control request is handled.
LEMMA HandleInv == ASSUME WcInv, NEW p \in WcPost, handleControl(p) PROVE WcInv'
<1>1. wcPosts[p] \in RunEventType /\ (wcLog' = wcLog \/ wcLog' = Append(wcLog, wcPosts[p]))
  BY DEF handleControl, RunEventType
<1>2. wcLog' \in Seq(RunEventType) /\ Len(wcLog) <= Len(wcLog') /\ Len(wcLog') \in Nat
  BY <1>1 DEF WcInv
<1>3. UNCHANGED <<wcTimeline, wcUpTo, wcTimer, wcGets, wcSeen, wcExcused>>
  BY DEF handleControl
<1>4. wcPosted' \in Nat /\ wcPosted' <= Len(wcLog') /\ wcSeen' <= Len(wcLog')
  <2>1. wcPosted' = wcPosted \/ wcPosted' = Len(wcLog')
    BY DEF handleControl
  <2> QED BY <1>2, <1>3, <2>1 DEF WcInv
<1>5. wcPosts' \in [WcPost -> WcStep] /\ wcPosts'[p] = "accepted"
  BY DEF handleControl, WcInv, WcStep
<1> QED BY <1>2, <1>3, <1>4, <1>5 DEF WcInv

\* The page fetches a snapshot for every event that a watched part is made from.
LEMMA WatchedRefreshes ==
  ASSUME NEW type, changesWatched(type)
  PROVE  shouldRefreshSnapshotForEvent(type)
<1>1. PICK part \in WatchedParts : type \in Shows[part]
  BY DEF changesWatched
<1>2. /\ Shows["approvals"] = {"approval.requested", "approval.resolved"}
      /\ Shows["model_calls"] = {"model_call.completed"}
      /\ Shows["created_artifacts"] = {"artifact.created"}
      /\ Shows["outcome"] = {"run.completed", "run.failed", "run.yielded", "run.cancelled"}
      /\ Shows["ended_nodes"] = {"node.completed", "node.failed", "node.yielded"}
  BY DEF Shows
<1> QED BY <1>1, <1>2 DEF WatchedParts, shouldRefreshSnapshotForEvent

\* Every event that a watched part is made from sets the timer.
LEMMA FrameInv == ASSUME WcInv, NEW e \in 1..Len(wcLog), Frame(e) PROVE WcInv'
<1>1. UNCHANGED <<wcLog, wcUpTo, wcGets, wcPosts, wcPosted, wcExcused>>
  BY DEF Frame
<1>2. e \in Nat /\ wcLog[e] \in RunEventType /\ Len(wcLog) \in Nat
  BY DEF WcInv
<1>3. wcTimeline' \in Seq(Item) /\ Once(wcTimeline')
  <2>1. wcTimeline' = wcTimeline \/ wcTimeline' = applyRunEventToSnapshot(wcTimeline, e)
    BY DEF Frame
  <2>2. wcTimeline \in Seq(Item) /\ Once(wcTimeline)
    BY DEF WcInv
  <2>3. CASE \E i \in DOMAIN wcTimeline : wcTimeline[i].n = e
    BY <2>1, <2>2, <2>3 DEF applyRunEventToSnapshot
  <2>4. CASE \A i \in DOMAIN wcTimeline : wcTimeline[i].n # e
    <3>1. inserted(wcTimeline, e) \in Seq(Item) /\ Once(inserted(wcTimeline, e))
      BY <1>2, <2>2, <2>4, InsertedOnce
    <3> QED BY <2>1, <2>2, <2>4, <3>1 DEF applyRunEventToSnapshot
  <2> QED BY <2>3, <2>4
<1>4. wcTimer' = (wcTimer \/ shouldRefreshSnapshotForEvent(wcLog[e]))
  BY DEF Frame
<1>5. wcTimer' \in BOOLEAN /\ (wcTimer => wcTimer')
  BY <1>4, Zenon
<1>6. CASE ~(changesWatched(wcLog[e]) /\ ~wcExcused)
  <2>1. wcSeen' = wcSeen
    BY <1>6 DEF Frame
  <2> QED BY <1>1, <1>3, <1>5, <2>1 DEF WcInv
<1>7. CASE changesWatched(wcLog[e]) /\ ~wcExcused
  <2>1. wcSeen' = Max2(wcSeen, e)
    BY <1>7 DEF Frame
  <2>2. wcSeen' \in Nat /\ wcSeen' <= Len(wcLog)
    BY <1>2, <2>1 DEF WcInv, Max2
  <2>3. shouldRefreshSnapshotForEvent(wcLog[e])
    BY <1>7, WatchedRefreshes
  <2>4. wcTimer'
    BY <1>4, <2>3
  <2> QED BY <1>1, <1>3, <1>5, <2>2, <2>4 DEF WcInv
<1> QED BY <1>6, <1>7

\* Connections come and go, and a button is pressed.
LEMMA ConsoleRest ==
  ASSUME WcInv,
         UNCHANGED <<wcLog, wcTimeline, wcUpTo, wcTimer, wcGets, wcSeen, wcPosted, wcExcused>>,
         \/ wcPosts' = wcPosts
         \/ \E p \in WcPost, e \in WcStep : wcPosts[p] = "none" /\ wcPosts' = [wcPosts EXCEPT ![p] = e]
  PROVE  WcInv'
<1>1. wcPosts' \in [WcPost -> WcStep]
  BY DEF WcInv
<1>2. (\E p \in WcPost : wcPosts[p] = "accepted") => \E p \in WcPost : wcPosts'[p] = "accepted"
  <2> SUFFICES ASSUME NEW q \in WcPost, wcPosts[q] = "accepted" PROVE wcPosts'[q] = "accepted"
    OBVIOUS
  <2> QED BY DEF WcInv
<1> QED BY <1>1, <1>2 DEF WcInv

LEMMA ConsoleInit == WcInit => WcInv
<1> SUFFICES ASSUME WcInit PROVE WcInv
  OBVIOUS
<1>1. wcLog \in Seq(RunEventType) /\ Len(wcLog) = 1
  BY DEF WcInit, RunEventType
<1>2. wcTimeline \in Seq(Item) /\ Once(wcTimeline)
  BY DEF WcInit, Once
<1>3. wcGets \in [WcSlot -> Get]
  BY DEF WcInit, NoGet, Get
<1>4. wcUpTo = 0 /\ wcSeen = 0 /\ wcPosted = 0
  BY DEF WcInit
<1>5. wcTimer \in BOOLEAN /\ wcExcused \in BOOLEAN
  BY DEF WcInit
<1>6. Covered(wcSeen, wcUpTo, wcGets) /\ Covered(wcPosted, wcUpTo, wcGets)
  BY <1>4 DEF Covered
<1>7. wcPosts \in [WcPost -> WcStep]
  BY DEF WcInit, WcStep
<1> QED BY <1>1, <1>2, <1>3, <1>4, <1>5, <1>6, <1>7 DEF WcInv

\* However snapshots, frames and control requests overlap: each event is on the timeline
\* once, and a page with nothing in flight shows the approvals, model calls, created
\* artifacts and ends of nodes and run that an event told it of, and what its control
\* requests led to, unless a failure, an older answer that came last, or another token
\* excuses it.
THEOREM ConsoleCatchesUpHolds == WcSpec => []ConsoleCatchesUp
<1>1. WcInv /\ [WcNext]_wcVars => WcInv'
  <2> SUFFICES ASSUME WcInv, [WcNext]_wcVars PROVE WcInv'
    OBVIOUS
  <2>1. ASSUME NEW g \in WcSlot,
               \/ ServeSnapshot(g) \/ LandSnapshot(g) \/ LoseSnapshot(g) \/ PressRefresh(g) \/ TimerFires(g)
               \/ StreamFails(g) \/ ErrorFrame(g)
        PROVE  WcInv'
    BY <2>1, ServeInv, LandInv, LoseInv, SendsInv
  <2>2. CASE \/ Connect \/ StreamEnds \/ StreamRetries \/ UNCHANGED wcVars
    <3>1. UNCHANGED <<wcLog, wcTimeline, wcUpTo, wcTimer, wcGets, wcPosts, wcSeen, wcPosted, wcExcused>>
      BY <2>2 DEF Connect, StreamEnds, StreamRetries, wcVars
    <3> QED BY <3>1, ConsoleRest
  <2>3. CASE (\E t \in WcType : Emit(t)) \/ ChangeToken \/ \E e \in 1..Len(wcLog) : Frame(e)
    BY <2>3, EmitInv, TokenInv, FrameInv
  <2>4. ASSUME NEW p \in WcPost, NEW e \in {"run.cancelled", "approval.resolved", "node.started"}, PressControl(p, e)
        PROVE  WcInv'
    <3>1. e \in WcStep /\ wcPosts[p] = "none" /\ wcPosts' = [wcPosts EXCEPT ![p] = e]
      BY <2>4 DEF PressControl, WcStep
    <3>2. UNCHANGED <<wcLog, wcTimeline, wcUpTo, wcTimer, wcGets, wcSeen, wcPosted, wcExcused>>
      BY <2>4 DEF PressControl
    <3> QED BY <3>1, <3>2, ConsoleRest
  <2>5. ASSUME NEW p \in WcPost, handleControl(p) \/ ControlFails(p) \/ \E g \in WcSlot : ControlAnswered(p, g)
        PROVE  WcInv'
    BY <2>5, HandleInv, LoseInv, SendsInv
  <2> QED BY <2>1, <2>2, <2>3, <2>4, <2>5 DEF WcNext
<1> QED BY <1>1, ConsoleInit, InvShows, PTL DEF WcSpec

-----------------------------------------------------------------------------
(* Loops, written in the models as functions of the turns done            *)

\* Every set of naturals that is not empty has a least element; a least
\* counterexample is how the facts about loops below are proved.
Less == {x \in Nat \X Nat : x[1] < x[2]}

\* No set of numbers goes down without end.
LEMMA LessWellFounded == IsWellFoundedOn(Less, Nat)
  BY NatLessThanWellFounded, Zenon DEF OpToRel, Less

\* A set of numbers that is not empty has a least one.
LEMMA LeastNat ==
    ASSUME NEW T, T \subseteq Nat, T # {}
    PROVE  \E m \in T : \A k \in T : m <= k
<1>1. PICK m \in T : \A k \in T : ~ (<<k, m>> \in Less)
  BY LessWellFounded, WFMin
<1>2. \A k, n \in Nat : k < n => <<k, n>> \in Less
  BY DEF Less
<1>3. ASSUME NEW k \in T PROVE m <= k
  <2>1. k \in Nat /\ m \in Nat
    OBVIOUS
  <2>2. ~ (k < m)
    BY <1>1, <1>2, <2>1
  <2> QED BY <2>1, <2>2
<1> QED BY <1>3

\* Induction up to N, for a set of numbers.
LEMMA InductionUpTo ==
    ASSUME NEW N \in Nat, NEW P, 0 \in P, \A n \in 1 .. N : n - 1 \in P => n \in P
    PROVE  0 .. N \subseteq P
<1> DEFINE T == {n \in 0 .. N : n \notin P}
<1>1. SUFFICES ASSUME T # {} PROVE FALSE
  OBVIOUS
<1>2. T \subseteq Nat
  OBVIOUS
<1>3. PICK m \in T : \A k \in T : m <= k
  BY <1>1, <1>2, LeastNat
<1>4. m \in 1 .. N /\ m - 1 \in 0 .. N
  OBVIOUS
<1>5. m - 1 \notin T
  BY <1>3, <1>4
<1> QED BY <1>4, <1>5

\* A loop over 1 .. N, each turn of which is a function of the state before.
Loop(f, N, base, turn) ==
    f = [n \in 0 .. N |-> IF n = 0 THEN base ELSE turn[n][f[n - 1]]]

\* There is a loop with any first state and any turns.
LEMMA LoopExists ==
    ASSUME NEW N \in Nat, NEW base, NEW turn
    PROVE  \E f : Loop(f, N, base, turn)
<1> DEFINE P == {k \in 0 .. N : \E f : Loop(f, k, base, turn)}
<1>1. 0 \in P
  <2> DEFINE f == [n \in 0 .. 0 |-> base]
  <2>1. f = [n \in 0 .. 0 |-> IF n = 0 THEN base ELSE turn[n][f[n - 1]]]
    OBVIOUS
  <2>2. Loop(f, 0, base, turn)
    BY <2>1 DEF Loop
  <2> HIDE DEF f
  <2> QED BY <2>2
<1>2. ASSUME NEW k \in 1 .. N, k - 1 \in P PROVE k \in P
  <2>1. PICK g : Loop(g, k - 1, base, turn)
    BY <1>2
  <2> DEFINE f == [n \in 0 .. k |-> IF n = k THEN turn[k][g[k - 1]] ELSE g[n]]
  <2>2. k - 1 \in Nat /\ k # 0
    OBVIOUS
  <2>3. ASSUME NEW n \in 0 .. k
        PROVE  f[n] = IF n = 0 THEN base ELSE turn[n][f[n - 1]]
    <3>1. CASE n = 0
      BY <2>1, <2>2, <3>1 DEF Loop
    <3>2. CASE n = k
      <4>1. f[k - 1] = g[k - 1]
        BY <2>2
      <4> QED BY <2>2, <3>2, <4>1
    <3>3. CASE n # 0 /\ n # k
      <4>1. n \in 0 .. (k - 1) /\ n - 1 \in 0 .. (k - 1) /\ n - 1 # k /\ n - 1 \in 0 .. k
        BY <3>3
      <4>2. g[n] = turn[n][g[n - 1]]
        BY <2>1, <3>3, <4>1 DEF Loop
      <4>3. f[n] = g[n] /\ f[n - 1] = g[n - 1]
        BY <3>3, <4>1
      <4> QED BY <3>3, <4>2, <4>3
    <3> QED BY <3>1, <3>2, <3>3
  <2>4. f = [n \in 0 .. k |-> IF n = 0 THEN base ELSE turn[n][f[n - 1]]]
    <3>1. f = [n \in 0 .. k |-> f[n]]
      OBVIOUS
    <3> HIDE DEF f
    <3> QED BY <2>3, <3>1
  <2>5. Loop(f, k, base, turn)
    BY <2>4 DEF Loop
  <2> HIDE DEF f
  <2> QED BY <2>5
<1>3. 0 .. N \subseteq P
  <2> HIDE DEF P
  <2> QED BY <1>1, <1>2, InductionUpTo
<1>4. N \in 0 .. N
  OBVIOUS
<1> QED BY <1>3, <1>4

\* Every state of a loop has its type.
LEMMA LoopTyped ==
    ASSUME NEW N \in Nat, NEW base, NEW turn, NEW f, Loop(f, N, base, turn), NEW S, base \in S,
           \A n \in 1 .. N, v \in S : turn[n][v] \in S
    PROVE  f \in [0 .. N -> S] /\ f[0] = base /\ \A n \in 1 .. N : f[n] = turn[n][f[n - 1]]
<1> DEFINE P == {n \in 0 .. N : f[n] \in S}
<1>1. f = [n \in 0 .. N |-> f[n]]
  BY DEF Loop
<1>2. 0 \in 0 .. N /\ f[0] = base
  BY DEF Loop
<1>3. ASSUME NEW n \in 1 .. N PROVE f[n] = turn[n][f[n - 1]]
  BY DEF Loop
<1>4. ASSUME NEW n \in 1 .. N, n - 1 \in P PROVE n \in P
  BY <1>3, <1>4
<1>5. 0 \in P
  BY <1>2
<1>6. 0 .. N \subseteq P
  <2> HIDE DEF P
  <2> QED BY <1>4, <1>5, InductionUpTo
<1> QED BY <1>1, <1>2, <1>3, <1>6

\* Sequences with an element more, and with one less.
LEMMA AppendOk ==
    ASSUME NEW Name, NEW s \in Seq(Name), NEW name \in Name
    PROVE /\ Append(s, name) \in Seq(Name) /\ Len(Append(s, name)) = Len(s) + 1 /\ Len(s) \in Nat
        /\ \A i \in 1 .. Len(s) : Append(s, name)[i] = s[i]
        /\ Append(s, name)[Len(s) + 1] = name
  BY AppendProperties

\* A sequence without its last element.
LEMMA FrontOk ==
    ASSUME NEW Name, NEW s \in Seq(Name), s # <<>>
    PROVE /\ SubSeq(s, 1, Len(s) - 1) \in Seq(Name) /\ Len(SubSeq(s, 1, Len(s) - 1)) = Len(s) - 1
        /\ \A i \in 1 .. (Len(s) - 1) : SubSeq(s, 1, Len(s) - 1)[i] = s[i]
<1>1. Len(s) \in Nat /\ Len(s) # 0
  BY EmptySeq
<1>2. 1 \in 1 .. Len(s) + 1 /\ Len(s) - 1 \in (1 - 1) .. Len(s)
  BY <1>1
<1>3. SubSeq(s, 1, Len(s) - 1) \in Seq(Name)
  BY <1>1
<1>4. Len(SubSeq(s, 1, Len(s) - 1)) = Len(s) - 1
  BY <1>1
<1>5. \A i \in 1 .. (Len(s) - 1) : SubSeq(s, 1, Len(s) - 1)[i] = s[i]
  BY <1>1
<1> QED BY <1>3, <1>4, <1>5

-----------------------------------------------------------------------------
(* WebAccess: the limiter, the sessions and the requests                   *)

\* A bucket of a limiter, and a request that was answered.
Bucket == [key : WaKey, resetAt : Nat, count : Nat]
Hit == [key : WaKey, at : Nat, code : {"429", "401", "503", "served", "forwarded"}]

\* The turn of the loop of pruneExpired.
prune(buckets, n, kept) ==
    IF buckets[n].resetAt > waNow THEN Append(kept, buckets[n]) ELSE kept

\* What is kept are the buckets whose window is not over.
LEMMA PruneOk ==
    ASSUME NEW b \in Seq(Bucket), waNow \in Nat
    PROVE  /\ pruneExpired(b) \in Seq(Bucket)
           /\ \A j \in 1 .. Len(pruneExpired(b)) :
                 pruneExpired(b)[j].resetAt > waNow /\ \E i \in 1 .. Len(b) : b[i] = pruneExpired(b)[j]
           /\ \A i \in 1 .. Len(b) : b[i].resetAt > waNow => \E j \in 1 .. Len(pruneExpired(b)) : pruneExpired(b)[j] = b[i]
<1> DEFINE N == Len(b)
           e == <<>>
           X == Seq(Bucket)
           Pruned(f) == f = [n \in 0 .. N |-> IF n = 0 THEN e ELSE prune(b, n, f[n - 1])]
           kept == CHOOSE f : Pruned(f)
           turn == [n \in 1 .. N |-> [v \in X |-> prune(b, n, v)]]
<1>1. N \in Nat /\ \A n \in 1 .. N : b[n] \in Bucket
  OBVIOUS
<1>2. pruneExpired(b) = kept[N]
  BY DEF pruneExpired, prune
<1>3. \A v \in X, n \in 1 .. N : prune(b, n, v) \in X
  BY <1>1 DEF prune
<1>4. e \in X
  OBVIOUS
<1> HIDE DEF N, e, X, kept
<1>5. \E f : Pruned(f)
  <2>1. \A n \in 1 .. N, v \in X : turn[n][v] = prune(b, n, v)
    OBVIOUS
  <2> HIDE DEF turn
  <2>2. \A n \in 1 .. N, v \in X : turn[n][v] \in X
    BY <1>3, <2>1
  <2>3. PICK f : Loop(f, N, e, turn)
    BY <1>1, LoopExists
  <2> HIDE DEF Pruned
  <2>4. f \in [0 .. N -> X] /\ f[0] = e /\ \A n \in 1 .. N : f[n] = turn[n][f[n - 1]]
    BY <1>1, <1>4, <2>2, <2>3, LoopTyped, SMTT(60)
  <2>5. ASSUME NEW n \in 0 .. N PROVE f[n] = IF n = 0 THEN e ELSE prune(b, n, f[n - 1])
    <3>1. CASE n = 0
      BY <2>4, <3>1
    <3>2. CASE n # 0
      <4>1. n \in 1 .. N /\ n - 1 \in 0 .. N
        BY <1>1, <3>2
      <4> QED BY <2>1, <2>4, <3>2, <4>1
    <3> QED BY <3>1, <3>2
  <2>6. f = [n \in 0 .. N |-> f[n]]
    BY <2>4
  <2>7. f = [n \in 0 .. N |-> IF n = 0 THEN e ELSE prune(b, n, f[n - 1])]
    BY <2>5, <2>6
  <2>8. Pruned(f)
    BY <2>7 DEF Pruned
  <2> QED BY <2>8
<1>6. Pruned(kept)
  BY <1>5 DEF kept
<1> DEFINE Good(n, v) ==
              /\ v \in X
              /\ \A j \in 1 .. Len(v) : v[j].resetAt > waNow /\ \E i \in 1 .. n : b[i] = v[j]
              /\ \A i \in 1 .. n : b[i].resetAt > waNow => \E j \in 1 .. Len(v) : v[j] = b[i]
           P == {n \in 0 .. N : Good(n, kept[n])}
<1>7. 0 \in P
  <2>1. kept[0] = <<>>
    BY <1>1, <1>6 DEF e
  <2> QED BY <1>1, <1>4, <2>1 DEF e
<1>8. ASSUME NEW n \in 1 .. N, n - 1 \in P PROVE n \in P
  <2> DEFINE v == kept[n - 1]
             w == kept[n]
  <2>1. n \in 0 .. N /\ w = prune(b, n, v) /\ Good(n - 1, v)
    <3>1. n \in 0 .. N /\ n # 0
      BY <1>1
    <3>2. w = prune(b, n, v)
      BY <1>6, <3>1
    <3> HIDE DEF Good
    <3>3. Good(n - 1, v)
      BY <1>8
    <3> QED BY <3>1, <3>2, <3>3
  <2>2. \A i \in 1 .. n : i \in 1 .. (n - 1) \/ i = n
    BY <1>1
  <2>3. \A i \in 1 .. (n - 1) : i \in 1 .. n
    BY <1>1
  <2>4. n \in 1 .. n
    BY <1>1
  <2> HIDE DEF v, w
  <2>5. CASE b[n].resetAt > waNow
    <3>1. w = Append(v, b[n])
      BY <2>1, <2>5 DEF prune
    <3>2. v \in Seq(Bucket) /\ b[n] \in Bucket
      BY <1>1, <2>1 DEF X
    <3>3. /\ w \in Seq(Bucket) /\ Len(w) = Len(v) + 1 /\ Len(v) \in Nat
          /\ \A i \in 1 .. Len(v) : w[i] = v[i]
          /\ w[Len(v) + 1] = b[n]
      BY <3>1, <3>2, AppendProperties
    <3>4. \A j \in 1 .. Len(w) : j \in 1 .. Len(v) \/ j = Len(v) + 1
      BY <3>3
    <3>5. ASSUME NEW j \in 1 .. Len(w) PROVE w[j].resetAt > waNow /\ \E i \in 1 .. n : b[i] = w[j]
      <4>1. CASE j \in 1 .. Len(v)
        <5>1. w[j] = v[j] /\ v[j].resetAt > waNow
          BY <2>1, <3>3, <4>1
        <5>2. PICK i \in 1 .. (n - 1) : b[i] = v[j]
          BY <2>1, <4>1
        <5>3. i \in 1 .. n
          BY <2>3
        <5> QED BY <5>1, <5>2, <5>3
      <4>2. CASE j = Len(v) + 1
        BY <2>4, <2>5, <3>3, <4>2
      <4> QED BY <3>4, <4>1, <4>2
    <3>6. ASSUME NEW i \in 1 .. n, b[i].resetAt > waNow PROVE \E j \in 1 .. Len(w) : w[j] = b[i]
      <4>1. CASE i \in 1 .. (n - 1)
        <5>1. PICK j \in 1 .. Len(v) : v[j] = b[i]
          BY <2>1, <3>6, <4>1
        <5>2. j \in 1 .. Len(w)
          BY <3>3
        <5> QED BY <3>3, <5>1, <5>2
      <4>2. CASE i = n
        <5>1. Len(v) + 1 \in 1 .. Len(w)
          BY <3>3
        <5> QED BY <3>3, <4>2, <5>1
      <4> QED BY <2>2, <4>1, <4>2
    <3>7. Good(n, w)
      BY <3>3, <3>5, <3>6 DEF X
    <3> QED BY <2>1, <3>7 DEF w
  <2>6. CASE ~(b[n].resetAt > waNow)
    <3>1. w = v
      BY <2>1, <2>6 DEF prune
    <3>2. Good(n, w)
      BY <2>1, <2>2, <2>3, <2>6, <3>1
    <3> QED BY <2>1, <3>2 DEF w
  <2> QED BY <2>5, <2>6
<1>9. 0 .. N \subseteq P
  <2> HIDE DEF P
  <2> QED BY <1>1, <1>7, <1>8, InductionUpTo
<1>10. Good(N, kept[N])
  BY <1>1, <1>9
<1> QED BY <1>2, <1>10 DEF X, N

\* What a limiter does with a request: the buckets it keeps are live; those of the
\* key count one more, or there is a new one where none of them is live.
LEMMA RateLimitOk ==
    ASSUME NEW b \in Seq(Bucket), waNow \in Nat, NEW key \in WaKey
    PROVE  /\ rateLimit(b, key) \in Seq(Bucket)
           /\ \A j \in 1 .. Len(rateLimit(b, key)) :
                 /\ rateLimit(b, key)[j].resetAt > waNow
                 /\ rateLimit(b, key)[j].key # key => \E i \in 1 .. Len(b) : b[i] = rateLimit(b, key)[j]
                 /\ rateLimit(b, key)[j].key = key =>
                       \/ \E i \in 1 .. Len(b) : /\ b[i].key = key /\ b[i].resetAt = rateLimit(b, key)[j].resetAt
                                                 /\ rateLimit(b, key)[j].count = b[i].count + 1
                       \/ /\ rateLimit(b, key)[j].resetAt = waNow + WaWindow /\ rateLimit(b, key)[j].count = 1
                          /\ \A i \in 1 .. Len(b) : b[i].key = key => b[i].resetAt <= waNow
           /\ \E j \in 1 .. Len(rateLimit(b, key)) : rateLimit(b, key)[j].key = key
<1> DEFINE kept == pruneExpired(b)
           new == [key |-> key, resetAt |-> waNow + WaWindow, count |-> 1]
           all == Append(kept, new)
           R == rateLimit(b, key)
           more == [i \in DOMAIN kept |-> IF kept[i].key = key THEN [kept[i] EXCEPT !.count = @ + 1] ELSE kept[i]]
<1>1. R = IF BucketOf(kept, key) # {} THEN more ELSE IF Len(all) > WaBuckets THEN Tail(all) ELSE all
  BY DEF rateLimit
<1>2. /\ kept \in Seq(Bucket)
      /\ \A j \in 1 .. Len(kept) : kept[j].resetAt > waNow /\ \E i \in 1 .. Len(b) : b[i] = kept[j]
      /\ \A i \in 1 .. Len(b) : b[i].resetAt > waNow => \E j \in 1 .. Len(kept) : kept[j] = b[i]
  BY PruneOk
<1>3. BucketOf(kept, key) = {i \in 1 .. Len(kept) : kept[i].key = key} /\ Len(kept) \in Nat /\ DOMAIN kept = 1 .. Len(kept)
  BY <1>2 DEF BucketOf
<1>4. new \in Bucket
  BY WaBoundsOK DEF Bucket
<1>5. \A i \in 1 .. Len(b) : b[i] \in Bucket
  OBVIOUS
<1> HIDE DEF kept
<1>6. CASE BucketOf(kept, key) # {}
  <2>1. R = more
    BY <1>1, <1>6
  <2>2. ASSUME NEW i \in 1 .. Len(kept)
        PROVE  /\ more[i] \in Bucket /\ more[i].resetAt = kept[i].resetAt /\ more[i].key = kept[i].key
               /\ kept[i].key # key => more[i] = kept[i]
               /\ kept[i].key = key => more[i].count = kept[i].count + 1
    <3>1. kept[i] \in Bucket
      BY <1>2
    <3>2. more[i] = IF kept[i].key = key THEN [kept[i] EXCEPT !.count = @ + 1] ELSE kept[i]
      BY <1>3
    <3> HIDE DEF more
    <3> QED BY <3>1, <3>2 DEF Bucket
  <2>3. more = [i \in 1 .. Len(kept) |-> more[i]]
    BY <1>3
  <2> HIDE DEF more
  <2>4. more \in [1 .. Len(kept) -> Bucket]
    BY <2>2, <2>3
  <2>5. R \in Seq(Bucket) /\ Len(R) = Len(kept)
    BY <1>3, <2>1, <2>4
  <2>6. PICK k \in 1 .. Len(kept) : kept[k].key = key
    BY <1>3, <1>6
  <2>7. \E j \in 1 .. Len(R) : R[j].key = key
    BY <2>1, <2>2, <2>5, <2>6
  <2>8. ASSUME NEW j \in 1 .. Len(R)
        PROVE  /\ R[j].resetAt > waNow
               /\ R[j].key # key => \E i \in 1 .. Len(b) : b[i] = R[j]
               /\ R[j].key = key =>
                     \E i \in 1 .. Len(b) : b[i].key = key /\ b[i].resetAt = R[j].resetAt /\ R[j].count = b[i].count + 1
    <3>1. j \in 1 .. Len(kept) /\ R[j] = more[j]
      BY <2>1, <2>5
    <3>2. PICK i \in 1 .. Len(b) : b[i] = kept[j]
      BY <1>2, <3>1
    <3>3. kept[j].resetAt > waNow
      BY <1>2, <3>1
    <3> HIDE DEF R
    <3> QED BY <2>2, <3>1, <3>2, <3>3
  <2> HIDE DEF R
  <2> QED BY <2>5, <2>7, <2>8 DEF R
<1>7. CASE BucketOf(kept, key) = {}
  <2>1. R = IF Len(all) > WaBuckets THEN Tail(all) ELSE all
    BY <1>1, <1>7
  <2>2. \A i \in 1 .. Len(b) : b[i].key = key => b[i].resetAt <= waNow
    <3> SUFFICES ASSUME NEW i \in 1 .. Len(b), b[i].key = key, ~(b[i].resetAt <= waNow) PROVE FALSE
      OBVIOUS
    <3>1. b[i].resetAt > waNow
      BY <1>5 DEF Bucket
    <3>2. PICK j \in 1 .. Len(kept) : kept[j] = b[i]
      BY <1>2, <3>1
    <3>3. j \in BucketOf(kept, key)
      BY <1>3, <3>2
    <3> QED BY <1>7, <3>3
  <2>3. /\ all \in Seq(Bucket) /\ Len(all) = Len(kept) + 1
        /\ \A i \in 1 .. Len(kept) : all[i] = kept[i]
        /\ all[Len(kept) + 1] = new
    <3> HIDE DEF new
    <3> QED BY <1>2, <1>4, AppendProperties
  <2>4. new.key = key /\ new.resetAt = waNow + WaWindow /\ new.count = 1 /\ new.resetAt > waNow
    BY WaBoundsOK
  <2> HIDE DEF all, new
  <2>5. \A i \in 1 .. Len(kept) : kept[i].key # key
    BY <1>3, <1>7
  <2>6. ASSUME NEW i \in 1 .. Len(all)
        PROVE  /\ all[i].resetAt > waNow
               /\ all[i].key # key => \E k \in 1 .. Len(b) : b[k] = all[i]
               /\ all[i].key = key => all[i].resetAt = waNow + WaWindow /\ all[i].count = 1
    <3>1. CASE i \in 1 .. Len(kept)
      BY <1>2, <2>3, <2>5, <3>1
    <3>2. CASE i = Len(kept) + 1
      BY <2>3, <2>4, <3>2
    <3>3. i \in 1 .. Len(kept) \/ i = Len(kept) + 1
      BY <1>3, <2>3
    <3> QED BY <3>1, <3>2, <3>3
  <2>7. /\ R \in Seq(Bucket) /\ Len(R) \in Nat
        /\ \A j \in 1 .. Len(R) : \E i \in 1 .. Len(all) : R[j] = all[i]
        /\ \E j \in 1 .. Len(R) : R[j] = new
    <3>1. CASE Len(all) > WaBuckets
      <4>1. Len(all) >= 2 /\ all # <<>>
        BY <1>3, <2>3, <3>1, WaBoundsOK, EmptySeq
      <4>2. R = Tail(all)
        BY <2>1, <3>1
      <4>3. /\ Tail(all) \in Seq(Bucket) /\ Len(Tail(all)) = Len(all) - 1
            /\ \A j \in 1 .. Len(Tail(all)) : Tail(all)[j] = all[j + 1]
        BY <2>3, <4>1
      <4> HIDE DEF R
      <4>4. \A j \in 1 .. Len(R) : j + 1 \in 1 .. Len(all)
        BY <1>3, <2>3, <4>2, <4>3
      <4>5. Len(R) = Len(kept) /\ Len(kept) \in 1 .. Len(R) /\ Len(kept) + 1 = Len(all)
        BY <1>3, <2>3, <4>1, <4>2, <4>3
      <4>6. R[Len(kept)] = new
        BY <2>3, <4>2, <4>3, <4>5
      <4>7. \A j \in 1 .. Len(R) : R[j] = all[j + 1]
        BY <4>2, <4>3
      <4>8. R \in Seq(Bucket) /\ Len(R) \in Nat
        BY <1>3, <4>2, <4>3, <4>5
      <4>9. \A j \in 1 .. Len(R) : \E i \in 1 .. Len(all) : R[j] = all[i]
        BY <4>4, <4>7
      <4>10. \E j \in 1 .. Len(R) : R[j] = new
        BY <4>5, <4>6
      <4> QED BY <4>8, <4>9, <4>10
    <3>2. CASE ~(Len(all) > WaBuckets)
      <4>1. R = all
        BY <2>1, <3>2
      <4> HIDE DEF R
      <4>2. Len(kept) + 1 \in 1 .. Len(all)
        BY <1>3, <2>3
      <4>3. Len(R) \in Nat
        BY <2>3, <4>1
      <4>4. \A j \in 1 .. Len(R) : \E i \in 1 .. Len(all) : R[j] = all[i]
        BY <4>1
      <4>5. \E j \in 1 .. Len(R) : R[j] = new
        BY <2>3, <4>1, <4>2
      <4> QED BY <2>3, <4>1, <4>3, <4>4, <4>5
    <3> QED BY <3>1, <3>2
  <2> HIDE DEF R
  <2>8. \E j \in 1 .. Len(R) : R[j].key = key
    BY <2>4, <2>7
  <2>9. ASSUME NEW j \in 1 .. Len(R)
        PROVE  /\ R[j].resetAt > waNow
               /\ R[j].key # key => \E i \in 1 .. Len(b) : b[i] = R[j]
               /\ R[j].key = key => R[j].resetAt = waNow + WaWindow /\ R[j].count = 1
    <3>1. PICK i \in 1 .. Len(all) : R[j] = all[i]
      BY <2>7
    <3> QED BY <2>6, <3>1
  <2> QED BY <2>2, <2>7, <2>8, <2>9 DEF R
<1> QED BY <1>6, <1>7

\* The requests of a key that got through within some time, and how many they are.
GotThrough(h, k, lo, hi) == {i \in 1 .. Len(h) : h[i].key = k /\ h[i].code # "429" /\ h[i].at \in lo .. hi}
Passed(h, k, lo, hi) == Cardinality(GotThrough(h, k, lo, hi))

\* All the requests of a key since some time.
Since(h, k, lo) == {i \in 1 .. Len(h) : h[i].key = k /\ h[i].at >= lo}
Asked(h, k, lo) == Cardinality(Since(h, k, lo))

\* Such sets are finite.
LEMMA CountsFinite ==
    ASSUME NEW h \in Seq(Hit)
    PROVE  /\ \A k, lo, hi : IsFiniteSet(GotThrough(h, k, lo, hi)) /\ Passed(h, k, lo, hi) \in Nat
           /\ \A k, lo : IsFiniteSet(Since(h, k, lo)) /\ Asked(h, k, lo) \in Nat
<1>1. IsFiniteSet(1 .. Len(h))
  <2>1. Len(h) \in Nat
    OBVIOUS
  <2> QED BY <2>1, FS_Interval
<1>2. \A k, lo, hi : GotThrough(h, k, lo, hi) \subseteq 1 .. Len(h)
  BY DEF GotThrough
<1>3. \A k, lo : Since(h, k, lo) \subseteq 1 .. Len(h)
  BY DEF Since
<1>4. \A T : T \subseteq 1 .. Len(h) => IsFiniteSet(T) /\ Cardinality(T) \in Nat
  BY <1>1, FS_Subset, FS_CardinalityType
<1> QED BY <1>2, <1>3, <1>4 DEF Passed, Asked

\* A longer time has no fewer requests, and two times that meet make up one.
LEMMA PassedWithin ==
    ASSUME NEW h \in Seq(Hit), NEW k, NEW lo \in Int, NEW hi \in Int
    PROVE  /\ \A lo2, hi2 \in Int : lo2 <= lo /\ hi <= hi2 => Passed(h, k, lo, hi) <= Passed(h, k, lo2, hi2)
           /\ \A mid \in Int : Passed(h, k, lo, hi) <= Passed(h, k, lo, mid - 1) + Passed(h, k, mid, hi)
<1>1. \A S, T : IsFiniteSet(T) /\ S \subseteq T => Cardinality(S) <= Cardinality(T)
  BY FS_Subset
<1>2. ASSUME NEW lo2 \in Int, NEW hi2 \in Int, lo2 <= lo, hi <= hi2
      PROVE  Passed(h, k, lo, hi) <= Passed(h, k, lo2, hi2)
  <2>1. lo .. hi \subseteq lo2 .. hi2
    BY <1>2
  <2>2. GotThrough(h, k, lo, hi) \subseteq GotThrough(h, k, lo2, hi2)
    BY <2>1 DEF GotThrough
  <2> QED BY <1>1, <2>2, CountsFinite DEF Passed
<1>3. ASSUME NEW mid \in Int
      PROVE  Passed(h, k, lo, hi) <= Passed(h, k, lo, mid - 1) + Passed(h, k, mid, hi)
  <2> DEFINE A == GotThrough(h, k, lo, mid - 1)
             B == GotThrough(h, k, mid, hi)
  <2>1. \A t \in lo .. hi : t \in lo .. (mid - 1) \/ t \in mid .. hi
    BY <1>3
  <2>2. GotThrough(h, k, lo, hi) \subseteq A \cup B
    BY <2>1 DEF GotThrough
  <2>3. IsFiniteSet(A) /\ IsFiniteSet(B)
    BY CountsFinite
  <2>4. Passed(h, k, lo, mid - 1) = Cardinality(A) /\ Passed(h, k, mid, hi) = Cardinality(B)
    BY DEF Passed
  <2> HIDE DEF A, B
  <2>5. IsFiniteSet(A \cup B) /\ Cardinality(A \cup B) <= Cardinality(A) + Cardinality(B)
    <3>1. IsFiniteSet(A \cap B)
      BY <2>3, FS_Intersection
    <3>2. Cardinality(A \cup B) = Cardinality(A) + Cardinality(B) - Cardinality(A \cap B)
      BY <2>3, FS_Union
    <3>3. Cardinality(A \cap B) \in Nat /\ Cardinality(A) \in Nat /\ Cardinality(B) \in Nat
      BY <2>3, <3>1, FS_CardinalityType
    <3>4. IsFiniteSet(A \cup B)
      BY <2>3, FS_Union
    <3> QED BY <3>2, <3>3, <3>4
  <2>6. Cardinality(GotThrough(h, k, lo, hi)) <= Cardinality(A \cup B)
    BY <1>1, <2>2, <2>5
  <2>7. Cardinality(GotThrough(h, k, lo, hi)) \in Nat /\ Cardinality(A \cup B) \in Nat /\ Cardinality(A) \in Nat /\ Cardinality(B) \in Nat
    BY <2>3, <2>5, CountsFinite, FS_CardinalityType DEF Passed
  <2> QED BY <2>4, <2>5, <2>6, <2>7 DEF Passed
<1> QED BY <1>2, <1>3

\* One more request counts where it belongs.
LEMMA CountMore ==
    ASSUME NEW h \in Seq(Hit), NEW x \in Hit
    PROVE  /\ Append(h, x) \in Seq(Hit)
           /\ \A k, lo, hi : Passed(Append(h, x), k, lo, hi) =
                 Passed(h, k, lo, hi) + (IF x.key = k /\ x.code # "429" /\ x.at \in lo .. hi THEN 1 ELSE 0)
           /\ \A k, lo : Asked(Append(h, x), k, lo) =
                 Asked(h, k, lo) + (IF x.key = k /\ x.at >= lo THEN 1 ELSE 0)
<1> DEFINE g == Append(h, x)
           n == Len(h)
<1>1. /\ g \in Seq(Hit) /\ Len(g) = n + 1 /\ n \in Nat /\ g[n + 1] = x
      /\ \A i \in 1 .. n : g[i] = h[i]
  BY AppendProperties
<1>2. \A i : i \in 1 .. (n + 1) <=> i \in 1 .. n \/ i = n + 1
  BY <1>1
<1>3. n + 1 \notin 1 .. n
  BY <1>1
<1>4. \A S : IsFiniteSet(S) /\ S \subseteq 1 .. n => Cardinality(S \cup {n + 1}) = Cardinality(S) + 1
  BY <1>3, FS_AddElement
<1> HIDE DEF g
<1>5. ASSUME NEW k, NEW lo, NEW hi
      PROVE  Passed(g, k, lo, hi) = Passed(h, k, lo, hi) + (IF x.key = k /\ x.code # "429" /\ x.at \in lo .. hi THEN 1 ELSE 0)
  <2>1. IsFiniteSet(GotThrough(h, k, lo, hi)) /\ GotThrough(h, k, lo, hi) \subseteq 1 .. n /\ Passed(h, k, lo, hi) \in Nat
    <3>1. GotThrough(h, k, lo, hi) \subseteq 1 .. n
      BY DEF GotThrough
    <3> QED BY <3>1, CountsFinite
  <2>2. CASE x.key = k /\ x.code # "429" /\ x.at \in lo .. hi
    <3>1. GotThrough(g, k, lo, hi) = GotThrough(h, k, lo, hi) \cup {n + 1}
      BY <1>1, <1>2, <2>2 DEF GotThrough
    <3> HIDE DEF n
    <3> QED BY <1>4, <2>1, <2>2, <3>1 DEF Passed
  <2>3. CASE ~(x.key = k /\ x.code # "429" /\ x.at \in lo .. hi)
    <3>1. GotThrough(g, k, lo, hi) = GotThrough(h, k, lo, hi)
      BY <1>1, <1>2, <2>3 DEF GotThrough
    <3> QED BY <2>1, <2>3, <3>1 DEF Passed
  <2> QED BY <2>2, <2>3
<1>6. ASSUME NEW k, NEW lo
      PROVE  Asked(g, k, lo) = Asked(h, k, lo) + (IF x.key = k /\ x.at >= lo THEN 1 ELSE 0)
  <2>1. IsFiniteSet(Since(h, k, lo)) /\ Since(h, k, lo) \subseteq 1 .. n /\ Asked(h, k, lo) \in Nat
    <3>1. Since(h, k, lo) \subseteq 1 .. n
      BY DEF Since
    <3> QED BY <3>1, CountsFinite
  <2>2. CASE x.key = k /\ x.at >= lo
    <3>1. Since(g, k, lo) = Since(h, k, lo) \cup {n + 1}
      BY <1>1, <1>2, <2>2 DEF Since
    <3> HIDE DEF n
    <3> QED BY <1>4, <2>1, <2>2, <3>1 DEF Asked
  <2>3. CASE ~(x.key = k /\ x.at >= lo)
    <3>1. Since(g, k, lo) = Since(h, k, lo)
      BY <1>1, <1>2, <2>3 DEF Since
    <3> QED BY <2>1, <2>3, <3>1 DEF Asked
  <2> QED BY <2>2, <2>3
<1> QED BY <1>1, <1>5, <1>6 DEF g

\* The times of requests and buckets are numbers.
LEMMA TimesOk ==
    /\ \A h \in Seq(Hit) : \A i \in 1 .. Len(h) : h[i] \in Hit /\ h[i].at \in Nat
    /\ \A b \in Seq(Bucket) : \A i \in 1 .. Len(b) : b[i] \in Bucket /\ b[i].resetAt \in Nat /\ b[i].count \in Nat
<1>1. \A x \in Hit : x.at \in Nat
  BY DEF Hit
<1>2. \A x \in Bucket : x.resetAt \in Nat /\ x.count \in Nat
  BY DEF Bucket
<1>3. \A S : \A s \in Seq(S) : \A i \in 1 .. Len(s) : s[i] \in S
  OBVIOUS
<1> QED BY <1>1, <1>2, <1>3

\* Nothing has got through that is still to come.
LEMMA NoneYet ==
    ASSUME NEW h \in Seq(Hit), NEW now \in Int, \A i \in 1 .. Len(h) : h[i].at <= now, NEW k, NEW lo \in Int, lo > now, NEW hi \in Int
    PROVE  Passed(h, k, lo, hi) = 0
<1>1. GotThrough(h, k, lo, hi) = {}
  <2> SUFFICES ASSUME NEW i \in GotThrough(h, k, lo, hi) PROVE FALSE
    OBVIOUS
  <2>1. i \in 1 .. Len(h) /\ h[i].at \in lo .. hi
    BY DEF GotThrough
  <2>2. h[i].at <= now /\ h[i].at \in Int /\ lo <= h[i].at
    BY <2>1
  <2> QED BY <2>2
<1> QED BY <1>1, FS_EmptySet DEF Passed

\* A longer time has no fewer requests, answered or not.
LEMMA AskedWithin ==
    ASSUME NEW h \in Seq(Hit), NEW k, NEW lo \in Int, NEW lo2 \in Int, lo2 <= lo
    PROVE  Asked(h, k, lo) <= Asked(h, k, lo2)
<1>1. Since(h, k, lo) \subseteq Since(h, k, lo2)
  <2>1. \A i \in 1 .. Len(h) : h[i].at \in Nat
    BY TimesOk
  <2> QED BY <2>1 DEF Since
<1> QED BY <1>1, CountsFinite, FS_Subset DEF Asked

\* The last moment a stretch that begins in time can reach.
End == WaTimeBound + WaWindow

\* What a live bucket tells of its key: what got through in its window, and in the
\* time before it that a stretch of one window could reach.
BucketHolds(h, k, r, c) ==
    /\ Passed(h, k, r - WaWindow, End) <= c /\ Passed(h, k, r - WaWindow, End) <= WaMax
    /\ Passed(h, k, r - WaWindow - WaWindow + 1, r - WaWindow - 1) <= WaMax

\* What holds of a key without a live bucket.
QuietHolds(h, k, now) ==
    Passed(h, k, now - WaWindow + 1, End) <= WaMax /\ Passed(h, k, now, End) = 0

\* Whether a limiter has a live bucket of a key.
HasLive(b, k, now) == \E i \in 1 .. Len(b) : b[i].key = k /\ b[i].resetAt > now

\* The limiter of the middleware bounds a key.
KeyBounded(b, h, k, now) ==
    /\ \A i \in 1 .. Len(b) : b[i].key = k /\ b[i].resetAt > now => BucketHolds(h, k, b[i].resetAt, b[i].count)
    /\ HasLive(b, k, now) \/ QuietHolds(h, k, now)
    /\ \A t \in Nat : Passed(h, k, t, t + WaWindow - 1) <= WaMax + WaMax

\* The buckets of a limiter count no request that was not made.
CountsTrue(b, h, now) ==
    \A i \in 1 .. Len(b) : b[i].resetAt <= now + WaWindow /\ b[i].count <= Asked(h, b[i].key, b[i].resetAt - WaWindow)

\* The two places that hold a limiter.
Limiter == {"middleware", "route"}

\* What the limiters and the requests so far tell of each other.
WaRates ==
    /\ waNow \in 0 .. WaTimeBound /\ waHits \in Seq(Hit)
    /\ \A i \in 1 .. Len(waHits) : waHits[i].at <= waNow
    /\ waLimits \in [Limiter -> Seq(Bucket)]
    /\ \A w \in Limiter : CountsTrue(waLimits[w], waHits, waNow)
    /\ waEvicted \/ \A k \in WaKey : KeyBounded(waLimits["middleware"], waHits, k, waNow)

\* A session ends its time after it was made.
WaSession == waCookie # NoCookie => waCookie.made \in Nat /\ waCookie.exp = waCookie.made + WaMaxAge

\* What holds between requests.
WaInv == WaRates /\ WaSession /\ waWrong = {}

\* In the next state they are about the next state's values.
LEMMA BoundsNext ==
    /\ \A k : KeyBounded(waLimits["middleware"], waHits, k, waNow)' <=>
                KeyBounded(waLimits'["middleware"], waHits', k, waNow')
    /\ \A w : CountsTrue(waLimits[w], waHits, waNow)' <=> CountsTrue(waLimits'[w], waHits', waNow')
BY DEF KeyBounded, BucketHolds, QuietHolds, HasLive, Passed, GotThrough, CountsTrue, Asked, Since

\* With no request made, every key is bounded.
LEMMA EmptyBounded ==
    ASSUME NEW now \in Nat, NEW k
    PROVE  CountsTrue(<<>>, <<>>, now) /\ KeyBounded(<<>>, <<>>, k, now)
<1>1. \A lo, hi : Passed(<<>>, k, lo, hi) = 0
  <2>1. \A lo, hi : GotThrough(<<>>, k, lo, hi) = {}
    BY DEF GotThrough
  <2> QED BY <2>1, FS_EmptySet DEF Passed
<1>2. Len(<<>>) = 0 /\ 1 .. 0 = {}
  OBVIOUS
<1>3. QuietHolds(<<>>, k, now)
  BY <1>1, WaBoundsOK DEF QuietHolds
<1>4. \A t \in Nat : Passed(<<>>, k, t, t + WaWindow - 1) <= WaMax + WaMax
  BY <1>1, WaBoundsOK
<1> QED BY <1>2, <1>3, <1>4 DEF CountsTrue, KeyBounded

\* The first state.
LEMMA WaInitInv == WaInit => WaInv
<1> SUFFICES ASSUME WaInit PROVE WaInv
  OBVIOUS
<1>1. waLimits = [w \in Limiter |-> <<>>] /\ waHits = <<>> /\ waNow = 0 /\ waCookie = NoCookie /\ waWrong = {}
  BY DEF WaInit, Limiter
<1>2. waLimits \in [Limiter -> Seq(Bucket)] /\ waHits \in Seq(Hit) /\ Len(waHits) = 0
  BY <1>1
<1>3. \A w \in Limiter : waLimits[w] = <<>>
  BY <1>1
<1>4. "middleware" \in Limiter
  BY DEF Limiter
<1>5. 0 \in 0 .. WaTimeBound /\ 0 \in Nat
  BY WaBoundsOK
<1>6. \A w \in Limiter : CountsTrue(waLimits[w], waHits, waNow)
  BY <1>1, <1>3, <1>5, EmptyBounded
<1>7. \A k \in WaKey : KeyBounded(waLimits["middleware"], waHits, k, waNow)
  BY <1>1, <1>3, <1>4, <1>5, EmptyBounded
<1> QED BY <1>1, <1>2, <1>5, <1>6, <1>7 DEF WaInv, WaRates, WaSession

\* Time passes.
LEMMA PassKeeps == WaInv /\ Pass => WaInv'
<1> SUFFICES ASSUME WaInv, Pass PROVE WaInv'
  OBVIOUS
<1>1. /\ waNow' = waNow + 1 /\ waNow' \in 0 .. WaTimeBound /\ waNow \in Nat /\ waHits \in Seq(Hit)
      /\ UNCHANGED <<waServer, waCookie, waLimits, waOps, waHits, waEvicted, waWrong>>
  BY WaBoundsOK DEF Pass, WaInv, WaRates, WaSession
<1> DEFINE b == waLimits["middleware"]
           h == waHits
<1>2. \A i \in 1 .. Len(h) : h[i].at <= waNow
  BY DEF WaInv, WaRates, WaSession
<1>3. b \in Seq(Bucket) /\ \A i \in 1 .. Len(b) : b[i] \in Bucket
  <2>1. b \in Seq(Bucket)
    BY DEF WaInv, WaRates, WaSession, Limiter
  <2> QED BY <2>1
<1>4. WaWindow \in Nat /\ WaWindow > 0 /\ WaMax \in Nat /\ End \in Nat
  BY WaBoundsOK DEF End
<1>5. ASSUME NEW k \in WaKey, KeyBounded(b, h, k, waNow) PROVE KeyBounded(b, h, k, waNow + 1)
  <2> HIDE DEF b, h
  <2>1. \A i \in 1 .. Len(b) : b[i].resetAt \in Nat
    BY <1>3 DEF Bucket
  <2>2. \A i \in 1 .. Len(b) : b[i].resetAt > waNow + 1 => b[i].resetAt > waNow
    BY <1>1, <2>1
  <2>3. \A i \in 1 .. Len(b) : b[i].key = k /\ b[i].resetAt > waNow + 1 => BucketHolds(h, k, b[i].resetAt, b[i].count)
    BY <1>5, <2>2 DEF KeyBounded
  <2>4. HasLive(b, k, waNow + 1) \/ QuietHolds(h, k, waNow + 1)
    <3> SUFFICES ASSUME ~HasLive(b, k, waNow + 1) PROVE QuietHolds(h, k, waNow + 1)
      OBVIOUS
    <3>1. Passed(h, k, waNow + 1, End) = 0
      <4>1. h \in Seq(Hit) /\ waNow \in Int /\ waNow + 1 \in Int /\ waNow + 1 > waNow /\ End \in Int
        BY <1>1, <1>4 DEF h
      <4> QED BY <1>2, <4>1, NoneYet DEF h
    <3>2. h \in Seq(Hit)
      BY <1>1 DEF h
    <3> DEFINE lo == (waNow + 1) - WaWindow + 1
    <3>3. lo \in Int /\ End \in Int
      BY <1>1, <1>4
    <3>4. \A lo2 \in Int : lo2 <= lo => Passed(h, k, lo, End) <= Passed(h, k, lo2, End)
      BY <3>2, <3>3, PassedWithin
    <3>5. \A lo2, hi2 : Passed(h, k, lo2, hi2) \in Nat
      BY <3>2, CountsFinite
    <3>6. CASE HasLive(b, k, waNow)
      <4>1. PICK i \in 1 .. Len(b) : b[i].key = k /\ b[i].resetAt > waNow
        BY <3>6 DEF HasLive
      <4>2. ~(b[i].resetAt > waNow + 1) /\ BucketHolds(h, k, b[i].resetAt, b[i].count)
        BY <1>5, <4>1 DEF HasLive, KeyBounded
      <4>3. b[i].resetAt = waNow + 1
        BY <1>1, <2>1, <4>1, <4>2
      <4>4. b[i].resetAt - WaWindow \in Int /\ b[i].resetAt - WaWindow <= lo
        BY <1>1, <1>4, <4>3
      <4>5. Passed(h, k, b[i].resetAt - WaWindow, End) <= WaMax
        BY <4>2 DEF BucketHolds
      <4>6. Passed(h, k, lo, End) <= Passed(h, k, b[i].resetAt - WaWindow, End)
        BY <3>4, <4>4
      <4>7. Passed(h, k, lo, End) <= WaMax
        BY <1>4, <3>5, <4>5, <4>6
      <4> QED BY <3>1, <4>7 DEF QuietHolds
    <3>7. CASE ~HasLive(b, k, waNow)
      <4>1. Passed(h, k, waNow - WaWindow + 1, End) <= WaMax
        BY <1>5, <3>7 DEF KeyBounded, QuietHolds
      <4>2. waNow - WaWindow + 1 \in Int /\ waNow - WaWindow + 1 <= lo
        BY <1>1, <1>4
      <4>3. Passed(h, k, lo, End) <= Passed(h, k, waNow - WaWindow + 1, End)
        BY <3>4, <4>2
      <4>4. Passed(h, k, lo, End) <= WaMax
        BY <1>4, <3>5, <4>1, <4>3
      <4> QED BY <3>1, <4>4 DEF QuietHolds
    <3> QED BY <3>6, <3>7
  <2>5. \A t \in Nat : Passed(h, k, t, t + WaWindow - 1) <= WaMax + WaMax
    BY <1>5 DEF KeyBounded
  <2> QED BY <2>3, <2>4, <2>5 DEF KeyBounded
<1>6. waEvicted' \/ \A k \in WaKey : KeyBounded(waLimits["middleware"], waHits, k, waNow)'
  <2>1. waEvicted \/ \A k \in WaKey : KeyBounded(b, h, k, waNow)
    BY DEF WaInv, WaRates, WaSession
  <2>2. waEvicted \/ \A k \in WaKey : KeyBounded(b, h, k, waNow + 1)
    <3> HIDE DEF b, h
    <3> QED BY <1>5, <2>1
  <2> QED BY <1>1, <2>2, BoundsNext
<1>7. \A w \in Limiter : CountsTrue(waLimits[w], waHits, waNow)'
  <2> SUFFICES ASSUME NEW w \in Limiter PROVE CountsTrue(waLimits[w], waHits, waNow + 1)
    BY <1>1, BoundsNext
  <2>1. CountsTrue(waLimits[w], waHits, waNow) /\ waLimits[w] \in Seq(Bucket)
    BY DEF WaInv, WaRates, WaSession
  <2>2. \A i \in 1 .. Len(waLimits[w]) : waLimits[w][i].resetAt \in Nat
    BY <2>1, TimesOk
  <2>3. \A i \in 1 .. Len(waLimits[w]) : waLimits[w][i].resetAt <= waNow + WaWindow => waLimits[w][i].resetAt <= (waNow + 1) + WaWindow
    BY <1>1, <1>4, <2>2
  <2> QED BY <2>1, <2>3 DEF CountsTrue
<1>8. \A i \in 1 .. Len(waHits') : waHits'[i].at <= waNow'
  <2>1. \A i \in 1 .. Len(waHits) : waHits[i].at \in Nat
    BY <1>1, TimesOk
  <2> QED BY <1>1, <1>2, <2>1
<1> QED BY <1>1, <1>6, <1>7, <1>8 DEF WaInv, WaRates, WaSession

\* The server restarts.
LEMMA RestartKeeps ==
    ASSUME WaInv, NEW server \in WaServer, Restart(server)
    PROVE  WaInv'
<1>1. /\ waLimits' = [w \in Limiter |-> <<>>] /\ waHits' = <<>> /\ UNCHANGED <<waNow, waCookie, waWrong>>
  BY DEF Restart, Limiter
<1>2. waLimits' \in [Limiter -> Seq(Bucket)] /\ waHits' \in Seq(Hit) /\ Len(waHits') = 0 /\ "middleware" \in Limiter
  BY <1>1 DEF Limiter
<1>3. waNow \in Nat
  BY WaBoundsOK DEF WaInv, WaRates, WaSession
<1>4. \A w \in Limiter : waLimits'[w] = <<>>
  BY <1>1
<1>5. \A w \in Limiter : CountsTrue(waLimits'[w], waHits', waNow')
  BY <1>1, <1>3, <1>4, EmptyBounded
<1>6. \A k \in WaKey : KeyBounded(waLimits'["middleware"], waHits', k, waNow')
  BY <1>1, <1>2, <1>3, <1>4, EmptyBounded
<1>7. \A w \in Limiter : CountsTrue(waLimits[w], waHits, waNow)'
  BY <1>5, BoundsNext
<1>8. \A k \in WaKey : KeyBounded(waLimits["middleware"], waHits, k, waNow)'
  BY <1>6, BoundsNext
<1> QED BY <1>1, <1>2, <1>7, <1>8 DEF WaInv, WaRates, WaSession

\* How a session fares with the two copies of the check.
LEMMA JudgedIs ==
    ASSUME NEW bearer
    PROVE  /\ middlewareSession(waCookie) <=> routeSession(waCookie)
           /\ judged(bearer, middlewareSession(waCookie)) = judged(bearer, routeSession(waCookie))
           /\ judged(bearer, middlewareSession(waCookie)) \in {"", "401", "503"}
           /\ waServer.token # "none" /\ bearer = "none" =>
                 /\ judged(bearer, middlewareSession(waCookie)) = IF middlewareSession(waCookie) THEN "" ELSE "401"
                 /\ ~middlewareSession(waCookie) => forwarded(bearer, middlewareSession(waCookie)) = "none"
<1>1. middlewareSession(waCookie) <=> routeSession(waCookie)
  BY DEF middlewareSession, routeSession
<1>2. PICK s \in BOOLEAN : s <=> middlewareSession(waCookie)
  OBVIOUS
<1>3. s = middlewareSession(waCookie) /\ s = routeSession(waCookie)
  BY <1>1, <1>2, Zenon DEF middlewareSession, routeSession
<1> QED BY <1>2, <1>3 DEF judged, forwarded

\* What an answer is: the judgement, and what the limiter of the route holds then.
LEMMA AnswerIs ==
    ASSUME NEW key, NEW bearer, NEW calls, NEW a, a = answer(key, bearer, calls)
    PROVE  /\ a.rt = waLimits["route"] \/ a.rt = rateLimit(waLimits["route"], key)
           /\ a.code \in {"429", "401", "503", "served", "forwarded"}
           /\ overLimit(counted(key), key) => a.code = "429"
           /\ a.code = "429" => overLimit(counted(key), key) \/ overLimit(rateLimit(waLimits["route"], key), key)
           /\ waServer.token # "none" /\ bearer = "none" =>
                 IF middlewareSession(waCookie) THEN a.code \notin {"401", "503"}
                 ELSE a.code \in {"429", "401"} /\ a.up = "none"
<1> DEFINE mw == counted(key)
           rt == rateLimit(waLimits["route"], key)
           m == middlewareSession(waCookie)
           first == judged(bearer, m)
           second == judged(bearer, routeSession(waCookie))
           up == forwarded(bearer, m)
           stopped(code) == [code |-> code, rt |-> waLimits["route"], up |-> "none"]
<1>1. a = IF overLimit(mw, key) THEN stopped("429")
          ELSE IF first # "" THEN stopped(first)
          ELSE IF waServer.proxied THEN [code |-> "forwarded", rt |-> waLimits["route"], up |-> up]
          ELSE [code |-> IF overLimit(rt, key) THEN "429" ELSE IF second # "" THEN second ELSE "served",
                rt |-> rt, up |-> "none"]
  BY DEF answer, enforceRateLimit
<1>2. first = second /\ first \in {"", "401", "503"}
  BY JudgedIs
<1>3. waServer.token # "none" /\ bearer = "none" => first = IF m THEN "" ELSE "401"
  BY JudgedIs
<1> HIDE DEF mw, rt, m, first, second, up
<1>4. CASE overLimit(mw, key)
  <2>1. a = stopped("429")
    BY <1>1, <1>4
  <2>2. a.code = "429" /\ a.rt = waLimits["route"] /\ a.up = "none"
    BY <2>1
  <2> QED BY <1>4, <2>2 DEF mw
<1>5. CASE ~overLimit(mw, key) /\ first # ""
  <2>1. a = stopped(first)
    BY <1>1, <1>5
  <2>2. a.code = first /\ a.rt = waLimits["route"] /\ a.up = "none"
    BY <2>1
  <2>3. a.code \in {"401", "503"}
    BY <1>2, <1>5, <2>2
  <2>4. waServer.token # "none" /\ bearer = "none" => ~m /\ a.code = "401"
    BY <1>3, <1>5, <2>2
  <2> QED BY <1>5, <2>2, <2>3, <2>4 DEF mw, m
<1>6. CASE ~overLimit(mw, key) /\ first = "" /\ waServer.proxied
  <2>1. a = [code |-> "forwarded", rt |-> waLimits["route"], up |-> up]
    BY <1>1, <1>6
  <2>2. a.code = "forwarded" /\ a.rt = waLimits["route"]
    BY <2>1
  <2>3. waServer.token # "none" /\ bearer = "none" => m
    BY <1>3, <1>6
  <2> QED BY <1>6, <2>2, <2>3 DEF mw, m
<1>7. CASE ~overLimit(mw, key) /\ first = "" /\ ~waServer.proxied
  <2> DEFINE code == IF overLimit(rt, key) THEN "429" ELSE IF second # "" THEN second ELSE "served"
  <2>1. a = [code |-> code, rt |-> rt, up |-> "none"]
    BY <1>1, <1>7
  <2>2. code = IF overLimit(rt, key) THEN "429" ELSE "served"
    BY <1>2, <1>7
  <2> HIDE DEF code
  <2>3. a.code = code /\ a.rt = rt
    BY <2>1
  <2>4. waServer.token # "none" /\ bearer = "none" => m
    BY <1>3, <1>7
  <2> QED BY <1>7, <2>2, <2>3, <2>4 DEF mw, rt, m
<1> QED BY <1>4, <1>5, <1>6, <1>7

\* A key whose buckets are over the limit asked that often in its window.
LEMMA OverWasBusy ==
    ASSUME WaInv, NEW w \in Limiter, NEW key \in WaKey, overLimit(rateLimit(waLimits[w], key), key)
    PROVE  Asked(waHits, key, waNow - WaWindow + 1) >= WaMax
<1> DEFINE b == waLimits[w]
           R == rateLimit(b, key)
<1>1. b \in Seq(Bucket) /\ waNow \in Nat /\ waHits \in Seq(Hit) /\ CountsTrue(b, waHits, waNow)
  BY WaBoundsOK DEF WaInv, WaRates, WaSession
<1>2. WaWindow \in Nat /\ WaMax \in Nat /\ WaMax >= 1
  BY WaBoundsOK
<1>3. PICK j \in DOMAIN R : R[j].key = key /\ R[j].count > WaMax
  BY DEF overLimit, BucketOf
<1>4. /\ R \in Seq(Bucket)
      /\ \A i \in 1 .. Len(R) :
            /\ R[i].resetAt > waNow
            /\ R[i].key = key =>
                  \/ \E n \in 1 .. Len(b) : b[n].key = key /\ b[n].resetAt = R[i].resetAt /\ R[i].count = b[n].count + 1
                  \/ R[i].count = 1
  BY <1>1, RateLimitOk
<1> HIDE DEF R, b
<1>5. j \in 1 .. Len(R)
  BY <1>4
<1>6. R[j].count # 1
  BY <1>2, <1>3
<1>7. PICK n \in 1 .. Len(b) : b[n].key = key /\ b[n].resetAt = R[j].resetAt /\ R[j].count = b[n].count + 1
  BY <1>3, <1>4, <1>5, <1>6
<1>8. b[n].count \in Nat /\ b[n].resetAt \in Nat /\ b[n].resetAt > waNow
  BY <1>1, <1>4, <1>5, <1>7, TimesOk
<1>9. b[n].count >= WaMax
  BY <1>2, <1>3, <1>7, <1>8
<1>10. b[n].count <= Asked(waHits, key, b[n].resetAt - WaWindow)
  BY <1>1, <1>7 DEF CountsTrue
<1>11. Asked(waHits, key, b[n].resetAt - WaWindow) <= Asked(waHits, key, waNow - WaWindow + 1)
  <2>1. b[n].resetAt - WaWindow \in Int /\ waNow - WaWindow + 1 \in Int /\ waNow - WaWindow + 1 <= b[n].resetAt - WaWindow
    BY <1>1, <1>2, <1>8
  <2> QED BY <1>1, <2>1, AskedWithin
<1>12. Asked(waHits, key, b[n].resetAt - WaWindow) \in Nat /\ Asked(waHits, key, waNow - WaWindow + 1) \in Nat
  BY <1>1, CountsFinite
<1> QED BY <1>2, <1>8, <1>9, <1>10, <1>11, <1>12

\* The counts stay true when a request is counted.
LEMMA CountsStayTrue ==
    ASSUME NEW h \in Seq(Hit), NEW b \in Seq(Bucket), waNow \in Nat, CountsTrue(b, h, waNow),
           NEW key \in WaKey, NEW x \in Hit, x.key = key, x.at = waNow
    PROVE  CountsTrue(b, Append(h, x), waNow) /\ CountsTrue(rateLimit(b, key), Append(h, x), waNow)
<1> DEFINE R == rateLimit(b, key)
           g == Append(h, x)
<1>1. \A k, lo : Asked(g, k, lo) = Asked(h, k, lo) + (IF x.key = k /\ x.at >= lo THEN 1 ELSE 0)
  BY CountMore
<1>2. \A k, lo : Asked(h, k, lo) \in Nat
  BY CountsFinite
<1>3. \A i \in 1 .. Len(b) : b[i] \in Bucket /\ b[i].resetAt \in Nat /\ b[i].count \in Nat
  BY TimesOk
<1>4. WaWindow \in Nat /\ WaWindow > 0
  BY WaBoundsOK
<1>5. /\ R \in Seq(Bucket)
      /\ \A j \in 1 .. Len(R) :
            /\ R[j].key # key => \E i \in 1 .. Len(b) : b[i] = R[j]
            /\ R[j].key = key =>
                  \/ \E i \in 1 .. Len(b) : b[i].key = key /\ b[i].resetAt = R[j].resetAt /\ R[j].count = b[i].count + 1
                  \/ R[j].resetAt = waNow + WaWindow /\ R[j].count = 1
  BY RateLimitOk
<1> HIDE DEF R, g
<1>6. ASSUME NEW i \in 1 .. Len(b)
      PROVE  b[i].resetAt <= waNow + WaWindow /\ b[i].count <= Asked(g, b[i].key, b[i].resetAt - WaWindow)
  <2> DEFINE lo == b[i].resetAt - WaWindow
  <2>1. b[i].resetAt <= waNow + WaWindow /\ b[i].count <= Asked(h, b[i].key, lo)
    BY DEF CountsTrue
  <2>2. Asked(g, b[i].key, lo) >= Asked(h, b[i].key, lo) /\ Asked(g, b[i].key, lo) \in Nat
    BY <1>1, <1>2
  <2> HIDE DEF lo
  <2>3. Asked(h, b[i].key, lo) \in Nat
    BY <1>2
  <2>4. b[i].count <= Asked(g, b[i].key, lo)
    BY <1>3, <2>1, <2>2, <2>3
  <2> QED BY <2>1, <2>4 DEF lo
<1>7. ASSUME NEW j \in 1 .. Len(R)
      PROVE  R[j].resetAt <= waNow + WaWindow /\ R[j].count <= Asked(g, R[j].key, R[j].resetAt - WaWindow)
  <2>1. CASE R[j].key # key
    <3>1. PICK i \in 1 .. Len(b) : b[i] = R[j]
      BY <1>5, <2>1
    <3> QED BY <1>6, <3>1
  <2>2. CASE R[j].key = key /\ \E i \in 1 .. Len(b) : b[i].key = key /\ b[i].resetAt = R[j].resetAt /\ R[j].count = b[i].count + 1
    <3>1. PICK i \in 1 .. Len(b) : b[i].key = key /\ b[i].resetAt = R[j].resetAt /\ R[j].count = b[i].count + 1
      BY <2>2
    <3>2. b[i].resetAt <= waNow + WaWindow /\ b[i].count <= Asked(h, key, b[i].resetAt - WaWindow)
      BY <3>1 DEF CountsTrue
    <3>3. x.at >= b[i].resetAt - WaWindow
      BY <1>3, <1>4, <3>2
    <3>4. Asked(g, key, b[i].resetAt - WaWindow) = Asked(h, key, b[i].resetAt - WaWindow) + 1
      BY <1>1, <3>3
    <3>5. Asked(h, key, b[i].resetAt - WaWindow) \in Nat /\ b[i].count \in Nat
      BY <1>2, <1>3
    <3>6. R[j].count <= Asked(g, key, b[i].resetAt - WaWindow)
      BY <3>1, <3>2, <3>4, <3>5
    <3> QED BY <2>2, <3>1, <3>2, <3>6
  <2>3. CASE R[j].key = key /\ R[j].resetAt = waNow + WaWindow /\ R[j].count = 1
    <3>1. R[j].resetAt - WaWindow = waNow
      BY <1>4, <2>3
    <3>2. Asked(g, key, waNow) = Asked(h, key, waNow) + 1 /\ Asked(h, key, waNow) \in Nat
      BY <1>1, <1>2
    <3>3. R[j].count <= Asked(g, key, waNow) /\ R[j].resetAt <= waNow + WaWindow
      BY <1>4, <2>3, <3>2
    <3> QED BY <2>3, <3>1, <3>3
  <2> QED BY <1>5, <2>1, <2>2, <2>3
<1> QED BY <1>6, <1>7 DEF CountsTrue, R, g

\* A key that made no request stays bounded, unless its bucket was dropped.
LEMMA OthersStayBounded ==
    ASSUME NEW h \in Seq(Hit), NEW b \in Seq(Bucket), waNow \in Nat, NEW key \in WaKey, NEW x \in Hit, x.key = key,
           NEW k \in WaKey, k # key, KeyBounded(b, h, k, waNow),
           \A i \in 1 .. Len(b) : b[i].key = k /\ b[i].resetAt > waNow =>
               \E j \in 1 .. Len(rateLimit(b, key)) : rateLimit(b, key)[j].key = k
    PROVE  KeyBounded(rateLimit(b, key), Append(h, x), k, waNow)
<1> DEFINE R == rateLimit(b, key)
           g == Append(h, x)
<1>1. \A lo, hi : Passed(g, k, lo, hi) = Passed(h, k, lo, hi)
  <2>1. \A lo, hi : Passed(g, k, lo, hi) = Passed(h, k, lo, hi) + 0
    BY CountMore
  <2>2. \A lo, hi : Passed(h, k, lo, hi) \in Nat
    BY CountsFinite
  <2> HIDE DEF g
  <2> QED BY <2>1, <2>2
<1>2. /\ R \in Seq(Bucket)
      /\ \A j \in 1 .. Len(R) : R[j].resetAt > waNow /\ (R[j].key # key => \E i \in 1 .. Len(b) : b[i] = R[j])
  BY RateLimitOk
<1>3. \A i \in 1 .. Len(b) : b[i].key = k /\ b[i].resetAt > waNow => \E j \in 1 .. Len(R) : R[j].key = k
  OBVIOUS
<1> HIDE DEF R, g
<1>4. \A r, c : BucketHolds(g, k, r, c) <=> BucketHolds(h, k, r, c)
  BY <1>1 DEF BucketHolds
<1>5. QuietHolds(g, k, waNow) <=> QuietHolds(h, k, waNow)
  BY <1>1 DEF QuietHolds
<1>6. ASSUME NEW j \in 1 .. Len(R), R[j].key = k PROVE BucketHolds(g, k, R[j].resetAt, R[j].count)
  <2>1. PICK i \in 1 .. Len(b) : b[i] = R[j]
    BY <1>2, <1>6
  <2>2. R[j].resetAt > waNow
    BY <1>2
  <2>3. BucketHolds(h, k, R[j].resetAt, R[j].count)
    BY <1>6, <2>1, <2>2 DEF KeyBounded
  <2> QED BY <1>4, <2>3
<1>7. HasLive(R, k, waNow) \/ QuietHolds(g, k, waNow)
  <2>1. CASE HasLive(b, k, waNow)
    <3>1. PICK i \in 1 .. Len(b) : b[i].key = k /\ b[i].resetAt > waNow
      BY <2>1 DEF HasLive
    <3>2. PICK j \in 1 .. Len(R) : R[j].key = k
      BY <1>3, <3>1
    <3> QED BY <1>2, <3>2 DEF HasLive
  <2>2. CASE ~HasLive(b, k, waNow)
    BY <1>5, <2>2 DEF KeyBounded
  <2> QED BY <2>1, <2>2
<1>8. \A t \in Nat : Passed(g, k, t, t + WaWindow - 1) <= WaMax + WaMax
  BY <1>1 DEF KeyBounded
<1> QED BY <1>6, <1>7, <1>8 DEF KeyBounded, R, g

\* A request that gets through counts in its window.
LEMMA WindowHolds ==
    ASSUME NEW h \in Seq(Hit), NEW x \in Hit, x.at = waNow, waNow \in Nat, waNow <= WaTimeBound, NEW r \in Nat, r > waNow,
           r <= waNow + WaWindow, NEW c \in Nat,
           Passed(h, x.key, r - WaWindow, End) <= c, Passed(h, x.key, r - WaWindow, End) <= WaMax,
           Passed(h, x.key, r - WaWindow - WaWindow + 1, r - WaWindow - 1) <= WaMax,
           x.code # "429" => c + 1 <= WaMax
    PROVE  BucketHolds(Append(h, x), x.key, r, c + 1)
<1> DEFINE g == Append(h, x)
           k == x.key
<1>1. \A lo, hi : Passed(g, k, lo, hi) = Passed(h, k, lo, hi) + (IF x.code # "429" /\ x.at \in lo .. hi THEN 1 ELSE 0)
  BY CountMore
<1>2. \A lo, hi : Passed(h, k, lo, hi) \in Nat
  BY CountsFinite
<1> HIDE DEF g, k
<1>3. WaWindow \in Nat /\ WaMax \in Nat
  BY WaBoundsOK
<1>4. ~(x.at \in (r - WaWindow - WaWindow + 1) .. (r - WaWindow - 1))
  BY <1>3
<1>5. Passed(g, k, r - WaWindow - WaWindow + 1, r - WaWindow - 1) <= WaMax
  <2>1. Passed(g, k, r - WaWindow - WaWindow + 1, r - WaWindow - 1)
          = Passed(h, k, r - WaWindow - WaWindow + 1, r - WaWindow - 1) + 0
    BY <1>1, <1>4
  <2>2. Passed(h, k, r - WaWindow - WaWindow + 1, r - WaWindow - 1) \in Nat
    BY <1>2
  <2>3. Passed(h, k, r - WaWindow - WaWindow + 1, r - WaWindow - 1) <= WaMax
    BY DEF k
  <2> QED BY <2>1, <2>2, <2>3
<1>6. Passed(g, k, r - WaWindow, End) <= c + 1 /\ Passed(g, k, r - WaWindow, End) <= WaMax
  <2> DEFINE p == Passed(h, k, r - WaWindow, End)
             q == Passed(g, k, r - WaWindow, End)
  <2>1. p \in Nat /\ p <= c /\ p <= WaMax
    BY <1>2 DEF k
  <2>2. q = p \/ (q = p + 1 /\ x.code # "429")
    <3>1. q = p + (IF x.code # "429" /\ x.at \in (r - WaWindow) .. End THEN 1 ELSE 0)
      BY <1>1
    <3> HIDE DEF p, q
    <3> QED BY <2>1, <3>1
  <2> HIDE DEF p, q
  <2>3. q <= c + 1 /\ q <= WaMax
    BY <1>3, <2>1, <2>2
  <2> QED BY <2>3 DEF q
<1> QED BY <1>5, <1>6 DEF BucketHolds, g, k

\* The key that made the request stays bounded.
LEMMA KeyStaysBounded ==
    ASSUME NEW h \in Seq(Hit), NEW b \in Seq(Bucket), waNow \in Nat, waNow <= WaTimeBound, NEW key \in WaKey, NEW x \in Hit,
           x.key = key, x.at = waNow, KeyBounded(b, h, key, waNow), \A i \in 1 .. Len(b) : b[i].resetAt <= waNow + WaWindow,
           overLimit(rateLimit(b, key), key) => x.code = "429"
    PROVE  KeyBounded(rateLimit(b, key), Append(h, x), key, waNow)
<1> DEFINE R == rateLimit(b, key)
           g == Append(h, x)
<1>1. g \in Seq(Hit) /\ \A lo, hi : Passed(g, key, lo, hi) = Passed(h, key, lo, hi) + (IF x.code # "429" /\ x.at \in lo .. hi THEN 1 ELSE 0)
  BY CountMore
<1>2. \A lo, hi : Passed(h, key, lo, hi) \in Nat /\ Passed(g, key, lo, hi) \in Nat
  BY <1>1, CountsFinite
<1>3. /\ R \in Seq(Bucket)
      /\ \A j \in 1 .. Len(R) :
            /\ R[j].resetAt > waNow
            /\ R[j].key = key =>
                  \/ \E i \in 1 .. Len(b) : b[i].key = key /\ b[i].resetAt = R[j].resetAt /\ R[j].count = b[i].count + 1
                  \/ /\ R[j].resetAt = waNow + WaWindow /\ R[j].count = 1
                     /\ \A i \in 1 .. Len(b) : b[i].key = key => b[i].resetAt <= waNow
      /\ \E j \in 1 .. Len(R) : R[j].key = key
  <2>1. R \in Seq(Bucket)
    BY RateLimitOk
  <2>2. \A j \in 1 .. Len(R) : R[j].resetAt > waNow
    BY RateLimitOk
  <2>3. \A j \in 1 .. Len(R) : R[j].key = key =>
            \/ \E i \in 1 .. Len(b) : b[i].key = key /\ b[i].resetAt = R[j].resetAt /\ R[j].count = b[i].count + 1
            \/ /\ R[j].resetAt = waNow + WaWindow /\ R[j].count = 1
               /\ \A i \in 1 .. Len(b) : b[i].key = key => b[i].resetAt <= waNow
    BY RateLimitOk
  <2>4. \E j \in 1 .. Len(R) : R[j].key = key
    BY RateLimitOk
  <2> HIDE DEF R
  <2> QED BY <2>1, <2>2, <2>3, <2>4
<1>4. \A i \in 1 .. Len(b) : b[i].resetAt \in Nat /\ b[i].count \in Nat
  BY TimesOk
<1>5. WaWindow \in Nat /\ WaWindow > 0 /\ WaMax \in Nat /\ WaMax >= 1 /\ WaTimeBound \in Nat /\ End = WaTimeBound + WaWindow
  BY WaBoundsOK DEF End
<1>6. \A j \in 1 .. Len(R) : R[j].count \in Nat /\ R[j].resetAt \in Nat
  BY <1>3, TimesOk
<1>7. \A j \in 1 .. Len(R) : R[j].key = key /\ x.code # "429" => R[j].count <= WaMax
  <2> SUFFICES ASSUME NEW j \in 1 .. Len(R), R[j].key = key, x.code # "429", ~(R[j].count <= WaMax) PROVE FALSE
    OBVIOUS
  <2>1. R[j].count > WaMax /\ j \in DOMAIN R
    BY <1>3, <1>5, <1>6
  <2>2. overLimit(R, key)
    BY <2>1 DEF overLimit, BucketOf
  <2> QED BY <2>2
<1> HIDE DEF R, g
<1>8. ASSUME NEW j \in 1 .. Len(R), R[j].key = key
      PROVE  BucketHolds(g, key, R[j].resetAt, R[j].count) /\ R[j].resetAt <= waNow + WaWindow
  <2> DEFINE r == R[j].resetAt
  <2>1. r > waNow /\ r \in Nat
    BY <1>3, <1>6
  <2>2. CASE \E i \in 1 .. Len(b) : b[i].key = key /\ b[i].resetAt = R[j].resetAt /\ R[j].count = b[i].count + 1
    <3>1. PICK i \in 1 .. Len(b) : b[i].key = key /\ b[i].resetAt = r /\ R[j].count = b[i].count + 1
      BY <2>2
    <3> DEFINE c == b[i].count
    <3>2. c \in Nat /\ r <= waNow + WaWindow
      BY <1>4, <3>1
    <3>3. BucketHolds(h, key, r, c)
      BY <2>1, <3>1 DEF KeyBounded
    <3>4. x.code # "429" => c + 1 <= WaMax
      BY <1>7, <1>8, <3>1
    <3> HIDE DEF r, c
    <3>5. BucketHolds(g, key, r, c + 1)
      BY <2>1, <3>2, <3>3, <3>4, WindowHolds DEF BucketHolds, g
    <3> QED BY <3>1, <3>2, <3>5 DEF r, c
  <2>3. CASE /\ R[j].resetAt = waNow + WaWindow /\ R[j].count = 1
             /\ \A i \in 1 .. Len(b) : b[i].key = key => b[i].resetAt <= waNow
    <3>1. ~HasLive(b, key, waNow)
      BY <1>4, <2>3 DEF HasLive
    <3>2. QuietHolds(h, key, waNow)
      BY <3>1 DEF KeyBounded
    <3>3. r - WaWindow = waNow /\ r - WaWindow - WaWindow + 1 = waNow - WaWindow + 1 /\ r <= waNow + WaWindow
      BY <1>5, <2>3
    <3>4. Passed(h, key, r - WaWindow, End) = 0
      BY <3>2, <3>3 DEF QuietHolds
    <3>5. Passed(h, key, r - WaWindow - WaWindow + 1, r - WaWindow - 1) <= WaMax
      <4> DEFINE lo == waNow - WaWindow + 1
      <4>1. lo \in Int /\ waNow - 1 \in Int /\ End \in Int /\ waNow - 1 <= End /\ lo <= lo
        BY <1>5
      <4>2. Passed(h, key, lo, waNow - 1) <= Passed(h, key, lo, End)
        BY <4>1, PassedWithin
      <4>3. Passed(h, key, lo, End) <= WaMax
        BY <3>2 DEF QuietHolds
      <4> HIDE DEF lo
      <4>4. Passed(h, key, lo, waNow - 1) <= WaMax
        <5>1. Passed(h, key, lo, waNow - 1) \in Nat /\ Passed(h, key, lo, End) \in Nat
          BY <1>2
        <5> QED BY <1>5, <4>2, <4>3, <5>1
      <4> QED BY <3>3, <4>4 DEF lo
    <3> HIDE DEF r
    <3>6. BucketHolds(g, key, r, 0 + 1)
      <4>1. 0 \in Nat /\ Passed(h, key, r - WaWindow, End) <= 0 /\ Passed(h, key, r - WaWindow, End) <= WaMax
            /\ (x.code # "429" => 0 + 1 <= WaMax)
        BY <1>5, <3>4
      <4> QED BY <2>1, <3>3, <3>5, <4>1, WindowHolds DEF g
    <3> QED BY <2>3, <3>3, <3>6 DEF r
  <2> QED BY <1>3, <1>8, <2>2, <2>3
<1>9. ASSUME NEW t \in Nat PROVE Passed(g, key, t, t + WaWindow - 1) <= WaMax + WaMax
  <2>1. Passed(h, key, t, t + WaWindow - 1) <= WaMax + WaMax
    BY DEF KeyBounded
  <2>2. CASE x.code # "429" /\ x.at \in t .. (t + WaWindow - 1)
    <3>1. PICK j \in 1 .. Len(R) : R[j].key = key
      BY <1>3
    <3> DEFINE r == R[j].resetAt
               mid == r - WaWindow
               early == mid - WaWindow + 1
               hi == t + WaWindow - 1
    <3>2. BucketHolds(g, key, r, R[j].count) /\ r <= waNow + WaWindow /\ r > waNow /\ r \in Nat
      BY <1>3, <1>6, <1>8, <3>1
    <3>3. Passed(g, key, mid, End) <= WaMax /\ Passed(g, key, early, mid - 1) <= WaMax
      BY <3>2 DEF BucketHolds
    <3>4. t <= waNow /\ waNow <= t + WaWindow - 1
      BY <1>5, <2>2
    <3> HIDE DEF r
    <3>5. mid \in Int /\ early \in Int /\ hi \in Int /\ early <= t /\ hi <= End /\ End \in Int /\ mid - 1 \in Int
      BY <1>5, <3>2, <3>4
    <3> HIDE DEF mid, early, hi
    <3>6. Passed(g, key, t, hi) <= Passed(g, key, t, mid - 1) + Passed(g, key, mid, hi)
      BY <1>1, <3>5, PassedWithin
    <3>7. Passed(g, key, t, mid - 1) <= Passed(g, key, early, mid - 1)
      BY <1>1, <3>5, PassedWithin
    <3>8. Passed(g, key, mid, hi) <= Passed(g, key, mid, End)
      BY <1>1, <3>5, PassedWithin
    <3>9. Passed(g, key, t, hi) <= WaMax + WaMax
      <4>1. Passed(g, key, t, hi) \in Nat /\ Passed(g, key, t, mid - 1) \in Nat /\ Passed(g, key, mid, hi) \in Nat
            /\ Passed(g, key, early, mid - 1) \in Nat /\ Passed(g, key, mid, End) \in Nat
        BY <1>2
      <4> QED BY <1>5, <3>3, <3>6, <3>7, <3>8, <4>1
    <3> QED BY <3>9 DEF hi
  <2>3. CASE ~(x.code # "429" /\ x.at \in t .. (t + WaWindow - 1))
    <3>1. Passed(g, key, t, t + WaWindow - 1) = Passed(h, key, t, t + WaWindow - 1) + 0
      BY <1>1, <2>3
    <3>2. Passed(h, key, t, t + WaWindow - 1) \in Nat
      BY <1>2
    <3> QED BY <2>1, <3>1, <3>2
  <2> QED BY <2>2, <2>3
<1>10. HasLive(R, key, waNow)
  BY <1>3 DEF HasLive
<1> QED BY <1>8, <1>9, <1>10 DEF KeyBounded, R, g

\* A request is counted: by the middleware and perhaps by the route.
LEMMA CountKeeps ==
    ASSUME WaInv, NEW key \in WaKey, NEW code \in {"429", "401", "503", "served", "forwarded"}, NEW route,
           Count(key, code, route),
           route = waLimits["route"] \/ route = rateLimit(waLimits["route"], key),
           overLimit(counted(key), key) => code = "429",
           code = "429" => overLimit(counted(key), key) \/ overLimit(rateLimit(waLimits["route"], key), key)
    PROVE  WaRates' /\ refusedEarly(key, code) = {}
<1> DEFINE x == [key |-> key, at |-> waNow, code |-> code]
           mw == waLimits["middleware"]
           rt == waLimits["route"]
           new == counted(key)
<1>1. waLimits' = [middleware |-> new, route |-> route] /\ waHits' = Append(waHits, x) /\ waNow' = waNow
  BY DEF Count
<1>11. waEvicted' = (waEvicted \/ \E w \in {"middleware", "route"} :
                          \E i \in DOMAIN waLimits[w] :
                              waLimits[w][i].resetAt > waNow /\ BucketOf(waLimits'[w], waLimits[w][i].key) = {})
  BY DEF Count
<1>2. /\ new = rateLimit(mw, key)
      /\ route = rt \/ route = rateLimit(rt, key)
      /\ overLimit(new, key) => code = "429"
      /\ code = "429" => overLimit(new, key) \/ overLimit(rateLimit(rt, key), key)
  BY DEF counted
<1> HIDE DEF new
<1>3. x \in Hit /\ x.key = key /\ x.at = waNow /\ x.code = code /\ waNow \in Nat /\ waNow <= WaTimeBound
  BY WaBoundsOK DEF Hit, WaInv, WaRates
<1>4. /\ waHits \in Seq(Hit) /\ mw \in Seq(Bucket) /\ rt \in Seq(Bucket)
      /\ CountsTrue(mw, waHits, waNow) /\ CountsTrue(rt, waHits, waNow)
      /\ "middleware" \in Limiter /\ "route" \in Limiter
  BY DEF WaInv, WaRates, Limiter
<1> HIDE DEF x, mw, rt
<1>5. waHits' \in Seq(Hit) /\ \A i \in 1 .. Len(waHits') : waHits'[i].at <= waNow'
  <2>1. /\ waHits' \in Seq(Hit) /\ Len(waHits') = Len(waHits) + 1 /\ Len(waHits) \in Nat
        /\ \A i \in 1 .. Len(waHits) : waHits'[i] = waHits[i]
        /\ waHits'[Len(waHits) + 1] = x
    <3>1. /\ Append(waHits, x) \in Seq(Hit) /\ Len(Append(waHits, x)) = Len(waHits) + 1 /\ Len(waHits) \in Nat
          /\ \A i \in 1 .. Len(waHits) : Append(waHits, x)[i] = waHits[i]
          /\ Append(waHits, x)[Len(waHits) + 1] = x
      BY <1>3, <1>4, AppendProperties
    <3> QED BY <1>1, <3>1, Zenon
  <2>2. \A i \in 1 .. Len(waHits') : i \in 1 .. Len(waHits) \/ i = Len(waHits) + 1
    BY <2>1
  <2>3. \A i \in 1 .. Len(waHits) : waHits[i].at <= waNow
    BY DEF WaInv, WaRates, WaSession
  <2>4. x.at <= waNow' /\ waNow' = waNow
    BY <1>1, <1>3
  <2> QED BY <2>1, <2>2, <2>3, <2>4
<1>6. waLimits' \in [Limiter -> Seq(Bucket)] /\ waLimits'["middleware"] = new /\ waLimits'["route"] = route
  <2>1. rateLimit(mw, key) \in Seq(Bucket) /\ rateLimit(rt, key) \in Seq(Bucket)
    BY <1>3, <1>4, RateLimitOk
  <2>2. new \in Seq(Bucket) /\ route \in Seq(Bucket)
    BY <1>2, <1>4, <2>1, Zenon
  <2> HIDE DEF Limiter
  <2>3. waLimits'["middleware"] = new /\ waLimits'["route"] = route
    BY <1>1
  <2>4. waLimits' \in [Limiter -> Seq(Bucket)]
    <3>1. waLimits' = [w \in Limiter |-> waLimits'[w]]
      BY <1>1 DEF Limiter
    <3>2. \A w \in Limiter : w = "middleware" \/ w = "route"
      BY DEF Limiter
    <3> QED BY <2>2, <2>3, <3>1, <3>2
  <2> QED BY <2>3, <2>4
<1>7. \A w \in Limiter : CountsTrue(waLimits[w], waHits, waNow)'
  <2>1. CountsTrue(new, Append(waHits, x), waNow) /\ CountsTrue(route, Append(waHits, x), waNow)
    BY <1>2, <1>3, <1>4, CountsStayTrue
  <2>2. \A w \in Limiter : CountsTrue(waLimits'[w], waHits', waNow')
    BY <1>1, <1>6, <2>1 DEF Limiter
  <2> QED BY <2>2, BoundsNext
<1>8. refusedEarly(key, code) = {}
  <2> SUFFICES ASSUME code = "429"
               PROVE ~(Cardinality({i \in DOMAIN waHits : waHits[i].key = key /\ waHits[i].at + WaWindow > waNow}) < WaMax)
    BY DEF refusedEarly
  <2>1. Asked(waHits, key, waNow - WaWindow + 1) >= WaMax
    BY <1>2, <1>4, OverWasBusy DEF mw, rt
  <2>2. \A i \in 1 .. Len(waHits) : waHits[i].at \in Nat
    BY <1>4, TimesOk
  <2>3. \A n \in Nat : n + WaWindow > waNow <=> n >= waNow - WaWindow + 1
    BY <1>3, WaBoundsOK
  <2>4. DOMAIN waHits = 1 .. Len(waHits)
    BY <1>4
  <2>5. {i \in DOMAIN waHits : waHits[i].key = key /\ waHits[i].at + WaWindow > waNow} = Since(waHits, key, waNow - WaWindow + 1)
    BY <2>2, <2>3, <2>4 DEF Since
  <2>6. Asked(waHits, key, waNow - WaWindow + 1) \in Nat
    BY <1>4, CountsFinite
  <2>7. WaMax \in Nat
    BY WaBoundsOK
  <2> DEFINE n == Cardinality({i \in DOMAIN waHits : waHits[i].key = key /\ waHits[i].at + WaWindow > waNow})
  <2>8. n = Asked(waHits, key, waNow - WaWindow + 1)
    BY <2>5 DEF Asked
  <2> HIDE DEF n
  <2>9. ~(n < WaMax)
    BY <2>1, <2>6, <2>7, <2>8
  <2> QED BY <2>9 DEF n
<1>9. waEvicted' \/ \A k \in WaKey : KeyBounded(waLimits["middleware"], waHits, k, waNow)'
  <2> SUFFICES ASSUME ~waEvicted' PROVE \A k \in WaKey : KeyBounded(waLimits'["middleware"], waHits', k, waNow')
    BY BoundsNext
  <2>1. ~waEvicted /\ \A i \in DOMAIN mw : mw[i].resetAt > waNow => BucketOf(new, mw[i].key) # {}
    BY <1>6, <1>11 DEF mw
  <2>2. \A k \in WaKey : KeyBounded(mw, waHits, k, waNow)
    BY <2>1 DEF WaInv, WaRates, WaSession, mw
  <2>3. new \in Seq(Bucket)
    BY <1>2, <1>3, <1>4, RateLimitOk
  <2>4. \A i \in 1 .. Len(mw) : mw[i].resetAt > waNow => \E j \in 1 .. Len(rateLimit(mw, key)) : rateLimit(mw, key)[j].key = mw[i].key
    <3> SUFFICES ASSUME NEW i \in 1 .. Len(mw), mw[i].resetAt > waNow
                 PROVE  \E j \in 1 .. Len(new) : new[j].key = mw[i].key
      BY <1>2
    <3>1. DOMAIN mw = 1 .. Len(mw) /\ DOMAIN new = 1 .. Len(new)
      BY <1>4, <2>3
    <3>2. BucketOf(new, mw[i].key) # {}
      BY <2>1, <3>1
    <3> QED BY <3>1, <3>2 DEF BucketOf
  <2>5. \A i \in 1 .. Len(mw) : mw[i].resetAt <= waNow + WaWindow
    BY <1>4 DEF CountsTrue
  <2>6. ASSUME NEW k \in WaKey PROVE KeyBounded(rateLimit(mw, key), Append(waHits, x), k, waNow)
    <3>1. CASE k = key
      <4>1. KeyBounded(mw, waHits, key, waNow)
        BY <2>2
      <4>2. overLimit(rateLimit(mw, key), key) => x.code = "429"
        BY <1>2, <1>3
      <4>3. KeyBounded(rateLimit(mw, key), Append(waHits, x), key, waNow)
        BY <1>3, <1>4, <2>5, <4>1, <4>2, KeyStaysBounded
      <4> QED BY <3>1, <4>3
    <3>2. CASE k # key
      <4>1. KeyBounded(mw, waHits, k, waNow)
        BY <2>2
      <4>2. \A i \in 1 .. Len(mw) : mw[i].key = k /\ mw[i].resetAt > waNow =>
                \E j \in 1 .. Len(rateLimit(mw, key)) : rateLimit(mw, key)[j].key = k
        BY <2>4
      <4> QED BY <1>3, <1>4, <3>2, <4>1, <4>2, OthersStayBounded
    <3> QED BY <3>1, <3>2
  <2> QED BY <1>1, <1>2, <1>6, <2>6
<1>10. waNow' \in 0 .. WaTimeBound
  BY <1>1 DEF WaInv, WaRates
<1> QED BY <1>5, <1>6, <1>7, <1>8, <1>9, <1>10 DEF WaRates

\* A cookie of a sign-in is one that ends its time after it was made.
LEMMA CookieIs ==
    ASSUME WaInv, NEW server
    PROVE  LET c == createWebSessionCookie(server) IN c.made \in Nat /\ c.exp = c.made + WaMaxAge
BY WaBoundsOK DEF createWebSessionCookie, WaInv, WaRates

\* Someone signs in.
LEMMA SignInKeeps ==
    ASSUME WaInv, NEW key \in WaKey, NEW token, NEW api, SignIn(key, token, api)
    PROVE  WaInv'
<1> DEFINE code == signInCode(key, token)
<1>1. /\ Count(key, code, waLimits["route"]) /\ waWrong' = waWrong \cup refusedEarly(key, code)
      /\ waCookie' = waCookie \/ waCookie' = createWebSessionCookie(signedInAt(api))
  BY DEF SignIn
<1>2. /\ code \in {"429", "401", "503", "served", "forwarded"}
      /\ overLimit(counted(key), key) <=> code = "429"
  BY DEF signInCode
<1> HIDE DEF code
<1>3. WaRates' /\ refusedEarly(key, code) = {}
  BY <1>1, <1>2, CountKeeps
<1>4. WaSession'
  BY <1>1, CookieIs DEF WaInv, WaSession
<1> QED BY <1>1, <1>3, <1>4 DEF WaInv

\* Someone signs out.
LEMMA SignOutKeeps ==
    ASSUME WaInv, NEW key \in WaKey, SignOut(key)
    PROVE  WaInv'
<1> DEFINE code == signOutCode(key)
<1>1. /\ Count(key, code, waLimits["route"]) /\ waWrong' = waWrong \cup refusedEarly(key, code)
      /\ waCookie' = waCookie \/ waCookie' = NoCookie
  BY DEF SignOut
<1>2. /\ code \in {"429", "401", "503", "served", "forwarded"}
      /\ overLimit(counted(key), key) <=> code = "429"
  BY DEF signOutCode
<1> HIDE DEF code
<1>3. WaRates' /\ refusedEarly(key, code) = {}
  BY <1>1, <1>2, CountKeeps
<1>4. WaSession'
  BY <1>1 DEF WaInv, WaSession
<1> QED BY <1>1, <1>3, <1>4 DEF WaInv

\* Both copies of the check accept exactly the cookies that should count.
LEMMA ChecksGood == WaInv => ChecksAcceptTheGood
<1> SUFFICES ASSUME WaInv, waServer.token # "none"
             PROVE  (middlewareSession(waCookie) <=> goodCookie) /\ (routeSession(waCookie) <=> goodCookie)
  BY DEF ChecksAcceptTheGood
<1>1. waNow \in Nat /\ WaMaxAge \in Nat
  BY WaBoundsOK DEF WaInv, WaRates
<1>2. CASE waCookie = NoCookie
  <2>1. waCookie.sha = "none"
    BY <1>2 DEF NoCookie
  <2> QED BY <1>2, <2>1 DEF middlewareSession, routeSession, goodCookie
<1>3. CASE waCookie # NoCookie
  <2>1. waCookie.made \in Nat /\ waCookie.exp = waCookie.made + WaMaxAge
    BY <1>3 DEF WaInv, WaSession
  <2>2. waCookie.exp > waNow <=> waNow < waCookie.made + WaMaxAge
    BY <1>1, <2>1
  <2> QED BY <1>3, <2>2 DEF middlewareSession, routeSession, goodCookie
<1> QED BY <1>2, <1>3

\* Any other request is answered.
LEMMA RequestKeeps ==
    ASSUME WaInv, NEW key \in WaKey, NEW bearer, NEW calls, Request(key, bearer, calls)
    PROVE  WaInv'
<1> DEFINE a == answer(key, bearer, calls)
           by == waServer.token # "none" /\ bearer = "none" /\ waCookie # NoCookie
<1>1. Count(key, a.code, a.rt) /\ waCookie' = waCookie
  BY DEF Request
<1>2. waWrong' = waWrong
                  \cup (IF by /\ ~goodCookie /\ (a.code \in {"served", "forwarded"} \/ a.up = waServer.token)
                        THEN {"old session accepted"} ELSE {})
                  \cup (IF by /\ goodCookie /\ a.code \in {"401", "503"} THEN {"session refused"} ELSE {})
                  \cup refusedEarly(key, a.code)
  BY DEF Request
<1>3. /\ a.rt = waLimits["route"] \/ a.rt = rateLimit(waLimits["route"], key)
      /\ a.code \in {"429", "401", "503", "served", "forwarded"}
      /\ overLimit(counted(key), key) => a.code = "429"
      /\ a.code = "429" => overLimit(counted(key), key) \/ overLimit(rateLimit(waLimits["route"], key), key)
      /\ waServer.token # "none" /\ bearer = "none" =>
            IF middlewareSession(waCookie) THEN a.code \notin {"401", "503"}
            ELSE a.code \in {"429", "401"} /\ a.up = "none"
  BY AnswerIs
<1> HIDE DEF a
<1>4. WaRates' /\ refusedEarly(key, a.code) = {}
  <2> DEFINE code == a.code
             route == a.rt
  <2>1. Count(key, code, route) /\ code \in {"429", "401", "503", "served", "forwarded"}
    BY <1>1, <1>3
  <2>2. /\ route = waLimits["route"] \/ route = rateLimit(waLimits["route"], key)
        /\ overLimit(counted(key), key) => code = "429"
        /\ code = "429" => overLimit(counted(key), key) \/ overLimit(rateLimit(waLimits["route"], key), key)
    BY <1>3
  <2> HIDE DEF code, route
  <2>3. WaRates' /\ refusedEarly(key, code) = {}
    BY <2>1, <2>2, CountKeeps
  <2> QED BY <2>3 DEF code
<1>5. waServer.token # "none" => (middlewareSession(waCookie) <=> goodCookie)
  BY ChecksGood DEF ChecksAcceptTheGood
<1>6. /\ ~(by /\ ~goodCookie /\ (a.code \in {"served", "forwarded"} \/ a.up = waServer.token))
      /\ ~(by /\ goodCookie /\ a.code \in {"401", "503"})
  BY <1>3, <1>5
<1>7. waWrong' = {}
  BY <1>2, <1>4, <1>6 DEF WaInv
<1>8. WaSession'
  BY <1>1 DEF WaInv, WaSession
<1> QED BY <1>4, <1>7, <1>8 DEF WaInv

\* Every step.
LEMMA WaStepInv == WaInv /\ [WaNext]_waVars => WaInv'
<1> SUFFICES ASSUME WaInv, [WaNext]_waVars PROVE WaInv'
  OBVIOUS
<1>1. CASE \E k \in WaKey, t \in WaToken \ {"none"}, api \in WaServer : ~api.proxied /\ SignIn(k, t, api)
  BY <1>1, SignInKeeps
<1>6. CASE \E k \in WaKey : SignOut(k)
  BY <1>6, SignOutKeeps
<1>2. CASE Pass
  BY <1>2, PassKeeps
<1>3. CASE \E k \in WaKey, b \in WaToken \cup {"none"}, calls \in 1..2 : Request(k, b, calls)
  BY <1>3, RequestKeeps
<1>4. CASE \E s \in WaServer : Restart(s)
  BY <1>4, RestartKeeps
<1>5. CASE UNCHANGED waVars
  <2>1. UNCHANGED <<waNow, waCookie, waLimits, waHits, waEvicted, waWrong>>
    BY <1>5 DEF waVars
  <2>2. \A w \in Limiter : CountsTrue(waLimits[w], waHits, waNow)'
    BY <2>1, BoundsNext DEF WaInv, WaRates, WaSession
  <2>3. waEvicted' \/ \A k \in WaKey : KeyBounded(waLimits["middleware"], waHits, k, waNow)'
    BY <2>1, BoundsNext DEF WaInv, WaRates, WaSession
  <2> QED BY <2>1, <2>2, <2>3 DEF WaInv, WaRates, WaSession
<1> QED BY <1>1, <1>2, <1>3, <1>4, <1>5, <1>6 DEF WaNext

\* Both gates accept exactly the sessions that should count, a session lasts its time
\* and no longer and ends with its token, nobody is refused who made fewer than the allowed requests in the window,
\* and as long as no bucket had to make room, no stretch of one window lets more than
\* two windows' worth of requests through (middleware.ts, app/api/http.ts,
\* app/api/auth).
THEOREM AccessHoldsAlways == WaSpec => []AccessHolds
<1>1. WaInv => AccessHolds
  <2> SUFFICES ASSUME WaInv PROVE AccessHolds
    OBVIOUS
  <2>1. waWrong = {}
    BY DEF WaInv, WaRates, WaSession
  <2>2. RateBounded
    <3> SUFFICES ASSUME ~waEvicted, NEW k \in WaKey, NEW t \in 0 .. WaTimeBound
                 PROVE  Cardinality({i \in DOMAIN waHits : waHits[i].key = k /\ waHits[i].code # "429"
                                        /\ waHits[i].at \in t..(t + WaWindow - 1)}) <= 2 * WaMax
      BY DEF RateBounded
    <3>1. Passed(waHits, k, t, t + WaWindow - 1) <= WaMax + WaMax
      BY DEF WaInv, WaRates, WaSession, KeyBounded
    <3>2. DOMAIN waHits = 1 .. Len(waHits)
      BY DEF WaInv, WaRates, WaSession
    <3>3. {i \in DOMAIN waHits : waHits[i].key = k /\ waHits[i].code # "429" /\ waHits[i].at \in t..(t + WaWindow - 1)}
            = GotThrough(waHits, k, t, t + WaWindow - 1)
      BY <3>2 DEF GotThrough
    <3>4. WaMax + WaMax = 2 * WaMax
      BY WaBoundsOK
    <3> QED BY <3>1, <3>3, <3>4 DEF Passed
  <2> QED BY <2>1, <2>2, ChecksGood DEF AccessHolds, SessionsEnd, SessionsLast, RefusedWasBusy
<1> QED BY <1>1, WaInitInv, WaStepInv, PTL DEF WaSpec

-----------------------------------------------------------------------------
(* ResearchView                                                            *)

\* What a filter of the first n elements of a list by T holds.
Filtered(v, s, T, n) ==
    /\ \A i \in 1 .. Len(v) : \E k \in 1 .. n : s[k] \in T /\ v[i] = s[k]
    /\ \A k \in 1 .. n : s[k] \in T => \E i \in 1 .. Len(v) : v[i] = s[k]
    /\ (\A k, l \in 1 .. n : s[k] \in T /\ s[k] = s[l] => k = l)
       => \A i, j \in 1 .. Len(v) : v[i] = v[j] => i = j

\* One more element, in T or not.
LEMMA FilteredTurn ==
    ASSUME NEW X, NEW s \in Seq(X), NEW T, NEW n \in 1 .. Len(s), NEW v \in Seq(X), Filtered(v, s, T, n - 1)
    PROVE  Filtered(IF s[n] \in T THEN Append(v, s[n]) ELSE v, s, T, n)
<1>0. Len(v) \in Nat /\ n \in Nat /\ n \in 1 .. n /\ s[n] \in X /\ n - 1 \in Nat
      /\ \A k \in 1 .. n : k = n \/ k \in 1 .. (n - 1)
  OBVIOUS
<1>00. \A k \in 1 .. (n - 1) : k \in 1 .. n /\ k # n
  OBVIOUS
<1>1. CASE s[n] \notin T
  <2>1. \A k \in 1 .. n : s[k] \in T => k \in 1 .. (n - 1)
    BY <1>0, <1>1
  <2>2. \A i \in 1 .. Len(v) : \E k \in 1 .. n : s[k] \in T /\ v[i] = s[k]
    BY <1>00 DEF Filtered
  <2>3. \A k \in 1 .. n : s[k] \in T => \E i \in 1 .. Len(v) : v[i] = s[k]
    BY <2>1 DEF Filtered
  <2>4. ASSUME \A k, l \in 1 .. n : s[k] \in T /\ s[k] = s[l] => k = l
        PROVE  \A i, j \in 1 .. Len(v) : v[i] = v[j] => i = j
    BY <1>00, <2>4 DEF Filtered
  <2> QED BY <1>1, <2>2, <2>3, <2>4 DEF Filtered
<1>2. CASE s[n] \in T
  <2> DEFINE w == Append(v, s[n])
  <2>1. /\ Len(w) = Len(v) + 1 /\ \A i \in 1 .. Len(v) : w[i] = v[i]
        /\ w[Len(v) + 1] = s[n]
    BY <1>0, AppendOk
  <2>2. \A i \in 1 .. Len(w) : i = Len(v) + 1 \/ i \in 1 .. Len(v)
    BY <1>0, <2>1
  <2>3. (Len(v) + 1 \in 1 .. Len(w)) /\ \A i \in 1 .. Len(v) : i \in 1 .. Len(w)
    BY <1>0, <2>1
  <2> HIDE DEF w
  <2>4. ASSUME NEW i \in 1 .. Len(w) PROVE \E k \in 1 .. n : s[k] \in T /\ w[i] = s[k]
    <3>1. CASE i = Len(v) + 1
      BY <1>0, <1>2, <2>1, <3>1
    <3>2. CASE i \in 1 .. Len(v)
      BY <1>00, <2>1, <3>2 DEF Filtered
    <3> QED BY <2>2, <3>1, <3>2
  <2>5. ASSUME NEW k \in 1 .. n, s[k] \in T PROVE \E i \in 1 .. Len(w) : w[i] = s[k]
    <3>1. CASE k = n
      BY <2>1, <2>3, <3>1
    <3>2. CASE k \in 1 .. (n - 1)
      <4>1. PICK i \in 1 .. Len(v) : v[i] = s[k]
        BY <2>5, <3>2 DEF Filtered
      <4> QED BY <2>1, <2>3, <4>1
    <3> QED BY <1>0, <3>1, <3>2
  <2>6. ASSUME \A k, l \in 1 .. n : s[k] \in T /\ s[k] = s[l] => k = l
        PROVE  \A i, j \in 1 .. Len(w) : w[i] = w[j] => i = j
    <3>1. \A i, j \in 1 .. Len(v) : v[i] = v[j] => i = j
      BY <1>00, <2>6 DEF Filtered
    <3>2. ASSUME NEW i \in 1 .. Len(v) PROVE w[i] # s[n]
      <4>1. PICK k \in 1 .. (n - 1) : s[k] \in T /\ v[i] = s[k]
        BY DEF Filtered
      <4> QED BY <1>0, <1>00, <2>1, <2>6, <4>1
    <3> QED BY <2>1, <2>2, <3>1, <3>2
  <2> QED BY <1>2, <2>4, <2>5, <2>6 DEF Filtered, w
<1> QED BY <1>1, <1>2

\* The flags of a source.
FlagName == {"selected", "rejected", "fetched", "extracted"}
Flags == [FlagName -> BOOLEAN]

\* Flags may be turned on and others off.
Toggle(on, off) == on \subseteq FlagName /\ off \subseteq FlagName /\ on \cap off = {}

\* A new source has none.
LEMMA NoFlagsOk ==
    /\ NoFlags \in Flags /\ NoFlags.selected = FALSE /\ NoFlags.rejected = FALSE /\ NoFlags.extracted = FALSE
  BY DEF NoFlags, Flags, FlagName

\* What merging new flags does.
LEMMA MergeOk ==
    ASSUME NEW u \in Flags, NEW on, NEW off, Toggle(on, off),
           NEW w, w = mergeSource(u, given(on, off))
    PROVE  /\ w \in Flags /\ (\A f \in on : w[f]) /\ (\A f \in off : ~w[f])
           /\ \A f \in FlagName \ (on \cup off) : w[f] = u[f]
<1> DEFINE g == given(on, off)
<1>1. DOMAIN u = FlagName /\ \A f \in FlagName : u[f] \in BOOLEAN
  BY DEF Flags
<1>0. on \subseteq FlagName /\ off \subseteq FlagName /\ on \cap off = {}
  BY DEF Toggle
<1>2. DOMAIN g = on \cup off
  BY DEF given
<1>21. g \in [on \cup off -> BOOLEAN]
  BY DEF given
<1>3. \A f \in on : g[f]
  BY DEF given
<1>4. ASSUME NEW f \in off PROVE ~g[f]
  <2>1. f \notin on
    BY <1>0
  <2> QED BY <2>1 DEF given
<1> HIDE DEF g
<1>5. w = [f \in FlagName |-> IF f \in DOMAIN g THEN g[f] ELSE u[f]]
  BY <1>1 DEF mergeSource, g
<1>6. \A f \in FlagName : w[f] = IF f \in on \cup off THEN g[f] ELSE u[f]
  BY <1>2, <1>5
<1>7. w \in Flags
  <2>1. w = [f \in FlagName |-> w[f]]
    BY <1>5
  <2>2. \A f \in FlagName : w[f] \in BOOLEAN
    BY <1>1, <1>21, <1>6
  <2> QED BY <2>1, <2>2 DEF Flags
<1>8. ASSUME NEW f \in on PROVE w[f]
  <2>1. w[f] = g[f]
    BY <1>0, <1>6
  <2> QED BY <1>3, <2>1
<1>9. ASSUME NEW f \in off PROVE ~w[f]
  <2>1. w[f] = g[f]
    BY <1>0, <1>6
  <2> QED BY <1>4, <2>1
<1>10. \A f \in FlagName \ (on \cup off) : w[f] = u[f]
  BY <1>6
<1> QED BY <1>7, <1>8, <1>9, <1>10

\* Sources as the view keeps them: ids with flags.
RvName == (UNION {ToSet(found) : found \in RvFound}) \cup RvPage
RvId == {"candidate", "page", "text"} \X RvName
RvSources == UNION {[A -> Flags] : A \in SUBSET (RvId \cup {Nameless})}

\* Members of RvSources.
LEMMA SourcesAre ==
    ASSUME NEW u
    PROVE  /\ u \in RvSources => /\ DOMAIN u \subseteq RvId \cup {Nameless} /\ u = [s \in DOMAIN u |-> u[s]]
                                 /\ \A s \in DOMAIN u : u[s] \in Flags
           /\ (/\ DOMAIN u \subseteq RvId \cup {Nameless} /\ u = [s \in DOMAIN u |-> u[s]]
               /\ \A s \in DOMAIN u : u[s] \in Flags) => u \in RvSources
  BY DEF RvSources

\* A source without a name is none of the ids.
LEMMA NamelessApart == Nameless \notin RvId
  BY DEF Nameless, RvId

\* Ids that may be ensured.
Ids(ids) == ids \subseteq RvId \cup {Nameless}

\* The sources w are u and the ids, new ones without flags.
Ensured(u, ids, w) ==
    /\ w \in RvSources /\ DOMAIN w = DOMAIN u \cup ids
    /\ \A s \in DOMAIN u : w[s] = u[s]
    /\ \A s \in ids : s \notin DOMAIN u => w[s] = NoFlags

\* What ensuring ids does.
LEMMA EnsureOk ==
    ASSUME NEW u \in RvSources, NEW ids, Ids(ids), NEW w, w = ensureSource(u, ids)
    PROVE  Ensured(u, ids, w)
<1>1. w = [s \in DOMAIN u \cup ids |-> IF s \in DOMAIN u THEN u[s] ELSE NoFlags]
  BY DEF ensureSource
<1>2. DOMAIN u \subseteq RvId \cup {Nameless} /\ \A s \in DOMAIN u : u[s] \in Flags
  BY SourcesAre
<1>3. DOMAIN w = DOMAIN u \cup ids /\ (\A s \in DOMAIN u : w[s] = u[s])
      /\ \A s \in ids : s \notin DOMAIN u => w[s] = NoFlags
  BY <1>1
<1>4. \A s \in DOMAIN w : w[s] \in Flags
  BY <1>2, <1>3, NoFlagsOk
<1>5. w = [s \in DOMAIN w |-> w[s]]
  BY <1>1
<1>6. DOMAIN w \subseteq RvId \cup {Nameless}
  BY <1>2, <1>3 DEF Ids
<1>7. w \in RvSources
  BY <1>4, <1>5, <1>6, SourcesAre
<1> QED BY <1>3, <1>7 DEF Ensured

\* What merging flags into ids does.
LEMMA MergeAllOk ==
    ASSUME NEW u \in RvSources, NEW ids, NEW on, NEW off, Toggle(on, off),
           NEW w, w = mergeAll(u, ids, given(on, off))
    PROVE  /\ w \in RvSources /\ DOMAIN w = DOMAIN u
           /\ \A s \in DOMAIN u \ ids : w[s] = u[s]
           /\ \A s \in DOMAIN u \cap ids :
                 /\ (\A f \in on : w[s][f]) /\ (\A f \in off : ~w[s][f])
                 /\ \A f \in FlagName \ (on \cup off) : w[s][f] = u[s][f]
<1>1. w = [s \in DOMAIN u |-> IF s \in ids THEN mergeSource(u[s], given(on, off)) ELSE u[s]]
  BY DEF mergeAll
<1>2. DOMAIN u \subseteq RvId \cup {Nameless} /\ \A s \in DOMAIN u : u[s] \in Flags
  BY SourcesAre
<1>3. ASSUME NEW s \in DOMAIN u \cap ids
      PROVE  /\ w[s] \in Flags /\ (\A f \in on : w[s][f]) /\ (\A f \in off : ~w[s][f])
             /\ \A f \in FlagName \ (on \cup off) : w[s][f] = u[s][f]
  <2>1. PICK v \in Flags : v = u[s]
    BY <1>2
  <2>2. PICK x : x = w[s]
    OBVIOUS
  <2>3. x = mergeSource(v, given(on, off))
    BY <1>1, <2>1, <2>2
  <2>4. /\ x \in Flags /\ (\A f \in on : x[f]) /\ (\A f \in off : ~x[f])
        /\ \A f \in FlagName \ (on \cup off) : x[f] = v[f]
    BY <2>3, MergeOk
  <2> QED BY <2>1, <2>2, <2>4
<1>4. DOMAIN w = DOMAIN u /\ \A s \in DOMAIN u \ ids : w[s] = u[s]
  BY <1>1
<1>5. \A s \in DOMAIN w : w[s] \in Flags
  BY <1>2, <1>3, <1>4
<1>6. w = [s \in DOMAIN w |-> w[s]]
  BY <1>1
<1>7. w \in RvSources
  BY <1>2, <1>4, <1>5, <1>6, SourcesAre
<1> QED BY <1>3, <1>4, <1>7

\* Artifacts: what is selected or rejected is named, snapshots and briefs name nothing.
RvKind == {"source_search_results", "source_snapshot", "source_text", "source_set", "research_brief"}
GoodArt(x) ==
    /\ x.kind \in RvKind /\ x.call \in {1, 2} /\ x.names \subseteq RvId
    /\ x.selected \subseteq x.names /\ x.rejected \subseteq x.names
    /\ x.kind \in {"source_snapshot", "research_brief"} => x.names = {}

\* What the readable ones of some artifacts say of a source.
NamedBy(P) == UNION {rvArts[a].names : a \in P \cap rvIndex}
TextOf(P, s) == \E a \in P \cap rvIndex : rvArts[a].kind = "source_text" /\ s \in rvArts[a].names
ChosenOf(P, s) == \E a \in P \cap rvIndex : rvArts[a].kind = "source_set" /\ s \in rvArts[a].selected
RejectedOf(P, s) == \E a \in P \cap rvIndex : rvArts[a].kind = "source_set" /\ s \in rvArts[a].rejected

\* The sources after the artifacts of P.
Shown(u, P) ==
    /\ u \in RvSources
    /\ DOMAIN u \ {Nameless} = NamedBy(P)
    /\ \A s \in DOMAIN u \ {Nameless} :
          /\ u[s].extracted <=> TextOf(P, s)
          /\ u[s].selected <=> ChosenOf(P, s)
          /\ u[s].rejected <=> RejectedOf(P, s)

\* What nothing names, nothing is said of.
LEMMA UnnamedOk ==
    ASSUME NEW P, \A a \in P : GoodArt(rvArts[a]), NEW s, s \notin NamedBy(P)
    PROVE  ~TextOf(P, s) /\ ~ChosenOf(P, s) /\ ~RejectedOf(P, s)
<1>1. \A a \in P \cap rvIndex : s \notin rvArts[a].names /\ GoodArt(rvArts[a])
  BY DEF NamedBy
<1>2. \A a \in P \cap rvIndex : s \notin rvArts[a].selected /\ s \notin rvArts[a].rejected
  BY <1>1 DEF GoodArt
<1> QED BY <1>1, <1>2 DEF TextOf, ChosenOf, RejectedOf

\* One artifact more.
LEMMA OneMore ==
    ASSUME NEW P, NEW a, GoodArt(rvArts[a])
    PROVE  /\ NamedBy(P \cup {a}) = NamedBy(P) \cup content(a)
           /\ \A s : TextOf(P \cup {a}, s) <=> TextOf(P, s) \/ (rvArts[a].kind = "source_text" /\ s \in content(a))
           /\ \A s : ChosenOf(P \cup {a}, s) <=>
                     ChosenOf(P, s) \/ (rvArts[a].kind = "source_set" /\ s \in content(a) \cap rvArts[a].selected)
           /\ \A s : RejectedOf(P \cup {a}, s) <=>
                     RejectedOf(P, s) \/ (rvArts[a].kind = "source_set" /\ s \in content(a) \cap rvArts[a].rejected)
<1>1. CASE a \in rvIndex
  <2>1. content(a) = rvArts[a].names /\ (P \cup {a}) \cap rvIndex = (P \cap rvIndex) \cup {a}
    BY <1>1 DEF content
  <2>2. rvArts[a].selected \subseteq content(a) /\ rvArts[a].rejected \subseteq content(a)
    BY <2>1 DEF GoodArt
  <2>3. NamedBy(P \cup {a}) = NamedBy(P) \cup content(a)
    BY <2>1 DEF NamedBy
  <2>4. \A s : TextOf(P \cup {a}, s) <=> TextOf(P, s) \/ (rvArts[a].kind = "source_text" /\ s \in content(a))
    BY <2>1 DEF TextOf
  <2>5. \A s : ChosenOf(P \cup {a}, s) <=>
                     ChosenOf(P, s) \/ (rvArts[a].kind = "source_set" /\ s \in content(a) \cap rvArts[a].selected)
    BY <2>1, <2>2 DEF ChosenOf
  <2>6. \A s : RejectedOf(P \cup {a}, s) <=>
                     RejectedOf(P, s) \/ (rvArts[a].kind = "source_set" /\ s \in content(a) \cap rvArts[a].rejected)
    BY <2>1, <2>2 DEF RejectedOf
  <2> QED BY <2>3, <2>4, <2>5, <2>6
<1>2. CASE a \notin rvIndex
  <2>1. content(a) = {} /\ (P \cup {a}) \cap rvIndex = P \cap rvIndex
    BY <1>2 DEF content
  <2>2. NamedBy(P \cup {a}) = NamedBy(P)
    BY <2>1 DEF NamedBy
  <2>3. \A s : (TextOf(P \cup {a}, s) <=> TextOf(P, s)) /\ (ChosenOf(P \cup {a}, s) <=> ChosenOf(P, s))
               /\ (RejectedOf(P \cup {a}, s) <=> RejectedOf(P, s))
    BY <2>1 DEF TextOf, ChosenOf, RejectedOf
  <2> QED BY <2>1, <2>2, <2>3
<1> QED BY <1>1, <1>2

\* The sources change as the artifact says.
Changed(u, w, a) ==
    /\ w \in RvSources
    /\ DOMAIN w \ {Nameless} = (DOMAIN u \ {Nameless}) \cup content(a)
    /\ \A s \in DOMAIN w \ {Nameless} :
          /\ w[s].extracted <=> (s \in DOMAIN u /\ u[s].extracted) \/ (rvArts[a].kind = "source_text" /\ s \in content(a))
          /\ w[s].selected <=> (s \in DOMAIN u /\ u[s].selected)
                               \/ (rvArts[a].kind = "source_set" /\ s \in content(a) \cap rvArts[a].selected)
          /\ w[s].rejected <=> (s \in DOMAIN u /\ u[s].rejected)
                               \/ (rvArts[a].kind = "source_set" /\ s \in content(a) \cap rvArts[a].rejected)

\* Then they say what the artifacts say.
LEMMA ChangedShown ==
    ASSUME NEW P, \A b \in P : GoodArt(rvArts[b]), NEW a, GoodArt(rvArts[a]), NEW u, Shown(u, P),
           NEW w, Changed(u, w, a)
    PROVE  Shown(w, P \cup {a})
<1>1. w \in RvSources /\ DOMAIN w \ {Nameless} = NamedBy(P \cup {a})
  BY OneMore DEF Shown, Changed
<1>2. ASSUME NEW s \in DOMAIN w \ {Nameless}
      PROVE  /\ w[s].extracted <=> TextOf(P \cup {a}, s)
             /\ w[s].selected <=> ChosenOf(P \cup {a}, s)
             /\ w[s].rejected <=> RejectedOf(P \cup {a}, s)
  <2> DEFINE T == rvArts[a].kind = "source_text" /\ s \in content(a)
             C == rvArts[a].kind = "source_set" /\ s \in content(a) \cap rvArts[a].selected
             R == rvArts[a].kind = "source_set" /\ s \in content(a) \cap rvArts[a].rejected
  <2>1. /\ TextOf(P \cup {a}, s) <=> TextOf(P, s) \/ T
        /\ ChosenOf(P \cup {a}, s) <=> ChosenOf(P, s) \/ C
        /\ RejectedOf(P \cup {a}, s) <=> RejectedOf(P, s) \/ R
    BY OneMore
  <2>2. /\ w[s].extracted <=> (s \in DOMAIN u /\ u[s].extracted) \/ T
        /\ w[s].selected <=> (s \in DOMAIN u /\ u[s].selected) \/ C
        /\ w[s].rejected <=> (s \in DOMAIN u /\ u[s].rejected) \/ R
    BY DEF Changed
  <2> HIDE DEF T, C, R
  <2>3. CASE s \in DOMAIN u
    <3>1. s \in DOMAIN u \ {Nameless}
      BY <2>3
    <3>2. (u[s].extracted <=> TextOf(P, s)) /\ (u[s].selected <=> ChosenOf(P, s)) /\ (u[s].rejected <=> RejectedOf(P, s))
      BY <3>1 DEF Shown
    <3> QED BY <2>1, <2>2, <2>3, <3>2, Zenon
  <2>4. CASE s \notin DOMAIN u
    <3>1. s \notin NamedBy(P)
      BY <2>4 DEF Shown
    <3>2. ~TextOf(P, s) /\ ~ChosenOf(P, s) /\ ~RejectedOf(P, s)
      BY <3>1, UnnamedOk
    <3> QED BY <2>1, <2>2, <2>4, <3>2, Zenon
  <2> QED BY <2>3, <2>4
<1> QED BY <1>1, <1>2 DEF Shown

\* A source is rejected when the set says so, or was before.
LEMMA RejectOk ==
    ASSUME NEW v \in Flags, NEW x \in BOOLEAN, NEW w, w = [v EXCEPT !.rejected = x]
    PROVE  w \in Flags /\ w.rejected = x /\ w.selected = v.selected /\ w.extracted = v.extracted
  BY DEF Flags, FlagName

\* Search results name their sources and give no flags.
LEMMA IngestSearch ==
    ASSUME NEW a, GoodArt(rvArts[a]), rvArts[a].kind = "source_search_results", NEW u \in RvSources
    PROVE  Changed(u, ingestArtifact(u, a), a)
<1> DEFINE names == content(a)
<1>1. Ids(names) /\ Nameless \notin names
  BY NamelessApart DEF content, GoodArt, Ids
<1>2. ingestArtifact(u, a) = mergeAll(ensureSource(u, names), names, given({}, {}))
  BY DEF ingestArtifact
<1>3. PICK e : e = ensureSource(u, names)
  OBVIOUS
<1>4. PICK w : w = mergeAll(e, names, given({}, {}))
  OBVIOUS
<1> HIDE DEF names
<1>5. /\ e \in RvSources /\ DOMAIN e = DOMAIN u \cup names /\ \A s \in DOMAIN u : e[s] = u[s]
      /\ \A s \in names : s \notin DOMAIN u => e[s] = NoFlags
  <2>1. Ensured(u, names, e)
    BY <1>1, <1>3, EnsureOk
  <2> QED BY <2>1 DEF Ensured
<1>6. Toggle({}, {})
  BY DEF Toggle
<1>7. /\ w \in RvSources /\ DOMAIN w = DOMAIN e
      /\ \A s \in DOMAIN e \ names : w[s] = e[s]
      /\ \A s \in DOMAIN e \cap names : \A f \in FlagName \ ({} \cup {}) : w[s][f] = e[s][f]
  BY <1>4, <1>5, <1>6, MergeAllOk
<1>8. \A s \in DOMAIN e : w[s].extracted = e[s].extracted /\ w[s].selected = e[s].selected /\ w[s].rejected = e[s].rejected
  BY <1>7 DEF FlagName
<1>9. Changed(u, w, a)
  <2>1. DOMAIN w \ {Nameless} = (DOMAIN u \ {Nameless}) \cup names
    BY <1>1, <1>5, <1>7
  <2>2. ASSUME NEW s \in DOMAIN w
        PROVE  /\ w[s].extracted <=> (s \in DOMAIN u /\ u[s].extracted)
               /\ w[s].selected <=> (s \in DOMAIN u /\ u[s].selected)
               /\ w[s].rejected <=> (s \in DOMAIN u /\ u[s].rejected)
    <3>1. CASE s \in DOMAIN u
      BY <1>5, <1>7, <1>8, <3>1
    <3>2. CASE s \notin DOMAIN u
      <4>1. e[s] = NoFlags
        BY <1>5, <1>7, <3>2
      <4> QED BY <1>7, <1>8, <3>2, <4>1, NoFlagsOk
    <3> QED BY <3>1, <3>2
  <2> QED BY <1>7, <2>1, <2>2 DEF Changed, names
<1> QED BY <1>2, <1>3, <1>4, <1>9 DEF names

\* A snapshot names no source, so it is counted for the source without a name.
LEMMA IngestSnapshot ==
    ASSUME NEW a, GoodArt(rvArts[a]), rvArts[a].kind = "source_snapshot", NEW u \in RvSources
    PROVE  Changed(u, ingestArtifact(u, a), a)
<1>1. content(a) = {}
  BY DEF content, GoodArt
<1> DEFINE on == {"fetched"}
           off == {"extracted"}
           N == {Nameless}
<1>2. ingestArtifact(u, a) = mergeAll(ensureSource(u, N), N, given(on, off))
  BY <1>1 DEF ingestArtifact
<1>3. PICK e : e = ensureSource(u, N)
  OBVIOUS
<1>4. PICK w : w = mergeAll(e, N, given(on, off))
  OBVIOUS
<1>50. Ids(N)
  BY DEF Ids
<1>5. /\ e \in RvSources /\ DOMAIN e = DOMAIN u \cup N /\ \A s \in DOMAIN u : e[s] = u[s]
  <2>1. Ensured(u, N, e)
    BY <1>3, <1>50, EnsureOk
  <2> QED BY <2>1 DEF Ensured
<1>6. Toggle(on, off)
  BY DEF Toggle, FlagName
<1> HIDE DEF on, off
<1>7. /\ w \in RvSources /\ DOMAIN w = DOMAIN e
      /\ \A s \in DOMAIN e \ N : w[s] = e[s]
  BY <1>4, <1>5, <1>6, MergeAllOk
<1>8. DOMAIN w \ {Nameless} = DOMAIN u \ {Nameless} /\ \A s \in DOMAIN w \ {Nameless} : s \in DOMAIN u /\ w[s] = u[s]
  BY <1>5, <1>7
<1>9. Changed(u, w, a)
  BY <1>1, <1>7, <1>8 DEF Changed
<1> QED BY <1>2, <1>3, <1>4, <1>9

\* A text makes its source extracted.
LEMMA IngestText ==
    ASSUME NEW a, GoodArt(rvArts[a]), rvArts[a].kind = "source_text", NEW u \in RvSources
    PROVE  Changed(u, ingestArtifact(u, a), a)
<1> DEFINE names == content(a)
           named == IF names = {} THEN {Nameless} ELSE names
           on == {"extracted"}
           off == {"fetched"}
<1>1. names \subseteq RvId /\ Nameless \notin names
  BY NamelessApart DEF content, GoodArt
<1>2. ingestArtifact(u, a) = mergeAll(ensureSource(u, named), named, given(on, off))
  BY DEF ingestArtifact
<1>0. Ids(named) /\ named \ {Nameless} = names
  BY <1>1 DEF Ids
<1>3. PICK e : e = ensureSource(u, named)
  OBVIOUS
<1>4. PICK w : w = mergeAll(e, named, given(on, off))
  OBVIOUS
<1>6. Toggle(on, off) /\ FlagName \ (on \cup off) = {"selected", "rejected"} /\ "extracted" \in on
  BY DEF Toggle, FlagName
<1> HIDE DEF names, named, on, off
<1>5. /\ e \in RvSources /\ DOMAIN e = DOMAIN u \cup named /\ \A s \in DOMAIN u : e[s] = u[s]
      /\ \A s \in named : s \notin DOMAIN u => e[s] = NoFlags
  <2>1. Ensured(u, named, e)
    BY <1>0, <1>3, EnsureOk
  <2> QED BY <2>1 DEF Ensured
<1>7. /\ w \in RvSources /\ DOMAIN w = DOMAIN e
      /\ \A s \in DOMAIN e \ named : w[s] = e[s]
      /\ \A s \in DOMAIN e \cap named :
            /\ \A f \in on : w[s][f]
            /\ \A f \in FlagName \ (on \cup off) : w[s][f] = e[s][f]
  BY <1>4, <1>5, <1>6, MergeAllOk
<1>8. /\ \A s \in DOMAIN e : w[s].selected = e[s].selected /\ w[s].rejected = e[s].rejected
      /\ \A s \in DOMAIN e \cap named : w[s].extracted
  BY <1>6, <1>7
<1>9. Changed(u, w, a)
  <2>1. DOMAIN w \ {Nameless} = (DOMAIN u \ {Nameless}) \cup names
    BY <1>0, <1>1, <1>5, <1>7
  <2>2. ASSUME NEW s \in DOMAIN w \ {Nameless}
        PROVE  /\ w[s].extracted <=> (s \in DOMAIN u /\ u[s].extracted) \/ s \in names
               /\ w[s].selected <=> (s \in DOMAIN u /\ u[s].selected)
               /\ w[s].rejected <=> (s \in DOMAIN u /\ u[s].rejected)
    <3>0. s \in DOMAIN e /\ (s \in named <=> s \in names)
      BY <1>0, <1>7
    <3>1. CASE s \in DOMAIN u
      <4>1. e[s] = u[s]
        BY <1>5, <3>1
      <4>2. CASE s \in named
        BY <1>8, <3>0, <3>1, <4>1, <4>2
      <4>3. CASE s \notin named
        <5>1. w[s] = u[s]
          BY <1>7, <3>0, <4>1, <4>3
        <5> QED BY <3>0, <3>1, <4>3, <5>1
      <4> QED BY <4>2, <4>3
    <3>2. CASE s \notin DOMAIN u
      <4>1. s \in named /\ e[s] = NoFlags
        BY <1>5, <3>0, <3>2
      <4> QED BY <1>8, <3>0, <3>2, <4>1, NoFlagsOk
    <3> QED BY <3>1, <3>2
  <2>3. content(a) = names
    BY DEF names
  <2> QED BY <1>7, <2>1, <2>2, <2>3 DEF Changed
<1> QED BY <1>2, <1>3, <1>4, <1>9

\* A source set makes sources selected or rejected.
LEMMA IngestSet ==
    ASSUME NEW a, GoodArt(rvArts[a]), rvArts[a].kind = "source_set", NEW u \in RvSources
    PROVE  Changed(u, ingestArtifact(u, a), a)
<1> DEFINE names == content(a)
           chosen == names \cap rvArts[a].selected
           refused == names \cap rvArts[a].rejected
           on == {"selected"}
           off == {}
<1>1. names \subseteq RvId /\ Nameless \notin names
  BY NamelessApart DEF content, GoodArt
<1>3. PICK e : e = ensureSource(u, names)
  OBVIOUS
<1>4. PICK m : m = mergeAll(e, chosen, given(on, off))
  OBVIOUS
<1>40. PICK w : w = [s \in DOMAIN m |-> [m[s] EXCEPT !.rejected = @ \/ s \in refused]]
  OBVIOUS
<1>2. ingestArtifact(u, a) = w
  BY <1>3, <1>4, <1>40 DEF ingestArtifact
<1>6. Toggle(on, off) /\ FlagName \ (on \cup off) = {"fetched", "extracted", "rejected"} /\ "selected" \in on
  BY DEF Toggle, FlagName
<1>0. chosen \subseteq names /\ refused \subseteq names /\ Ids(names)
  BY <1>1 DEF Ids
<1> HIDE DEF names, chosen, refused, on, off
<1>5. /\ e \in RvSources /\ DOMAIN e = DOMAIN u \cup names /\ \A s \in DOMAIN u : e[s] = u[s]
      /\ \A s \in names : s \notin DOMAIN u => e[s] = NoFlags
  <2>1. Ensured(u, names, e)
    BY <1>0, <1>3, EnsureOk
  <2> QED BY <2>1 DEF Ensured
<1>7. /\ m \in RvSources /\ DOMAIN m = DOMAIN e
      /\ \A s \in DOMAIN e \ chosen : m[s] = e[s]
      /\ \A s \in DOMAIN e \cap chosen :
            /\ \A f \in on : m[s][f]
            /\ \A f \in FlagName \ (on \cup off) : m[s][f] = e[s][f]
  BY <1>4, <1>5, <1>6, MergeAllOk
<1>8. /\ \A s \in DOMAIN e : m[s].extracted = e[s].extracted /\ m[s].rejected = e[s].rejected
      /\ \A s \in DOMAIN e \cap chosen : m[s].selected
  BY <1>6, <1>7
<1>81. DOMAIN m \subseteq RvId \cup {Nameless} /\ \A s \in DOMAIN m : m[s] \in Flags
  BY <1>7, SourcesAre
<1>82. ASSUME NEW s \in DOMAIN m
       PROVE  /\ w[s] \in Flags /\ w[s].selected = m[s].selected /\ w[s].extracted = m[s].extracted
              /\ w[s].rejected <=> m[s].rejected \/ s \in refused
  <2>1. PICK v \in Flags : v = m[s]
    BY <1>81
  <2>2. v.rejected \in BOOLEAN
    BY DEF Flags, FlagName
  <2>3. PICK q \in BOOLEAN : q = (v.rejected \/ s \in refused)
    OBVIOUS
  <2>4. PICK x : x = w[s]
    OBVIOUS
  <2>5. x = [v EXCEPT !.rejected = q]
    <3>1. w[s] = [m[s] EXCEPT !.rejected = m[s].rejected \/ s \in refused]
      BY <1>40
    <3> QED BY <2>1, <2>3, <2>4, <3>1, Zenon
  <2>6. x \in Flags /\ x.rejected = q /\ x.selected = v.selected /\ x.extracted = v.extracted
    BY <2>5, RejectOk
  <2> QED BY <2>1, <2>3, <2>4, <2>6
<1>83. DOMAIN w = DOMAIN m /\ w = [s \in DOMAIN w |-> w[s]]
  BY <1>40
<1>84. w \in RvSources
  BY <1>81, <1>82, <1>83, SourcesAre
<1>9. Changed(u, w, a)
  <2>1. DOMAIN w \ {Nameless} = (DOMAIN u \ {Nameless}) \cup names
    BY <1>1, <1>5, <1>7, <1>83 DEF names
  <2>2. ASSUME NEW s \in DOMAIN w
        PROVE  /\ w[s].extracted <=> (s \in DOMAIN u /\ u[s].extracted)
               /\ w[s].selected <=> (s \in DOMAIN u /\ u[s].selected) \/ s \in chosen
               /\ w[s].rejected <=> (s \in DOMAIN u /\ u[s].rejected) \/ s \in refused
    <3>0. s \in DOMAIN e /\ s \in DOMAIN m
      BY <1>7, <1>83
    <3>1. /\ w[s].selected = m[s].selected /\ w[s].extracted = e[s].extracted
          /\ w[s].rejected <=> e[s].rejected \/ s \in refused
      BY <1>8, <1>82, <3>0
    <3>2. m[s].selected <=> e[s].selected \/ s \in chosen
      BY <1>7, <1>8, <3>0
    <3>3. CASE s \in DOMAIN u
      <4>1. e[s] = u[s]
        BY <1>5, <3>3
      <4> QED BY <3>1, <3>2, <3>3, <4>1
    <3>4. CASE s \notin DOMAIN u
      <4>1. e[s] = NoFlags
        BY <1>5, <3>0, <3>4
      <4> QED BY <3>1, <3>2, <3>4, <4>1, NoFlagsOk
    <3> QED BY <3>3, <3>4
  <2>3. names = content(a) /\ chosen = content(a) \cap rvArts[a].selected /\ refused = content(a) \cap rvArts[a].rejected
    BY DEF names, chosen, refused
  <2> QED BY <1>84, <2>1, <2>2, <2>3 DEF Changed
<1> QED BY <1>2, <1>9

\* Any artifact changes the sources as it says.
LEMMA IngestOk ==
    ASSUME NEW a, GoodArt(rvArts[a]), NEW u \in RvSources
    PROVE  Changed(u, ingestArtifact(u, a), a)
<1>1. CASE rvArts[a].kind = "research_brief"
  <2>1. content(a) = {}
    BY <1>1 DEF content, GoodArt
  <2>2. ingestArtifact(u, a) = u
    BY <1>1 DEF ingestArtifact
  <2> QED BY <1>1, <2>1, <2>2 DEF Changed
<1> QED BY <1>1, IngestSearch, IngestSnapshot, IngestText, IngestSet DEF GoodArt, RvKind

\* A filter keeps the order of the first n elements.
Ranked(v, s, n) ==
    \A i, j \in 1 .. Len(v) : i < j => \E k, l \in 1 .. n : k < l /\ v[i] = s[k] /\ v[j] = s[l]

\* One more element, in T or not.
LEMMA RankedTurn ==
    ASSUME NEW X, NEW s \in Seq(X), NEW T, NEW n \in 1 .. Len(s), NEW v \in Seq(X),
           Filtered(v, s, T, n - 1), Ranked(v, s, n - 1)
    PROVE  Ranked(IF s[n] \in T THEN Append(v, s[n]) ELSE v, s, n)
<1>0. Len(v) \in Nat /\ n \in Nat /\ n \in 1 .. n /\ s[n] \in X
  OBVIOUS
<1>00. \A k \in 1 .. (n - 1) : k \in 1 .. n /\ k < n
  OBVIOUS
<1>1. \A i, j \in 1 .. Len(v) : i < j => \E k, l \in 1 .. n : k < l /\ v[i] = s[k] /\ v[j] = s[l]
  BY <1>00 DEF Ranked
<1>2. CASE s[n] \notin T
  BY <1>1, <1>2 DEF Ranked
<1>3. CASE s[n] \in T
  <2> DEFINE w == Append(v, s[n])
  <2>1. /\ Len(w) = Len(v) + 1 /\ \A i \in 1 .. Len(v) : w[i] = v[i]
        /\ w[Len(v) + 1] = s[n]
    BY <1>0, AppendOk
  <2> HIDE DEF w
  <2>2. ASSUME NEW i \in 1 .. Len(w), NEW j \in 1 .. Len(w), i < j
        PROVE  \E k, l \in 1 .. n : k < l /\ w[i] = s[k] /\ w[j] = s[l]
    <3>1. i \in 1 .. Len(v) /\ (j = Len(v) + 1 \/ j \in 1 .. Len(v))
      BY <1>0, <2>1, <2>2
    <3>2. CASE j = Len(v) + 1
      <4>1. PICK k \in 1 .. (n - 1) : v[i] = s[k]
        BY <3>1 DEF Filtered
      <4>2. k \in 1 .. n /\ k < n /\ w[i] = s[k] /\ w[j] = s[n]
        BY <1>00, <2>1, <3>1, <3>2, <4>1
      <4> QED BY <1>0, <4>2
    <3>3. CASE j \in 1 .. Len(v)
      BY <1>1, <2>1, <2>2, <3>1, <3>3
    <3> QED BY <3>1, <3>2, <3>3
  <2> QED BY <1>3, <2>2 DEF Ranked, w
<1> QED BY <1>2, <1>3

\* A filter returns the members in their order.
LEMMA AmongLoop ==
    ASSUME NEW X, NEW s \in Seq(X), NEW T
    PROVE  among(s, T) \in Seq(X) /\ Filtered(among(s, T), s, T, Len(s)) /\ Ranked(among(s, T), s, Len(s))
<1> DEFINE N == Len(s)
           none == <<>>
           S == Seq(X)
           step(v, n) == IF s[n] \in T THEN Append(v, s[n]) ELSE v
<1>1. N \in Nat /\ \A n \in 1 .. N : s[n] \in X
  OBVIOUS
<1>2. none \in S
  OBVIOUS
<1>3. ASSUME NEW n \in 1 .. N, NEW v \in S PROVE step(v, n) \in S
  BY <1>1, AppendOk
<1> DEFINE Looped(f) == f = [n \in 0 .. N |-> IF n = 0 THEN none ELSE step(f[n - 1], n)]
           up == CHOOSE f : Looped(f)
<1>7. PICK g : Looped(g) /\ g \in [0 .. N -> S]
  <2> DEFINE turn == [n \in 1 .. N |-> [v \in S |-> step(v, n)]]
  <2> HIDE DEF N, step, S, none
  <2>1. \A n \in 1 .. N, v \in S : turn[n][v] = step(v, n)
    OBVIOUS
  <2>2. \A n \in 1 .. N, v \in S : turn[n][v] \in S
    BY <1>3, <2>1
  <2> HIDE DEF turn
  <2>3. PICK f : Loop(f, N, none, turn)
    BY <1>1, LoopExists
  <2>4. f \in [0 .. N -> S] /\ f[0] = none /\ \A n \in 1 .. N : f[n] = turn[n][f[n - 1]]
    BY <1>1, <1>2, <2>2, <2>3, LoopTyped
  <2>5. \A n \in 1 .. N : n - 1 \in 0 .. N
    BY <1>1
  <2>6. \A n \in 1 .. N : f[n] = step(f[n - 1], n)
    BY <2>1, <2>4, <2>5
  <2>7. ASSUME NEW n \in 0 .. N PROVE f[n] = IF n = 0 THEN none ELSE step(f[n - 1], n)
    <3>1. n = 0 \/ n \in 1 .. N
      BY <1>1
    <3>2. CASE n = 0
      BY <2>4, <3>2
    <3>3. CASE n \in 1 .. N
      <4>1. n # 0
        BY <1>1, <3>3
      <4> QED BY <2>6, <3>3, <4>1
    <3> QED BY <3>1, <3>2, <3>3
  <2>8. f = [n \in 0 .. N |-> f[n]]
    BY <2>4
  <2>9. Looped(f)
    BY <2>7, <2>8
  <2> QED BY <2>4, <2>9
<1>8. among(s, T) = up[N]
  BY DEF among
<1>9. Looped(up)
  <2> HIDE DEF Looped
  <2> QED BY <1>7
<1>10. up[0] = none /\ \A n \in 1 .. N : up[n] = step(up[n - 1], n)
  <2> HIDE DEF up, step, N, none
  <2> QED BY <1>1, <1>9
<1> HIDE DEF up, Looped
<1> DEFINE P == {n \in 0 .. N : up[n] \in S /\ Filtered(up[n], s, T, n) /\ Ranked(up[n], s, n)}
<1>11. 0 \in P
  <2>1. Len(none) = 0 /\ 1 .. 0 = {}
    OBVIOUS
  <2> HIDE DEF none
  <2>2. Filtered(none, s, T, 0) /\ Ranked(none, s, 0)
    BY <2>1 DEF Filtered, Ranked
  <2> QED BY <1>1, <1>2, <1>10, <2>2
<1>12. ASSUME NEW n \in 1 .. N, n - 1 \in P PROVE n \in P
  <2>1. n \in 0 .. N /\ up[n] = step(up[n - 1], n)
    <3> HIDE DEF step
    <3> QED BY <1>1, <1>10
  <2>2. up[n - 1] \in S /\ Filtered(up[n - 1], s, T, n - 1) /\ Ranked(up[n - 1], s, n - 1)
    BY <1>12
  <2>3. Filtered(step(up[n - 1], n), s, T, n)
    BY <2>2, FilteredTurn
  <2>30. Ranked(step(up[n - 1], n), s, n)
    BY <2>2, RankedTurn
  <2>4. step(up[n - 1], n) \in S
    <3> HIDE DEF step, S
    <3> QED BY <1>3, <2>2
  <2> HIDE DEF step, S, N
  <2> QED BY <2>1, <2>3, <2>30, <2>4
<1>13. N \in P
  <2>1. 0 .. N \subseteq P
    <3> HIDE DEF P, N
    <3> QED BY <1>1, <1>11, <1>12, InductionUpTo
  <2>2. N \in 0 .. N
    BY <1>1
  <2> HIDE DEF P, N
  <2> QED BY <2>1, <2>2
<1> QED BY <1>8, <1>13

\* x comes before y.
Before(w, x, y) == \E i, j \in 1 .. Len(w) : i < j /\ w[i] = x /\ w[j] = y

\* What comes before or after is there.
LEMMA BeforeIn ==
    ASSUME NEW X, NEW w \in Seq(X), NEW x, NEW y, Before(w, x, y)
    PROVE  x \in ToSet(w) /\ y \in ToSet(w)
  BY DEF Before, ToSet

\* Members of a list.
LEMMA ToSetOk ==
    ASSUME NEW X, NEW w \in Seq(X)
    PROVE  /\ \A x : x \in ToSet(w) <=> \E i \in 1 .. Len(w) : w[i] = x
           /\ IsInjective(w) <=> \A i, j \in 1 .. Len(w) : w[i] = w[j] => i = j
<1>1. DOMAIN w = 1 .. Len(w)
  OBVIOUS
<1> QED BY <1>1 DEF ToSet, IsInjective

\* A filter keeps members, order and that each is there once.
LEMMA AmongOk ==
    ASSUME NEW X, NEW s \in Seq(X), NEW T, NEW w, w = among(s, T)
    PROVE  /\ w \in Seq(X) /\ ToSet(w) = ToSet(s) \cap T
           /\ IsInjective(s) => IsInjective(w)
           /\ \A x, y : Before(w, x, y) => Before(s, x, y)
<1>1. w \in Seq(X) /\ Filtered(w, s, T, Len(s)) /\ Ranked(w, s, Len(s))
  BY AmongLoop
<1>2. ToSet(w) = ToSet(s) \cap T
  <2>0. \A x : x \in ToSet(s) <=> \E i \in 1 .. Len(s) : s[i] = x
    BY ToSetOk
  <2>00. \A x : x \in ToSet(w) <=> \E i \in 1 .. Len(w) : w[i] = x
    BY <1>1, ToSetOk
  <2>1. ASSUME NEW x, x \in ToSet(w) PROVE x \in ToSet(s) /\ x \in T
    <3>1. PICK i \in 1 .. Len(w) : w[i] = x
      BY <2>00, <2>1
    <3>2. \E k \in 1 .. Len(s) : s[k] \in T /\ w[i] = s[k]
      BY <1>1 DEF Filtered
    <3> QED BY <2>0, <3>1, <3>2
  <2>2. ASSUME NEW x, x \in ToSet(s), x \in T PROVE x \in ToSet(w)
    <3>1. PICK k \in 1 .. Len(s) : s[k] = x
      BY <2>0, <2>2
    <3>2. \E i \in 1 .. Len(w) : w[i] = s[k]
      BY <1>1, <2>2, <3>1 DEF Filtered
    <3> QED BY <2>00, <3>1, <3>2
  <2> QED BY <2>1, <2>2
<1>3. IsInjective(s) => IsInjective(w)
  <2>1. IsInjective(s) => \A k, l \in 1 .. Len(s) : s[k] = s[l] => k = l
    BY ToSetOk
  <2>2. (\A i, j \in 1 .. Len(w) : w[i] = w[j] => i = j) => IsInjective(w)
    BY <1>1, ToSetOk
  <2> QED BY <1>1, <2>1, <2>2 DEF Filtered
<1>4. ASSUME NEW x, NEW y, Before(w, x, y) PROVE Before(s, x, y)
  <2>1. PICK i, j \in 1 .. Len(w) : i < j /\ w[i] = x /\ w[j] = y
    BY <1>4 DEF Before
  <2>2. PICK k, l \in 1 .. Len(s) : k < l /\ w[i] = s[k] /\ w[j] = s[l]
    BY <1>1, <2>1 DEF Ranked
  <2> QED BY <2>1, <2>2 DEF Before
<1> QED BY <1>1, <1>2, <1>3, <1>4

\* What w is as the list s and then the list t.
Joined(s, t, w) ==
    /\ ToSet(w) = ToSet(s) \cup ToSet(t)
    /\ IsInjective(s) /\ IsInjective(t) /\ ToSet(s) \cap ToSet(t) = {} => IsInjective(w)
    /\ \A x, y : Before(w, x, y) => \/ Before(s, x, y) \/ Before(t, x, y)
                                    \/ x \in ToSet(s) /\ y \in ToSet(t)

\* One list and then another.
LEMMA JoinOk ==
    ASSUME NEW X, NEW s \in Seq(X), NEW t \in Seq(X), NEW w, w = s \o t
    PROVE  w \in Seq(X) /\ Joined(s, t, w)
<1>1. w \in Seq(X) /\ Len(w) = Len(s) + Len(t) /\ Len(s) \in Nat /\ Len(t) \in Nat
  BY ConcatProperties
<1>2. \A i \in 1 .. Len(s) : w[i] = s[i] /\ i \in 1 .. Len(w)
  BY <1>1, ConcatProperties
<1>3. \A i \in 1 .. Len(t) : w[Len(s) + i] = t[i] /\ Len(s) + i \in 1 .. Len(w)
  <2>1. \A i \in 1 .. Len(t) : Len(s) + i \in 1 .. Len(w) /\ Len(s) + i > Len(s) /\ (Len(s) + i) - Len(s) = i
    BY <1>1
  <2> QED BY <1>1, <2>1, ConcatProperties
<1>4. \A i \in 1 .. Len(w) : i \in 1 .. Len(s) \/ (i - Len(s) \in 1 .. Len(t) /\ i = Len(s) + (i - Len(s)))
  BY <1>1
<1>5. \A i \in 1 .. Len(w) : \/ i \in 1 .. Len(s) /\ w[i] = s[i]
                             \/ i - Len(s) \in 1 .. Len(t) /\ w[i] = t[i - Len(s)]
  BY <1>2, <1>3, <1>4
<1>6. ToSet(w) = ToSet(s) \cup ToSet(t)
  <2>0. \A x : x \in ToSet(s) <=> \E i \in 1 .. Len(s) : s[i] = x
    BY ToSetOk
  <2>01. \A x : x \in ToSet(t) <=> \E i \in 1 .. Len(t) : t[i] = x
    BY ToSetOk
  <2>02. \A x : x \in ToSet(w) <=> \E i \in 1 .. Len(w) : w[i] = x
    BY <1>1, ToSetOk
  <2>1. \A x : x \in ToSet(w) => x \in ToSet(s) \/ x \in ToSet(t)
    BY <1>5, <2>0, <2>01, <2>02
  <2>2. \A x : x \in ToSet(s) => x \in ToSet(w)
    BY <1>2, <2>0, <2>02
  <2>3. \A x : x \in ToSet(t) => x \in ToSet(w)
    BY <1>3, <2>01, <2>02
  <2> QED BY <2>1, <2>2, <2>3
<1>7. ASSUME IsInjective(s), IsInjective(t), ToSet(s) \cap ToSet(t) = {} PROVE IsInjective(w)
  <2>1. /\ \A k, l \in 1 .. Len(s) : s[k] = s[l] => k = l
        /\ \A k, l \in 1 .. Len(t) : t[k] = t[l] => k = l
        /\ \A k \in 1 .. Len(s), l \in 1 .. Len(t) : s[k] # t[l]
    BY <1>7, ToSetOk
  <2>2. \A i, j \in 1 .. Len(w) : i - Len(s) = j - Len(s) => i = j
    BY <1>1
  <2>3. \A i, j \in 1 .. Len(w) : w[i] = w[j] => i = j
    BY <1>5, <2>1, <2>2
  <2> QED BY <1>1, <2>3, ToSetOk
<1>8. ASSUME NEW x, NEW y, Before(w, x, y)
      PROVE  Before(s, x, y) \/ Before(t, x, y) \/ (x \in ToSet(s) /\ y \in ToSet(t))
  <2>1. PICK i, j \in 1 .. Len(w) : i < j /\ w[i] = x /\ w[j] = y
    BY <1>8 DEF Before
  <2>2. CASE j \in 1 .. Len(s)
    <3>1. i \in 1 .. Len(s)
      BY <1>1, <2>1, <2>2
    <3> QED BY <1>2, <2>1, <2>2, <3>1 DEF Before
  <2>3. CASE i \in 1 .. Len(s) /\ j \notin 1 .. Len(s)
    <3>1. j - Len(s) \in 1 .. Len(t) /\ t[j - Len(s)] = y /\ s[i] = x
      BY <1>2, <1>5, <2>1, <2>3
    <3> QED BY <2>3, <3>1, ToSetOk
  <2>4. CASE i \notin 1 .. Len(s) /\ j \notin 1 .. Len(s)
    <3>1. /\ i - Len(s) \in 1 .. Len(t) /\ t[i - Len(s)] = x
          /\ j - Len(s) \in 1 .. Len(t) /\ t[j - Len(s)] = y
      BY <1>5, <2>1, <2>4
    <3>2. i - Len(s) < j - Len(s)
      BY <1>1, <2>1
    <3> QED BY <3>1, <3>2 DEF Before
  <2> QED BY <2>2, <2>3, <2>4
<1> QED BY <1>1, <1>6, <1>7, <1>8 DEF Joined

\* Artifacts as the store keeps them.
RvArt == [kind : RvKind, names : SUBSET RvId, selected : SUBSET RvId, rejected : SUBSET RvId, call : {1, 2}]

\* What one call recorded, of some artifacts.
LEMMA RecordedByOk ==
    ASSUME rvArts \in Seq(RvArt), NEW call, NEW arts, NEW w, w = recordedBy(call, arts)
    PROVE  w \in Seq(DOMAIN rvArts) /\ ToSet(w) = arts \cap Of(call) /\ IsInjective(w)
<1> DEFINE D == DOMAIN rvArts
<1>1. PICK n \in Nat : D = 1 .. n
  <2>1. Len(rvArts) \in Nat /\ D = 1 .. Len(rvArts)
    OBVIOUS
  <2> QED BY <2>1
<1>2. PICK s : s = [a \in D |-> a]
  OBVIOUS
<1> HIDE DEF D
<1>3. s \in Seq(D) /\ Len(s) = n /\ \A i \in 1 .. n : s[i] = i
  BY <1>1, <1>2
<1>4. ToSet(s) = D
  <2>1. \A x : x \in ToSet(s) <=> \E i \in 1 .. Len(s) : s[i] = x
    BY <1>3, ToSetOk
  <2>2. \A x : x \in ToSet(s) <=> x \in 1 .. n
    BY <1>3, <2>1
  <2> QED BY <1>1, <2>2
<1>5. IsInjective(s)
  <2>1. \A i, j \in 1 .. Len(s) : s[i] = s[j] => i = j
    BY <1>3
  <2> QED BY <1>3, <2>1, ToSetOk
<1>6. w = among(s, arts \cap Of(call))
  BY <1>2 DEF recordedBy, D
<1>7. w \in Seq(D) /\ ToSet(w) = ToSet(s) \cap (arts \cap Of(call)) /\ IsInjective(w)
  BY <1>3, <1>5, <1>6, AmongOk
<1>8. Of(call) \subseteq D
  BY DEF Of, D
<1> QED BY <1>4, <1>7, <1>8 DEF D

\* Every artifact is of one of the two calls.
LEMMA OfOk ==
    ASSUME rvArts \in Seq(RvArt)
    PROVE  Of(1) \cup Of(2) = DOMAIN rvArts /\ Of(1) \cap Of(2) = {}
<1>1. \A a \in DOMAIN rvArts : rvArts[a] \in RvArt
  OBVIOUS
<1>2. \A a \in DOMAIN rvArts : rvArts[a].call = 1 \/ rvArts[a].call = 2
  BY <1>1 DEF RvArt
<1>3. /\ Of(1) = {a \in DOMAIN rvArts : rvArts[a].call = 1}
      /\ Of(2) = {a \in DOMAIN rvArts : rvArts[a].call = 2}
  BY DEF Of
<1>4. 1 # 2
  OBVIOUS
<1> QED BY <1>2, <1>3, <1>4

\* The order of the index.
LEMMA InIndexOrderOk ==
    ASSUME rvArts \in Seq(RvArt), NEW arts, NEW w, w = InIndexOrder(arts)
    PROVE  /\ w \in Seq(DOMAIN rvArts) /\ ToSet(w) = arts \cap DOMAIN rvArts /\ IsInjective(w)
           /\ \A x, y : Before(w, x, y) => (y \in Of(1) => x \in Of(1))
<1>1. PICK s, t : s = recordedBy(1, arts) /\ t = recordedBy(2, arts)
  OBVIOUS
<1>2. w = s \o t
  BY <1>1 DEF InIndexOrder
<1>3. s \in Seq(DOMAIN rvArts) /\ ToSet(s) = arts \cap Of(1) /\ IsInjective(s)
  BY <1>1, RecordedByOk
<1>4. t \in Seq(DOMAIN rvArts) /\ ToSet(t) = arts \cap Of(2) /\ IsInjective(t)
  BY <1>1, RecordedByOk
<1>5. ToSet(s) \cap ToSet(t) = {} /\ ToSet(s) \cup ToSet(t) = arts \cap DOMAIN rvArts
  BY <1>3, <1>4, OfOk
<1>6. /\ w \in Seq(DOMAIN rvArts) /\ ToSet(w) = ToSet(s) \cup ToSet(t)
      /\ IsInjective(s) /\ IsInjective(t) /\ ToSet(s) \cap ToSet(t) = {} => IsInjective(w)
      /\ \A x, y : Before(w, x, y) => \/ Before(s, x, y) \/ Before(t, x, y)
                                      \/ x \in ToSet(s) /\ y \in ToSet(t)
  <2>1. w \in Seq(DOMAIN rvArts) /\ Joined(s, t, w)
    BY <1>2, <1>3, <1>4, JoinOk
  <2> QED BY <2>1 DEF Joined
<1>7. ASSUME NEW x, NEW y, Before(w, x, y), y \in Of(1) PROVE x \in Of(1)
  <2>1. CASE Before(s, x, y)
    BY <1>3, <2>1, BeforeIn
  <2>2. y \notin ToSet(t)
    BY <1>4, <1>7, OfOk
  <2>3. ~Before(t, x, y)
    BY <1>4, <2>2, BeforeIn
  <2> QED BY <1>3, <1>6, <1>7, <2>1, <2>2, <2>3
<1> QED BY <1>3, <1>4, <1>5, <1>6, <1>7

\* The artifacts of I come first, those of the first call before all.
InTurn(order, I) ==
    \A x, y : Before(order, x, y) => (y \in I => x \in I) /\ (y \in I /\ y \in Of(1) => x \in Of(1))

\* The order of a snapshot.
LEMMA SnapOrderOk ==
    ASSUME rvArts \in Seq(RvArt), rvIndex \subseteq DOMAIN rvArts,
           NEW w, w = InIndexOrder(rvIndex) \o InIndexOrder(Of(1) \ rvIndex)
    PROVE  /\ w \in Seq(DOMAIN rvArts) /\ rvIndex \subseteq ToSet(w) /\ IsInjective(w)
           /\ InTurn(w, rvIndex)
<1>1. PICK s, t : s = InIndexOrder(rvIndex) /\ t = InIndexOrder(Of(1) \ rvIndex)
  OBVIOUS
<1>3. /\ s \in Seq(DOMAIN rvArts) /\ ToSet(s) = rvIndex \cap DOMAIN rvArts /\ IsInjective(s)
      /\ \A x, y : Before(s, x, y) => (y \in Of(1) => x \in Of(1))
  BY <1>1, InIndexOrderOk
<1>4. /\ t \in Seq(DOMAIN rvArts) /\ ToSet(t) = (Of(1) \ rvIndex) \cap DOMAIN rvArts /\ IsInjective(t)
  BY <1>1, InIndexOrderOk
<1>5. ToSet(s) = rvIndex /\ ToSet(s) \cap ToSet(t) = {}
  BY <1>3, <1>4
<1>6. /\ w \in Seq(DOMAIN rvArts) /\ ToSet(w) = ToSet(s) \cup ToSet(t)
      /\ IsInjective(s) /\ IsInjective(t) /\ ToSet(s) \cap ToSet(t) = {} => IsInjective(w)
      /\ \A x, y : Before(w, x, y) => \/ Before(s, x, y) \/ Before(t, x, y)
                                      \/ x \in ToSet(s) /\ y \in ToSet(t)
  <2>1. w \in Seq(DOMAIN rvArts) /\ Joined(s, t, w)
    BY <1>1, <1>3, <1>4, JoinOk
  <2> QED BY <2>1 DEF Joined
<1>7. ASSUME NEW x, NEW y, Before(w, x, y), y \in rvIndex PROVE x \in rvIndex /\ (y \in Of(1) => x \in Of(1))
  <2>1. y \notin ToSet(t)
    BY <1>5, <1>7
  <2>2. ~Before(t, x, y)
    BY <1>4, <2>1, BeforeIn
  <2>3. Before(s, x, y)
    BY <1>6, <1>7, <2>1, <2>2
  <2>4. x \in ToSet(s)
    BY <1>3, <2>3, BeforeIn
  <2> QED BY <1>3, <1>5, <2>3, <2>4
<1> QED BY <1>3, <1>4, <1>5, <1>6, <1>7 DEF InTurn

\* What a view needs of the snapshot it is built over.
SnapOk ==
    /\ rvSnap.indexed \subseteq DOMAIN rvArts /\ rvSnap.order \in Seq(DOMAIN rvArts)
    /\ IsInjective(rvSnap.order) /\ rvSnap.indexed \subseteq ToSet(rvSnap.order)
    /\ InTurn(rvSnap.order, rvSnap.indexed)

\* The order of a view.
LEMMA ViewOrderOk ==
    ASSUME rvArts \in Seq(RvArt), rvIndex \subseteq DOMAIN rvArts, SnapOk, NEW w, w = viewOrder
    PROVE  /\ w \in Seq(DOMAIN rvArts) /\ ToSet(w) = rvIndex \cup rvSnap.indexed /\ IsInjective(w)
           /\ InTurn(w, rvSnap.indexed)
<1>1. PICK s, t, j, I : /\ s = rvSnap.order /\ t = InIndexOrder(rvIndex \ ToSet(rvSnap.order)) /\ j = s \o t
                        /\ I = rvSnap.indexed
  OBVIOUS
<1>2. w = among(j, rvIndex \cup I)
  BY <1>1 DEF viewOrder
<1>3. /\ s \in Seq(DOMAIN rvArts) /\ IsInjective(s) /\ I \subseteq ToSet(s) /\ I \subseteq DOMAIN rvArts
      /\ InTurn(s, I)
  BY <1>1 DEF SnapOk
<1>4. t \in Seq(DOMAIN rvArts) /\ ToSet(t) = (rvIndex \ ToSet(s)) \cap DOMAIN rvArts /\ IsInjective(t)
  BY <1>1, InIndexOrderOk
<1>5. ToSet(s) \cap ToSet(t) = {} /\ rvIndex \cup I \subseteq ToSet(s) \cup ToSet(t)
  BY <1>3, <1>4
<1>6. /\ j \in Seq(DOMAIN rvArts) /\ ToSet(j) = ToSet(s) \cup ToSet(t)
      /\ IsInjective(s) /\ IsInjective(t) /\ ToSet(s) \cap ToSet(t) = {} => IsInjective(j)
      /\ \A x, y : Before(j, x, y) => \/ Before(s, x, y) \/ Before(t, x, y)
                                      \/ x \in ToSet(s) /\ y \in ToSet(t)
  <2>1. j \in Seq(DOMAIN rvArts) /\ Joined(s, t, j)
    BY <1>1, <1>3, <1>4, JoinOk
  <2> QED BY <2>1 DEF Joined
<1>7. ASSUME NEW x, NEW y, Before(j, x, y), y \in I PROVE Before(s, x, y)
  <2>1. y \notin ToSet(t)
    BY <1>3, <1>5, <1>7
  <2>2. ~Before(t, x, y)
    BY <1>4, <2>1, BeforeIn
  <2> QED BY <1>6, <1>7, <2>1, <2>2
<1>8. /\ w \in Seq(DOMAIN rvArts) /\ ToSet(w) = ToSet(j) \cap (rvIndex \cup I)
      /\ IsInjective(j) => IsInjective(w)
      /\ \A x, y : Before(w, x, y) => Before(j, x, y)
  BY <1>2, <1>6, AmongOk
<1>9. InTurn(w, I)
  BY <1>3, <1>7, <1>8 DEF InTurn
<1> QED BY <1>1, <1>3, <1>4, <1>5, <1>6, <1>8, <1>9

\* The sources after all the artifacts of an order.
LEMMA IngestAllOk ==
    ASSUME NEW D, NEW order \in Seq(D), \A a \in D : GoodArt(rvArts[a])
    PROVE  Shown(ingestAll(order), ToSet(order))
<1> DEFINE N == Len(order)
           none == [s \in {} |-> NoFlags]
           S == RvSources
           step(v, n) == ingestArtifact(v, order[n])
<1>1. N \in Nat /\ \A n \in 1 .. N : order[n] \in D
  OBVIOUS
<1>2. none \in S
  <2>1. DOMAIN none = {} /\ none = [s \in DOMAIN none |-> none[s]]
    OBVIOUS
  <2> HIDE DEF none
  <2>2. DOMAIN none \subseteq RvId \cup {Nameless} /\ \A s \in DOMAIN none : none[s] \in Flags
    BY <2>1
  <2> QED BY <2>1, <2>2, SourcesAre
<1>3. ASSUME NEW n \in 1 .. N, NEW v \in S PROVE step(v, n) \in S
  <2>1. GoodArt(rvArts[order[n]])
    BY <1>1
  <2>2. Changed(v, ingestArtifact(v, order[n]), order[n])
    BY <2>1, IngestOk
  <2> QED BY <2>2 DEF Changed
<1> DEFINE Looped(f) == f = [n \in 0 .. N |-> IF n = 0 THEN none ELSE step(f[n - 1], n)]
           up == CHOOSE f : Looped(f)
<1>7. PICK g : Looped(g) /\ g \in [0 .. N -> S]
  <2> DEFINE turn == [n \in 1 .. N |-> [v \in S |-> step(v, n)]]
  <2> HIDE DEF N, step, S, none
  <2>1. \A n \in 1 .. N, v \in S : turn[n][v] = step(v, n)
    OBVIOUS
  <2>2. \A n \in 1 .. N, v \in S : turn[n][v] \in S
    BY <1>3, <2>1
  <2> HIDE DEF turn
  <2>3. PICK f : Loop(f, N, none, turn)
    BY <1>1, LoopExists
  <2>4. f \in [0 .. N -> S] /\ f[0] = none /\ \A n \in 1 .. N : f[n] = turn[n][f[n - 1]]
    BY <1>1, <1>2, <2>2, <2>3, LoopTyped
  <2>5. \A n \in 1 .. N : n - 1 \in 0 .. N
    BY <1>1
  <2>6. \A n \in 1 .. N : f[n] = step(f[n - 1], n)
    BY <2>1, <2>4, <2>5
  <2>7. ASSUME NEW n \in 0 .. N PROVE f[n] = IF n = 0 THEN none ELSE step(f[n - 1], n)
    <3>1. n = 0 \/ n \in 1 .. N
      BY <1>1
    <3>2. CASE n = 0
      BY <2>4, <3>2
    <3>3. CASE n \in 1 .. N
      <4>1. n # 0
        BY <1>1, <3>3
      <4> QED BY <2>6, <3>3, <4>1
    <3> QED BY <3>1, <3>2, <3>3
  <2>8. f = [n \in 0 .. N |-> f[n]]
    BY <2>4
  <2>9. Looped(f)
    BY <2>7, <2>8
  <2> QED BY <2>4, <2>9
<1>8. ingestAll(order) = up[N]
  BY DEF ingestAll
<1>9. Looped(up)
  <2> HIDE DEF Looped
  <2> QED BY <1>7
<1>10. up[0] = none /\ \A n \in 1 .. N : up[n] = step(up[n - 1], n)
  <2> HIDE DEF up, step, N, none
  <2> QED BY <1>1, <1>9
<1> HIDE DEF up, Looped
<1> DEFINE P == {n \in 0 .. N : up[n] \in S /\ Shown(up[n], {order[k] : k \in 1 .. n})}
<1>11. 0 \in P
  <2>1. DOMAIN none = {} /\ 1 .. 0 = {}
    OBVIOUS
  <2> HIDE DEF none
  <2>2. NamedBy({}) = {}
    BY DEF NamedBy
  <2>3. Shown(none, {})
    BY <1>2, <2>1, <2>2 DEF Shown
  <2>4. {order[k] : k \in 1 .. 0} = {}
    BY <2>1
  <2>5. up[0] = none
    BY <1>10
  <2>6. up[0] \in S /\ Shown(up[0], {order[k] : k \in 1 .. 0})
    BY <1>2, <2>3, <2>4, <2>5
  <2> HIDE DEF S, N
  <2> QED BY <1>1, <2>6
<1>12. ASSUME NEW n \in 1 .. N, n - 1 \in P PROVE n \in P
  <2>1. n \in 0 .. N /\ up[n] = step(up[n - 1], n)
    <3> HIDE DEF step
    <3> QED BY <1>1, <1>10
  <2>2. up[n - 1] \in S /\ Shown(up[n - 1], {order[k] : k \in 1 .. (n - 1)})
    BY <1>12
  <2>3. Shown(step(up[n - 1], n), {order[k] : k \in 1 .. n})
    <3>1. PICK B, a, v : B = {order[k] : k \in 1 .. (n - 1)} /\ a = order[n] /\ v = up[n - 1]
      OBVIOUS
    <3>2. GoodArt(rvArts[a]) /\ \A b \in B : GoodArt(rvArts[b])
      <4>1. \A k \in 1 .. (n - 1) : k \in 1 .. N
        BY <1>1
      <4> QED BY <1>1, <3>1, <4>1
    <3>3. {order[k] : k \in 1 .. n} = B \cup {a}
      <4>1. n \in 1 .. n /\ \A k \in 1 .. n : k = n \/ k \in 1 .. (n - 1)
        BY <1>1
      <4>2. \A k \in 1 .. (n - 1) : k \in 1 .. n
        BY <1>1
      <4> QED BY <3>1, <4>1, <4>2
    <3>4. Changed(v, step(v, n), a)
      BY <2>2, <3>1, <3>2, IngestOk
    <3>5. PICK x : x = step(v, n)
      OBVIOUS
    <3>6. Shown(v, B) /\ Changed(v, x, a)
      BY <2>2, <3>1, <3>4, <3>5
    <3>7. Shown(x, B \cup {a})
      BY <3>2, <3>6, ChangedShown
    <3> HIDE DEF step
    <3> QED BY <3>1, <3>3, <3>5, <3>7
  <2>4. step(up[n - 1], n) \in S
    <3> HIDE DEF step, S
    <3> QED BY <1>3, <2>2
  <2> HIDE DEF step, S, N
  <2> QED BY <2>1, <2>3, <2>4
<1>13. N \in P
  <2>1. 0 .. N \subseteq P
    <3> HIDE DEF P, N
    <3> QED BY <1>1, <1>11, <1>12, InductionUpTo
  <2>2. N \in 0 .. N
    BY <1>1
  <2> HIDE DEF P, N
  <2> QED BY <2>1, <2>2
<1>14. {order[k] : k \in 1 .. N} = ToSet(order)
  <2>1. DOMAIN order = 1 .. N
    OBVIOUS
  <2> HIDE DEF N
  <2> QED BY <2>1 DEF ToSet
<1> HIDE DEF N
<1> QED BY <1>8, <1>13, <1>14

\* The last of some positions.
LEMMA MaxPosition ==
    ASSUME NEW N \in Nat, NEW T, T \subseteq 1 .. N, T # {}
    PROVE  Max(T) \in T /\ \A k \in T : k <= Max(T)
<1> DEFINE U == {N - k : k \in T}
<1>1. U \subseteq Nat /\ U # {}
  <2>1. PICK k \in T : TRUE
    OBVIOUS
  <2>2. N - k \in U
    OBVIOUS
  <2>3. ASSUME NEW i \in T PROVE N - i \in Nat
    <3>1. i \in 1 .. N
      OBVIOUS
    <3> QED BY <3>1
  <2> QED BY <2>2, <2>3
<1> HIDE DEF U
<1>2. PICK m \in U : \A k \in U : m <= k
  BY <1>1, LeastNat
<1>3. PICK x \in T : m = N - x
  BY DEF U
<1>4. ASSUME NEW y \in T PROVE x >= y
  <2>1. N - y \in U
    BY DEF U
  <2>2. N - x <= N - y
    BY <1>2, <1>3, <2>1
  <2>3. x \in Nat /\ y \in Nat
    OBVIOUS
  <2> QED BY <2>2, <2>3
<1>5. Max(T) \in T /\ \A y \in T : Max(T) >= y
  BY <1>4 DEF Max
<1>6. \A y \in T : y \in Nat
  OBVIOUS
<1> QED BY <1>5, <1>6

\* The brief that is shown is one of the artifacts, and no other comes after it.
LEMMA BriefViewOk ==
    ASSUME NEW D, NEW order \in Seq(D), NEW b \in ToSet(order), IsBrief(b)
    PROVE  /\ briefView(order) \in ToSet(order) /\ IsBrief(briefView(order))
           /\ b = briefView(order) \/ Before(order, b, briefView(order))
<1> DEFINE T == {k \in DOMAIN order : IsBrief(order[k])}
           N == Len(order)
<1>1. N \in Nat /\ DOMAIN order = 1 .. N
  OBVIOUS
<1>2. PICK k \in 1 .. N : order[k] = b
  BY ToSetOk
<1>3. T \subseteq 1 .. N /\ k \in T
  BY <1>1, <1>2
<1>4. briefView(order) = order[Max(T)]
  BY <1>3 DEF briefView
<1> HIDE DEF T
<1>5. PICK m : m = Max(T)
  OBVIOUS
<1>6. m \in T /\ k <= m
  BY <1>1, <1>3, <1>5, MaxPosition
<1>7. m \in 1 .. N /\ IsBrief(order[m])
  BY <1>1, <1>6 DEF T
<1>8. order[m] \in ToSet(order)
  BY <1>7, ToSetOk
<1>9. k = m \/ k < m
  BY <1>1, <1>6, <1>7
<1>10. order[k] = order[m] \/ Before(order, order[k], order[m])
  BY <1>2, <1>7, <1>9 DEF Before
<1> QED BY <1>2, <1>4, <1>5, <1>7, <1>8, <1>10

\* A list of artifacts grew, by those of the call that runs the plan.
Grew(A, B) ==
    /\ B \in Seq(RvArt) /\ DOMAIN A \subseteq DOMAIN B
    /\ \A a \in DOMAIN A : B[a] = A[a]
    /\ \A b \in DOMAIN B \ DOMAIN A : GoodArt(B[b]) /\ B[b].call = 1

\* By nothing.
LEMMA GrewSame == ASSUME NEW A \in Seq(RvArt) PROVE Grew(A, A)
  BY DEF Grew

\* By one.
LEMMA GrewOne ==
    ASSUME NEW A \in Seq(RvArt), NEW x \in RvArt, GoodArt(x), x.call = 1, NEW B, B = Append(A, x)
    PROVE  Grew(A, B)
<1>1. /\ B \in Seq(RvArt) /\ Len(B) = Len(A) + 1 /\ Len(A) \in Nat
      /\ \A i \in 1 .. Len(A) : B[i] = A[i]
      /\ B[Len(A) + 1] = x
  BY AppendOk
<1>2. DOMAIN A = 1 .. Len(A) /\ DOMAIN B = 1 .. Len(B)
  BY <1>1
<1>3. \A b \in 1 .. Len(B) : b \in 1 .. Len(A) \/ b = Len(A) + 1
  BY <1>1
<1>4. \A b \in 1 .. Len(A) : b \in 1 .. Len(B)
  BY <1>1
<1> QED BY <1>1, <1>2, <1>3, <1>4 DEF Grew

\* By two.
LEMMA GrewTwo ==
    ASSUME NEW A \in Seq(RvArt), NEW x \in RvArt, GoodArt(x), x.call = 1, NEW y \in RvArt, GoodArt(y), y.call = 1,
           NEW B, B = A \o <<x, y>>
    PROVE  Grew(A, B)
<1>0. <<x, y>> \in Seq(RvArt) /\ Len(<<x, y>>) = 2 /\ <<x, y>>[1] = x /\ <<x, y>>[2] = y
  OBVIOUS
<1>1. /\ B \in Seq(RvArt) /\ Len(B) = Len(A) + 2 /\ Len(A) \in Nat
      /\ \A i \in 1 .. Len(A) + 2 : B[i] = IF i <= Len(A) THEN A[i] ELSE <<x, y>>[i - Len(A)]
  BY <1>0, ConcatProperties
<1>2. DOMAIN A = 1 .. Len(A) /\ DOMAIN B = 1 .. Len(A) + 2
  BY <1>1
<1>3. \A b \in 1 .. Len(A) + 2 : b \in 1 .. Len(A) \/ b = Len(A) + 1 \/ b = Len(A) + 2
  BY <1>1
<1>4. \A b \in 1 .. Len(A) : b \in 1 .. Len(A) + 2 /\ b <= Len(A)
  BY <1>1
<1>5. \A b \in 1 .. Len(A) : B[b] = A[b]
  BY <1>1, <1>4
<1>6. B[Len(A) + 1] = x /\ B[Len(A) + 2] = y
  <2>1. /\ Len(A) + 1 \in 1 .. Len(A) + 2 /\ Len(A) + 2 \in 1 .. Len(A) + 2
        /\ ~(Len(A) + 1 <= Len(A)) /\ ~(Len(A) + 2 <= Len(A))
        /\ (Len(A) + 1) - Len(A) = 1 /\ (Len(A) + 2) - Len(A) = 2
    BY <1>1
  <2>2. B[Len(A) + 1] = <<x, y>>[(Len(A) + 1) - Len(A)] /\ B[Len(A) + 2] = <<x, y>>[(Len(A) + 2) - Len(A)]
    BY <1>1, <2>1
  <2> QED BY <1>0, <2>1, <2>2
<1> QED BY <1>1, <1>2, <1>3, <1>4, <1>5, <1>6 DEF Grew

\* The artifacts that the nodes record.
LEMMA ArtsOk ==
    /\ \A ids : ids \subseteq RvId =>
          SearchResults(ids) \in RvArt /\ GoodArt(SearchResults(ids)) /\ SearchResults(ids).call = 1
    /\ Snapshot \in RvArt /\ GoodArt(Snapshot) /\ Snapshot.call = 1
    /\ \A id \in RvId : Text(id) \in RvArt /\ GoodArt(Text(id)) /\ Text(id).call = 1
    /\ \A s, r : s \subseteq RvId /\ r \subseteq RvId =>
          SourceSet(s, r) \in RvArt /\ GoodArt(SourceSet(s, r)) /\ SourceSet(s, r).call = 1
    /\ Brief \in RvArt /\ GoodArt(Brief) /\ Brief.call = 1
  BY DEF SearchResults, Snapshot, Text, SourceSet, Brief, Recorded, RvArt, GoodArt, RvKind

\* The view, once it is built, says what the artifacts say.
ViewOk ==
    /\ rvView.built => ToSet(rvView.order) \subseteq DOMAIN rvArts
    /\ ViewMatchesArtifacts /\ BriefReadable

\* Artifacts stay as they are, so it stays true.
LEMMA ViewStays ==
    ASSUME ViewOk, rvView' = rvView, DOMAIN rvArts \subseteq DOMAIN rvArts',
           \A a \in DOMAIN rvArts : rvArts'[a] = rvArts[a]
    PROVE  ViewOk'
<1> SUFFICES ASSUME rvView.built PROVE ViewOk'
  BY DEF ViewOk, ViewMatchesArtifacts, BriefReadable
<1>1. ToSet(rvView.order) \subseteq DOMAIN rvArts /\ rvView.at \subseteq ToSet(rvView.order)
  BY DEF ViewOk, ViewMatchesArtifacts
<1>2. \A a \in ToSet(rvView.order) : rvArts'[a] = rvArts[a]
  BY <1>1
<1>3. (ToSet(rvView.order) \subseteq DOMAIN rvArts)'
  BY <1>1
<1>4. ViewMatchesArtifacts'
  <2> DEFINE legible == ToSet(rvView.order) \cap rvView.at
  <2>1. UNION {rvArts'[a].names : a \in legible} = UNION {rvArts[a].names : a \in legible}
    BY <1>2
  <2>2. /\ {a \in legible : rvArts'[a].kind = "source_text"} = {a \in legible : rvArts[a].kind = "source_text"}
        /\ {a \in legible : rvArts'[a].kind = "source_set"} = {a \in legible : rvArts[a].kind = "source_set"}
    BY <1>2
  <2>3. \A s : (\E a \in {b \in legible : rvArts[b].kind = "source_text"} : s \in rvArts'[a].names)
               <=> (\E a \in {b \in legible : rvArts[b].kind = "source_text"} : s \in rvArts[a].names)
    BY <1>2
  <2>4. \A s : (\E a \in {b \in legible : rvArts[b].kind = "source_set"} : s \in rvArts'[a].selected)
               <=> (\E a \in {b \in legible : rvArts[b].kind = "source_set"} : s \in rvArts[a].selected)
    BY <1>2
  <2>5. \A s : (\E a \in {b \in legible : rvArts[b].kind = "source_set"} : s \in rvArts'[a].rejected)
               <=> (\E a \in {b \in legible : rvArts[b].kind = "source_set"} : s \in rvArts[a].rejected)
    BY <1>2
  <2>6. ViewMatchesArtifacts
    BY DEF ViewOk
  <2> HIDE DEF legible
  <2>7. /\ IsInjective(rvView.order) /\ rvView.at \subseteq ToSet(rvView.order)
        /\ DOMAIN rvView.sources \ {Nameless} = UNION {rvArts[a].names : a \in legible}
        /\ \A s \in DOMAIN rvView.sources \ {Nameless} :
              /\ rvView.sources[s].extracted <=>
                    \E a \in {b \in legible : rvArts[b].kind = "source_text"} : s \in rvArts[a].names
              /\ rvView.sources[s].selected <=>
                    \E a \in {b \in legible : rvArts[b].kind = "source_set"} : s \in rvArts[a].selected
              /\ rvView.sources[s].rejected <=>
                    \E a \in {b \in legible : rvArts[b].kind = "source_set"} : s \in rvArts[a].rejected
    BY <2>6, Zenon DEF ViewMatchesArtifacts, legible
  <2>8. /\ IsInjective(rvView.order) /\ rvView.at \subseteq ToSet(rvView.order)
        /\ DOMAIN rvView.sources \ {Nameless} = UNION {rvArts'[a].names : a \in legible}
        /\ \A s \in DOMAIN rvView.sources \ {Nameless} :
              /\ rvView.sources[s].extracted <=>
                    \E a \in {b \in legible : rvArts'[b].kind = "source_text"} : s \in rvArts'[a].names
              /\ rvView.sources[s].selected <=>
                    \E a \in {b \in legible : rvArts'[b].kind = "source_set"} : s \in rvArts'[a].selected
              /\ rvView.sources[s].rejected <=>
                    \E a \in {b \in legible : rvArts'[b].kind = "source_set"} : s \in rvArts'[a].rejected
    BY <2>1, <2>2, <2>3, <2>4, <2>5, <2>7, Zenon
  <2> QED BY <2>8, Zenon DEF ViewMatchesArtifacts, legible
<1>5. BriefReadable'
  <2>1. \A a \in rvView.at : IsBrief(a)' <=> IsBrief(a)
    BY <1>1, <1>2 DEF IsBrief
  <2> QED BY <2>1 DEF ViewOk, BriefReadable
<1> QED BY <1>3, <1>4, <1>5 DEF ViewOk

\* The index and the snapshot: what the first call recorded is registered when it ends,
\* and all at once.
IndexInv ==
    /\ rvArts \in Seq(RvArt) /\ \A a \in DOMAIN rvArts : GoodArt(rvArts[a])
    /\ rvIndex \subseteq DOMAIN rvArts
    /\ \A a, b \in Of(2) : a = b
    /\ rvIndex \cap Of(1) # {} => rvPc = "ended" /\ Of(1) \subseteq rvIndex
    /\ SnapOk
    /\ rvSnap.indexed \cap Of(1) # {} => rvPc = "ended"
    /\ rvSnap.indexed \cap Of(1) # {} /\ rvIndex \cap Of(1) # {} => rvSnap.indexed \cap Of(2) \subseteq rvIndex
    /\ rvPc = "search" => rvArts = <<>>

\* What was said of calls stays true while artifacts are added.
LEMMA SnapStays ==
    ASSUME SnapOk, rvSnap' = rvSnap, DOMAIN rvArts \subseteq DOMAIN rvArts',
           \A a \in DOMAIN rvArts : rvArts'[a] = rvArts[a]
    PROVE  SnapOk'
<1> DEFINE I == rvSnap.indexed
           o == rvSnap.order
<1>1. /\ I \subseteq DOMAIN rvArts /\ o \in Seq(DOMAIN rvArts) /\ IsInjective(o)
      /\ I \subseteq ToSet(o) /\ InTurn(o, I)
  BY DEF SnapOk
<1> HIDE DEF I, o
<1>2. \A a \in DOMAIN rvArts : a \in Of(1) <=> a \in Of(1)'
  BY DEF Of
<1>3. o \in Seq(DOMAIN rvArts')
  <2>1. \A i \in 1 .. Len(o) : o[i] \in DOMAIN rvArts'
    BY <1>1
  <2> QED BY <1>1, <2>1
<1>4. ASSUME NEW x, NEW y, Before(o, x, y) PROVE (y \in I => x \in I) /\ (y \in I /\ y \in Of(1)' => x \in Of(1)')
  <2>1. x \in ToSet(o)
    BY <1>1, <1>4, BeforeIn
  <2>2. x \in DOMAIN rvArts
    <3>1. PICK i \in 1 .. Len(o) : o[i] = x
      BY <1>1, <2>1, ToSetOk
    <3> QED BY <1>1, <3>1
  <2>3. (y \in I => x \in I) /\ (y \in I /\ y \in Of(1) => x \in Of(1))
    BY <1>1, <1>4 DEF InTurn
  <2> QED BY <1>1, <1>2, <2>2, <2>3
<1>5. I' = I /\ o' = o
  BY DEF I, o
<1>6. InTurn(o, I)'
  BY <1>4, <1>5 DEF InTurn
<1>7. I' \subseteq DOMAIN rvArts' /\ I' \subseteq ToSet(o')
  BY <1>1, <1>5
<1>8. o' \in Seq(DOMAIN rvArts') /\ IsInjective(o')
  BY <1>1, <1>3, <1>5
<1> QED BY <1>6, <1>7, <1>8 DEF SnapOk, I, o

\* While the nodes work, nothing of theirs is in the index.
LEMMA IndexGrows ==
    ASSUME IndexInv, ViewOk, Grew(rvArts, rvArts'), rvPc # "ended", rvPc' # "search",
           rvIndex' = rvIndex, rvSnap' = rvSnap, rvView' = rvView
    PROVE  IndexInv' /\ ViewOk'
<1>1. /\ rvArts' \in Seq(RvArt) /\ DOMAIN rvArts \subseteq DOMAIN rvArts'
      /\ \A a \in DOMAIN rvArts : rvArts'[a] = rvArts[a]
      /\ \A b \in DOMAIN rvArts' \ DOMAIN rvArts : GoodArt(rvArts'[b]) /\ rvArts'[b].call = 1
  BY DEF Grew
<1>2. \A a \in DOMAIN rvArts' : GoodArt(rvArts'[a])
  BY <1>1 DEF IndexInv
<1>3. Of(2)' = Of(2) /\ Of(1)' \cap DOMAIN rvArts = Of(1)
  BY <1>1 DEF Of
<1>4. SnapOk'
  BY <1>1, SnapStays DEF IndexInv
<1>5. ViewOk'
  BY <1>1, ViewStays
<1>6. rvIndex \cap Of(1) = {} /\ rvSnap.indexed \cap Of(1) = {}
  BY DEF IndexInv
<1>7. rvIndex \subseteq DOMAIN rvArts /\ rvSnap.indexed \subseteq DOMAIN rvArts
  BY DEF IndexInv, SnapOk
<1>8. rvIndex \cap Of(1)' = {} /\ rvSnap.indexed \cap Of(1)' = {}
  BY <1>3, <1>6, <1>7
<1>9. \A a, b \in Of(2)' : a = b
  BY <1>3 DEF IndexInv
<1> QED BY <1>1, <1>2, <1>4, <1>5, <1>7, <1>8, <1>9 DEF IndexInv

\* Steps that leave the artifacts alone, but for the index.
LEMMA IndexMoves ==
    ASSUME IndexInv, ViewOk, rvArts' = rvArts, rvSnap' = rvSnap, rvView' = rvView,
           rvPc' = "search" => rvPc = "search", rvPc = "ended" => rvPc' = "ended", rvIndex' \subseteq DOMAIN rvArts,
           rvIndex' \cap Of(1) # {} => rvPc' = "ended" /\ Of(1) \subseteq rvIndex',
           rvSnap.indexed \cap Of(1) # {} /\ rvIndex' \cap Of(1) # {} => rvSnap.indexed \cap Of(2) \subseteq rvIndex'
    PROVE  IndexInv' /\ ViewOk'
<1>1. Of(1)' = Of(1) /\ Of(2)' = Of(2)
  BY DEF Of
<1>2. SnapOk'
  BY SnapStays DEF IndexInv
<1>3. ViewOk'
  BY ViewStays
<1>4. \A a \in DOMAIN rvArts' : GoodArt(rvArts'[a])
  BY DEF IndexInv
<1> QED BY <1>1, <1>2, <1>3, <1>4 DEF IndexInv

\* A process registers what it recorded.
LEMMA RvFlush == ASSUME IndexInv, ViewOk, FlushRun PROVE IndexInv' /\ ViewOk'
<1>1. /\ rvArts' = rvArts /\ rvSnap' = rvSnap /\ rvView' = rvView /\ rvPc = "flush" /\ rvPc' = "ended"
      /\ rvIndex' = rvIndex \cup Of(1)
  BY DEF FlushRun
<1>2. rvIndex \subseteq DOMAIN rvArts /\ Of(1) \subseteq DOMAIN rvArts
  BY DEF IndexInv, Of
<1>3. rvSnap.indexed \cap Of(1) = {}
  BY <1>1 DEF IndexInv
<1> QED BY <1>1, <1>2, <1>3, IndexMoves

\* Or dies before.
LEMMA RvDies == ASSUME IndexInv, ViewOk, RunDies PROVE IndexInv' /\ ViewOk'
<1>1. /\ rvArts' = rvArts /\ rvSnap' = rvSnap /\ rvView' = rvView /\ rvPc # "ended" /\ rvPc' = "ended"
      /\ rvIndex' = rvIndex
  BY DEF RunDies
<1>2. rvIndex \subseteq DOMAIN rvArts /\ rvIndex \cap Of(1) = {}
  BY <1>1 DEF IndexInv
<1> QED BY <1>1, <1>2, IndexMoves

\* Fetching ends.
LEMMA RvFetchDone == ASSUME IndexInv, ViewOk, FetchDone PROVE IndexInv' /\ ViewOk'
<1>1. /\ rvArts' = rvArts /\ rvSnap' = rvSnap /\ rvView' = rvView /\ rvPc = "fetch" /\ rvPc' # "search"
      /\ rvIndex' = rvIndex
  BY DEF FetchDone
<1>2. rvIndex \subseteq DOMAIN rvArts /\ rvIndex \cap Of(1) = {}
  BY <1>1 DEF IndexInv
<1> QED BY <1>1, <1>2, IndexMoves

\* Pruning takes all that the first call recorded.
LEMMA RvPrune == ASSUME IndexInv, ViewOk, PruneIndex PROVE IndexInv' /\ ViewOk'
<1>1. /\ rvArts' = rvArts /\ rvSnap' = rvSnap /\ rvView' = rvView /\ rvPc' = rvPc
  BY DEF PruneIndex
<1>2. PICK call \in {1, 2} : rvIndex' = {a \in rvIndex : rvArts[a].call > call}
  BY DEF PruneIndex
<1>3. rvIndex' \subseteq DOMAIN rvArts
  BY <1>2 DEF IndexInv
<1>4. rvIndex' \cap Of(1) = {}
  <2>1. ~(1 > call)
    OBVIOUS
  <2>2. \A a \in Of(1) : rvArts[a].call = 1
    BY DEF Of
  <2> QED BY <1>2, <2>1, <2>2
<1> QED BY <1>1, <1>3, <1>4, IndexMoves

\* Another run of the plan registers a brief.
LEMMA RvAnother == ASSUME IndexInv, ViewOk, AnotherRun PROVE IndexInv' /\ ViewOk'
<1> DEFINE x == [Brief EXCEPT !.call = 2]
<1>1. /\ rvArts' = Append(rvArts, x) /\ rvSnap' = rvSnap /\ rvView' = rvView /\ rvPc' = rvPc
      /\ rvPc # "search" /\ Of(2) = {} /\ rvIndex' = rvIndex \cup {Len(rvArts')}
  BY DEF AnotherRun
<1>2. x \in RvArt /\ GoodArt(x) /\ x.call = 2
  BY DEF Brief, Recorded, RvArt, GoodArt, RvKind
<1> HIDE DEF x
<1>3. rvArts \in Seq(RvArt) /\ rvIndex \subseteq DOMAIN rvArts
  BY DEF IndexInv
<1>4. /\ rvArts' \in Seq(RvArt) /\ Len(rvArts') = Len(rvArts) + 1 /\ Len(rvArts) \in Nat
      /\ \A i \in 1 .. Len(rvArts) : rvArts'[i] = rvArts[i]
      /\ rvArts'[Len(rvArts) + 1] = x
  BY <1>1, <1>2, <1>3, AppendOk
<1>5. PICK n : n = Len(rvArts')
  OBVIOUS
<1>6. DOMAIN rvArts = 1 .. Len(rvArts) /\ DOMAIN rvArts' = 1 .. n
  BY <1>3, <1>4, <1>5
<1>7. DOMAIN rvArts' = DOMAIN rvArts \cup {n} /\ n \notin DOMAIN rvArts
  BY <1>4, <1>5, <1>6
<1>8. (\A a \in DOMAIN rvArts : rvArts'[a] = rvArts[a]) /\ rvArts'[n] = x
  BY <1>4, <1>5, <1>6
<1>9. Of(1)' = Of(1) /\ Of(2)' = {n}
  BY <1>1, <1>2, <1>7, <1>8 DEF Of
<1>10. SnapOk' /\ ViewOk'
  BY <1>1, <1>7, <1>8, SnapStays, ViewStays DEF IndexInv
<1>11. \A a \in DOMAIN rvArts' : GoodArt(rvArts'[a])
  BY <1>2, <1>7, <1>8 DEF IndexInv
<1>12. n \notin Of(1) /\ rvIndex' = rvIndex \cup {n} /\ rvIndex' \subseteq DOMAIN rvArts'
  BY <1>1, <1>3, <1>5, <1>7 DEF Of
<1>13. rvIndex' \cap Of(1)' = rvIndex \cap Of(1)
  BY <1>9, <1>12
<1>14. rvSnap.indexed \cap Of(2)' = {}
  BY <1>7, <1>9 DEF IndexInv, SnapOk
<1>15. rvIndex' \cap Of(1)' # {} => rvPc' = "ended" /\ Of(1)' \subseteq rvIndex'
  BY <1>1, <1>9, <1>12, <1>13 DEF IndexInv
<1>16. rvSnap'.indexed \cap Of(1)' # {} => rvPc' = "ended"
  BY <1>1, <1>9 DEF IndexInv
<1> QED BY <1>1, <1>4, <1>9, <1>10, <1>11, <1>12, <1>14, <1>15, <1>16 DEF IndexInv

\* A snapshot is taken.
LEMMA RvSnapshot == ASSUME IndexInv, ViewOk, TakeSnapshot PROVE IndexInv' /\ ViewOk'
<1>1. /\ rvArts' = rvArts /\ rvIndex' = rvIndex /\ rvView' = rvView /\ rvPc' = rvPc
      /\ rvSnap' = [order |-> InIndexOrder(rvIndex) \o InIndexOrder(Of(1) \ rvIndex), indexed |-> rvIndex]
  BY DEF TakeSnapshot
<1>2. rvArts \in Seq(RvArt) /\ rvIndex \subseteq DOMAIN rvArts
  BY DEF IndexInv
<1>3. PICK w : w = InIndexOrder(rvIndex) \o InIndexOrder(Of(1) \ rvIndex)
  OBVIOUS
<1>4. /\ w \in Seq(DOMAIN rvArts) /\ rvIndex \subseteq ToSet(w) /\ IsInjective(w)
      /\ InTurn(w, rvIndex)
  BY <1>2, <1>3, SnapOrderOk
<1>5. rvSnap'.order = w /\ rvSnap'.indexed = rvIndex
  BY <1>1, <1>3
<1>6. Of(1)' = Of(1) /\ Of(2)' = Of(2)
  BY <1>1 DEF Of
<1>7. InTurn(rvSnap.order, rvSnap.indexed)'
  BY <1>4, <1>5, <1>6 DEF InTurn
<1>8. SnapOk'
  BY <1>1, <1>2, <1>4, <1>5, <1>7 DEF SnapOk
<1>9. ViewOk'
  BY <1>1, ViewStays
<1>10. \A a \in DOMAIN rvArts' : GoodArt(rvArts'[a])
  BY <1>1 DEF IndexInv
<1> QED BY <1>1, <1>5, <1>6, <1>8, <1>9, <1>10 DEF IndexInv

\* What a view shows of the sources.
Matching(order, legible, src) ==
    /\ IsInjective(order) /\ rvIndex \subseteq ToSet(order) /\ ToSet(order) \subseteq DOMAIN rvArts
    /\ DOMAIN src \ {Nameless} = UNION {rvArts[a].names : a \in legible}
    /\ \A s \in DOMAIN src \ {Nameless} :
          /\ src[s].extracted <=> \E a \in {b \in legible : rvArts[b].kind = "source_text"} : s \in rvArts[a].names
          /\ src[s].selected <=> \E a \in {b \in legible : rvArts[b].kind = "source_set"} : s \in rvArts[a].selected
          /\ src[s].rejected <=> \E a \in {b \in legible : rvArts[b].kind = "source_set"} : s \in rvArts[a].rejected

\* The view is built: what it shows of the sources.
LEMMA BuildMatches ==
    ASSUME IndexInv, NEW order, order = viewOrder, NEW legible, legible = ToSet(order) \cap rvIndex,
           NEW src, src = ingestAll(order)
    PROVE  Matching(order, legible, src)
<1>1. /\ rvArts \in Seq(RvArt) /\ rvIndex \subseteq DOMAIN rvArts /\ SnapOk
      /\ \A a \in DOMAIN rvArts : GoodArt(rvArts[a])
  BY DEF IndexInv
<1>2. /\ order \in Seq(DOMAIN rvArts) /\ ToSet(order) = rvIndex \cup rvSnap.indexed /\ IsInjective(order)
  BY <1>1, ViewOrderOk
<1>3. Shown(src, ToSet(order))
  BY <1>1, <1>2, IngestAllOk
<1>4. rvIndex \subseteq ToSet(order) /\ ToSet(order) \subseteq DOMAIN rvArts
  BY <1>1, <1>2 DEF SnapOk
<1>5. DOMAIN src \ {Nameless} = UNION {rvArts[a].names : a \in legible}
  BY <1>3 DEF Shown, NamedBy
<1>6. ASSUME NEW s \in DOMAIN src \ {Nameless}
      PROVE  /\ src[s].extracted <=> \E a \in {b \in legible : rvArts[b].kind = "source_text"} : s \in rvArts[a].names
             /\ src[s].selected <=> \E a \in {b \in legible : rvArts[b].kind = "source_set"} : s \in rvArts[a].selected
             /\ src[s].rejected <=> \E a \in {b \in legible : rvArts[b].kind = "source_set"} : s \in rvArts[a].rejected
  <2>1. /\ src[s].extracted <=> TextOf(ToSet(order), s)
        /\ src[s].selected <=> ChosenOf(ToSet(order), s)
        /\ src[s].rejected <=> RejectedOf(ToSet(order), s)
    BY <1>3 DEF Shown
  <2>2. TextOf(ToSet(order), s) <=> \E a \in {b \in legible : rvArts[b].kind = "source_text"} : s \in rvArts[a].names
    BY DEF TextOf
  <2>3. ChosenOf(ToSet(order), s) <=> \E a \in {b \in legible : rvArts[b].kind = "source_set"} : s \in rvArts[a].selected
    BY DEF ChosenOf
  <2>4. RejectedOf(ToSet(order), s) <=> \E a \in {b \in legible : rvArts[b].kind = "source_set"} : s \in rvArts[a].rejected
    BY DEF RejectedOf
  <2> QED BY <2>1, <2>2, <2>3, <2>4
<1> QED BY <1>2, <1>4, <1>5, <1>6 DEF Matching

\* And its brief: a brief that was pruned since the snapshot is not the last one while
\* another is in the index.
LEMMA BuildBrief ==
    ASSUME IndexInv, NEW g \in rvIndex, IsBrief(g)
    PROVE  briefView(viewOrder) \in rvIndex
<1>1. rvArts \in Seq(RvArt) /\ rvIndex \subseteq DOMAIN rvArts /\ SnapOk
  BY DEF IndexInv
<1>2. PICK order : order = viewOrder
  OBVIOUS
<1>3. /\ order \in Seq(DOMAIN rvArts) /\ ToSet(order) = rvIndex \cup rvSnap.indexed
      /\ InTurn(order, rvSnap.indexed)
  BY <1>1, <1>2, ViewOrderOk
<1>4. PICK b : b = briefView(order)
  OBVIOUS
<1>5. g \in ToSet(order)
  BY <1>3
<1>6. b \in ToSet(order) /\ (g = b \/ Before(order, g, b))
  BY <1>3, <1>4, <1>5, BriefViewOk
<1>7. SUFFICES ASSUME b \notin rvIndex PROVE FALSE
  BY <1>2, <1>4
<1>8. b \in rvSnap.indexed /\ Before(order, g, b)
  BY <1>3, <1>6, <1>7
<1>9. g \in rvSnap.indexed /\ (b \in Of(1) => g \in Of(1))
  BY <1>3, <1>8 DEF InTurn
<1>10. b \in DOMAIN rvArts /\ g \in DOMAIN rvArts
  BY <1>1, <1>8 DEF SnapOk
<1>11. CASE g \in Of(1)
  <2>1. Of(1) \subseteq rvIndex /\ rvSnap.indexed \cap Of(2) \subseteq rvIndex
    BY <1>9, <1>11 DEF IndexInv
  <2> QED BY <1>1, <1>7, <1>8, <1>10, <2>1, OfOk
<1>12. CASE g \in Of(2)
  <2>1. b \in Of(2)
    BY <1>1, <1>9, <1>10, <1>12, OfOk
  <2>2. g = b
    BY <1>12, <2>1 DEF IndexInv
  <2> QED BY <1>7, <2>2
<1> QED BY <1>1, <1>10, <1>11, <1>12, OfOk

\* The view that is built says what the artifacts say.
LEMMA RvBuild == ASSUME IndexInv, ViewOk, BuildView PROVE IndexInv' /\ ViewOk'
<1>1. /\ rvArts' = rvArts /\ rvIndex' = rvIndex /\ rvSnap' = rvSnap /\ rvPc' = rvPc
      /\ rvView' = [order |-> viewOrder, sources |-> ingestAll(viewOrder),
                    brief |-> briefView(viewOrder), at |-> rvIndex, built |-> TRUE]
  BY DEF BuildView
<1>2. PICK order, src, b : order = viewOrder /\ src = ingestAll(order) /\ b = briefView(order)
  OBVIOUS
<1>3. PICK legible : legible = ToSet(order) \cap rvIndex
  OBVIOUS
<1>4. /\ rvView'.order = order /\ rvView'.sources = src /\ rvView'.brief = b /\ rvView'.at = rvIndex
      /\ rvView'.built
  BY <1>1, <1>2
<1>5. Matching(order, legible, src)
  BY <1>2, <1>3, BuildMatches
<1>6. ViewMatchesArtifacts'
  <2> DEFINE all == ToSet(rvView'.order) \cap rvView'.at
  <2>1. all = legible
    BY <1>3, <1>4
  <2>2. /\ IsInjective(rvView'.order) /\ rvView'.at \subseteq ToSet(rvView'.order)
        /\ DOMAIN rvView'.sources \ {Nameless} = UNION {rvArts'[a].names : a \in all}
    BY <1>1, <1>4, <1>5, <2>1 DEF Matching
  <2>3. ASSUME NEW s \in DOMAIN rvView'.sources \ {Nameless}
        PROVE  /\ rvView'.sources[s].extracted <=>
                     \E a \in {d \in all : rvArts'[d].kind = "source_text"} : s \in rvArts'[a].names
               /\ rvView'.sources[s].selected <=>
                     \E a \in {d \in all : rvArts'[d].kind = "source_set"} : s \in rvArts'[a].selected
               /\ rvView'.sources[s].rejected <=>
                     \E a \in {d \in all : rvArts'[d].kind = "source_set"} : s \in rvArts'[a].rejected
    <3> HIDE DEF all
    <3>1. s \in DOMAIN src \ {Nameless} /\ rvView'.sources[s] = src[s]
      BY <1>4
    <3> QED BY <1>1, <1>5, <2>1, <3>1 DEF Matching
  <2> QED BY <2>2, <2>3, Zenon DEF ViewMatchesArtifacts
<1>7. BriefReadable'
  <2>1. (\E a \in rvIndex : IsBrief(a)) => b \in rvIndex
    BY <1>2, BuildBrief
  <2>2. \A a : IsBrief(a)' <=> IsBrief(a)
    BY <1>1 DEF IsBrief
  <2> QED BY <1>4, <2>1, <2>2 DEF BriefReadable
<1>8. ViewOk'
  BY <1>1, <1>4, <1>5, <1>6, <1>7 DEF ViewOk, Matching
<1>9. Of(1)' = Of(1) /\ Of(2)' = Of(2)
  BY <1>1 DEF Of
<1>10. SnapOk'
  BY <1>1, SnapStays DEF IndexInv
<1>11. \A a \in DOMAIN rvArts' : GoodArt(rvArts'[a])
  BY <1>1 DEF IndexInv
<1> QED BY <1>1, <1>8, <1>9, <1>10, <1>11 DEF IndexInv

\* What the nodes pass on: fetched pages and extracted texts.
RvOutput == [of : RvName, page : RvName, text : Nat]
RvSource == [of : RvName, id : RvId]

\* Candidates of which a page was fetched, a text extracted, or neither.
Kept == {rvFetched[k].of : k \in 1 .. Len(rvFetched)}
TextTaken == {rvSources[k].of : k \in 1 .. Len(rvSources)}
NotFetched == Warned("fetch_failed")
NotExtracted == Warned("missing_text_artifact") \cup Warned("extract_failed")

\* Every candidate that a node is through with is passed on or warned of.
NodesInv ==
    /\ rvSelected \in Seq(RvName) /\ IsInjective(rvSelected)
    /\ rvFetched \in Seq(RvOutput) /\ rvSources \in Seq(RvSource) /\ rvTried \in 0 .. Len(rvFetched)
    /\ IsFiniteSet(NotFetched) /\ Through <= Len(rvSelected)
    /\ Kept \cup NotFetched = {rvSelected[k] : k \in 1 .. Through} /\ Kept \cap NotFetched = {}
    /\ \A k, l \in 1 .. Len(rvFetched) : rvFetched[k].of = rvFetched[l].of => k = l
    /\ TextTaken \cup NotExtracted = {rvFetched[k].of : k \in 1 .. rvTried} /\ TextTaken \cap NotExtracted = {}
    /\ rvPc \in {"extract", "brief"} => Through = Len(rvSelected)
    /\ rvPc = "brief" => rvTried = Len(rvFetched)
    /\ rvPc = "search" => rvFetched = <<>> /\ rvWarned = {} /\ rvTried = 0 /\ rvSources = <<>>

\* Then the nodes account for every source.
LEMMA AccountedOk == ASSUME NodesInv PROVE SourcesAccounted
<1> SUFFICES ASSUME rvPc = "brief" PROVE SourcesAccounted
  BY DEF SourcesAccounted
<1>1. DOMAIN rvFetched = 1 .. Len(rvFetched) /\ DOMAIN rvSources = 1 .. Len(rvSources)
      /\ DOMAIN rvSelected = 1 .. Len(rvSelected)
  BY DEF NodesInv
<1>2. /\ ToSet(rvSelected) = {rvSelected[k] : k \in 1 .. Through}
      /\ Kept = {rvFetched[k].of : k \in 1 .. rvTried}
  BY <1>1 DEF NodesInv, ToSet, Kept
<1>3. /\ ToSet(rvSelected) = Kept \cup NotFetched /\ Kept \cap NotFetched = {}
      /\ Kept = TextTaken \cup NotExtracted /\ TextTaken \cap NotExtracted = {}
  BY <1>2 DEF NodesInv
<1>4. /\ Kept = {rvFetched[k].of : k \in DOMAIN rvFetched}
      /\ TextTaken = {rvSources[k].of : k \in DOMAIN rvSources}
  BY <1>1 DEF Kept, TextTaken
<1> QED BY <1>3, <1>4, Zenon DEF SourcesAccounted, NotFetched, NotExtracted

\* How far the fetches are.
LEMMA ThroughOk ==
    ASSUME NodesInv
    PROVE  /\ Through \in Nat /\ Through = Len(rvFetched) + Cardinality(NotFetched)
           /\ Len(rvFetched) \in Nat /\ Cardinality(NotFetched) \in Nat /\ Len(rvSelected) \in Nat
<1>1. Len(rvFetched) \in Nat /\ Len(rvSelected) \in Nat
  BY DEF NodesInv
<1>2. Cardinality(NotFetched) \in Nat
  BY FS_CardinalityType DEF NodesInv
<1>3. Through = Len(rvFetched) + Cardinality(NotFetched)
  BY DEF Through, NotFetched
<1> QED BY <1>1, <1>2, <1>3

\* What a warning adds.
LEMMA WarnedOk ==
    ASSUME NEW what, NEW x, NEW c, rvWarned' = rvWarned \cup {[what |-> x, of |-> c]}
    PROVE  Warned(what)' = IF what = x THEN Warned(what) \cup {c} ELSE Warned(what)
<1>1. Warned(what)' = {w.of : w \in {v \in rvWarned' : v.what = what}}
  BY DEF Warned
<1>2. Warned(what) = {w.of : w \in {v \in rvWarned : v.what = what}}
  BY DEF Warned
<1>3. CASE what = x
  <2>1. PICK d : d = [what |-> x, of |-> c]
    OBVIOUS
  <2>2. d.of = c /\ d.what = x
    BY <2>1
  <2>3. {v \in rvWarned' : v.what = what} = {v \in rvWarned : v.what = what} \cup {d}
    BY <1>3, <2>1, <2>2
  <2>4. {w.of : w \in {v \in rvWarned : v.what = what} \cup {d}} = {w.of : w \in {v \in rvWarned : v.what = what}} \cup {c}
    BY <2>2
  <2> QED BY <1>1, <1>2, <1>3, <2>3, <2>4
<1>4. CASE what # x
  <2>1. {v \in rvWarned' : v.what = what} = {v \in rvWarned : v.what = what}
    BY <1>4
  <2> QED BY <1>1, <1>2, <1>4, <2>1
<1> QED BY <1>3, <1>4

\* The next candidate is one that no fetch was through with.
LEMMA NextCandidate ==
    ASSUME NodesInv, Through < Len(rvSelected), NEW c, c = rvSelected[Through + 1]
    PROVE  /\ c \in RvName /\ c \notin Kept /\ c \notin NotFetched
           /\ {rvSelected[k] : k \in 1 .. (Through + 1)} = {rvSelected[k] : k \in 1 .. Through} \cup {c}
<1>1. PICK n : n = Through
  OBVIOUS
<1>2. n \in Nat /\ Len(rvSelected) \in Nat /\ n < Len(rvSelected)
  BY <1>1, ThroughOk
<1>3. n + 1 \in 1 .. Len(rvSelected) /\ n + 1 \in 1 .. (n + 1)
  BY <1>2
<1>4. \A k \in 1 .. n : k # n + 1 /\ k \in 1 .. Len(rvSelected) /\ k \in 1 .. (n + 1)
  BY <1>2
<1>5. \A k \in 1 .. (n + 1) : k \in 1 .. n \/ k = n + 1
  BY <1>2
<1>6. \A k, l \in 1 .. Len(rvSelected) : rvSelected[k] = rvSelected[l] => k = l
  BY ToSetOk DEF NodesInv
<1>7. \A k \in 1 .. n : rvSelected[k] # c
  BY <1>1, <1>3, <1>4, <1>6
<1>8. Kept \cup NotFetched = {rvSelected[k] : k \in 1 .. n}
  BY <1>1 DEF NodesInv
<1>9. c \notin Kept /\ c \notin NotFetched
  BY <1>7, <1>8
<1>10. c \in RvName
  BY <1>1, <1>3 DEF NodesInv
<1>11. {rvSelected[k] : k \in 1 .. (n + 1)} = {rvSelected[k] : k \in 1 .. n} \cup {c}
  BY <1>1, <1>3, <1>4, <1>5
<1> QED BY <1>1, <1>9, <1>10, <1>11

\* A fetch that brings a source.
LEMMA FetchKept ==
    ASSUME NodesInv, rvPc = "fetch", Through < Len(rvSelected), NEW c, c = rvSelected[Through + 1],
           NEW o \in RvOutput, o.of = c, rvFetched' = Append(rvFetched, o), rvWarned' = rvWarned,
           rvPc' = rvPc, rvSelected' = rvSelected, rvSources' = rvSources, rvTried' = rvTried
    PROVE  NodesInv'
<1>1. /\ c \in RvName /\ c \notin Kept /\ c \notin NotFetched
      /\ {rvSelected[k] : k \in 1 .. (Through + 1)} = {rvSelected[k] : k \in 1 .. Through} \cup {c}
  BY NextCandidate
<1>2. /\ rvFetched \in Seq(RvOutput) /\ rvSources \in Seq(RvSource) /\ rvTried \in 0 .. Len(rvFetched)
      /\ Len(rvFetched) \in Nat
  BY ThroughOk DEF NodesInv
<1>3. PICK n : n = Len(rvFetched)
  OBVIOUS
<1>4. /\ rvFetched' \in Seq(RvOutput) /\ Len(rvFetched') = n + 1 /\ n \in Nat
      /\ \A i \in 1 .. n : rvFetched'[i] = rvFetched[i]
      /\ rvFetched'[n + 1] = o
  BY <1>2, <1>3, AppendOk
<1>5. NotFetched' = NotFetched /\ NotExtracted' = NotExtracted /\ TextTaken' = TextTaken
  BY DEF NotFetched, NotExtracted, Warned, TextTaken
<1>6. Through' = Through + 1
  <2>1. Through' = Len(rvFetched') + Cardinality(NotFetched)
    <3>1. Through' = Len(rvFetched') + Cardinality(NotFetched')
      BY DEF Through, NotFetched
    <3> QED BY <1>5, <3>1
  <2>2. Through = n + Cardinality(NotFetched) /\ Cardinality(NotFetched) \in Nat
    BY <1>3, ThroughOk
  <2> QED BY <1>4, <2>1, <2>2
<1>7. \A i \in 1 .. (n + 1) : i \in 1 .. n \/ i = n + 1
  BY <1>4
<1>8. n + 1 \in 1 .. (n + 1) /\ \A i \in 1 .. n : i \in 1 .. (n + 1)
  BY <1>4
<1>9. Kept' = Kept \cup {c}
  <2>1. Kept' = {rvFetched'[k].of : k \in 1 .. (n + 1)}
    BY <1>4 DEF Kept
  <2>2. Kept = {rvFetched[k].of : k \in 1 .. n}
    BY <1>3 DEF Kept
  <2> QED BY <1>4, <1>7, <1>8, <2>1, <2>2
<1>10. Kept' \cup NotFetched' = {rvSelected'[k] : k \in 1 .. Through'} /\ Kept' \cap NotFetched' = {}
  <2>1. Kept \cup NotFetched = {rvSelected[k] : k \in 1 .. Through} /\ Kept \cap NotFetched = {}
    BY DEF NodesInv
  <2>2. {rvSelected'[k] : k \in 1 .. Through'} = {rvSelected[k] : k \in 1 .. (Through + 1)}
    BY <1>6
  <2>3. Kept' \cup NotFetched' = {rvSelected[k] : k \in 1 .. Through} \cup {c} /\ Kept' \cap NotFetched' = {}
    BY <1>1, <1>5, <1>6, <1>9, <2>1
  <2> QED BY <1>1, <2>2, <2>3
<1>11. \A k, l \in 1 .. Len(rvFetched') : rvFetched'[k].of = rvFetched'[l].of => k = l
  <2>1. \A k \in 1 .. n : rvFetched[k].of # c
    BY <1>1, <1>3 DEF Kept
  <2>2. \A k, l \in 1 .. n : rvFetched[k].of = rvFetched[l].of => k = l
    BY <1>3 DEF NodesInv
  <2> QED BY <1>4, <1>7, <2>1, <2>2
<1>12. {rvFetched'[k].of : k \in 1 .. rvTried'} = {rvFetched[k].of : k \in 1 .. rvTried}
  <2>1. \A k \in 1 .. rvTried : k \in 1 .. n
    BY <1>2, <1>3
  <2>2. \A k \in 1 .. rvTried : rvFetched'[k] = rvFetched[k]
    BY <1>4, <2>1
  <2> QED BY <2>2
<1>13. TextTaken' \cup NotExtracted' = {rvFetched'[k].of : k \in 1 .. rvTried'} /\ TextTaken' \cap NotExtracted' = {}
  BY <1>5, <1>12 DEF NodesInv
<1>14. rvTried' \in 0 .. Len(rvFetched') /\ Through' <= Len(rvSelected')
  BY <1>2, <1>3, <1>4, <1>6, ThroughOk
<1> QED BY <1>2, <1>4, <1>5, <1>10, <1>11, <1>13, <1>14 DEF NodesInv

\* A fetch that fails.
LEMMA FetchFailed ==
    ASSUME NodesInv, rvPc = "fetch", Through < Len(rvSelected), NEW c, c = rvSelected[Through + 1],
           rvFetched' = rvFetched, rvWarned' = rvWarned \cup {[what |-> "fetch_failed", of |-> c]},
           rvPc' = rvPc, rvSelected' = rvSelected, rvSources' = rvSources, rvTried' = rvTried
    PROVE  NodesInv'
<1>1. /\ c \in RvName /\ c \notin Kept /\ c \notin NotFetched
      /\ {rvSelected[k] : k \in 1 .. (Through + 1)} = {rvSelected[k] : k \in 1 .. Through} \cup {c}
  BY NextCandidate
<1>2. NotFetched' = NotFetched \cup {c} /\ NotExtracted' = NotExtracted
  <2>1. /\ Warned("fetch_failed")' = Warned("fetch_failed") \cup {c}
        /\ Warned("missing_text_artifact")' = Warned("missing_text_artifact")
        /\ Warned("extract_failed")' = Warned("extract_failed")
    <3>1. "missing_text_artifact" # "fetch_failed" /\ "extract_failed" # "fetch_failed"
      OBVIOUS
    <3> QED BY <3>1, WarnedOk
  <2> QED BY <2>1 DEF NotFetched, NotExtracted
<1>3. TextTaken' = TextTaken /\ Kept' = Kept
  BY DEF TextTaken, Kept
<1>4. IsFiniteSet(NotFetched') /\ Cardinality(NotFetched') = Cardinality(NotFetched) + 1
  BY <1>1, <1>2, FS_AddElement DEF NodesInv
<1>5. Through' = Through + 1
  <2>1. Through' = Len(rvFetched') + Cardinality(NotFetched')
    BY DEF Through, NotFetched
  <2> QED BY <1>4, <2>1, ThroughOk
<1>6. Kept' \cup NotFetched' = {rvSelected'[k] : k \in 1 .. Through'} /\ Kept' \cap NotFetched' = {}
  <2>1. Kept \cup NotFetched = {rvSelected[k] : k \in 1 .. Through} /\ Kept \cap NotFetched = {}
    BY DEF NodesInv
  <2>2. {rvSelected'[k] : k \in 1 .. Through'} = {rvSelected[k] : k \in 1 .. (Through + 1)}
    BY <1>5
  <2>3. Kept' \cup NotFetched' = {rvSelected[k] : k \in 1 .. Through} \cup {c} /\ Kept' \cap NotFetched' = {}
    BY <1>1, <1>2, <1>3, <1>5, <2>1
  <2> QED BY <1>1, <2>2, <2>3
<1>7. Through' <= Len(rvSelected')
  BY <1>5, ThroughOk
<1>8. TextTaken' \cup NotExtracted' = {rvFetched'[k].of : k \in 1 .. rvTried'} /\ TextTaken' \cap NotExtracted' = {}
  <2>1. /\ TextTaken \cup NotExtracted = {rvFetched[k].of : k \in 1 .. rvTried}
        /\ TextTaken \cap NotExtracted = {}
    BY DEF NodesInv
  <2> QED BY <1>2, <1>3, <2>1
<1> QED BY <1>4, <1>6, <1>7, <1>8 DEF NodesInv

\* The next fetched source is one that no extraction was through with.
LEMMA NextSource ==
    ASSUME NodesInv, rvTried < Len(rvFetched), NEW o, o = rvFetched[rvTried + 1]
    PROVE  /\ o \in RvOutput /\ o.of \notin TextTaken /\ o.of \notin NotExtracted
           /\ rvTried + 1 \in 0 .. Len(rvFetched)
           /\ {rvFetched[k].of : k \in 1 .. (rvTried + 1)} = {rvFetched[k].of : k \in 1 .. rvTried} \cup {o.of}
<1>1. rvTried \in Nat /\ Len(rvFetched) \in Nat
  BY ThroughOk DEF NodesInv
<1>2. PICK n \in Nat : n = rvTried
  BY <1>1
<1>3. n + 1 \in 1 .. Len(rvFetched) /\ n + 1 \in 1 .. (n + 1) /\ n + 1 \in 0 .. Len(rvFetched)
  BY <1>1, <1>2
<1>4. \A k \in 1 .. n : k # n + 1 /\ k \in 1 .. Len(rvFetched) /\ k \in 1 .. (n + 1)
  BY <1>1, <1>2
<1>5. \A k \in 1 .. (n + 1) : k \in 1 .. n \/ k = n + 1
  BY <1>2
<1>6. \A k \in 1 .. n : rvFetched[k].of # o.of
  BY <1>2, <1>3, <1>4 DEF NodesInv
<1>7. TextTaken \cup NotExtracted = {rvFetched[k].of : k \in 1 .. n}
  BY <1>2 DEF NodesInv
<1>8. o.of \notin TextTaken /\ o.of \notin NotExtracted
  BY <1>6, <1>7
<1>9. o \in RvOutput
  BY <1>2, <1>3 DEF NodesInv
<1>10. {rvFetched[k].of : k \in 1 .. (n + 1)} = {rvFetched[k].of : k \in 1 .. n} \cup {o.of}
  BY <1>2, <1>3, <1>4, <1>5
<1> QED BY <1>2, <1>3, <1>8, <1>9, <1>10

\* What an extraction leaves alone.
LEMMA ExtractFrame ==
    ASSUME NodesInv, rvPc = "extract", rvPc' = rvPc, rvSelected' = rvSelected, rvFetched' = rvFetched,
           rvTried' = rvTried + 1, rvTried + 1 \in 0 .. Len(rvFetched), rvSources' \in Seq(RvSource),
           NotFetched' = NotFetched,
           TextTaken' \cup NotExtracted' = {rvFetched[k].of : k \in 1 .. (rvTried + 1)}, TextTaken' \cap NotExtracted' = {}
    PROVE  NodesInv'
<1>1. Kept' = Kept
  BY DEF Kept
<1>2. Through' = Through
  <2>1. Through' = Len(rvFetched') + Cardinality(NotFetched')
    BY DEF Through, NotFetched
  <2> QED BY <2>1, ThroughOk
<1> QED BY <1>1, <1>2 DEF NodesInv

\* An extraction that brings a text.
LEMMA ExtractKept ==
    ASSUME NodesInv, rvPc = "extract", rvTried < Len(rvFetched), NEW o, o = rvFetched[rvTried + 1],
           NEW x \in RvSource, x.of = o.of, rvSources' = Append(rvSources, x), rvWarned' = rvWarned,
           rvPc' = rvPc, rvSelected' = rvSelected, rvFetched' = rvFetched, rvTried' = rvTried + 1
    PROVE  NodesInv'
<1>1. /\ o.of \notin TextTaken /\ o.of \notin NotExtracted /\ rvTried + 1 \in 0 .. Len(rvFetched)
      /\ {rvFetched[k].of : k \in 1 .. (rvTried + 1)} = {rvFetched[k].of : k \in 1 .. rvTried} \cup {o.of}
  BY NextSource
<1>2. PICK n : n = Len(rvSources)
  OBVIOUS
<1>3. /\ rvSources' \in Seq(RvSource) /\ Len(rvSources') = n + 1 /\ n \in Nat
      /\ \A i \in 1 .. n : rvSources'[i] = rvSources[i]
      /\ rvSources'[n + 1] = x
  BY <1>2, AppendOk DEF NodesInv
<1>4. /\ \A i \in 1 .. (n + 1) : i \in 1 .. n \/ i = n + 1
      /\ n + 1 \in 1 .. (n + 1) /\ \A i \in 1 .. n : i \in 1 .. (n + 1)
  BY <1>3
<1>5. TextTaken' = TextTaken \cup {o.of}
  <2>1. TextTaken' = {rvSources'[k].of : k \in 1 .. (n + 1)}
    BY <1>3 DEF TextTaken
  <2>2. TextTaken = {rvSources[k].of : k \in 1 .. n}
    BY <1>2 DEF TextTaken
  <2> QED BY <1>3, <1>4, <2>1, <2>2
<1>6. NotFetched' = NotFetched /\ NotExtracted' = NotExtracted
  BY DEF NotFetched, NotExtracted, Warned
<1>7. TextTaken \cup NotExtracted = {rvFetched[k].of : k \in 1 .. rvTried} /\ TextTaken \cap NotExtracted = {}
  BY DEF NodesInv
<1>8. TextTaken' \cup NotExtracted' = {rvFetched[k].of : k \in 1 .. (rvTried + 1)} /\ TextTaken' \cap NotExtracted' = {}
  BY <1>1, <1>5, <1>6, <1>7
<1> QED BY <1>1, <1>3, <1>6, <1>8, ExtractFrame

\* An extraction that fails.
LEMMA ExtractDropped ==
    ASSUME NodesInv, rvPc = "extract", rvTried < Len(rvFetched), NEW o, o = rvFetched[rvTried + 1],
           NEW what \in {"missing_text_artifact", "extract_failed"}, rvSources' = rvSources,
           rvWarned' = rvWarned \cup {[what |-> what, of |-> o.of]},
           rvPc' = rvPc, rvSelected' = rvSelected, rvFetched' = rvFetched, rvTried' = rvTried + 1
    PROVE  NodesInv'
<1>1. /\ o.of \notin TextTaken /\ o.of \notin NotExtracted /\ rvTried + 1 \in 0 .. Len(rvFetched)
      /\ {rvFetched[k].of : k \in 1 .. (rvTried + 1)} = {rvFetched[k].of : k \in 1 .. rvTried} \cup {o.of}
  BY NextSource
<1>2. NotFetched' = NotFetched
  <2>1. "fetch_failed" # what
    OBVIOUS
  <2> QED BY <2>1, WarnedOk DEF NotFetched
<1>3. NotExtracted' = NotExtracted \cup {o.of}
  <2>1. /\ Warned("missing_text_artifact")' = IF "missing_text_artifact" = what
           THEN Warned("missing_text_artifact") \cup {o.of} ELSE Warned("missing_text_artifact")
        /\ Warned("extract_failed")' = IF "extract_failed" = what
           THEN Warned("extract_failed") \cup {o.of} ELSE Warned("extract_failed")
    BY WarnedOk
  <2> QED BY <2>1 DEF NotExtracted
<1>5. TextTaken' = TextTaken
  BY DEF TextTaken
<1>7. TextTaken \cup NotExtracted = {rvFetched[k].of : k \in 1 .. rvTried} /\ TextTaken \cap NotExtracted = {}
  BY DEF NodesInv
<1>8. TextTaken' \cup NotExtracted' = {rvFetched[k].of : k \in 1 .. (rvTried + 1)} /\ TextTaken' \cap NotExtracted' = {}
  BY <1>1, <1>3, <1>5, <1>7
<1>9. rvSources' \in Seq(RvSource)
  BY DEF NodesInv
<1> QED BY <1>1, <1>2, <1>8, <1>9, ExtractFrame

\* Steps that leave the nodes alone.
LEMMA NodesStay ==
    ASSUME NodesInv, rvNodes' = rvNodes, rvPc' \in {"extract", "brief"} => Through = Len(rvSelected),
           rvPc' = "brief" => rvTried = Len(rvFetched), rvPc' = "search" => rvPc = "search"
    PROVE  NodesInv'
<1>1. rvSelected' = rvSelected /\ rvFetched' = rvFetched /\ rvSources' = rvSources /\ rvTried' = rvTried
      /\ rvWarned' = rvWarned
  BY DEF rvNodes
<1>2. /\ Kept' = Kept /\ TextTaken' = TextTaken /\ NotFetched' = NotFetched /\ NotExtracted' = NotExtracted /\ Through' = Through
  BY <1>1 DEF Kept, TextTaken, NotFetched, NotExtracted, Through, Warned
<1> QED BY <1>1, <1>2 DEF NodesInv

\* Searching and selecting.
LEMMA RvSearch == ASSUME IndexInv, ViewOk, NodesInv, SearchAndSelect PROVE IndexInv' /\ ViewOk' /\ NodesInv'
<1>1. PICK found \in RvFound :
        /\ rvArts' = Append(rvArts, SearchResults({AsCandidate(c) : c \in ToSet(found)}))
        /\ rvSelected' = SubSeq(found, 1, IF Len(found) < RvMax THEN Len(found) ELSE RvMax)
        /\ rvPc' = IF found = <<>> THEN "flush" ELSE "fetch"
  BY DEF SearchAndSelect
<1>2. /\ rvPc = "search" /\ rvFetched' = rvFetched /\ rvSources' = rvSources /\ rvTried' = rvTried
      /\ rvWarned' = rvWarned /\ rvIndex' = rvIndex /\ rvSnap' = rvSnap /\ rvView' = rvView
  BY DEF SearchAndSelect
<1>3. ToSet(found) \subseteq RvName
  BY DEF RvName
<1>4. \A c \in ToSet(found) : AsCandidate(c) \in RvId
  BY <1>3 DEF AsCandidate, RvId
<1>5. PICK ids : ids = {AsCandidate(c) : c \in ToSet(found)}
  OBVIOUS
<1>6. ids \subseteq RvId
  BY <1>4, <1>5
<1>7. PICK x : x = SearchResults(ids)
  OBVIOUS
<1>8. x \in RvArt /\ GoodArt(x) /\ x.call = 1
  BY <1>6, <1>7, ArtsOk
<1>9. Grew(rvArts, rvArts')
  BY <1>1, <1>5, <1>7, <1>8, GrewOne DEF IndexInv
<1>10. rvPc' # "search" /\ rvPc' # "extract" /\ rvPc' # "brief"
  BY <1>1
<1>11. IndexInv' /\ ViewOk'
  BY <1>2, <1>9, <1>10, IndexGrows
<1>12. found \in Seq(RvName) /\ IsInjective(found)
  <2>1. found \in Seq(ToSet(found)) /\ IsInjective(found)
    BY RvAssumption
  <2>2. \A i \in 1 .. Len(found) : found[i] \in RvName
    BY <1>3, <2>1
  <2> QED BY <2>1, <2>2
<1>13. PICK m : m = IF Len(found) < RvMax THEN Len(found) ELSE RvMax
  OBVIOUS
<1>14. m \in 0 .. Len(found) /\ Len(found) \in Nat
  BY <1>12, <1>13, RvAssumption
<1>15. PICK w : w = SubSeq(found, 1, m)
  OBVIOUS
<1>16. w \in Seq(RvName) /\ Len(w) = m /\ \A i \in 1 .. m : w[i] = found[i] /\ i \in 1 .. Len(found)
  BY <1>12, <1>14, <1>15
<1>17. IsInjective(w)
  <2>1. \A i, j \in 1 .. Len(found) : found[i] = found[j] => i = j
    BY <1>12, ToSetOk
  <2>2. \A i, j \in 1 .. Len(w) : w[i] = w[j] => i = j
    BY <1>16, <2>1
  <2> QED BY <1>16, <2>2, ToSetOk
<1>18. rvSelected' = w
  BY <1>1, <1>13, <1>15
<1>19. rvFetched = <<>> /\ rvWarned = {} /\ rvTried = 0 /\ rvSources = <<>>
  BY <1>2 DEF NodesInv
<1>20. Kept' = {} /\ TextTaken' = {} /\ NotFetched' = {} /\ NotExtracted' = {} /\ Through' = 0
  <2>1. Len(<<>>) = 0 /\ 1 .. 0 = {}
    OBVIOUS
  <2>2. Kept' = {} /\ TextTaken' = {}
    BY <1>2, <1>19, <2>1 DEF Kept, TextTaken
  <2>3. NotFetched' = {} /\ NotExtracted' = {}
    BY <1>2, <1>19 DEF NotFetched, NotExtracted, Warned
  <2>4. Through' = Len(rvFetched') + Cardinality(NotFetched')
    BY DEF Through, NotFetched
  <2>5. Through' = 0
    BY <1>2, <1>19, <2>1, <2>3, <2>4, FS_EmptySet
  <2> QED BY <2>2, <2>3, <2>5
<1>21. {rvSelected'[k] : k \in 1 .. Through'} = {} /\ {rvFetched'[k].of : k \in 1 .. rvTried'} = {}
  <2>1. 1 .. Through' = {} /\ 1 .. rvTried' = {}
    BY <1>2, <1>19, <1>20
  <2> QED BY <2>1
<1>22. IsFiniteSet(NotFetched') /\ Through' <= Len(rvSelected')
  BY <1>14, <1>16, <1>18, <1>20, FS_EmptySet
<1>23. NodesInv'
  BY <1>2, <1>10, <1>16, <1>17, <1>18, <1>19, <1>20, <1>21, <1>22 DEF NodesInv
<1> QED BY <1>11, <1>23

\* Fetching one source.
LEMMA RvFetchOne == ASSUME IndexInv, ViewOk, NodesInv, FetchOne PROVE IndexInv' /\ ViewOk' /\ NodesInv'
<1>1. /\ rvPc = "fetch" /\ Through < Len(rvSelected) /\ rvPc' = rvPc /\ rvSelected' = rvSelected
      /\ rvSources' = rvSources /\ rvTried' = rvTried /\ rvIndex' = rvIndex /\ rvSnap' = rvSnap /\ rvView' = rvView
  BY DEF FetchOne
<1>2. PICK c : c = rvSelected[Through + 1]
  OBVIOUS
<1>3. c \in RvName /\ rvArts \in Seq(RvArt)
  BY <1>1, <1>2, NextCandidate DEF IndexInv
<1>4. \A p \in RvName : AsCandidate(p) \in RvId /\ AsPage(p) \in RvId /\ AsText(p) \in RvId
  BY DEF AsCandidate, AsPage, AsText, RvId
<1>5. ASSUME NEW page \in RvName, NEW text \in Nat, rvFetched' = Append(rvFetched, Output(c, page, text)),
             rvWarned' = rvWarned
      PROVE  NodesInv'
  <2>1. PICK o : o = Output(c, page, text)
    OBVIOUS
  <2>2. o \in RvOutput /\ o.of = c
    BY <1>3, <2>1 DEF Output, RvOutput
  <2> QED BY <1>1, <1>2, <1>5, <2>1, <2>2, FetchKept
<1>6. ASSUME NEW id \in RvId, rvArts' = rvArts \o <<Snapshot, Text(id)>>
      PROVE  Grew(rvArts, rvArts') /\ Len(rvArts') \in Nat
  <2>1. PICK x, y : x = Snapshot /\ y = Text(id)
    OBVIOUS
  <2>2. x \in RvArt /\ GoodArt(x) /\ x.call = 1 /\ y \in RvArt /\ GoodArt(y) /\ y.call = 1
    BY <2>1, ArtsOk
  <2>3. Grew(rvArts, rvArts')
    BY <1>3, <1>6, <2>1, <2>2, GrewTwo
  <2> QED BY <2>3 DEF Grew
<1>7. SUFFICES Grew(rvArts, rvArts') /\ NodesInv'
  BY <1>1, IndexGrows
<1>8. \/ /\ rvFetched' = Append(rvFetched, Output(c, c, 0))
         /\ rvArts' = rvArts /\ rvWarned' = rvWarned
      \/ fetchFixture(c) /\ rvWarned' = rvWarned
      \/ /\ \E page \in RvPage :
               /\ rvArts' = rvArts \o <<Snapshot, Text(AsPage(page))>>
               /\ rvFetched' = Append(rvFetched, Output(c, page, Len(rvArts')))
         /\ rvWarned' = rvWarned
      \/ /\ rvArts' \in {rvArts, Append(rvArts, Snapshot)}
         /\ rvWarned' = rvWarned \cup {[what |-> "fetch_failed", of |-> c]}
         /\ rvFetched' = rvFetched
  BY <1>2, Zenon DEF FetchOne
<1>9. CASE rvFetched' = Append(rvFetched, Output(c, c, 0)) /\ rvArts' = rvArts /\ rvWarned' = rvWarned
  <2>1. 0 \in Nat
    OBVIOUS
  <2> QED BY <1>3, <1>5, <1>9, <2>1, GrewSame
<1>10. CASE fetchFixture(c) /\ rvWarned' = rvWarned
  <2>1. CASE rvFetched' = Append(rvFetched, Output(c, c, 0)) /\ rvArts' = rvArts
    BY <1>9, <1>10, <2>1
  <2>2. CASE /\ rvArts' = rvArts \o <<Snapshot, Text(AsCandidate(c))>>
             /\ rvFetched' = Append(rvFetched, Output(c, c, Len(rvArts')))
    <3>1. PICK id \in RvId : id = AsCandidate(c)
      BY <1>3, <1>4
    <3>2. Grew(rvArts, rvArts') /\ Len(rvArts') \in Nat
      BY <1>6, <2>2, <3>1
    <3> QED BY <1>3, <1>5, <1>10, <2>2, <3>2
  <2> QED BY <1>10, <2>1, <2>2 DEF fetchFixture
<1>11. CASE /\ \E page \in RvPage :
                  /\ rvArts' = rvArts \o <<Snapshot, Text(AsPage(page))>>
                  /\ rvFetched' = Append(rvFetched, Output(c, page, Len(rvArts')))
            /\ rvWarned' = rvWarned
  <2>1. PICK page \in RvPage :
          /\ rvArts' = rvArts \o <<Snapshot, Text(AsPage(page))>>
          /\ rvFetched' = Append(rvFetched, Output(c, page, Len(rvArts')))
    BY <1>11
  <2>2. page \in RvName
    BY DEF RvName
  <2>3. PICK id \in RvId : id = AsPage(page)
    BY <1>4, <2>2
  <2>4. Grew(rvArts, rvArts') /\ Len(rvArts') \in Nat
    BY <1>6, <2>1, <2>3
  <2> QED BY <1>5, <1>11, <2>1, <2>2, <2>4
<1>12. CASE /\ rvArts' \in {rvArts, Append(rvArts, Snapshot)}
            /\ rvWarned' = rvWarned \cup {[what |-> "fetch_failed", of |-> c]}
            /\ rvFetched' = rvFetched
  <2>1. PICK x : x = Snapshot
    OBVIOUS
  <2>2. x \in RvArt /\ GoodArt(x) /\ x.call = 1
    BY <2>1, ArtsOk
  <2>3. Grew(rvArts, rvArts')
    BY <1>3, <1>12, <2>1, <2>2, GrewOne, GrewSame
  <2>4. NodesInv'
    BY <1>1, <1>2, <1>12, FetchFailed
  <2> QED BY <2>3, <2>4
<1> QED BY <1>8, <1>9, <1>10, <1>11, <1>12

\* Extracting one text.
LEMMA RvExtractOne == ASSUME IndexInv, ViewOk, NodesInv, ExtractOne PROVE IndexInv' /\ ViewOk' /\ NodesInv'
<1>1. /\ rvPc = "extract" /\ rvTried < Len(rvFetched) /\ rvPc' = rvPc /\ rvSelected' = rvSelected
      /\ rvFetched' = rvFetched /\ rvTried' = rvTried + 1 /\ rvIndex' = rvIndex /\ rvSnap' = rvSnap
      /\ rvView' = rvView
  BY DEF ExtractOne
<1>2. PICK o : o = rvFetched[rvTried + 1]
  OBVIOUS
<1>3. o \in RvOutput /\ rvArts \in Seq(RvArt)
  BY <1>1, <1>2, NextSource DEF IndexInv
<1>4. o.page \in RvName /\ o.of \in RvName
  BY <1>3 DEF RvOutput
<1>5. SUFFICES Grew(rvArts, rvArts') /\ NodesInv'
  BY <1>1, IndexGrows
<1>6. \/ \E what \in {"missing_text_artifact", "extract_failed"} :
            /\ rvWarned' = rvWarned \cup {[what |-> what, of |-> o.of]}
            /\ rvArts' = rvArts /\ rvSources' = rvSources
      \/ /\ \E id \in {AsPage(o.page), AsText(o.page)} :
               /\ rvArts' = Append(rvArts, Text(id))
               /\ rvSources' = Append(rvSources, [of |-> o.of, id |-> id])
         /\ rvWarned' = rvWarned
  BY <1>2 DEF ExtractOne
<1>7. CASE \E what \in {"missing_text_artifact", "extract_failed"} :
             /\ rvWarned' = rvWarned \cup {[what |-> what, of |-> o.of]}
             /\ rvArts' = rvArts /\ rvSources' = rvSources
  <2>1. PICK what \in {"missing_text_artifact", "extract_failed"} :
             /\ rvWarned' = rvWarned \cup {[what |-> what, of |-> o.of]}
             /\ rvArts' = rvArts /\ rvSources' = rvSources
    BY <1>7
  <2>2. NodesInv'
    BY <1>1, <1>2, <2>1, ExtractDropped
  <2> QED BY <1>3, <2>1, <2>2, GrewSame
<1>8. CASE /\ \E id \in {AsPage(o.page), AsText(o.page)} :
                 /\ rvArts' = Append(rvArts, Text(id))
                 /\ rvSources' = Append(rvSources, [of |-> o.of, id |-> id])
           /\ rvWarned' = rvWarned
  <2>1. PICK id \in {AsPage(o.page), AsText(o.page)} :
          /\ rvArts' = Append(rvArts, Text(id))
          /\ rvSources' = Append(rvSources, [of |-> o.of, id |-> id])
    BY <1>8
  <2>2. id \in RvId
    BY <1>4 DEF AsPage, AsText, RvId
  <2>3. PICK x, y : x = Text(id) /\ y = [of |-> o.of, id |-> id]
    OBVIOUS
  <2>4. x \in RvArt /\ GoodArt(x) /\ x.call = 1
    BY <2>2, <2>3, ArtsOk
  <2>5. y \in RvSource /\ y.of = o.of
    BY <1>4, <2>2, <2>3 DEF RvSource
  <2>6. Grew(rvArts, rvArts')
    BY <1>3, <2>1, <2>3, <2>4, GrewOne
  <2>7. NodesInv'
    BY <1>1, <1>2, <1>8, <2>1, <2>3, <2>5, ExtractKept
  <2> QED BY <2>6, <2>7
<1> QED BY <1>6, <1>7, <1>8

\* Making the source set.
LEMMA RvCreateSet == ASSUME IndexInv, ViewOk, NodesInv, CreateSet PROVE IndexInv' /\ ViewOk' /\ NodesInv'
<1>1. /\ rvPc = "extract" /\ rvTried = Len(rvFetched) /\ rvNodes' = rvNodes /\ rvIndex' = rvIndex
      /\ rvSnap' = rvSnap /\ rvView' = rvView
  BY DEF CreateSet, rvNodes
<1>2. rvPc' \in {"flush", "brief"}
  BY Zenon DEF CreateSet
<1>3. NodesInv'
  <2>1. Through = Len(rvSelected)
    BY <1>1 DEF NodesInv
  <2> QED BY <1>1, <1>2, <2>1, NodesStay
<1>4. rvArts \in Seq(RvArt) /\ rvSources \in Seq(RvSource)
  BY DEF IndexInv, NodesInv
<1>5. Grew(rvArts, rvArts')
  <2>1. CASE rvSources = <<>>
    <3>1. rvArts' = rvArts
      BY <2>1 DEF CreateSet
    <3> QED BY <1>4, <3>1, GrewSame
  <2>2. CASE rvSources # <<>>
    <3>1. PICK taken \in SUBSET DOMAIN rvSources :
            rvArts' = Append(rvArts, SourceSet({rvSources[k].id : k \in taken},
                                               {rvSources[k].id : k \in DOMAIN rvSources \ taken}))
      BY <2>2 DEF CreateSet
    <3>2. PICK s, r : s = {rvSources[k].id : k \in taken} /\ r = {rvSources[k].id : k \in DOMAIN rvSources \ taken}
      OBVIOUS
    <3>3. \A k \in DOMAIN rvSources : rvSources[k].id \in RvId
      <4>1. \A k \in DOMAIN rvSources : rvSources[k] \in RvSource
        BY <1>4
      <4> QED BY <4>1 DEF RvSource
    <3>4. s \subseteq RvId /\ r \subseteq RvId
      BY <3>2, <3>3
    <3>5. PICK x : x = SourceSet(s, r)
      OBVIOUS
    <3>6. x \in RvArt /\ GoodArt(x) /\ x.call = 1
      BY <3>4, <3>5, ArtsOk
    <3> QED BY <1>4, <3>1, <3>2, <3>5, <3>6, GrewOne
  <2> QED BY <2>1, <2>2
<1>6. rvPc # "ended" /\ rvPc' # "search"
  BY <1>1, <1>2
<1> QED BY <1>1, <1>3, <1>5, <1>6, IndexGrows

\* Writing the brief.
LEMMA RvWriteBrief == ASSUME IndexInv, ViewOk, NodesInv, WriteBrief PROVE IndexInv' /\ ViewOk' /\ NodesInv'
<1>1. /\ rvPc = "brief" /\ rvPc' = "flush" /\ rvNodes' = rvNodes /\ rvIndex' = rvIndex
      /\ rvSnap' = rvSnap /\ rvView' = rvView /\ rvArts' \in {rvArts, Append(rvArts, Brief)}
  BY DEF WriteBrief, rvNodes
<1>2. NodesInv'
  BY <1>1, NodesStay
<1>3. PICK x : x = Brief
  OBVIOUS
<1>4. x \in RvArt /\ GoodArt(x) /\ x.call = 1
  BY <1>3, ArtsOk
<1>5. Grew(rvArts, rvArts')
  BY <1>1, <1>3, <1>4, GrewOne, GrewSame DEF IndexInv
<1> QED BY <1>1, <1>2, <1>5, IndexGrows

\* The inductive invariant.
RvInv == IndexInv /\ ViewOk /\ NodesInv

\* It holds at first.
LEMMA RvBegins == ASSUME RvInit PROVE RvInv
<1>1. /\ rvPc = "search" /\ rvSelected = <<>> /\ rvFetched = <<>> /\ rvSources = <<>> /\ rvTried = 0
      /\ rvWarned = {} /\ rvArts = <<>> /\ rvIndex = {}
      /\ rvSnap.order = <<>> /\ rvSnap.indexed = {} /\ ~rvView.built
  BY DEF RvInit, NoSnap, NoView
<1>2. Len(<<>>) = 0 /\ 1 .. 0 = {} /\ DOMAIN <<>> = {}
  OBVIOUS
<1>3. Of(1) = {} /\ Of(2) = {}
  BY <1>1, <1>2 DEF Of
<1>4. \A X : <<>> \in Seq(X)
  OBVIOUS
<1>5. IsInjective(<<>>) /\ InTurn(<<>>, {})
  BY <1>2 DEF IsInjective, InTurn
<1>6. SnapOk
  BY <1>1, <1>4, <1>5 DEF SnapOk
<1>7. IndexInv
  BY <1>1, <1>2, <1>3, <1>4, <1>6 DEF IndexInv
<1>8. ViewOk
  BY <1>1 DEF ViewOk, ViewMatchesArtifacts, BriefReadable
<1>9. Kept = {} /\ TextTaken = {}
  BY <1>1, <1>2 DEF Kept, TextTaken
<1>10. NotFetched = {} /\ NotExtracted = {}
  BY <1>1 DEF NotFetched, NotExtracted, Warned
<1>11. Through = Len(rvFetched) + Cardinality(NotFetched)
  BY DEF Through, NotFetched
<1>12. Through = 0 /\ IsFiniteSet(NotFetched)
  BY <1>1, <1>2, <1>10, <1>11, FS_EmptySet
<1>13. {rvSelected[k] : k \in 1 .. Through} = {} /\ {rvFetched[k].of : k \in 1 .. rvTried} = {}
  BY <1>1, <1>2, <1>12
<1>14. NodesInv
  BY <1>1, <1>2, <1>4, <1>5, <1>9, <1>10, <1>12, <1>13 DEF NodesInv
<1> QED BY <1>7, <1>8, <1>14 DEF RvInv

\* Every step keeps it.
LEMMA RvKept == ASSUME RvInv, [RvNext]_rvVars PROVE RvInv'
<1>0. IndexInv /\ ViewOk /\ NodesInv
  BY DEF RvInv
<1>1. CASE SearchAndSelect
  BY <1>0, <1>1, RvSearch DEF RvInv
<1>2. CASE FetchOne
  BY <1>0, <1>2, RvFetchOne DEF RvInv
<1>3. CASE FetchDone
  <2>1. NodesInv'
    <3>1. /\ rvNodes' = rvNodes /\ Through = Len(rvSelected) /\ rvPc' # "brief" /\ rvPc' # "search"
      BY <1>3 DEF FetchDone, rvNodes
    <3> QED BY <1>0, <3>1, NodesStay
  <2> QED BY <1>0, <1>3, <2>1, RvFetchDone DEF RvInv
<1>4. CASE ExtractOne
  BY <1>0, <1>4, RvExtractOne DEF RvInv
<1>5. CASE CreateSet
  BY <1>0, <1>5, RvCreateSet DEF RvInv
<1>6. CASE WriteBrief
  BY <1>0, <1>6, RvWriteBrief DEF RvInv
<1>7. CASE FlushRun \/ RunDies
  <2>1. NodesInv'
    <3>1. rvNodes' = rvNodes /\ rvPc' = "ended"
      BY <1>7 DEF FlushRun, RunDies, rvNodes
    <3> QED BY <1>0, <3>1, NodesStay
  <2> QED BY <1>0, <1>7, <2>1, RvFlush, RvDies DEF RvInv
<1>8. CASE AnotherRun \/ PruneIndex \/ TakeSnapshot \/ BuildView
  <2>1. NodesInv'
    <3>1. rvNodes' = rvNodes /\ rvPc' = rvPc
      BY <1>8 DEF AnotherRun, PruneIndex, TakeSnapshot, BuildView, rvNodes
    <3>2. /\ rvPc \in {"extract", "brief"} => Through = Len(rvSelected)
          /\ rvPc = "brief" => rvTried = Len(rvFetched)
      BY <1>0 DEF NodesInv
    <3> QED BY <1>0, <3>1, <3>2, NodesStay
  <2> QED BY <1>0, <1>8, <2>1, RvAnother, RvPrune, RvSnapshot, RvBuild DEF RvInv
<1>9. CASE UNCHANGED rvVars
  <2>1. /\ rvNodes' = rvNodes /\ rvPc' = rvPc /\ rvArts' = rvArts /\ rvIndex' = rvIndex /\ rvSnap' = rvSnap
        /\ rvView' = rvView
    BY <1>9 DEF rvVars, rvNodes
  <2>2. /\ rvPc \in {"extract", "brief"} => Through = Len(rvSelected)
        /\ rvPc = "brief" => rvTried = Len(rvFetched)
    BY <1>0 DEF NodesInv
  <2>3. NodesInv'
    BY <1>0, <2>1, <2>2, NodesStay
  <2>4. /\ rvIndex \subseteq DOMAIN rvArts /\ (rvIndex \cap Of(1) # {} => rvPc = "ended" /\ Of(1) \subseteq rvIndex)
        /\ rvSnap.indexed \cap Of(1) # {} /\ rvIndex \cap Of(1) # {} => rvSnap.indexed \cap Of(2) \subseteq rvIndex
    BY <1>0 DEF IndexInv
  <2>5. IndexInv' /\ ViewOk'
    BY <1>0, <2>1, <2>4, IndexMoves
  <2> QED BY <2>3, <2>5 DEF RvInv
<1> QED BY <1>1, <1>2, <1>3, <1>4, <1>5, <1>6, <1>7, <1>8, <1>9 DEF RvNext

\* The nodes of a research run lose no source, the view of the run says of each what
\* the readable artifacts say, and shows a brief that can be read while there is one:
\* whatever the searches find, the fetches bring and the index forgets in between.
THEOREM ResearchShownHolds == RvSpec => []ResearchShown
<1>1. RvInit => RvInv
  BY RvBegins
<1>2. RvInv /\ [RvNext]_rvVars => RvInv'
  BY RvKept
<1>3. RvInv => ResearchShown
  BY AccountedOk DEF RvInv, ViewOk, ResearchShown
<1> QED BY <1>1, <1>2, <1>3, PTL DEF RvSpec
=============================================================================
