---------------------------- MODULE AgentHostProofs ----------------------------
(***************************************************************************)
(* Safety of the agent's host for any servers, keys, goroutines, versions, *)
(* sessions and restarts: the service with its enrolment, the update       *)
(* manager, and the client's watchdog beside it.                           *)
(*                                                                         *)
(* The service: a key that is saved is one the server took, and while an   *)
(* identity is stored that nobody contests, nobody is between the check    *)
(* and the save of another.  That holds with the command line running      *)
(* beside the service; what the registry says of the identity only until   *)
(* the command line is first used.                                         *)
(*                                                                         *)
(* The update manager: the status is a lock that ApplyUpdate overwrites,   *)
(* and a lock all the same: a download sets it, and until that download    *)
(* ends nothing sets it to a value that admits another.  With one download *)
(* at a time a file that is being verified cannot be truncated by the next *)
(* download.                                                               *)
(*                                                                         *)
(* The watchdog: a script that waits or installs has its lock, unless the  *)
(* loss of the lock was noted.                                             *)
(***************************************************************************)
EXTENDS AgentService, ClientWatchdog, TLAPS

-----------------------------------------------------------------------------
(* With or without the command line.                                       *)

\* An enrolment has a server and a token, and saves a key that server took.
Enrolling ==
  \A p \in Procs :
    /\ phase[p] \in {"check", "post", "save"} => token[p] \in Tokens
    /\ phase[p] \in {"post", "save"} => cfgUrl[p] \in Urls
    /\ phase[p] = "save" => key[p] \in accepted[cfgUrl[p]]

ServiceInv == ServiceTypeOK /\ Enrolling /\ StoredIsAccepted

\* A fresh host has stored nothing.
LEMMA ServiceInitInv == ServiceInit => ServiceInv
<1> SUFFICES ASSUME ServiceInit PROVE ServiceInv
  OBVIOUS
<1>1. regToken \in Tokens \cup {NoUrl}
  BY DEF ServiceInit, Tokens
<1>2. ServiceTypeOK
  BY <1>1, ServiceAssumption DEF ServiceInit, ServiceTypeOK, Procs
<1> QED BY <1>2 DEF ServiceInit, ServiceInv, Enrolling, StoredIsAccepted

\* The service's own goroutine.
LEMMA ServiceStep ==
  ASSUME ServiceInv, Start \/ WorkerResult \/ Stop \/ ProcessEnds \/ WorkerCancelled \/ LoadIdentity
  PROVE  ServiceInv'
<1> USE ServiceAssumption DEF ServiceInv, ServiceTypeOK, Enrolling, StoredIsAccepted, Procs, disk, server
<1>1. CASE Start
  BY <1>1 DEF Start, StartSucceeds, StartFails
<1>2. CASE WorkerResult
  BY <1>2 DEF WorkerResult
<1>3. CASE Stop
  BY <1>3 DEF Stop
<1>4. CASE ProcessEnds
  BY <1>4 DEF ProcessEnds, Forget
<1>5. CASE WorkerCancelled
  BY <1>5 DEF WorkerCancelled
<1>6. CASE LoadIdentity
  BY <1>6 DEF LoadIdentity
<1> QED BY <1>1, <1>2, <1>3, <1>4, <1>5, <1>6

\* What the server has accepted stays accepted, and the new key is added.
LEMMA AcceptedGrows ==
  ASSUME ServiceInv, NEW p \in Procs, phase[p] = "post", ServerAccepts(p) \/ UNCHANGED server
  PROVE  /\ accepted' \in [Urls -> SUBSET (1..(keys + 1))]
         /\ \A u \in Urls : accepted[u] \subseteq accepted'[u]
         /\ ServerAccepts(p) => keys + 1 \in accepted'[cfgUrl[p]]
         /\ spent' \subseteq Tokens
<1> USE DEF ServiceInv, ServiceTypeOK, Enrolling, server
<1>1. cfgUrl[p] \in Urls /\ token[p] \in Tokens
  OBVIOUS
<1>2. keys + 1 \in 1..(keys + 1) /\ 1..keys \subseteq 1..(keys + 1)
  OBVIOUS
<1>3. accepted' \in [Urls -> SUBSET (1..(keys + 1))]
  BY <1>1, <1>2 DEF ServerAccepts
<1>4. \A u \in Urls : accepted[u] \subseteq accepted'[u]
  BY <1>1 DEF ServerAccepts
<1>5. ServerAccepts(p) => keys + 1 \in accepted'[cfgUrl[p]]
  BY <1>1 DEF ServerAccepts
<1>6. spent' \subseteq Tokens
  BY <1>1 DEF ServerAccepts
<1> QED BY <1>3, <1>4, <1>5, <1>6

\* The steps of an enrolment, of either process.
LEMMA EnrollStep ==
  ASSUME ServiceInv, NEW p \in Procs, CheckIdentity(p) \/ EnrollOk(p) \/ EnrollError(p) \/ SaveIdentity(p)
  PROVE  ServiceInv'
<1> USE ServiceAssumption DEF ServiceInv, ServiceTypeOK, Enrolling, StoredIsAccepted, Procs, disk, server
<1>1. CASE CheckIdentity(p)
  BY <1>1 DEF CheckIdentity, EnrollFails, AfterFailure, Forget
<1>2. CASE EnrollOk(p)
  <2>1. /\ accepted' \in [Urls -> SUBSET (1..(keys + 1))]
        /\ \A u \in Urls : accepted[u] \subseteq accepted'[u]
        /\ keys + 1 \in accepted'[cfgUrl[p]]
        /\ spent' \subseteq Tokens
    BY <1>2, AcceptedGrows DEF EnrollOk
  <2>2. key' \in [Procs -> 0..keys'] /\ key'[p] = keys + 1
    BY <1>2 DEF EnrollOk
  <2>3. ServiceTypeOK'
    BY <1>2, <2>1, <2>2 DEF EnrollOk, ServerAccepts
  <2>4. Enrolling'
    BY <1>2, <2>1, <2>2 DEF EnrollOk
  <2>5. StoredIsAccepted'
    BY <1>2, <2>1 DEF EnrollOk
  <2> QED BY <2>3, <2>4, <2>5
<1>3. CASE EnrollError(p)
  <2>1. /\ accepted' \in [Urls -> SUBSET (1..(keys + 1))]
        /\ \A u \in Urls : accepted[u] \subseteq accepted'[u]
        /\ spent' \subseteq Tokens
    BY <1>3, AcceptedGrows DEF EnrollError
  <2>2. key' \in [Procs -> 0..keys'] /\ token' \in [Procs -> Tokens \cup {NoUrl}]
    BY <1>3 DEF EnrollError, EnrollFails, Forget
  <2>3. phase'[p] \notin {"check", "post", "save"} /\ \A q \in Procs \ {p} :
          phase'[q] = phase[q] /\ token'[q] = token[q] /\ key'[q] = key[q]
    BY <1>3 DEF EnrollError, EnrollFails, AfterFailure, Forget
  <2>4. keys' = keys + 1 /\ archived' = archived
    BY <1>3 DEF EnrollError, ServerAccepts
  <2>5. /\ phase' \in [Procs -> {"idle", "load", "run", "pipe", "check", "post", "save", "ended"}]
        /\ svc' \in {"down", "starting", "running", "stopping"}
    BY <1>3 DEF EnrollError, EnrollFails, AfterFailure
  <2>6. identity' \in 0..keys' /\ runKey' \in 0..keys' /\ archived' \subseteq 1..keys' /\ keys' \in Nat
    BY <1>3, <2>4 DEF EnrollError
  <2>7. ServiceTypeOK'
    BY <1>3, <2>1, <2>2, <2>4, <2>5, <2>6 DEF EnrollError
  <2>8. Enrolling'
    BY <1>3, <2>1, <2>3 DEF EnrollError
  <2>9. StoredIsAccepted'
    BY <1>3, <2>1 DEF EnrollError
  <2> QED BY <2>7, <2>8, <2>9
<1>4. CASE SaveIdentity(p)
  <2>1. key[p] \in 1..keys
    BY <1>4 DEF SaveIdentity
  <2>2. contested' \subseteq 1..keys
    BY <1>4, <2>1 DEF SaveIdentity
  <2> QED BY <1>4, <2>1, <2>2 DEF SaveIdentity, EnrollDone, EnrollFails, AfterFailure, Forget
<1> QED BY <1>1, <1>2, <1>3, <1>4

\* Requests of the application, the command line and the server's archive.
LEMMA RequestStep ==
  ASSUME ServiceInv,
         \/ \E u \in Urls, t \in Tokens : BindRequest(u, t)
         \/ Unbound
         \/ \E u \in Urls \cup {NoUrl}, t \in Tokens : EnrollCLI(u, t)
         \/ \E k \in 1..MaxKeys : Archive(k)
  PROVE  ServiceInv'
<1> USE ServiceAssumption DEF ServiceInv, ServiceTypeOK, Enrolling, StoredIsAccepted, Procs, disk, server
<1>1. CASE \E u \in Urls, t \in Tokens : BindRequest(u, t)
  BY <1>1 DEF BindRequest
<1>2. CASE Unbound
  BY <1>2 DEF Unbound
<1>3. CASE \E u \in Urls \cup {NoUrl}, t \in Tokens : EnrollCLI(u, t)
  BY <1>3 DEF EnrollCLI
<1>4. CASE \E k \in 1..MaxKeys : Archive(k)
  BY <1>4 DEF Archive
<1> QED BY <1>1, <1>2, <1>3, <1>4

\* The invariant of the service.
LEMMA ServiceInvariant == ServiceSpec => []ServiceInv
<1>1. ServiceInv /\ [ServiceNext]_serviceVars => ServiceInv'
  <2>1. ServiceInv /\ UNCHANGED serviceVars => ServiceInv'
    BY DEF ServiceInv, ServiceTypeOK, Enrolling, StoredIsAccepted, serviceVars, disk, server
  <2> QED BY <2>1, ServiceStep, EnrollStep, RequestStep DEF ServiceNext
<1> QED BY ServiceInitInv, <1>1, PTL DEF ServiceSpec

\* Type correctness.
THEOREM ServiceTypeCorrect == ServiceSpec => []ServiceTypeOK
BY ServiceInvariant, PTL DEF ServiceInv

\* Whatever is lost or killed, the stored identity is one a server accepted.
THEOREM StoredIdentityAccepted == ServiceSpec => []StoredIsAccepted
BY ServiceInvariant, PTL DEF ServiceInv

-----------------------------------------------------------------------------
(* The identity and its competitors.                                       *)

\* Beside an identity nobody contests, no enrolment is past its check.
Settled ==
  identity # 0 /\ identity \notin contested => \A p \in Procs : phase[p] \notin {"post", "save"}

\* While the agent runs an identity the file holds it, or one that was stored
\* beside it.
RunsOwn == runKey # 0 => identity # 0 /\ (runKey = identity \/ identity \in contested)

KeptInv == ServiceInv /\ Settled /\ RunsOwn

\* The steps that store no identity.
LEMMA KeptServiceStep ==
  ASSUME KeptInv, Start \/ WorkerResult \/ Stop \/ ProcessEnds \/ WorkerCancelled \/ LoadIdentity
  PROVE  Settled' /\ RunsOwn'
<1> USE DEF KeptInv, ServiceInv, ServiceTypeOK, Settled, RunsOwn, Procs, disk
<1>1. CASE Start
  BY <1>1 DEF Start, StartSucceeds, StartFails
<1>2. CASE WorkerResult
  BY <1>2 DEF WorkerResult
<1>3. CASE Stop
  BY <1>3 DEF Stop
<1>4. CASE ProcessEnds
  BY <1>4 DEF ProcessEnds
<1>5. CASE WorkerCancelled
  BY <1>5 DEF WorkerCancelled
<1>6. CASE LoadIdentity
  BY <1>6 DEF LoadIdentity
<1> QED BY <1>1, <1>2, <1>3, <1>4, <1>5, <1>6

\* An enrolment passes its check only when there is no identity, and one that saves over
\* another, or beside another enrolment, is noted.
LEMMA KeptEnrollStep ==
  ASSUME KeptInv, NEW p \in Procs, CheckIdentity(p) \/ EnrollOk(p) \/ EnrollError(p) \/ SaveIdentity(p)
  PROVE  Settled' /\ RunsOwn'
<1> USE DEF KeptInv, ServiceInv, ServiceTypeOK, Settled, RunsOwn, Procs, disk
<1>1. CASE CheckIdentity(p)
  BY <1>1 DEF CheckIdentity, EnrollFails, AfterFailure
<1>2. CASE EnrollOk(p)
  BY <1>2 DEF EnrollOk
<1>3. CASE EnrollError(p)
  BY <1>3 DEF EnrollError, EnrollFails, AfterFailure
<1>4. CASE SaveIdentity(p)
  <2>1. CASE EnrollFails(p) /\ UNCHANGED <<identity, regToken, result, contested>>
    BY <1>4, <2>1 DEF SaveIdentity, EnrollFails, AfterFailure
  <2>2. CASE /\ identity' = key[p] /\ EnrollDone(p)
             /\ contested' = IF Contested(p) THEN contested \cup {key[p]} ELSE contested
    <3>1. key[p] # 0 /\ runKey' = runKey
      BY <1>4 DEF SaveIdentity, Enrolling
    <3>2. phase' = [phase EXCEPT ![p] = phase'[p]] /\ phase'[p] \notin {"post", "save"}
      BY <2>2 DEF EnrollDone
    <3>3. CASE Contested(p)
      BY <2>2, <3>1, <3>3
    <3>4. CASE ~Contested(p)
      BY <2>2, <3>1, <3>2, <3>4 DEF Contested
    <3> QED BY <3>3, <3>4
  <2> QED BY <1>4, <2>1, <2>2 DEF SaveIdentity
<1> QED BY <1>1, <1>2, <1>3, <1>4

\* The application, the command line and the server.
LEMMA KeptRequestStep ==
  ASSUME KeptInv,
         \/ \E u \in Urls, t \in Tokens : BindRequest(u, t)
         \/ Unbound
         \/ \E u \in Urls \cup {NoUrl}, t \in Tokens : EnrollCLI(u, t)
         \/ \E k \in 1..MaxKeys : Archive(k)
  PROVE  Settled' /\ RunsOwn'
<1> USE DEF KeptInv, ServiceInv, ServiceTypeOK, Settled, RunsOwn, Procs, disk
<1>1. CASE \E u \in Urls, t \in Tokens : BindRequest(u, t)
  BY <1>1 DEF BindRequest
<1>2. CASE Unbound
  BY <1>2 DEF Unbound
<1>3. CASE \E u \in Urls \cup {NoUrl}, t \in Tokens : EnrollCLI(u, t)
  BY <1>3 DEF EnrollCLI
<1>4. CASE \E k \in 1..MaxKeys : Archive(k)
  BY <1>4 DEF Archive
<1> QED BY <1>1, <1>2, <1>3, <1>4

\* The identity and its competitors, in every behaviour.
LEMMA KeptInvariant == ServiceSpec => []KeptInv
<1>1. ServiceInit => Settled /\ RunsOwn
  BY DEF ServiceInit, Settled, RunsOwn
<1>2. KeptInv /\ ServiceInv' /\ [ServiceNext]_serviceVars => KeptInv'
  <2>1. KeptInv /\ UNCHANGED serviceVars => Settled' /\ RunsOwn'
    BY DEF KeptInv, Settled, RunsOwn, serviceVars, disk
  <2> QED BY <2>1, KeptServiceStep, KeptEnrollStep, KeptRequestStep DEF ServiceNext, KeptInv
<1>3. ServiceInit => KeptInv
  BY <1>1, ServiceInitInv DEF KeptInv
<1> QED BY <1>2, <1>3, ServiceInvariant, PTL DEF ServiceSpec

\* No process, restart or kill replaces an identity, and only an archived one
\* is deleted, unless it was stored while another enrolment was past its check.
THEOREM IdentityNotReplaced == ServiceSpec => IdentityKept
<1>1. ASSUME KeptInv, ServiceNext, identity' # identity, identity # 0, identity \notin contested
      PROVE  identity' = 0 /\ identity \in archived
  <2>1. ASSUME NEW p \in Procs, SaveIdentity(p) PROVE FALSE
    BY <1>1, <2>1 DEF SaveIdentity, KeptInv, Settled
  <2>2. CASE Unbound
    <3>1. runKey # 0
      BY <1>1, <2>2 DEF Unbound, KeptInv, ServiceInv, ServiceTypeOK
    <3> QED BY <1>1, <2>2, <3>1 DEF Unbound, KeptInv, RunsOwn
  <2>3. Unbound \/ \E p \in Procs : SaveIdentity(p)
    BY <1>1 DEF ServiceNext, Start, WorkerResult, Stop, ProcessEnds, WorkerCancelled, LoadIdentity,
       CheckIdentity, EnrollOk, EnrollError, BindRequest, EnrollCLI, Archive, disk
  <2> QED BY <2>1, <2>2, <2>3
<1>2. KeptInv /\ [ServiceNext]_serviceVars
        => [identity' # identity /\ identity # 0 /\ identity \notin contested
              => identity' = 0 /\ identity \in archived]_serviceVars
  BY <1>1
<1> QED BY KeptInvariant, <1>2, PTL DEF ServiceSpec, IdentityKept

-----------------------------------------------------------------------------
(* Only the service enrols.                                                *)

\* A process that runs uses the registry's server.
ConfigIsRegistry == svc # "down" => cfgUrl["service"] = regUrl

\* A service that waits to be bound, or enrols, has no identity.
WaitsWithout ==
  /\ phase["service"] \in {"pipe", "check", "post", "save"} => identity = 0
  /\ phase["service"] = "ended" /\ result = "unbound" => identity = 0

\* The worker belongs to the process.
DownIsIdle == svc = "down" => phase["service"] = "idle"

\* The identity and what runs, without the command line.
Pinned == identity # 0 => regUrl # NoUrl /\ identity \in accepted[regUrl]
RunsStored == phase["service"] = "run" => runKey = identity

Sole ==
  /\ phase["cli"] = "idle"
  /\ ConfigIsRegistry /\ WaitsWithout /\ DownIsIdle /\ Pinned /\ RunsStored

SoleInv == ServiceInv /\ (cli = 0 => Sole)

\* Before the first use of the command line.
LEMMA SoleInit == ServiceInit => SoleInv
BY ServiceInitInv DEF ServiceInit, SoleInv, Sole, ConfigIsRegistry, WaitsWithout, DownIsIdle, Pinned,
               RunsStored, Procs

\* The service by itself keeps configuration, registry and identity together.
LEMMA SoleServiceStep ==
  ASSUME ServiceInv, Sole, ServiceInv',
         Start \/ WorkerResult \/ Stop \/ ProcessEnds \/ WorkerCancelled \/ LoadIdentity
  PROVE  Sole'
<1> USE DEF Sole, ServiceInv, ServiceTypeOK, ConfigIsRegistry, WaitsWithout, DownIsIdle, Pinned, RunsStored,
            Procs, disk, server
<1>1. CASE Start
  BY <1>1 DEF Start, StartSucceeds, StartFails
<1>2. CASE WorkerResult
  BY <1>2 DEF WorkerResult
<1>3. CASE Stop
  BY <1>3 DEF Stop
<1>4. CASE ProcessEnds
  BY <1>4 DEF ProcessEnds
<1>5. CASE WorkerCancelled
  BY <1>5 DEF WorkerCancelled
<1>6. CASE LoadIdentity
  BY <1>6 DEF LoadIdentity
<1> QED BY <1>1, <1>2, <1>3, <1>4, <1>5, <1>6

\* The enrolment of the service: it has no identity yet, and stores one of the server it
\* is configured for.
LEMMA SoleEnrollStep ==
  ASSUME ServiceInv, Sole, ServiceInv',
         \/ CheckIdentity("service") \/ EnrollOk("service") \/ EnrollError("service")
         \/ SaveIdentity("service")
  PROVE  Sole'
<1> USE ServiceAssumption
    DEF Sole, ServiceInv, ServiceTypeOK, Enrolling, ConfigIsRegistry, WaitsWithout, DownIsIdle, Pinned,
        RunsStored, Procs, disk, server
<1>1. CASE CheckIdentity("service")
  BY <1>1 DEF CheckIdentity, EnrollFails, AfterFailure
<1>2. CASE EnrollOk("service")
  BY <1>2 DEF EnrollOk, ServerAccepts
<1>3. CASE EnrollError("service")
  BY <1>3 DEF EnrollError, ServerAccepts, EnrollFails, AfterFailure
<1>4. CASE SaveIdentity("service")
  BY <1>4 DEF SaveIdentity, EnrollDone, EnrollFails, AfterFailure
<1> QED BY <1>1, <1>2, <1>3, <1>4

\* A binding and an archived identity.
LEMMA SoleRequestStep ==
  ASSUME ServiceInv, Sole, ServiceInv',
         \/ \E u \in Urls, t \in Tokens : BindRequest(u, t)
         \/ Unbound
         \/ \E k \in 1..MaxKeys : Archive(k)
  PROVE  Sole'
<1> USE DEF Sole, ServiceInv, ServiceTypeOK, ConfigIsRegistry, WaitsWithout, DownIsIdle, Pinned, RunsStored,
            Procs, disk, server
<1>1. CASE \E u \in Urls, t \in Tokens : BindRequest(u, t)
  BY <1>1 DEF BindRequest
<1>2. CASE Unbound
  BY <1>2 DEF Unbound
<1>3. CASE \E k \in 1..MaxKeys : Archive(k)
  BY <1>3 DEF Archive
<1> QED BY <1>1, <1>2, <1>3

\* A step of the idle command line is its first use.
LEMMA IdleCli ==
  ASSUME Sole, CheckIdentity("cli") \/ EnrollOk("cli") \/ EnrollError("cli") \/ SaveIdentity("cli")
  PROVE  FALSE
BY DEF Sole, CheckIdentity, EnrollOk, EnrollError, SaveIdentity

\* The count of uses never falls, and the first use of the command line ends
\* the part of the behaviour these properties are about.
LEMMA CliCounts ==
  ASSUME ServiceInv, [ServiceNext]_serviceVars
  PROVE  cli' = cli \/ cli' > 0
<1>1. cli \in Nat
  BY DEF ServiceInv, ServiceTypeOK
<1> QED BY <1>1 DEF ServiceNext, serviceVars, Start, WorkerResult, Stop, ProcessEnds, WorkerCancelled,
           LoadIdentity, CheckIdentity, EnrollOk, EnrollError, SaveIdentity, BindRequest, Unbound,
           EnrollCLI, Archive

\* What holds until the command line is first used.
LEMMA SoleInvariant == ServiceSpec => []SoleInv
<1>1. SoleInv /\ ServiceInv' /\ [ServiceNext]_serviceVars => SoleInv'
  <2> SUFFICES ASSUME SoleInv, ServiceInv', [ServiceNext]_serviceVars, cli' = 0 PROVE Sole'
    BY DEF SoleInv
  <2>1. ServiceInv /\ Sole
    BY CliCounts DEF SoleInv
  <2>2. CASE UNCHANGED serviceVars
    BY <2>1, <2>2 DEF Sole, ConfigIsRegistry, WaitsWithout, DownIsIdle, Pinned, RunsStored, serviceVars,
                      disk, server
  <2>3. CASE \E u \in Urls \cup {NoUrl}, t \in Tokens : EnrollCLI(u, t)
    BY <2>1, <2>3 DEF EnrollCLI, ServiceInv, ServiceTypeOK
  <2> QED BY <2>1, <2>2, <2>3, IdleCli, SoleServiceStep, SoleEnrollStep, SoleRequestStep
          DEF ServiceNext, Procs
<1> QED BY SoleInit, ServiceInvariant, <1>1, PTL DEF ServiceSpec

\* Restarts, kills and refused bindings included, the identity belongs to the
\* server the registry names.
THEOREM IdentityAtConfiguredServer == ServiceSpec => []PinnedServer
<1>1. SoleInv => PinnedServer
  BY DEF SoleInv, Sole, Pinned, PinnedServer
<1> QED BY <1>1, SoleInvariant, PTL

\* The agent runs the identity that is stored.
THEOREM RunningIdentityStored == ServiceSpec => []RunsStoredIdentity
<1>1. SoleInv => RunsStoredIdentity
  BY DEF SoleInv, Sole, RunsStored, RunsStoredIdentity
<1> QED BY <1>1, SoleInvariant, PTL

-----------------------------------------------------------------------------
(* The update manager.                                                     *)

\* While a goroutine downloads the manager is busy.
DownloadIsBusy == \A t \in Tasks : Downloading(t) => Busy

\* A goroutine at work knows its version.
VersionKnown == \A t \in Tasks : pc[t] # "idle" => ver[t] \in Versions

\* A file that is being verified is whole (or was removed).
VerifiedWhole == \A t \in Tasks : pc[t] = "verify" => tmp[ver[t]] # "partial"

UpdateInv ==
  /\ TypeOK /\ DownloadIsBusy /\ OneDownload /\ VersionKnown /\ VerifiedWhole
  /\ CacheVerified

\* A fresh agent downloads nothing.
LEMMA UpdateInitInv == UpdateInit => UpdateInv
BY DEF UpdateInit, UpdateInv, TypeOK, DownloadIsBusy, OneDownload, VersionKnown, VerifiedWhole,
       CacheVerified, Downloading, Contents

\* A message starts a goroutine and touches nothing else.
LEMMA MessageStep ==
  ASSUME UpdateInv, NEW t \in Tasks, NEW k \in {"stage", "apply"}, NEW v \in Versions,
         UpdateMessage(t, k, v)
  PROVE  UpdateInv'
BY DEF UpdateInv, TypeOK, DownloadIsBusy, OneDownload, VersionKnown, VerifiedWhole, CacheVerified,
       Downloading, Contents, Busy, UpdateMessage, files

\* StageUpdate up to the end of the download.
LEMMA DownloadStep ==
  ASSUME UpdateInv, NEW t \in Tasks, Stat(t) \/ Stage(t) \/ Create(t) \/ Download(t)
  PROVE  UpdateInv'
<1> USE DEF UpdateInv, TypeOK, DownloadIsBusy, OneDownload, VersionKnown, VerifiedWhole, CacheVerified,
            Downloading, Contents, Busy
<1>1. CASE Stat(t)
  BY <1>1 DEF Stat, files
<1>2. CASE Stage(t)
  BY <1>2 DEF Stage, files
<1>3. CASE Create(t)
  BY <1>3 DEF Create
<1>4. CASE Download(t)
  BY <1>4 DEF Download, Fail
<1> QED BY <1>1, <1>2, <1>3, <1>4

\* From the checksum to the end of StageUpdate.
LEMMA VerifyStep ==
  ASSUME UpdateInv, NEW t \in Tasks, Verify(t) \/ Staged(t) \/ RemoveTemp(t)
  PROVE  UpdateInv'
<1> USE DEF UpdateInv, TypeOK, DownloadIsBusy, OneDownload, VersionKnown, VerifiedWhole, CacheVerified,
            Downloading, Contents, Busy
<1>1. CASE Verify(t)
  BY <1>1 DEF Verify, Fail, Mismatch
<1>2. CASE Staged(t)
  BY <1>2 DEF Staged, files
<1>3. CASE RemoveTemp(t)
  BY <1>3 DEF RemoveTemp
<1> QED BY <1>1, <1>2, <1>3

\* ApplyUpdate and the detached script.
LEMMA ApplyStep ==
  ASSUME UpdateInv, NEW t \in Tasks, Apply(t) \/ Launch(t) \/ ScriptInstalls(t) \/ ScriptEnds(t)
  PROVE  UpdateInv'
<1> USE DEF UpdateInv, TypeOK, DownloadIsBusy, OneDownload, VersionKnown, VerifiedWhole, CacheVerified,
            Downloading, Contents, Busy, files
<1>1. CASE Apply(t)
  BY <1>1 DEF Apply
<1>2. CASE Launch(t)
  BY <1>2 DEF Launch
<1>3. CASE ScriptInstalls(t)
  BY <1>3 DEF ScriptInstalls
<1>4. CASE ScriptEnds(t)
  BY <1>4 DEF ScriptEnds
<1> QED BY <1>1, <1>2, <1>3, <1>4

\* A restart ends all goroutines and leaves the files.
LEMMA RestartStep == UpdateInv /\ Restart => UpdateInv'
BY DEF UpdateInv, TypeOK, DownloadIsBusy, OneDownload, VersionKnown, VerifiedWhole, CacheVerified,
            Downloading, Contents, Busy, Restart, files

\* Steps of others.
LEMMA UpdateStutter == UpdateInv /\ UNCHANGED updateVars => UpdateInv'
BY DEF UpdateInv, TypeOK, DownloadIsBusy, OneDownload, VersionKnown, VerifiedWhole, CacheVerified,
            Downloading, Contents, Busy, updateVars, files

\* The invariant of the update manager.
LEMMA UpdateInvariant == UpdateSpec => []UpdateInv
<1>1. UpdateInv /\ [UpdateNext]_updateVars => UpdateInv'
  BY MessageStep, DownloadStep, VerifyStep, ApplyStep, RestartStep, UpdateStutter DEF UpdateNext
<1> QED BY UpdateInitInv, <1>1, PTL DEF UpdateSpec

\* Type correctness.
THEOREM UpdateTypeCorrect == UpdateSpec => []TypeOK
BY UpdateInvariant, PTL DEF UpdateInv

\* However stage and apply messages meet, one goroutine at a time downloads.
THEOREM DownloadsExclusive == UpdateSpec => []OneDownload
BY UpdateInvariant, PTL DEF UpdateInv

\* The cache holds whole packages, and what update_stage left there has the
\* announced checksum.
THEOREM CacheTrustworthy == UpdateSpec => []CacheVerified
BY UpdateInvariant, PTL DEF UpdateInv

-----------------------------------------------------------------------------
(* The watchdog.                                                           *)

\* A pending script has its lock, unless a loss was noted.
LockedWhilePending == Pending /\ lock = "none" => lost = "yes"

WatchdogInv ==
  /\ lock \in {"none", "there"} /\ app \in [Sess -> {"up", "down"}] /\ age \in {"fresh", "stale"}
  /\ script \in [Tasks -> {"none", "waiting", "installing", "done"}]
  /\ LockedWhilePending

\* The invariant holds at the beginning: no script runs.
LEMMA WatchdogInit == Init => WatchdogInv
BY DEF Init, UpdateInit, WatchdogInv, LockedWhilePending, Pending

\* A step of the update manager leaves a pending script without a lock only if it had none,
\* or as one of the two ways that are noted.
LEMMA LockGoesNoted ==
  ASSUME WatchdogInv, UpdateNext, lock' = "none", Pending'
  PROVE  (Pending /\ lock = "none") \/ Unprotected
<1> USE DEF Pending, Unprotected, WatchdogInv
<1>1. ASSUME Restart PROVE Pending /\ lock = "none"
  BY <1>1 DEF Restart
<1>2. ASSUME NEW t \in Tasks, Launch(t) PROVE (Pending /\ lock = "none") \/ Unprotected
  <2>1. lock = "none"
    BY <1>2 DEF Launch
  <2>2. CASE script' = script
    BY <2>1, <2>2
  <2>3. CASE script' = [script EXCEPT ![t] = "waiting"] /\ script' # script
    BY <2>1, <2>3, <1>2 DEF Launch
  <2> QED BY <1>2, <2>2, <2>3 DEF Launch
<1>3. ASSUME NEW t \in Tasks, ScriptEnds(t) PROVE (Pending /\ lock = "none") \/ Unprotected
  BY <1>3 DEF ScriptEnds
<1>4. ASSUME NEW t \in Tasks, ScriptInstalls(t) PROVE Pending /\ lock = "none"
  BY <1>4 DEF ScriptInstalls
<1>5. ASSUME NEW t \in Tasks,
             \/ \E k \in {"stage", "apply"}, v \in Versions : UpdateMessage(t, k, v)
             \/ Stat(t) \/ Stage(t) \/ Create(t) \/ Download(t) \/ Verify(t) \/ Staged(t)
             \/ RemoveTemp(t) \/ Apply(t)
      PROVE  Pending /\ lock = "none"
  BY <1>5 DEF UpdateMessage, Stat, Stage, Create, Download, Verify, Staged, RemoveTemp, Apply
<1> QED BY <1>1, <1>2, <1>3, <1>4, <1>5 DEF UpdateNext

\* A turn of the watchdog while a script is pending is noted.
LEMMA TurnNoted ==
  ASSUME WatchdogInv, WorkerLoop, Pending
  PROVE  lost' = "yes"
<1>1. CASE LockUnseen
  BY <1>1 DEF LockUnseen
<1>2. CASE LockTooOld
  <2>1. CASE age = "stale"
    BY <1>2, <2>1 DEF LockTooOld
  <2>2. CASE age # "stale"
    BY <1>2, <2>2 DEF LockTooOld, LockHonoured, WatchdogInv, LockedWhilePending
  <2> QED BY <2>1, <2>2
<1> QED BY <1>1, <1>2 DEF WorkerLoop

\* Every step keeps the invariant: whoever takes a lock away notes it if a script is pending.
LEMMA WatchdogStep == WatchdogInv /\ [Next]_vars => WatchdogInv'
<1> SUFFICES ASSUME WatchdogInv, [Next]_vars PROVE WatchdogInv'
  OBVIOUS
<1>1. CASE UpdateStep
  <2>1. lock' \in {"none", "there"}
    BY <1>1 DEF UpdateStep, UpdateNext, WatchdogInv, Restart, UpdateMessage, Stat, Stage, Create,
       Download, Verify, Staged, RemoveTemp, Apply, Launch, ScriptInstalls, ScriptEnds
  <2>2. app' \in [Sess -> {"up", "down"}] /\ age' \in {"fresh", "stale"}
    BY <1>1 DEF UpdateStep, TaskKill, WatchdogInv
  <2>3. script' \in [Tasks -> {"none", "waiting", "installing", "done"}]
    BY <1>1 DEF UpdateStep, UpdateNext, WatchdogInv, Restart, UpdateMessage, Stat, Stage, Create,
       Download, Verify, Staged, RemoveTemp, Apply, Launch, ScriptInstalls, ScriptEnds
  <2>4. ASSUME Pending', lock' = "none" PROVE lost' = "yes"
    <3>1. (Pending /\ lock = "none") \/ Unprotected
      BY <1>1, <2>4, LockGoesNoted DEF UpdateStep, WatchdogInv
    <3> QED BY <1>1, <2>4, <3>1 DEF UpdateStep, WatchdogInv, LockedWhilePending
  <2> QED BY <2>1, <2>2, <2>3, <2>4 DEF WatchdogInv, LockedWhilePending
<1>2. CASE WorkerLoop
  <2>1. lock' \in {"none", "there"} /\ script' = script
    BY <1>2 DEF WorkerLoop, LockTooOld, LockUnseen, ServeSessions, WatchdogInv
  <2>2. app' \in [Sess -> {"up", "down"}] /\ age' \in {"fresh", "stale"}
    BY <1>2 DEF WorkerLoop, ServeSessions, WatchdogInv
  <2>3. Pending' => lost' = "yes"
    BY <1>2, <2>1, TurnNoted DEF Pending
  <2> QED BY <2>1, <2>2, <2>3 DEF WatchdogInv, LockedWhilePending
<1>3. CASE \/ LockAges \/ UNCHANGED vars
           \/ \E s \in Sess : CooldownOver(s) \/ ClientDies(s) \/ SessionChanges(s) \/ WorkerChanges(s)
  BY <1>3 DEF LockAges, CooldownOver, ClientDies, SessionChanges, WorkerChanges, updateVars, vars,
     watchdogVars, WatchdogInv, LockedWhilePending, Pending
<1> QED BY <1>1, <1>2, <1>3 DEF Next

\* The invariant of the watchdog.
LEMMA WatchdogInvariant == Spec => []WatchdogInv
BY WatchdogInit, WatchdogStep, PTL DEF Spec

\* Only a turn of the watchdog starts a client, and it starts none while an installation
\* runs, unless the lock failed the script: it could not be written or looked at, was too
\* old, or went with an overlapping script.
THEOREM WatchdogStaysAway == Spec => NoInterference
<1> DEFINE Quiet == (\A s \in Sess : app[s] = "down" /\ app'[s] = "up" => ~Installing) \/ lost' = "yes"
<1>1. ASSUME WatchdogInv, Next PROVE Quiet
  <2>1. CASE WorkerLoop
    <3>1. Installing => Pending
      BY DEF Installing, Pending
    <3> QED BY <1>1, <2>1, <3>1, TurnNoted
  <2>2. CASE UpdateStep
    BY <1>1, <2>2 DEF UpdateStep, TaskKill, WatchdogInv
  <2>3. CASE LockAges \/ \E s \in Sess : CooldownOver(s) \/ ClientDies(s) \/ SessionChanges(s) \/ WorkerChanges(s)
    BY <1>1, <2>3 DEF LockAges, CooldownOver, ClientDies, SessionChanges, WorkerChanges, WatchdogInv
  <2> QED BY <1>1, <2>1, <2>2, <2>3 DEF Next
<1>2. WatchdogInv /\ [Next]_vars => [Quiet]_vars
  BY <1>1
<1> HIDE DEF Quiet
<1>3. Spec => [][Quiet]_vars
  BY WatchdogInvariant, <1>2, PTL DEF Spec
<1> QED BY <1>3 DEF Quiet, NoInterference
=============================================================================
