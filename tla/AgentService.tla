----------------------------- MODULE AgentService -----------------------------
(***************************************************************************)
(* The lifecycle of the Link agent on a Windows host (main_windows.go,     *)
(* runtime.go, enrollment.go, binding_pipe_windows.go): a service without  *)
(* an identity enrols with the token the installer left in the registry,   *)
(* or waits at a local pipe for the desktop application to bind it; a      *)
(* service with one runs the agent until the server archives it.           *)
(*                                                                         *)
(* The service and the command line ("--enroll") are two processes over    *)
(* one identity file and one registry key; both run the same enrolment.    *)
(* The service's process may be killed, and its stop is not awaited longer *)
(* than a limit.  An identity is its key, a number: no two are the same.   *)
(***************************************************************************)
EXTENDS Integers, FiniteSets

CONSTANTS
  Urls,        \* server base URLs
  NoUrl,       \* no URL, no token
  MaxKeys,     \* bound: keys generated
  MaxStarts,   \* bound: starts of the service
  MaxCli       \* bound: enrolments from the command line

ASSUME ServiceAssumption ==
  NoUrl \notin Urls /\ MaxKeys \in Nat /\ MaxStarts \in Nat /\ MaxCli \in Nat

Procs == {"service", "cli"}

VARIABLES
  svc,        \* the service: "down", "starting", "running" or "stopping"
  phase,      \* where each process' worker is
  mode,       \* who called the service's enrolment: "headless" or "pipe"
  result,     \* what the worker sent over workerResults
  cfgUrl,     \* config.ServerURL of each process
  token,      \* the enrolment token each process uses
  key,        \* the key each process enrols with
  runKey,     \* the identity RunStoredAgent has loaded, 0 if none
  identity,   \* the identity file: a key, 0 if there is none
  regUrl,     \* registry value ServerURL
  regToken,   \* registry value EnrollToken
  keys,       \* keys generated so far
  accepted,   \* keys each server accepted (external)
  archived,   \* keys their server archived (external)
  spent,      \* tokens used (external)
  starts,     \* starts of the service so far
  cli,        \* enrolments from the command line so far
  contested   \* keys saved while another enrolment was past its check (history)

disk == <<identity, regUrl, regToken>>
server == <<accepted, archived, spent>>
serviceVars == <<svc, phase, mode, result, cfgUrl, token, key, runKey, disk, keys, server, starts, cli, contested>>

\* A token is issued by one server; there is one for the installer and one
\* for the application.
Tokens == Urls \X {"installer", "app"}

\* A new host; the installer may have configured a server and a token.
ServiceInit ==
  /\ svc = "down" /\ result = "none" /\ mode = "pipe"
  /\ phase = [p \in Procs |-> "idle"]
  /\ cfgUrl = [p \in Procs |-> NoUrl] /\ token = [p \in Procs |-> NoUrl]
  /\ key = [p \in Procs |-> 0]
  /\ runKey = 0 /\ identity = 0
  /\ regUrl \in Urls \cup {NoUrl}
  /\ regToken \in (Urls \X {"installer"}) \cup {NoUrl}
  /\ keys = 0 /\ accepted = [u \in Urls |-> {}] /\ archived = {} /\ spent = {} /\ starts = 0
  /\ cli = 0 /\ contested = {}

\* The token and the key pair are cleared when the enrolment returns.
Forget(p) == token' = [token EXCEPT ![p] = NoUrl] /\ key' = [key EXCEPT ![p] = 0]

-----------------------------------------------------------------------------
(* The service's own goroutine.                                            *)

\* The configuration cannot be read, the identity file is there but cannot be
\* loaded, or the configured server is not valid: the service does not start.
StartFails == UNCHANGED <<svc, phase, mode, token, cfgUrl, result>>

\* Execute up to its first worker.  With an identity the configured server
\* must be valid.
StartSucceeds ==
  /\ cfgUrl' = [cfgUrl EXCEPT !["service"] = regUrl]
  /\ result' = "none"
  /\ \/ identity # 0 /\ regUrl # NoUrl
        /\ svc' = "running" /\ phase' = [phase EXCEPT !["service"] = "load"]
        /\ UNCHANGED <<mode, token>>
     \/ identity = 0 /\ regToken # NoUrl
        /\ svc' = "starting" /\ phase' = [phase EXCEPT !["service"] = "check"]
        /\ mode' = "headless" /\ token' = [token EXCEPT !["service"] = regToken]
     \/ identity = 0 /\ regToken = NoUrl
        /\ svc' = "running" /\ phase' = [phase EXCEPT !["service"] = "pipe"]
        /\ UNCHANGED <<mode, token>>

Start ==
  /\ svc = "down" /\ starts < MaxStarts
  /\ starts' = starts + 1
  /\ StartSucceeds \/ StartFails
  /\ UNCHANGED <<key, runKey, disk, keys, server, cli, contested>>

\* Mutant: a bound service waits to be bound once more.
WorkerResultRebinds ==
  /\ svc = "running" /\ phase["service"] = "ended" /\ result \in {"unbound", "bound"}
  /\ phase' = [phase EXCEPT !["service"] = "pipe"] /\ result' = "none"
  /\ UNCHANGED <<svc, mode, cfgUrl, token, key, runKey, disk, keys, server, starts, cli, contested>>

\* Execute's loop: an archived agent waits to be bound again, a bound one
\* runs (anything else ends the service: ProcessEnds).
WorkerResult ==
  /\ svc = "running" /\ phase["service"] = "ended" /\ result' = "none"
  /\ \/ result = "unbound" /\ phase' = [phase EXCEPT !["service"] = "pipe"]
     \/ result = "bound" /\ phase' = [phase EXCEPT !["service"] = "load"]
  /\ UNCHANGED <<svc, mode, cfgUrl, token, key, runKey, disk, keys, server, starts, cli, contested>>

\* svc.Stop or svc.Shutdown: cancel, then waitForWorkers.
Stop ==
  /\ svc = "running"
  /\ svc' = "stopping"
  /\ UNCHANGED <<phase, mode, result, cfgUrl, token, key, runKey, disk, keys, server, starts, cli, contested>>

\* The process ends: a worker has ended with an error, waitForWorkers has its
\* result or its time is up, or the process is killed; in the last two cases
\* the worker is stopped wherever it is.
ProcessEnds ==
  /\ svc # "down"
  /\ svc' = "down" /\ phase' = [phase EXCEPT !["service"] = "idle"]
  /\ mode' = "pipe" /\ result' = "none" /\ runKey' = 0
  /\ cfgUrl' = [cfgUrl EXCEPT !["service"] = NoUrl] /\ Forget("service")
  /\ UNCHANGED <<disk, keys, server, starts, cli, contested>>

\* The worker notices that the context is cancelled.
WorkerCancelled ==
  /\ svc = "stopping" /\ phase["service"] \in {"pipe", "run"}
  /\ phase' = [phase EXCEPT !["service"] = "ended"] /\ result' = "error" /\ runKey' = 0
  /\ UNCHANGED <<svc, mode, cfgUrl, token, key, disk, keys, server, starts, cli, contested>>

-----------------------------------------------------------------------------
(* Enrolment: EnrollAndStoreIdentity.                                      *)

\* Where a process goes when its enrolment fails: the headless one falls back
\* to the pipe, the pipe answers with an error code and listens again.
AfterFailure(p) == IF p = "cli" THEN "idle" ELSE "pipe"

EnrollFails(p) ==
  /\ Forget(p)
  /\ phase' = [phase EXCEPT ![p] = AfterFailure(p)]
  /\ svc' = IF p = "service" /\ svc = "starting" THEN "running" ELSE svc

\* Mutant: a host that is already enrolled enrols again.
CheckUrlOnly(p) ==
  /\ phase[p] = "check"
  /\ \/ EnrollFails(p)
     \/ /\ cfgUrl[p] # NoUrl
        /\ phase' = [phase EXCEPT ![p] = "post"] /\ UNCHANGED <<svc, token, key>>
  /\ UNCHANGED <<mode, result, cfgUrl, runKey, disk, keys, server, starts, cli, contested>>

\* The URL must be valid and the host must not have an identity, nor a file
\* that cannot be loaded.
CheckIdentity(p) ==
  /\ phase[p] = "check"
  /\ \/ EnrollFails(p)
     \/ /\ cfgUrl[p] # NoUrl /\ identity = 0
        /\ phase' = [phase EXCEPT ![p] = "post"] /\ UNCHANGED <<svc, token, key>>
  /\ UNCHANGED <<mode, result, cfgUrl, runKey, disk, keys, server, starts, cli, contested>>

\* The server takes a token it issued, once (external).
ServerAccepts(p) ==
  /\ token[p][1] = cfgUrl[p] /\ token[p] \notin spent
  /\ accepted' = [accepted EXCEPT ![cfgUrl[p]] = @ \cup {keys + 1}]
  /\ spent' = spent \cup {token[p]}
  /\ UNCHANGED archived

\* EnrollAgent: a new key pair, one request, and an answer for that key.
EnrollOk(p) ==
  /\ phase[p] = "post" /\ keys < MaxKeys
  /\ keys' = keys + 1 /\ key' = [key EXCEPT ![p] = keys + 1]
  /\ ServerAccepts(p)
  /\ phase' = [phase EXCEPT ![p] = "save"]
  /\ UNCHANGED <<svc, mode, result, cfgUrl, token, runKey, disk, starts, cli, contested>>

\* No valid answer: the request is lost or rejected, or the answer to an
\* accepted one is lost, and with it the token.
EnrollError(p) ==
  /\ phase[p] = "post" /\ keys < MaxKeys
  /\ keys' = keys + 1
  /\ ServerAccepts(p) \/ UNCHANGED server
  /\ EnrollFails(p)
  /\ UNCHANGED <<mode, result, cfgUrl, runKey, disk, starts, cli, contested>>

\* Success: the headless enrolment deletes the registry token and starts the
\* runtime, the pipe answers the application and hands over to Execute, the
\* command line deletes the token (a failing delete is ignored).
EnrollDone(p) ==
  /\ Forget(p)
  /\ IF p = "service" /\ mode = "pipe"
     THEN /\ phase' = [phase EXCEPT ![p] = "ended"] /\ result' = "bound"
          /\ UNCHANGED <<regToken, svc>>
     ELSE /\ phase' = [phase EXCEPT ![p] = IF p = "cli" THEN "idle" ELSE "load"]
          /\ regToken' \in {NoUrl, regToken}
          /\ svc' = IF p = "service" THEN "running" ELSE svc
          /\ UNCHANGED result

\* Some enrolment checked before the other one saved.
Contested(p) == identity # 0 \/ \E q \in Procs \ {p} : phase[q] \in {"post", "save"}

\* SaveIdentity replaces the file in one step, whatever it holds by now, or
\* fails.
SaveIdentity(p) ==
  /\ phase[p] = "save"
  /\ \/ /\ identity' = key[p] /\ EnrollDone(p)
        /\ contested' = IF Contested(p) THEN contested \cup {key[p]} ELSE contested
     \/ EnrollFails(p) /\ UNCHANGED <<identity, regToken, result, contested>>
  /\ UNCHANGED <<mode, cfgUrl, runKey, regUrl, keys, server, starts, cli>>

-----------------------------------------------------------------------------
(* The binding pipe, the runtime, the command line and the server.         *)

\* Mutant: the application may name another server than the configured one.
BindRequestAnyServer(u, t) ==
  /\ phase["service"] = "pipe" /\ svc \in {"running", "stopping"}
  /\ regUrl' = IF cfgUrl["service"] = NoUrl THEN u ELSE regUrl
  /\ cfgUrl' = [cfgUrl EXCEPT !["service"] = u]
  /\ mode' = "pipe" /\ token' = [token EXCEPT !["service"] = t]
  /\ phase' = [phase EXCEPT !["service"] = "check"]
  /\ UNCHANGED <<svc, result, key, runKey, identity, regToken, keys, server, starts, cli, contested>>

\* ServeOneBindingPipe has a request and binds: a configured server must be
\* the one asked for (else server_mismatch and the next request); the first
\* one is saved in the registry before anything else.  When that fails the
\* request is answered with an error and nothing has changed.
BindRequest(u, t) ==
  /\ phase["service"] = "pipe" /\ svc \in {"running", "stopping"}
  /\ cfgUrl["service"] \in {NoUrl, u}
  /\ regUrl' = IF cfgUrl["service"] = NoUrl THEN u ELSE regUrl
  /\ cfgUrl' = [cfgUrl EXCEPT !["service"] = u]
  /\ mode' = "pipe" /\ token' = [token EXCEPT !["service"] = t]
  /\ phase' = [phase EXCEPT !["service"] = "check"]
  /\ UNCHANGED <<svc, result, key, runKey, identity, regToken, keys, server, starts, cli, contested>>

\* RunStoredAgent loads the identity; that fails when there is none, and may
\* fail when there is one.
LoadIdentity ==
  /\ phase["service"] = "load"
  /\ \/ /\ phase' = [phase EXCEPT !["service"] = "ended"] /\ result' = "error"
        /\ UNCHANGED runKey
     \/ /\ identity # 0
        /\ phase' = [phase EXCEPT !["service"] = "run"] /\ runKey' = identity
        /\ UNCHANGED result
  /\ UNCHANGED <<svc, mode, cfgUrl, token, key, disk, keys, server, starts, cli, contested>>

\* RunAgent returned ErrAgentUnbound, which only the server the agent
\* authenticates with can cause: delete the identity file, whatever it holds by
\* now, or end with an error.
Unbound ==
  /\ phase["service"] = "run" /\ svc = "running"
  /\ runKey \in archived /\ runKey \in accepted[cfgUrl["service"]]
  /\ runKey' = 0
  /\ \/ identity' = 0 /\ result' = "unbound"
     \/ UNCHANGED identity /\ result' = "error"
  /\ phase' = [phase EXCEPT !["service"] = "ended"]
  /\ UNCHANGED <<svc, mode, cfgUrl, token, key, regUrl, regToken, keys, server, starts, cli, contested>>

\* runEnrollCLI: a server on the command line is saved first, whatever the
\* registry holds and whether or not the host is enrolled.
EnrollCLI(u, t) ==
  /\ phase["cli"] = "idle" /\ cli < MaxCli /\ cli' = cli + 1
  /\ IF u = NoUrl THEN regUrl # NoUrl /\ UNCHANGED regUrl ELSE regUrl' = u
  /\ cfgUrl' = [cfgUrl EXCEPT !["cli"] = IF u = NoUrl THEN regUrl ELSE u]
  /\ token' = [token EXCEPT !["cli"] = t]
  /\ phase' = [phase EXCEPT !["cli"] = "check"]
  /\ UNCHANGED <<svc, mode, result, key, runKey, identity, regToken, keys, server, starts,
                 contested>>

\* An administrator archives an agent (external).
Archive(k) ==
  /\ \E u \in Urls : k \in accepted[u]
  /\ k \notin archived
  /\ archived' = archived \cup {k}
  /\ UNCHANGED <<svc, phase, mode, result, cfgUrl, token, key, runKey, disk, keys, accepted,
                 spent, starts, cli, contested>>

ServiceNext ==
  \/ Start \/ WorkerResult \/ Stop \/ ProcessEnds \/ WorkerCancelled
  \/ \E p \in Procs :
       CheckIdentity(p) \/ EnrollOk(p) \/ EnrollError(p) \/ SaveIdentity(p)
  \/ \E u \in Urls, t \in Tokens : BindRequest(u, t)
  \/ LoadIdentity \/ Unbound
  \/ \E u \in Urls \cup {NoUrl}, t \in Tokens : EnrollCLI(u, t)
  \/ \E k \in 1..MaxKeys : Archive(k)

\* The service's goroutines run, and the server's word reaches the agent.
ServiceFairness ==
  /\ WF_serviceVars(WorkerResult) /\ WF_serviceVars(result = "error" /\ ProcessEnds)
  /\ WF_serviceVars(LoadIdentity) /\ WF_serviceVars(Unbound)
  /\ WF_serviceVars(CheckIdentity("service")) /\ WF_serviceVars(SaveIdentity("service"))
  /\ WF_serviceVars(EnrollOk("service") \/ EnrollError("service"))

ServiceSpec == ServiceInit /\ [][ServiceNext]_serviceVars
ServiceFairSpec == ServiceSpec /\ ServiceFairness

-----------------------------------------------------------------------------
\* The types of files, registry values and the goroutines' locals.
ServiceTypeOK ==
  /\ svc \in {"down", "starting", "running", "stopping"}
  /\ phase \in [Procs -> {"idle", "load", "run", "pipe", "check", "post", "save", "ended"}]
  /\ mode \in {"headless", "pipe"} /\ result \in {"none", "unbound", "bound", "error"}
  /\ cfgUrl \in [Procs -> Urls \cup {NoUrl}] /\ token \in [Procs -> Tokens \cup {NoUrl}]
  /\ key \in [Procs -> 0..keys] /\ runKey \in 0..keys
  /\ identity \in 0..keys
  /\ regUrl \in Urls \cup {NoUrl} /\ regToken \in Tokens \cup {NoUrl}
  /\ keys \in Nat /\ accepted \in [Urls -> SUBSET (1..keys)] /\ archived \subseteq 1..keys
  /\ spent \subseteq Tokens /\ starts \in Nat /\ cli \in Nat /\ contested \subseteq 1..keys

\* Whatever is lost or killed between the request and the file, the identity
\* on disk is one that a server accepted.
StoredIsAccepted == identity # 0 => \E u \in Urls : identity \in accepted[u]

\* The identity belongs to the server the registry names, until somebody names
\* another one on the command line: after a restart too the agent talks to the
\* server that knows it.
PinnedServer ==
  cli = 0 /\ identity # 0 => regUrl # NoUrl /\ identity \in accepted[regUrl]

\* The agent runs with the identity on disk, unless the command line has stored
\* another.
RunsStoredIdentity == cli = 0 /\ phase["service"] = "run" => runKey = identity

\* "this host is already enrolled" (enrollment.go): service and command line,
\* restarts and kills included, nobody replaces an identity, and it goes only
\* when its server archived it; unless another enrolment had passed its check
\* when the identity was saved, for the check and the save are not one step.
IdentityKept ==
  [][identity' # identity /\ identity # 0 /\ identity \notin contested
       => identity' = 0 /\ identity \in archived]_serviceVars

\* A service that has enrolled comes to run with the new identity.  (One that
\* waits at its pipe does not look for an identity the command line stored.)
EnrolledRuns ==
  (svc = "running" /\ identity # 0)
    ~> (phase["service"] = "run" \/ svc # "running" \/ identity = 0 \/ cli > 0)
=============================================================================
