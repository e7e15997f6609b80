------------------------ MODULE LigamentProviderProofs ------------------------
(***************************************************************************)
(* Proofs about LigamentProvider, for all names, passwords, registries,    *)
(* scenarios and prompts.                                                  *)
(*                                                                         *)
(* Inv: the types, and who owns the worker.  On it rest the refinement of  *)
(* WorkerSlot and three invariants that follow a job from its start:       *)
(*   SecretInv  where a password or a ticket may still be, by step;        *)
(*   ReachInv   which jobs got no answer of the server, with CallInv, what *)
(*              the call that waits for the worker will do next;           *)
(*   GrantInv   every grant is that of a job that was answered, with       *)
(*              KindInv, which jobs can be: a replaced mode (Initialize    *)
(*              under a running worker) breaks it, hence the hypothesis    *)
(*              of ConfirmedTheorem.                                       *)
(***************************************************************************)
EXTENDS LigamentProvider, TLAPS

Modes     == {"push", "otp", "fido2"}
UserSteps == {"idle", "stop", "join", "mode", "apply", "recheck"}
WorkSteps == {"none", "start", "gate", "begin", "told", "poll", "asked", "report", "ticket", "exited"}
Ops       == {"none", "store", "switch", "pack", "wait", "approve", "failopen", "message", "destroy"}
AllNames  == Names \cup {NoName}
AllPasses == Passwords \cup {NoPass}
Results   == [stop : BOOLEAN, beginDone : BOOLEAN, beginOk : BOOLEAN,
              err : {"", "network_error", "server"}, number : BOOLEAN, done : BOOLEAN,
              status : {"", "approved", "denied", "expired", "timeout"}]
Conts     == [op : Ops, name : AllNames, pass : AllPasses, mode : Modes]
Holder    == [user : {SplitUser(n) : n \in Names}, pass : Passwords]

\* The types of what the two threads share and of where they are.
TypeInv ==
  /\ tile \in {"none", "alive", "gone"} /\ mode \in Modes
  /\ name \in AllNames /\ pass \in AllPasses
  /\ w \in Results /\ snap \in Results
  /\ upc \in UserSteps /\ wpc \in WorkSteps /\ cont \in Conts
  /\ dllRefs \in Int

\* A worker has a handle, an owner and a tile; a call that submits has credentials;
\* the count of the DLL is that of the objects.
ThreadInv ==
  /\ handle <=> wpc # "none"
  /\ wpc = "none" => owner = Nobody
  /\ wpc # "none" => owner \in Holder /\ owner # Nobody
  /\ tile # "alive" => wpc = "none" /\ upc = "idle"
  /\ upc = "mode" => HasCredentials
  /\ dllRefs = (IF prov THEN 1 ELSE 0) + (IF tile = "alive" THEN 1 ELSE 0)

Inv == TypeInv /\ ThreadInv

-----------------------------------------------------------------------------
(* Small facts.                                                            *)

\* A tile's name and password, where there are both, make a holder of a job.
LEMMA HolderOfTile ==
  ASSUME name \in AllNames, pass \in AllPasses, HasCredentials
  PROVE  /\ [user |-> SplitUser(name), pass |-> pass] \in Holder
         /\ [user |-> SplitUser(name), pass |-> pass] # Nobody
<1>1. SplitUser(NoName) = ""
  BY DEF SplitUser, NoName
<1>2. name \in Names /\ pass \in Passwords
  BY <1>1 DEF AllNames, AllPasses, HasCredentials
<1>3. SplitUser(name) \in {SplitUser(n) : n \in Names}
  BY <1>2
<1>4. [user |-> SplitUser(name), pass |-> pass] \in Holder
  BY <1>2, <1>3 DEF Holder
<1>5. [user |-> SplitUser(name), pass |-> pass].user # Nobody.user
  BY DEF HasCredentials, Nobody
<1> QED
  BY <1>4, <1>5

\* What PublishBegin and PublishStatus write is a result.
LEMMA ResultKept ==
  ASSUME w \in Results, NEW a \in BOOLEAN, NEW b \in BOOLEAN, NEW c \in BOOLEAN, NEW d \in BOOLEAN,
         NEW e \in {"", "network_error", "server"},
         NEW s \in {"", "approved", "denied", "expired", "timeout"}
  PROVE  /\ [w EXCEPT !.stop = TRUE] \in Results
         /\ [w EXCEPT !.beginDone = a, !.beginOk = b, !.err = e, !.number = c, !.done = d] \in Results
         /\ [w EXCEPT !.beginDone = a, !.beginOk = b, !.done = d] \in Results
         /\ [w EXCEPT !.status = s, !.done = d] \in Results
         /\ [w EXCEPT !.beginDone = a, !.beginOk = b, !.err = e, !.number = c, !.done = d].stop = w.stop
         /\ [w EXCEPT !.beginDone = a, !.beginOk = b, !.done = d].stop = w.stop
         /\ [w EXCEPT !.status = s, !.done = d].stop = w.stop
  BY DEF Results

\* No request tells anything but these errors.
LEMMA ToldTypes ==
  ASSUME NEW c, NEW core, NEW relay, NEW text \in Texts
  PROVE  /\ VerifyCombined(c, core, relay, text).ok \in BOOLEAN
         /\ VerifyCombined(c, core, relay, text).err \in {"", "network_error", "server"}
         /\ StartPush(c, core, text).ok \in BOOLEAN
         /\ StartPush(c, core, text).err \in {"", "network_error", "server"}
         /\ \A r \in WebAuthnBegin(c, core, text) :
              r.ok \in BOOLEAN /\ r.err \in {"", "network_error", "server"}
<1>1. /\ VerifyCombined(c, core, relay, text).ok \in BOOLEAN
      /\ VerifyCombined(c, core, relay, text).err \in {"", "network_error", "server"}
  BY DEF VerifyCombined, Told, Texts
<1>2. /\ StartPush(c, core, text).ok \in BOOLEAN
      /\ StartPush(c, core, text).err \in {"", "network_error", "server"}
  BY DEF StartPush, Told, Texts
<1>3. ASSUME NEW r \in WebAuthnBegin(c, core, text)
      PROVE  r.ok \in BOOLEAN /\ r.err \in {"", "network_error", "server"}
  <2>1. CASE SendRequest(c, core) = "unreachable"
    <3>1. r = Told(FALSE, "network_error")
      BY <1>3, <2>1 DEF WebAuthnBegin
    <3> QED
      BY <3>1 DEF Told
  <2>2. CASE SendRequest(c, core) = "done"
    <3>1. r = Told(TRUE, "")
      BY <1>3, <2>2 DEF WebAuthnBegin
    <3> QED
      BY <3>1 DEF Told
  <2>3. CASE SendRequest(c, core) \notin {"unreachable", "done"}
    <3>1. PICK e \in {"", text} : r = Told(FALSE, e)
      BY <1>3, <2>3 DEF WebAuthnBegin
    <3> QED
      BY <3>1 DEF Told, Texts
  <2> QED
    BY <2>1, <2>2, <2>3
<1> QED
  BY <1>1, <1>2, <1>3

-----------------------------------------------------------------------------
(* The invariant.                                                          *)

\* A call that returns.
LEMMA ReturnTypes == Done \in Conts /\ Fresh \in Results
  BY DEF Done, Conts, Fresh, Results, Ops, AllNames, AllPasses, Modes

\* Nothing runs and nothing is typed at the beginning.
LEMMA InitInv == Init => Inv
<1> SUFFICES ASSUME Init PROVE Inv
  OBVIOUS
<1>1. TypeInv
  BY ReturnTypes DEF Init, TileInit, TypeInv, Modes, UserSteps, WorkSteps, AllNames, AllPasses
<1>2. ThreadInv
  BY DEF Init, TileInit, ThreadInv
<1> QED
  BY <1>1, <1>2 DEF Inv

\* What the next call is told to do keeps its type.
LEMMA ThenTypes ==
  ASSUME Inv, NEW o \in Ops
  PROVE  /\ Then(o) \in Conts /\ Then(o).op = o
         /\ \A n \in AllNames : [Then(o) EXCEPT !.name = n] \in Conts
         /\ \A p \in AllPasses : [Then(o) EXCEPT !.pass = p] \in Conts
         /\ \A m \in Modes : [Then(o) EXCEPT !.mode = m] \in Conts
<1>1. Then(o) \in Conts /\ Then(o).op = o
  BY DEF Inv, TypeInv, Then, Conts
<1>2. \A r \in Conts : /\ \A n \in AllNames : [r EXCEPT !.name = n] \in Conts
                       /\ \A p \in AllPasses : [r EXCEPT !.pass = p] \in Conts
                       /\ \A m \in Modes : [r EXCEPT !.mode = m] \in Conts
  BY DEF Conts
<1> QED
  BY <1>1, <1>2

\* The environment's calls: the provider's own.
LEMMA ProviderCallInv ==
  ASSUME Inv,
         \/ CreateInstance
         \/ \E reg \in Registries, c \in Scenarios, isRemote \in BOOLEAN, p \in Prompts :
              SetUsageScenario(reg, c, isRemote, p)
         \/ \E on \in BOOLEAN : AdviseProvider(on)
         \/ GetCredentialAt \/ ReleaseTile \/ ReleaseProvider
  PROVE  Inv'
<1> USE ReturnTypes, ThenTypes
<1>1. CASE CreateInstance
  BY <1>1 DEF CreateInstance, Inv, TypeInv, ThreadInv, Free, HasCredentials, tileVars, setupVars, typedVars, shownVars, callVars, workVars
<1>2. ASSUME NEW reg \in Registries, NEW c \in Scenarios, NEW isRemote \in BOOLEAN, NEW p \in Prompts,
             SetUsageScenario(reg, c, isRemote, p)
      PROVE  Inv'
  <2>1. mode' \in Modes
    BY <1>2 DEF SetUsageScenario, Initialize, DefaultMode, Modes, Inv, TypeInv
  <2>2. CASE tile' = "alive" /\ tile # "alive"
    <3>1. NewTile /\ dllRefs' = dllRefs + 1 /\ UNCHANGED <<callVars, prov>>
      BY <1>2, <2>2 DEF SetUsageScenario
    <3>2. TypeInv'
      BY <2>1, <3>1 DEF NewTile, Inv, TypeInv, AllNames, AllPasses, callVars
    <3>3. ThreadInv'
      BY <2>2, <3>1 DEF NewTile, Inv, TypeInv, ThreadInv, callVars
    <3> QED
      BY <3>2, <3>3 DEF Inv
  <2>3. CASE ~(tile' = "alive" /\ tile # "alive")
    BY <1>2, <2>1, <2>3 DEF SetUsageScenario, NewTile, Free, Inv, TypeInv, ThreadInv,
       HasCredentials, setupVars, typedVars, shownVars, callVars, workVars
  <2> QED
    BY <2>2, <2>3
<1>3. ASSUME NEW on \in BOOLEAN, AdviseProvider(on) PROVE Inv'
  BY <1>3 DEF AdviseProvider, Inv, TypeInv, ThreadInv, HasCredentials, setupVars, typedVars, shownVars, callVars, workVars
<1>4. CASE GetCredentialAt
  BY <1>4 DEF GetCredentialAt, Inv, TypeInv, ThreadInv, HasCredentials, setupVars, typedVars, shownVars, callVars, workVars
<1>5. CASE ReleaseTile
  BY <1>5 DEF ReleaseTile, ReleaseLast, Idle, Inv, TypeInv, ThreadInv, HasCredentials, Ops, UserSteps, setupVars, typedVars, shownVars, callVars, workVars
<1>6. CASE ReleaseProvider
  <2>1. upc' \in UserSteps /\ cont' \in Conts
    <3>1. Then("destroy") \in Conts
      BY DEF Ops
    <3> QED
      BY <1>6, <3>1 DEF ReleaseProvider, ReleaseLast, Inv, TypeInv, UserSteps
  <2>2. TypeInv'
    BY <1>6, <2>1 DEF ReleaseProvider, Inv, TypeInv, setupVars, typedVars, workVars
  <2>3. ThreadInv'
    <3>1. tile' = "alive" <=> tile = "alive"
      BY <1>6 DEF ReleaseProvider, setupVars
    <3>2. dllRefs' = (IF prov' THEN 1 ELSE 0) + (IF tile' = "alive" THEN 1 ELSE 0)
      BY <1>6, <3>1 DEF ReleaseProvider, Inv, TypeInv, ThreadInv
    <3> QED
      BY <1>6, <3>1, <3>2 DEF ReleaseProvider, ReleaseLast, Free, Inv, ThreadInv, HasCredentials,
         typedVars, workVars
  <2> QED
    BY <2>2, <2>3 DEF Inv
<1> QED
  BY <1>1, <1>2, <1>3, <1>4, <1>5, <1>6

\* A call that leaves the worker and the objects alone.
LEMMA QuietCall ==
  ASSUME Inv, tile = "alive", UNCHANGED <<setupVars, workVars, mode, snap, prov, dllRefs>>,
         name' \in AllNames, pass' \in AllPasses, upc' \in UserSteps, cont' \in Conts,
         upc' = "mode" => HasCredentials'
  PROVE  Inv'
<1>1. TypeInv'
  BY DEF Inv, TypeInv, setupVars, workVars
<1>2. ThreadInv'
  BY DEF Inv, ThreadInv, setupVars, workVars
<1> QED
  BY <1>1, <1>2 DEF Inv

\* The steps of GetSerialization before the branch of the mode.
LEMMA SubmitStepsTypes ==
  ASSUME Inv, upc = "idle", SubmitSteps
  PROVE  upc' \in UserSteps /\ cont' \in Conts
<1>1. Then("pack") \in Conts
  BY ThenTypes DEF Ops
<1> QED
  BY <1>1 DEF SubmitSteps, Inv, TypeInv, UserSteps

\* What the user types and clicks, and how LogonUI answers, leaves the worker alone.
LEMMA UserCallInv ==
  ASSUME Inv, Tile(UserCall) \/ Tile(Reacts)
  PROVE  Inv'
<1>1. UNCHANGED prov /\ (tile' = tile => dllRefs' = dllRefs)
  BY DEF Tile
<1> USE <1>1, QuietCall, ThenTypes
<1>2. ASSUME NEW n \in Names, SetUserName(n) PROVE Inv'
  <2>1. [Then("store") EXCEPT !.name = n] \in Conts
    BY DEF Ops, AllNames
  <2> QED
    BY <1>2, <2>1 DEF SetUserName, ResetAuthState, Idle, Inv, TypeInv, UserSteps, AllNames, setupVars
<1>3. ASSUME NEW p \in Passwords, SetPassword(p) PROVE Inv'
  <2>1. [Then("store") EXCEPT !.pass = p] \in Conts
    BY DEF Ops, AllPasses
  <2> QED
    BY <1>3, <2>1 DEF SetPassword, ResetAuthState, Idle, Inv, TypeInv, UserSteps, setupVars
<1>4. ASSUME NEW b \in BOOLEAN, SetOtpCode(b) PROVE Inv'
  BY <1>4 DEF SetOtpCode, Idle, Inv, TypeInv, setupVars, callVars
<1>5. CASE SetDeselected
  <2>1. Then("store") \in Conts
    BY DEF Ops
  <2> QED
    BY <1>5, <2>1 DEF SetDeselected, ResetAuthState, Idle, Inv, TypeInv, UserSteps, setupVars
<1>6. ASSUME NEW link \in {"first", "second"}, CommandLinkClicked(link) PROVE Inv'
  <2>1. LinkTarget(link) \in Modes
    BY DEF LinkTarget, Modes
  <2>2. [Then("switch") EXCEPT !.mode = LinkTarget(link)] \in Conts
    BY <2>1 DEF Ops
  <2> QED
    BY <1>6, <2>2 DEF CommandLinkClicked, Idle, Inv, TypeInv, UserSteps, setupVars, typedVars
<1>7. CASE GetSerialization
  <2>1. upc' \in UserSteps /\ cont' \in Conts
    BY <1>7, SubmitStepsTypes DEF GetSerialization, Idle
  <2> QED
    BY <1>7, <2>1 DEF GetSerialization, Idle, Inv, TypeInv, HasCredentials, setupVars, typedVars
<1>8. CASE ReportResult
  <2>1. [Then("store") EXCEPT !.pass = NoPass] \in Conts
    BY DEF Ops, AllPasses
  <2> QED
    BY <1>8, <2>1 DEF ReportResult, ResetAuthState, Idle, Inv, TypeInv, UserSteps, AllPasses, setupVars
<1>9. CASE HostTakesLogon
  BY <1>9 DEF HostTakesLogon, Idle, Inv, TypeInv, setupVars, typedVars, callVars
<1>10. CASE LogonUIReacts
  <2>1. upc' \in UserSteps /\ cont' \in Conts
    BY <1>10, SubmitStepsTypes DEF LogonUIReacts, Idle, Inv, TypeInv
  <2> QED
    BY <1>10, <2>1 DEF LogonUIReacts, Idle, Inv, TypeInv, HasCredentials, setupVars, typedVars
<1> QED
  BY <1>2, <1>3, <1>4, <1>5, <1>6, <1>7, <1>8, <1>9, <1>10 DEF Tile, UserCall, Reacts

\* A job that is started has a holder; one that is not leaves nothing.
LEMMA StartedJob ==
  ASSUME Inv, HasCredentials, NEW k, StartWorkerJob(k, name, pass)
  PROVE  /\ w' = Fresh /\ (handle' <=> wpc' # "none") /\ wpc' \in {"none", "start"}
         /\ wpc' = "none" => owner' = Nobody
         /\ wpc' # "none" => owner' \in Holder /\ owner' # Nobody
  BY HolderOfTile DEF StartWorkerJob, Inv, TypeInv

\* What remains of a call after a step that may end or start a worker.
LEMMA CallOfTile ==
  ASSUME Inv, upc # "idle", tile' = tile, UNCHANGED <<prov, dllRefs>>,
         mode' \in Modes, name' \in AllNames, pass' \in AllPasses, w' \in Results, snap' \in Results,
         upc' \in UserSteps \ {"mode"}, cont' \in Conts, wpc' \in WorkSteps,
         handle' <=> wpc' # "none", wpc' = "none" => owner' = Nobody,
         wpc' # "none" => owner' \in Holder /\ owner' # Nobody
  PROVE  Inv'
<1>1. TypeInv'
  BY DEF Inv, TypeInv
<1>2. ThreadInv'
  BY DEF Inv, ThreadInv, TypeInv
<1> QED
  BY <1>1, <1>2 DEF Inv

\* The joined worker is gone.
LEMMA JoinedJob ==
  ASSUME JoinPollThread
  PROVE  w' = Fresh /\ (handle' <=> wpc' # "none") /\ wpc' = "none" /\ owner' = Nobody
  BY DEF JoinPollThread

\* The steps a call of LogonUI has left.
LEMMA CallStepInv ==
  ASSUME Inv, Tile(CallStep)
  PROVE  Inv'
<1>1. UNCHANGED prov /\ (tile' = tile => dllRefs' = dllRefs)
  BY DEF Tile
<1> USE <1>1, ReturnTypes
<1>2. CASE StopPollThread
  <2>1. w' \in Results
    BY <1>2, ResultKept DEF StopPollThread, Inv, TypeInv
  <2>2. UNCHANGED <<tile, mode, name, pass, snap, cont, wpc, handle, owner>> /\ upc = "stop" /\ upc' = "join"
    BY <1>2 DEF StopPollThread, setupVars, typedVars
  <2> QED
    BY <2>1, <2>2, CallOfTile DEF Inv, TypeInv, ThreadInv, UserSteps
<1>3. CASE SwitchToMode
  <2>1. /\ tile' = tile /\ mode' = cont.mode /\ UNCHANGED <<name, pass>>
        /\ upc = "join" /\ upc' = "idle" /\ cont' = Done /\ snap' = Fresh
    BY <1>3 DEF SwitchToMode, Return, setupVars, typedVars
  <2>2. mode' \in Modes
    BY <2>1 DEF Inv, TypeInv, Conts
  <2>3. /\ w' = Fresh /\ (handle' <=> wpc' # "none") /\ wpc' \in {"none", "start"}
        /\ wpc' = "none" => owner' = Nobody
        /\ wpc' # "none" => owner' \in Holder /\ owner' # Nobody
    <3>1. CASE HasCredentials /\ StartWorkerJob("webauthn", name, pass)
      BY <3>1, StartedJob
    <3>2. CASE JoinPollThread
      BY <3>2, JoinedJob
    <3> QED
      BY <1>3, <3>1, <3>2 DEF SwitchToMode
  <2> QED
    BY <2>1, <2>2, <2>3, CallOfTile DEF Inv, TypeInv, UserSteps, WorkSteps
<1>4. CASE StoreAfterReset
  <2>1. /\ tile' = tile /\ mode' = mode /\ name' = cont.name /\ pass' = cont.pass
        /\ upc = "join" /\ upc' = "idle" /\ cont' = Done /\ snap' = Fresh
    BY <1>4 DEF StoreAfterReset, Return, setupVars
  <2>2. name' \in AllNames /\ pass' \in AllPasses
    BY <2>1 DEF Inv, TypeInv, Conts
  <2> QED
    BY <1>4, <2>1, <2>2, JoinedJob, CallOfTile DEF StoreAfterReset, Inv, TypeInv, UserSteps, WorkSteps
<1>5. CASE SubmitMode
  <2>1. /\ UNCHANGED <<tile, mode, name, pass, cont>>
        /\ upc = "mode" /\ upc' \in {"idle", "recheck", "apply"} /\ snap' \in {snap, w}
    BY <1>5 DEF SubmitMode, setupVars, typedVars
  <2>2. CASE StartWorkerJob(JobOf(mode), name, pass)
    <3>1. /\ w' = Fresh /\ (handle' <=> wpc' # "none") /\ wpc' \in {"none", "start"}
          /\ wpc' = "none" => owner' = Nobody
          /\ wpc' # "none" => owner' \in Holder /\ owner' # Nobody
      BY <2>1, <2>2, StartedJob DEF Inv, ThreadInv
    <3> QED
      BY <2>1, <3>1, CallOfTile DEF Inv, TypeInv, UserSteps, WorkSteps
  <2>3. CASE UNCHANGED workVars
    BY <2>1, <2>3, CallOfTile DEF workVars, Inv, TypeInv, ThreadInv, UserSteps, WorkSteps
  <2> QED
    BY <1>5, <2>2, <2>3 DEF SubmitMode
<1>6. CASE ApplyResult
  <2>1. /\ UNCHANGED <<tile, mode, name, pass, w, handle, wpc, owner>> /\ upc = "apply"
        /\ upc' \in {"idle", "join"} /\ cont' \in {Done, Then(Verdict)} /\ snap' \in {Fresh, snap}
    BY <1>6 DEF ApplyResult, Return, setupVars, typedVars, workVars
  <2>2. Verdict \in Ops
    BY DEF Verdict, Ops
  <2>3. Then(Verdict) \in Conts
    BY <2>2, ThenTypes
  <2> QED
    BY <2>1, <2>3, CallOfTile DEF Inv, TypeInv, ThreadInv, UserSteps
<1>7. CASE FinishSerialization
  <2>1. /\ UNCHANGED <<tile, mode, name, pass>>
        /\ upc = "join" /\ upc' = "idle" /\ cont' = Done /\ snap' = Fresh
    BY <1>7 DEF FinishSerialization, Return, setupVars, typedVars
  <2> QED
    BY <1>7, <2>1, JoinedJob, CallOfTile DEF FinishSerialization, Inv, TypeInv, UserSteps, WorkSteps
<1>8. CASE SubmitAgain
  <2>1. /\ UNCHANGED <<tile, mode, name, pass, w, handle, wpc, owner>>
        /\ upc = "recheck" /\ upc' = "idle" /\ cont' = Done /\ snap' = Fresh
    BY <1>8 DEF SubmitAgain, Return, setupVars, typedVars, workVars
  <2> QED
    BY <2>1, CallOfTile DEF Inv, TypeInv, ThreadInv, UserSteps
<1>9. CASE Destroy
  <2>1. /\ tile' = "gone" /\ UNCHANGED <<mode, name>> /\ pass' = NoPass
        /\ upc = "join" /\ upc' = "idle" /\ cont' = Done /\ snap' = Fresh
    BY <1>9 DEF Destroy, Return
  <2>2. w' = Fresh /\ (handle' <=> wpc' # "none") /\ wpc' = "none" /\ owner' = Nobody
    BY <1>9, JoinedJob DEF Destroy
  <2>3. tile = "alive" /\ dllRefs' = dllRefs - 1
    BY <2>1 DEF Tile, Inv, ThreadInv
  <2>4. TypeInv'
    BY <2>1, <2>2, <2>3 DEF Inv, TypeInv, AllPasses, UserSteps, WorkSteps
  <2>5. ThreadInv'
    BY <2>1, <2>2, <2>3 DEF Inv, TypeInv, ThreadInv
  <2> QED
    BY <2>4, <2>5 DEF Inv
<1> QED
  BY <1>2, <1>3, <1>4, <1>5, <1>6, <1>7, <1>8, <1>9 DEF Tile, CallStep

\* The worker writes results only and never gives back its own handle.
LEMMA WorkerWrites ==
  ASSUME Inv, WorkerStep
  PROVE  /\ UNCHANGED <<tile, mode, name, pass, upc, cont, snap, handle, owner>>
         /\ wpc # "none" /\ wpc' \in WorkSteps \ {"none"}
         /\ w' \in Results
<1>1. UNCHANGED <<tile, mode, name, pass, upc, cont, snap, handle, owner>>
  BY DEF WorkerStep, TakeJob, CheckGate, BeginJob, TellBegin, PollAgain, PollAnswered, ReportStatus,
     WriteTicket, workerFrame, setupVars, typedVars, callVars
<1>2. w \in Results
  BY DEF Inv, TypeInv
<1>3. CASE TakeJob \/ TellBegin \/ ReportStatus \/ WriteTicket
  BY <1>1, <1>2, <1>3 DEF TakeJob, TellBegin, ReportStatus, WriteTicket, WorkSteps
<1>4. CASE CheckGate
  BY <1>1, <1>2, <1>4, ResultKept DEF CheckGate, WorkSteps
<1>5. CASE BeginJob
  <2>1. PICK r : /\ r.ok \in BOOLEAN /\ r.err \in {"", "network_error", "server"}
                 /\ PublishBegin(r, task.kind = "otp")
    BY <1>5, ToldTypes DEF BeginJob
  <2>2. CASE w.stop
    BY <1>1, <1>2, <1>5, <2>1, <2>2 DEF BeginJob, PublishBegin, WorkSteps
  <2>3. CASE ~w.stop
    <3>1. wpc' = "told"
      BY <2>1, <2>3 DEF PublishBegin
    <3>2. PICK n \in BOOLEAN :
            w' = [w EXCEPT !.beginDone = TRUE, !.beginOk = r.ok, !.err = r.err, !.number = n,
                           !.done = (task.kind = "otp")]
      BY <2>1, <2>3 DEF PublishBegin
    <3>3. w' \in Results
      BY <1>2, <2>1, <3>2, ResultKept
    <3> QED
      BY <1>1, <1>5, <3>1, <3>3 DEF BeginJob, WorkSteps
  <2> QED
    BY <2>2, <2>3
<1>6. CASE PollAgain
  BY <1>1, <1>2, <1>6, ResultKept DEF PollAgain, PublishStatus, WorkSteps
<1>7. CASE PollAnswered
  <2>1. PICK status \in PollStatuses :
          IF status \in {"approved", "denied", "expired"}
          THEN \E sso \in IF status = "approved" THEN BOOLEAN ELSE {FALSE} : PublishStatus(status, sso)
          ELSE /\ wpc' = IF w.stop THEN "exited" ELSE "poll"
               /\ UNCHANGED <<w, auth, conf, number, qr, ticket>>
    BY <1>7 DEF PollAnswered
  <2>2. CASE status \in {"approved", "denied", "expired"}
    <3>1. wpc' \in {"exited", "report"} /\ w' \in {w, [w EXCEPT !.status = status, !.done = TRUE]}
      BY <2>1, <2>2 DEF PublishStatus
    <3>2. [w EXCEPT !.status = status, !.done = TRUE] \in Results
      BY <1>2, <2>2, ResultKept
    <3> QED
      BY <1>1, <1>2, <1>7, <3>1, <3>2 DEF PollAnswered, WorkSteps
  <2>3. CASE status \notin {"approved", "denied", "expired"}
    BY <1>1, <1>2, <1>7, <2>1, <2>3 DEF PollAnswered, WorkSteps
  <2> QED
    BY <2>2, <2>3
<1> QED
  BY <1>3, <1>4, <1>5, <1>6, <1>7 DEF WorkerStep

\* A step of the worker keeps the invariant.
LEMMA WorkerStepInv ==
  ASSUME Inv, Tile(WorkerStep)
  PROVE  Inv'
<1>1. /\ UNCHANGED <<tile, mode, name, pass, upc, cont, snap, handle, owner>>
      /\ wpc # "none" /\ wpc' \in WorkSteps \ {"none"}
      /\ w' \in Results
  BY WorkerWrites DEF Tile
<1>2. UNCHANGED <<prov, dllRefs>>
  BY <1>1 DEF Tile
<1>3. TypeInv'
  BY <1>1, <1>2 DEF Inv, TypeInv
<1>4. ThreadInv'
  BY <1>1, <1>2 DEF Inv, ThreadInv, HasCredentials
<1> QED
  BY <1>3, <1>4 DEF Inv

\* No step leaves the invariant.
LEMMA NextInv == Inv /\ [Next]_vars => Inv'
<1> SUFFICES ASSUME Inv, [Next]_vars PROVE Inv'
  OBVIOUS
<1>1. CASE Next
  BY <1>1, ProviderCallInv, UserCallInv, CallStepInv, WorkerStepInv DEF Next
<1>2. CASE UNCHANGED vars
  BY <1>2 DEF vars, tileVars, provVars, setupVars, typedVars, shownVars, callVars, workVars,
     Inv, TypeInv, ThreadInv, HasCredentials
<1> QED
  BY <1>1, <1>2

\* The types of what the threads share, and who owns the worker: the invariant of every
\* behaviour of LogonUI, of the worker and of the service.
THEOREM Invariance == Spec => []Inv
  BY InitInv, NextInv, PTL DEF Spec

-----------------------------------------------------------------------------
(* What follows from it.                                                   *)

\* Whatever LogonUI does, and wherever the worker is: no code of the DLL runs once
\* the tile is destroyed or the count that keeps the DLL loaded has come to 0.
THEOREM ReleasedQuiet == Spec => []QuietWhenReleased
<1>1. Inv => QuietWhenReleased
  BY DEF Inv, TypeInv, ThreadInv, QuietWhenReleased
<1> QED
  BY <1>1, Invariance, PTL

-----------------------------------------------------------------------------
(* The worker implements the slot for one job.                             *)

SlotStep == [Slot!Next]_(Slot!slotVars)

\* Steps that leave the job alone, or withdraw the confirmation.
LEMMA SlotQuiet ==
  ASSUME UNCHANGED <<SlotPhase, owner>>, conf' \in {conf, Nobody}
  PROVE  SlotStep
  BY DEF SlotStep, Slot!Next, Slot!Withdraw, Slot!slotVars

\* The phases as the steps of the two threads see them.
LEMMA PhaseOf ==
  ASSUME Inv
  PROVE  /\ SlotPhase \in {"idle", "ended", "cancelled", "running"}
         /\ wpc = "none" <=> SlotPhase = "idle"
         /\ wpc = "exited" <=> SlotPhase = "ended"
         /\ SlotPhase = "cancelled" <=> wpc \notin {"none", "exited"} /\ w.stop
         /\ SlotPhase = "running" <=> wpc \notin {"none", "exited"} /\ ~w.stop
  BY DEF SlotPhase

\* The same in the next state.
LEMMA PhaseNext ==
  /\ wpc' = "none" => SlotPhase' = "idle"
  /\ wpc' = "exited" => SlotPhase' = "ended"
  /\ wpc' \notin {"none", "exited"} /\ w'.stop => SlotPhase' = "cancelled"
  /\ wpc' \notin {"none", "exited"} /\ ~w'.stop => SlotPhase' = "running"
  BY DEF SlotPhase

\* A joined thread is given back, if there was one.
LEMMA SlotJoin ==
  ASSUME Inv, Joinable, wpc' = "none", owner' = Nobody, conf' = conf
  PROVE  SlotStep
<1>1. wpc \in {"none", "exited"} /\ SlotPhase' = "idle"
  BY PhaseNext DEF Joinable, Inv, ThreadInv
<1>2. CASE wpc = "none"
  BY <1>1, <1>2, PhaseOf, SlotQuiet DEF Inv, ThreadInv
<1>3. CASE wpc = "exited"
  BY <1>1, <1>3, PhaseOf DEF SlotStep, Slot!Next, Slot!Reap
<1> QED
  BY <1>1, <1>2, <1>3

\* A job is started, or its thread is not created.
LEMMA SlotStart ==
  ASSUME Inv, Joinable, HasCredentials, conf' = conf,
         \E k : StartWorkerJob(k, name, pass)
  PROVE  SlotStep
<1>1. PICK k : StartWorkerJob(k, name, pass)
  OBVIOUS
<1>2. CASE wpc' = "none"
  BY <1>1, <1>2, SlotJoin, StartedJob
<1>3. CASE wpc' # "none"
  <2>1. wpc' = "start" /\ w' = Fresh /\ owner' \in Holder
    BY <1>1, <1>3, StartedJob
  <2>2. SlotPhase' = "running"
    BY <2>1, PhaseNext DEF Fresh
  <2>3. SlotPhase \in {"idle", "ended"}
    BY PhaseOf DEF Joinable, Inv, ThreadInv
  <2> QED
    BY <2>1, <2>2, <2>3 DEF SlotStep, Slot!Next, Slot!Start, Holder
<1> QED
  BY <1>2, <1>3

\* A worker that goes on keeps its phase and grants only while it is not stopped;
\* one that ends grants nothing.
LEMMA SlotWorker ==
  ASSUME Inv, wpc \notin {"none", "exited"}, owner' = owner, wpc' # "none",
         wpc' = "exited" => conf' = conf,
         wpc' # "exited" => w'.stop = w.stop,
         conf' = conf \/ (conf' = owner /\ ~w.stop)
  PROVE  SlotStep
<1>1. CASE wpc' = "exited"
  BY <1>1, PhaseOf, PhaseNext DEF SlotStep, Slot!Next, Slot!End
<1>2. CASE wpc' # "exited"
  <2>1. SlotPhase' = SlotPhase
    BY <1>2, PhaseOf, PhaseNext
  <2>2. CASE conf' = conf
    BY <2>1, <2>2, SlotQuiet
  <2>3. CASE conf' = owner /\ ~w.stop
    BY <2>1, <2>3, PhaseOf DEF SlotStep, Slot!Next, Slot!Grant
  <2> QED
    BY <2>2, <2>3
<1> QED
  BY <1>1, <1>2

\* The provider's calls start and end no job.
LEMMA SlotProviderCall ==
  ASSUME Inv,
         \/ CreateInstance
         \/ \E reg \in Registries, c \in Scenarios, isRemote \in BOOLEAN, p \in Prompts :
              SetUsageScenario(reg, c, isRemote, p)
         \/ \E on \in BOOLEAN : AdviseProvider(on)
         \/ GetCredentialAt \/ ReleaseTile \/ ReleaseProvider
  PROVE  SlotStep
<1>1. CASE UNCHANGED <<w, wpc, owner, conf>>
  BY <1>1, SlotQuiet DEF SlotPhase
<1>2. ASSUME NEW reg \in Registries, NEW c \in Scenarios, NEW isRemote \in BOOLEAN, NEW p \in Prompts,
             SetUsageScenario(reg, c, isRemote, p)
      PROVE  SlotStep
  <2>1. CASE tile # "alive" /\ NewTile
    <3>1. wpc = "none" /\ wpc' = "none" /\ owner' = owner /\ conf' = Nobody
      BY <2>1 DEF Inv, ThreadInv, NewTile
    <3> QED
      BY <3>1, SlotQuiet DEF SlotPhase
  <2>2. CASE UNCHANGED <<conf, workVars>>
    BY <2>2, <1>1 DEF workVars
  <2> QED
    BY <1>2, <2>1, <2>2 DEF SetUsageScenario
<1>3. CASE CreateInstance
  BY <1>1, <1>3 DEF CreateInstance, tileVars, workVars
<1>4. ASSUME NEW on \in BOOLEAN, AdviseProvider(on) PROVE SlotStep
  BY <1>1, <1>4 DEF AdviseProvider, workVars
<1>5. CASE GetCredentialAt \/ ReleaseTile \/ ReleaseProvider
  BY <1>1, <1>5 DEF GetCredentialAt, ReleaseTile, ReleaseProvider, workVars
<1> QED
  BY <1>2, <1>3, <1>4, <1>5

\* A call of the user withdraws a confirmation or leaves it.
LEMMA SlotUserCall ==
  ASSUME Tile(UserCall) \/ Tile(Reacts)
  PROVE  SlotStep
<1>1. conf' \in {conf, Nobody} /\ UNCHANGED workVars
  BY DEF Tile, UserCall, Reacts, SetUserName, SetPassword, SetOtpCode, SetDeselected,
     CommandLinkClicked, GetSerialization, ReportResult, HostTakesLogon, LogonUIReacts, ResetAuthState
<1> QED
  BY <1>1, SlotQuiet DEF SlotPhase, workVars

\* What is left of a call cancels a job, gives its thread back or starts another one.
LEMMA SlotCallStep ==
  ASSUME Inv, Tile(CallStep)
  PROVE  SlotStep
<1>1. CASE StopPollThread
  <2>1. UNCHANGED <<wpc, owner, conf>> /\ w'.stop
    BY <1>1 DEF StopPollThread, Inv, TypeInv, Results
  <2>2. CASE SlotPhase = "running"
    BY <2>1, <2>2, PhaseOf, PhaseNext DEF SlotStep, Slot!Next, Slot!Cancel
  <2>3. CASE SlotPhase # "running"
    <3>1. SlotPhase' = SlotPhase
      BY <2>1, <2>3, PhaseOf, PhaseNext
    <3> QED
      BY <2>1, <3>1, SlotQuiet
  <2> QED
    BY <2>2, <2>3
<1>2. CASE SwitchToMode
  <2>1. conf' = conf /\ Joinable
    BY <1>2 DEF SwitchToMode
  <2>2. CASE HasCredentials /\ StartWorkerJob("webauthn", name, pass)
    BY <2>1, <2>2, SlotStart
  <2>3. CASE JoinPollThread
    BY <2>1, <2>3, JoinedJob, SlotJoin
  <2> QED
    BY <1>2, <2>2, <2>3 DEF SwitchToMode
<1>3. CASE StoreAfterReset \/ FinishSerialization \/ Destroy
  <2>1. conf' = conf /\ JoinPollThread /\ Joinable
    BY <1>3 DEF StoreAfterReset, FinishSerialization, Destroy, JoinPollThread
  <2> QED
    BY <2>1, JoinedJob, SlotJoin
<1>4. CASE SubmitMode
  <2>1. conf' = conf /\ HasCredentials
    BY <1>4 DEF SubmitMode, Inv, ThreadInv
  <2>2. CASE ~handle /\ StartWorkerJob(JobOf(mode), name, pass)
    BY <2>1, <2>2, SlotStart DEF Joinable
  <2>3. CASE UNCHANGED workVars
    BY <2>1, <2>3, SlotQuiet DEF SlotPhase, workVars
  <2> QED
    BY <1>4, <2>2, <2>3 DEF SubmitMode
<1>5. CASE ApplyResult \/ SubmitAgain
  BY <1>5, SlotQuiet DEF ApplyResult, SubmitAgain, SlotPhase, workVars
<1> QED
  BY <1>1, <1>2, <1>3, <1>4, <1>5 DEF Tile, CallStep

\* A step of the worker ends its job, grants the factor to its owner, or neither.
LEMMA SlotWorkerStep ==
  ASSUME Inv, Tile(WorkerStep)
  PROVE  SlotStep
<1>1. WorkerStep /\ w \in Results
  BY DEF Tile, Inv, TypeInv
<1>2. owner' = owner /\ wpc' # "none"
  BY <1>1, WorkerWrites
<1>3. CASE TakeJob \/ TellBegin \/ ReportStatus \/ WriteTicket
  BY <1>2, <1>3, SlotWorker DEF TakeJob, TellBegin, ReportStatus, WriteTicket
<1>4. CASE CheckGate
  BY <1>1, <1>2, <1>4, SlotWorker, ResultKept DEF CheckGate
<1>5. CASE BeginJob
  <2>1. PICK r : /\ r.ok \in BOOLEAN /\ r.err \in {"", "network_error", "server"}
                 /\ PublishBegin(r, task.kind = "otp")
    BY <1>5, ToldTypes DEF BeginJob
  <2>2. wpc = "begin"
    BY <1>5 DEF BeginJob
  <2>3. CASE w.stop
    BY <1>2, <2>1, <2>2, <2>3, SlotWorker DEF PublishBegin
  <2>4. CASE ~w.stop
    <3>1. wpc' = "told" /\ conf' \in {conf, owner}
      BY <2>1, <2>4 DEF PublishBegin
    <3>2. PICK n \in BOOLEAN :
            w' = [w EXCEPT !.beginDone = TRUE, !.beginOk = r.ok, !.err = r.err, !.number = n,
                           !.done = (task.kind = "otp")]
      BY <2>1, <2>4 DEF PublishBegin
    <3>3. w'.stop = w.stop
      BY <1>1, <3>2 DEF Results
    <3> QED
      BY <1>2, <2>2, <2>4, <3>1, <3>3, SlotWorker
  <2> QED
    BY <2>3, <2>4
<1>6. ASSUME NEW status \in {"approved", "denied", "expired", "timeout"}, NEW sso, PublishStatus(status, sso),
             wpc \in {"poll", "asked"}
      PROVE  SlotStep
  <2>1. CASE w.stop
    BY <1>2, <1>6, <2>1, SlotWorker DEF PublishStatus
  <2>2. CASE ~w.stop
    <3>1. wpc' = "report" /\ conf' \in {conf, owner} /\ w' = [w EXCEPT !.status = status, !.done = TRUE]
      BY <1>6, <2>2 DEF PublishStatus
    <3>2. w'.stop = w.stop
      BY <1>1, <3>1, ResultKept
    <3> QED
      BY <1>2, <1>6, <2>2, <3>1, <3>2, SlotWorker
  <2> QED
    BY <2>1, <2>2
<1>7. CASE PollAgain
  <2>1. wpc = "poll" /\ (PublishStatus("timeout", FALSE) \/ UNCHANGED <<w, conf>>)
    BY <1>7 DEF PollAgain
  <2> QED
    BY <1>2, <1>6, <2>1, SlotWorker
<1>8. CASE PollAnswered
  <2>1. /\ wpc = "asked"
        /\ \/ \E status \in {"approved", "denied", "expired"}, sso \in BOOLEAN : PublishStatus(status, sso)
           \/ UNCHANGED <<w, conf>>
    BY <1>8 DEF PollAnswered
  <2> QED
    BY <1>2, <1>6, <2>1, SlotWorker
<1> QED
  BY <1>1, <1>3, <1>4, <1>5, <1>7, <1>8 DEF WorkerStep

\* The worker thread of the tile is a slot for one job: a job runs for one user at a
\* time, what it confirms it confirms for that user, and once StopPollThread has set
\* its flag it confirms nothing any more.
THEOREM SlotRefinement == Spec => SlotSpec
<1>1. Init => Slot!Init
  BY DEF Init, TileInit, Slot!Init, SlotPhase
<1>2. Inv /\ [Next]_vars => SlotStep
  <2> SUFFICES ASSUME Inv, [Next]_vars PROVE SlotStep
    OBVIOUS
  <2>1. CASE Next
    BY <2>1, SlotProviderCall, SlotUserCall, SlotCallStep, SlotWorkerStep DEF Next
  <2>2. CASE UNCHANGED vars
    BY <2>2, SlotQuiet DEF SlotPhase, vars, tileVars, workVars
  <2> QED
    BY <2>1, <2>2
<1>3. QED
  BY <1>1, <1>2, Invariance, PTL DEF Spec, SlotSpec, Slot!Spec, SlotStep

-----------------------------------------------------------------------------
(* The filter and the provider.                                            *)

\* Filter and SetUsageScenario decide the same for the same settings.
LEMMA SameDecision ==
  ASSUME NEW c, NEW s, NEW r \in BOOLEAN, NEW p
  PROVE  ShouldEnforce2FA(c, s, r, p) <=> FilterEnforces(c, s, r, p)
<1>1. CASE s \in {"logon", "unlock"}
  BY <1>1 DEF ShouldEnforce2FA, FilterEnforces
<1>2. CASE s = "credui"
  BY <1>2 DEF ShouldEnforce2FA, FilterEnforces, IsUacElevationCredUI
<1>3. CASE s \notin {"logon", "unlock", "credui"}
  BY <1>3 DEF ShouldEnforce2FA, FilterEnforces
<1> QED
  BY <1>1, <1>2, <1>3

\* Nobody is locked out: as long as both read the same settings, the password tile is
\* hidden exactly where this provider shows its own.
THEOREM FilterTheorem == Spec => []FilterAgrees
<1>1. Init => FilterAgrees
  BY DEF Init, FilterAgrees
<1>2. FilterAgrees /\ [Next]_vars => FilterAgrees'
  <2> SUFFICES ASSUME FilterAgrees, [Next]_vars PROVE FilterAgrees'
    OBVIOUS
  <2>1. CASE UNCHANGED <<prov, scenario, enforce, hidden>>
    BY <2>1 DEF FilterAgrees
  <2>2. CASE CreateInstance \/ ReleaseProvider
    BY <2>2 DEF CreateInstance, ReleaseProvider, FilterAgrees
  <2>3. ASSUME NEW reg \in Registries, NEW c \in Scenarios, NEW isRemote \in BOOLEAN, NEW p \in Prompts,
               SetUsageScenario(reg, c, isRemote, p)
        PROVE  FilterAgrees'
    <3> DEFINE new == LoadFromRegistry(reg)
    <3>1. /\ enforce' = ShouldEnforce2FA(new, c, isRemote, p)
          /\ hidden' = FilterEnforces(new, c, isRemote, p)
      BY <2>3 DEF SetUsageScenario
    <3>2. ShouldEnforce2FA(new, c, isRemote, p) = FilterEnforces(new, c, isRemote, p)
      <4> HIDE DEF new
      <4>1. /\ ShouldEnforce2FA(new, c, isRemote, p) \in BOOLEAN
            /\ FilterEnforces(new, c, isRemote, p) \in BOOLEAN
        BY Zenon DEF ShouldEnforce2FA, FilterEnforces
      <4> QED
        BY <4>1, SameDecision
    <3> QED
      BY <3>1, <3>2 DEF FilterAgrees
  <2> QED
    BY <2>1, <2>2, <2>3 DEF Next, AdviseProvider, GetCredentialAt, ReleaseTile, Tile, vars, provVars
<1> QED
  BY <1>1, <1>2, PTL DEF Spec

-----------------------------------------------------------------------------
(* What is handed out: the invariants behind it.                           *)
(*                                                                         *)
(* A logon is handed out at the end of a call that has looked at auth or   *)
(* has copied the worker's result, and the worker and the call go on in    *)
(* between.  So what must be invariant is what a copied result still means *)
(* when the call uses it.                                                  *)

\* The steps of the worker after the request for the factor.
Begun == {"told", "poll", "asked", "report", "ticket", "exited"}

\* The worker's copy of the job keeps its shape.
TaskShape == task = [kind |-> task.kind, user |-> task.user, pass |-> task.pass, cfg |-> task.cfg]

\* The password of a job is with the worker that has still to send it.
SecretInv ==
  /\ job.pass # NoPass => wpc = "start"
  /\ task.pass # NoPass => wpc \in {"gate", "begin"}
  /\ tile # "alive" => pass = NoPass

\* Only a call that waits for the join knows what comes next, and only one that
\* has copied a result works on it.
CallInv ==
  /\ upc \notin {"stop", "join"} => cont.op = "none"
  /\ upc = "stop" => cont.op \in {"store", "switch", "destroy"}
  /\ upc \notin {"apply", "join"} => snap = Fresh

\* A result that says nobody answered is that of a job nobody answered; the job
\* has no request for the factor left to send.
ReachInv ==
  /\ wpc \notin Begun => w.err = ""
  /\ wpc \in {"none", "start", "gate", "begin"} => ~reached
  /\ w.err = "network_error" => ~reached
  /\ snap.err = "network_error" => ~reached /\ wpc \in Begun
  /\ upc = "join" /\ cont.op = "failopen" => ~cfg.FailClose /\ snap.err = "network_error"

\* The job that runs is that of the mode: the branch of the code takes the result
\* of a code, the others that of a push or a passkey.
KindInv ==
  /\ wpc = "start" => (job.kind = "otp" <=> mode = "otp")
  /\ wpc \notin {"none", "start"} => (task.kind = "otp" <=> mode = "otp")
  /\ wpc \in {"poll", "asked"} => task.kind # "otp"
  /\ wpc = "none" => ~w.done

\* What a result means in the branch of the mode.
Approves(r) == r.done /\ IF mode = "otp" THEN r.beginOk ELSE r.status = "approved"

\* ResetAuthState has cleared the confirmation, and the worker is not yet joined.
Resetting == upc \in {"stop", "join"} /\ cont.op = "store"

\* Wherever a call may take a factor for confirmed, a server has confirmed one.
GrantInv ==
  /\ auth => conf # Nobody
  /\ Approves(w) => conf # Nobody \/ Resetting
  /\ upc = "apply" /\ Approves(snap) => conf # Nobody
  /\ upc = "join" /\ cont.op \in {"pack", "approve"} => conf # Nobody

\* The calls that leave the worker alone: those of the provider on a tile that is
\* there, what the user types and clicks, and how LogonUI answers.
LEMMA QuietCalls ==
  ASSUME Inv, Next
  PROVE  \/ tile # "alive" /\ NewTile /\ UNCHANGED callVars
         \/ UNCHANGED <<workVars, tile>> /\ (tile = "alive" \/ pass' = pass)
         \/ Tile(CallStep) \/ Tile(WorkerStep)
<1> DEFINE Q == UNCHANGED <<workVars, tile>> /\ (tile = "alive" \/ pass' = pass)
<1>1. CASE CreateInstance
  <2>1. Q
    BY <1>1 DEF CreateInstance, tileVars, setupVars, typedVars, workVars
  <2> QED BY <2>1
<1>2. ASSUME NEW reg \in Registries, NEW c \in Scenarios, NEW isRemote \in BOOLEAN, NEW p \in Prompts,
             SetUsageScenario(reg, c, isRemote, p)
      PROVE  (tile # "alive" /\ NewTile /\ UNCHANGED callVars) \/ Q
  BY <1>2 DEF SetUsageScenario, typedVars, workVars
<1>3. ASSUME NEW on \in BOOLEAN, AdviseProvider(on) PROVE Q
  BY <1>3 DEF AdviseProvider, setupVars, typedVars, workVars
<1>4. CASE GetCredentialAt \/ ReleaseTile \/ ReleaseProvider
  <2>1. Q
    BY <1>4 DEF GetCredentialAt, ReleaseTile, ReleaseProvider, setupVars, typedVars, workVars
  <2> QED BY <2>1
<1>5. CASE Tile(UserCall) \/ Tile(Reacts)
  <2>1. Q
    BY <1>5 DEF Tile, UserCall, Reacts, SetUserName, SetPassword, SetOtpCode, SetDeselected,
       CommandLinkClicked, GetSerialization, ReportResult, HostTakesLogon, LogonUIReacts, Idle,
       setupVars, workVars
  <2> QED BY <2>1
<1> QED
  BY <1>1, <1>2, <1>3, <1>4, <1>5 DEF Next

\* What a step of a call does to the worker: nothing, ask it to stop, join it, or
\* start a job.
LEMMA CallKinds ==
  ASSUME Inv, CallStep
  PROVE  /\ tile = "alive"
         /\ \/ UNCHANGED <<workVars, tile>>
            \/ /\ w' = [w EXCEPT !.stop = TRUE]
               /\ UNCHANGED <<tile, job, handle, wpc, task, polls, ticket, owner, reached>>
            \/ JoinPollThread /\ tile' = tile
            \/ JoinPollThread /\ tile' = "gone" /\ pass' = NoPass
            \/ \E k : StartWorkerJob(k, name, pass) /\ tile' = tile
<1>1. tile = "alive"
  BY DEF CallStep, StopPollThread, SwitchToMode, StoreAfterReset, SubmitMode, ApplyResult,
     FinishSerialization, SubmitAgain, Destroy, Inv, ThreadInv
<1>2. CASE StopPollThread
  BY <1>1, <1>2 DEF StopPollThread, setupVars
<1>3. CASE SwitchToMode
  BY <1>1, <1>3 DEF SwitchToMode, setupVars
<1>4. CASE StoreAfterReset \/ FinishSerialization \/ Destroy
  BY <1>1, <1>4 DEF StoreAfterReset, FinishSerialization, Destroy, setupVars
<1>5. CASE SubmitMode
  BY <1>1, <1>5 DEF SubmitMode, setupVars
<1>6. CASE ApplyResult \/ SubmitAgain
  BY <1>1, <1>6 DEF ApplyResult, SubmitAgain, setupVars
<1> QED
  BY <1>2, <1>3, <1>4, <1>5, <1>6 DEF CallStep

\* What is left of a job that is over.
LEMMA EmptyJob ==
  /\ NoJob.pass = NoPass /\ NoTask.pass = NoPass
  /\ NoTask = [kind |-> NoTask.kind, user |-> NoTask.user, pass |-> NoTask.pass, cfg |-> NoTask.cfg]
<1>1. NoJob.pass = NoPass /\ NoTask.pass = NoPass
  BY DEF NoJob, NoTask
<1>2. /\ NoTask.kind = "none" /\ NoTask.user = "" /\ NoTask.cfg = Defaults
  BY DEF NoTask
<1> QED
  BY <1>1, <1>2 DEF NoTask

\* The password moves from the job to the worker and is wiped with the request.
LEMMA SecretKept ==
  ASSUME Inv, TaskShape, SecretInv, [Next]_vars
  PROVE  TaskShape' /\ SecretInv'
<1>1. ASSUME UNCHANGED <<job, task, wpc, tile>>, tile = "alive" \/ pass' = pass
      PROVE  TaskShape' /\ SecretInv'
  BY <1>1 DEF TaskShape, SecretInv
<1>2. CASE NewTile
  BY <1>2, EmptyJob DEF NewTile, TaskShape, SecretInv
<1>3. ASSUME JoinPollThread, tile' = "alive" \/ pass' = NoPass PROVE TaskShape' /\ SecretInv'
  BY <1>3, EmptyJob DEF JoinPollThread, TaskShape, SecretInv
<1>4. ASSUME NEW k, StartWorkerJob(k, name, pass), tile' = "alive" PROVE TaskShape' /\ SecretInv'
  BY <1>4, EmptyJob DEF StartWorkerJob, TaskShape, SecretInv
<1>5. CASE Tile(CallStep)
  <2>1. CASE UNCHANGED <<workVars, tile>>
    BY <1>5, <2>1, <1>1, CallKinds DEF Tile, workVars
  <2> QED
    BY <1>5, <2>1, <1>1, <1>3, <1>4, CallKinds DEF Tile
<1>6. CASE Tile(WorkerStep)
  <2>1. UNCHANGED <<tile, pass>>
    BY <1>6, WorkerWrites DEF Tile
  <2>2. CASE TakeJob
    BY <2>1, <2>2, EmptyJob DEF TakeJob, TaskShape, SecretInv
  <2>3. CASE CheckGate
    BY <2>1, <2>3 DEF CheckGate, TaskShape, SecretInv
  <2>4. CASE BeginJob
    <3>1. task' = [task EXCEPT !.pass = NoPass] /\ job' = job /\ wpc = "begin"
      BY <2>4 DEF BeginJob
    <3> QED
      BY <2>1, <3>1 DEF TaskShape, SecretInv
  <2>5. CASE TellBegin \/ PollAgain \/ PollAnswered \/ ReportStatus \/ WriteTicket
    <3>1. UNCHANGED <<job, task>> /\ wpc \notin {"start", "gate", "begin"}
      BY <2>5 DEF TellBegin, PollAgain, PollAnswered, ReportStatus, WriteTicket
    <3> QED
      BY <2>1, <3>1 DEF TaskShape, SecretInv
  <2> QED
    BY <1>6, <2>2, <2>3, <2>4, <2>5 DEF Tile, WorkerStep
<1>7. CASE UNCHANGED vars
  BY <1>7, <1>1 DEF vars, tileVars, setupVars, typedVars, workVars
<1>8. CASE UNCHANGED <<workVars, tile>> /\ (tile = "alive" \/ pass' = pass)
  BY <1>8, <1>1 DEF workVars
<1> QED
  BY <1>2, <1>5, <1>6, <1>7, <1>8, QuietCalls

\* A tile begins without secrets.
LEMMA InitSecret == Init => TaskShape /\ SecretInv
  BY EmptyJob DEF Init, TileInit, TaskShape, SecretInv

\* Between calls no copy of a password outlives the request it was for, however the
\* job was started, stopped or joined.
THEOREM SecretsTheorem == Spec => []SecretsWiped
<1>1. Inv /\ TaskShape /\ SecretInv => SecretsWiped
  BY DEF Inv, ThreadInv, SecretInv, SecretsWiped
<1> QED
  BY <1>1, InitInv, InitSecret, NextInv, SecretKept, PTL DEF Spec

-----------------------------------------------------------------------------
(* Fail-open.                                                              *)

\* A request that tells of a network error got no answer from anybody it asked, or one
\* that says so.
LEMMA UnansweredIsUnreached ==
  ASSUME NEW c, NEW core, NEW relay, NEW text
  PROVE  /\ VerifyCombined(c, core, relay, text).err = "network_error" => ~Reached(c, core, relay, TRUE, text)
         /\ StartPush(c, core, text).err = "network_error" => ~Reached(c, core, relay, FALSE, text)
         /\ \A r \in WebAuthnBegin(c, core, text) :
              r.err = "network_error" => ~Reached(c, core, relay, FALSE, text)
<1>1. VerifyCombined(c, core, relay, text).err = "network_error" => ~Reached(c, core, relay, TRUE, text)
  <2> SUFFICES ASSUME Reached(c, core, relay, TRUE, text)
               PROVE  VerifyCombined(c, core, relay, text).err # "network_error"
    OBVIOUS
  <2>1. CASE SendRequest(c, core) # "unreachable"
    BY <2>1 DEF VerifyCombined, Told, Reached
  <2>2. CASE SendRequest(c, core) = "unreachable" /\ SendRelayRequest(c, relay) # "unreachable"
    BY <2>2 DEF VerifyCombined, Told, Reached
  <2> QED
    BY <2>1, <2>2 DEF Reached
<1>2. StartPush(c, core, text).err = "network_error" => ~Reached(c, core, relay, FALSE, text)
  BY DEF StartPush, Told, Reached
<1>3. ASSUME NEW r \in WebAuthnBegin(c, core, text), SendRequest(c, core) # "unreachable",
             text # "network_error"
      PROVE  r.err # "network_error"
  <2>1. CASE SendRequest(c, core) = "done"
    <3>1. r = Told(TRUE, "")
      BY <1>3, <2>1 DEF WebAuthnBegin
    <3> QED
      BY <3>1 DEF Told
  <2>2. CASE SendRequest(c, core) # "done"
    <3>1. PICK e \in {"", text} : r = Told(FALSE, e)
      BY <1>3, <2>2 DEF WebAuthnBegin
    <3> QED
      BY <1>3, <3>1 DEF Told
  <2> QED
    BY <2>1, <2>2
<1>4. \A r \in WebAuthnBegin(c, core, text) :
        r.err = "network_error" => ~Reached(c, core, relay, FALSE, text)
  BY <1>3 DEF Reached
<1> QED
  BY <1>1, <1>2, <1>4

\* What a call is told to do next.
LEMMA NextOp ==
  /\ Done.op = "none" /\ Fresh.err = ""
  /\ \A o : Then(o).op = o
  /\ \A o, x : /\ [Then(o) EXCEPT !.name = x].op = o
               /\ [Then(o) EXCEPT !.pass = x].op = o
               /\ [Then(o) EXCEPT !.mode = x].op = o
  BY DEF Done, Fresh, Then

\* Where the steps before the branch of the mode lead.
LEMMA SubmitStepsCont ==
  ASSUME SubmitSteps
  PROVE  \/ UNCHANGED <<upc, cont>>
         \/ auth /\ upc' = "join" /\ cont'.op = "pack" /\ out' = out
         \/ upc' = "mode" /\ UNCHANGED <<cont, out>>
  BY NextOp DEF SubmitSteps

\* A call that begins: it returns at once, goes on to stop the worker, to join it
\* with a confirmed factor, or to the branch of the mode.
LEMMA FirstSteps ==
  ASSUME Inv, Next, ~Tile(CallStep), ~Tile(WorkerStep)
  PROVE  /\ upc = "idle" /\ snap' = snap
         /\ \/ UNCHANGED <<upc, cont>>
            \/ upc' = "stop" /\ cont'.op \in {"store", "switch", "destroy"}
            \/ auth /\ upc' = "join" /\ cont'.op = "pack" /\ UNCHANGED <<auth, conf, out>>
            \/ upc' = "mode" /\ cont' = cont
<1> USE NextOp
<1> DEFINE Goal == /\ upc = "idle" /\ snap' = snap
                   /\ \/ UNCHANGED <<upc, cont>>
                      \/ upc' = "stop" /\ cont'.op \in {"store", "switch", "destroy"}
                      \/ auth /\ upc' = "join" /\ cont'.op = "pack" /\ UNCHANGED <<auth, conf, out>>
                      \/ upc' = "mode" /\ cont' = cont
<1> SUFFICES Goal
  OBVIOUS
<1>1. CASE CreateInstance
  BY <1>1 DEF CreateInstance, Free, tileVars, callVars
<1>2. ASSUME NEW reg \in Registries, NEW c \in Scenarios, NEW isRemote \in BOOLEAN, NEW p \in Prompts,
             SetUsageScenario(reg, c, isRemote, p)
      PROVE  Goal
  BY <1>2 DEF SetUsageScenario, Free, callVars
<1>3. ASSUME NEW on \in BOOLEAN, AdviseProvider(on) PROVE Goal
  BY <1>3 DEF AdviseProvider, Free, callVars
<1>4. CASE GetCredentialAt \/ ReleaseTile \/ ReleaseProvider
  BY <1>4 DEF GetCredentialAt, ReleaseTile, ReleaseProvider, ReleaseLast, Free, Idle, callVars
<1>5. ASSUME UserCall \/ Reacts PROVE Goal
  <2>1. CASE GetSerialization \/ LogonUIReacts
    BY <2>1, SubmitStepsCont DEF GetSerialization, LogonUIReacts, Idle
  <2>2. ASSUME NEW n \in Names, SetUserName(n) PROVE Goal
    <3>1. [Then("store") EXCEPT !.name = n].op = "store"
      OBVIOUS
    <3> QED
      BY <2>2, <3>1 DEF SetUserName, ResetAuthState, Idle
  <2>3. ASSUME NEW p \in Passwords, SetPassword(p) PROVE Goal
    <3>1. [Then("store") EXCEPT !.pass = p].op = "store"
      OBVIOUS
    <3> QED
      BY <2>3, <3>1 DEF SetPassword, ResetAuthState, Idle
  <2>4. ASSUME NEW link \in {"first", "second"}, CommandLinkClicked(link) PROVE Goal
    <3>1. [Then("switch") EXCEPT !.mode = LinkTarget(link)].op = "switch"
      OBVIOUS
    <3> QED
      BY <2>4, <3>1 DEF CommandLinkClicked, Idle
  <2>5. CASE SetDeselected \/ ReportResult
    <3>1. Then("store").op = "store" /\ [Then("store") EXCEPT !.pass = NoPass].op = "store"
      OBVIOUS
    <3> QED
      BY <2>5, <3>1 DEF SetDeselected, ReportResult, ResetAuthState, Idle
  <2>6. CASE HostTakesLogon \/ \E b \in BOOLEAN : SetOtpCode(b)
    BY <2>6 DEF HostTakesLogon, SetOtpCode, Idle, callVars
  <2> QED
    BY <1>5, <2>1, <2>2, <2>3, <2>4, <2>5, <2>6 DEF UserCall, Reacts
<1>6. /\ Tile(UserCall) => UserCall
      /\ Tile(Reacts) => Reacts
  BY DEF Tile
<1> HIDE NextOp DEF Goal
<1> QED
  BY <1>1, <1>2, <1>3, <1>4, <1>5, <1>6 DEF Next

\* A call keeps what it has to do until it has done it.
LEMMA CallKept ==
  ASSUME Inv, CallInv, [Next]_vars
  PROVE  CallInv'
<1>1. CASE UNCHANGED <<upc, cont, snap>>
  BY <1>1 DEF CallInv
<1>2. CASE Next /\ ~Tile(CallStep) /\ ~Tile(WorkerStep)
  BY <1>2, FirstSteps DEF CallInv
<1>3. CASE Tile(CallStep)
  <2>1. CASE StopPollThread
    BY <2>1 DEF StopPollThread, CallInv
  <2>2. CASE SwitchToMode \/ StoreAfterReset \/ FinishSerialization \/ SubmitAgain \/ Destroy
    BY <2>2, NextOp DEF SwitchToMode, StoreAfterReset, FinishSerialization, SubmitAgain, Destroy,
       Return, CallInv
  <2>3. CASE SubmitMode
    BY <2>3 DEF SubmitMode, CallInv
  <2>4. CASE ApplyResult
    BY <2>4, NextOp DEF ApplyResult, Return, CallInv
  <2> QED
    BY <1>3, <2>1, <2>2, <2>3, <2>4 DEF Tile, CallStep
<1>4. CASE Tile(WorkerStep)
  BY <1>1, <1>4, WorkerWrites DEF Tile
<1>5. CASE UNCHANGED vars
  BY <1>1, <1>5 DEF vars, tileVars, callVars
<1> QED
  BY <1>2, <1>3, <1>4, <1>5

\* The worker after its request tells the error it got and sends no other request.
LEMMA WorkerReach ==
  ASSUME Inv, ReachInv, WorkerStep
  PROVE  /\ wpc' \notin Begun => w'.err = ""
         /\ wpc' \in {"none", "start", "gate", "begin"} => ~reached'
         /\ w'.err = "network_error" => ~reached'
         /\ wpc \in Begun => wpc' \in Begun /\ reached' = reached
<1>1. w \in Results
  BY DEF Inv, TypeInv
<1>2. CASE TakeJob
  BY <1>2 DEF TakeJob, ReachInv, Begun
<1>3. CASE CheckGate
  <2>1. wpc = "gate" /\ w.err = "" /\ ~reached
    BY <1>3 DEF CheckGate, ReachInv, Begun
  <2>2. \/ wpc' = "begin" /\ UNCHANGED <<w, reached>>
        \/ wpc' = "exited" /\ w' = w
        \/ wpc' = "report" /\ w' = [w EXCEPT !.beginDone = TRUE, !.beginOk = TRUE, !.done = TRUE]
    BY <1>3 DEF CheckGate
  <2>3. w'.err = ""
    BY <1>1, <2>1, <2>2 DEF Results
  <2>4. wpc' \in {"none", "start", "gate", "begin"} => ~reached'
    BY <2>1, <2>2
  <2> QED
    BY <2>1, <2>3, <2>4 DEF Begun
<1>4. CASE BeginJob
  <2>1. wpc = "begin" /\ w.err = "" /\ ~reached
    BY <1>4 DEF BeginJob, ReachInv, Begun
  <2>2. PICK core \in Answers, relay \in Answers, text \in Texts :
          /\ reached' = (reached \/ Reached(task.cfg, core, relay, task.kind = "otp", text))
          /\ \E r \in CASE task.kind = "otp" -> {VerifyCombined(task.cfg, core, relay, text)}
                         [] task.kind = "push" -> {StartPush(task.cfg, core, text)}
                         [] OTHER -> WebAuthnBegin(task.cfg, core, text) :
               PublishBegin(r, task.kind = "otp")
    BY <1>4 DEF BeginJob
  <2>3. PICK r : /\ r.err = "network_error" => ~Reached(task.cfg, core, relay, task.kind = "otp", text)
                 /\ PublishBegin(r, task.kind = "otp")
    <3>1. CASE task.kind = "otp"
      <4>1. (task.kind = "otp") = TRUE
        BY <3>1
      <4> QED
        BY <2>2, <3>1, <4>1, UnansweredIsUnreached
    <3>2. CASE task.kind # "otp"
      <4>1. (task.kind = "otp") = FALSE
        BY <3>2
      <4> QED
        BY <2>2, <3>2, <4>1, UnansweredIsUnreached
    <3> QED
      BY <3>1, <3>2
  <2>4. CASE w.stop
    BY <2>1, <2>3, <2>4 DEF PublishBegin, Begun
  <2>5. CASE ~w.stop
    <3>1. wpc' = "told" /\ w'.err = r.err
      <4>1. PICK n : w' = [w EXCEPT !.beginDone = TRUE, !.beginOk = r.ok, !.err = r.err,
                                    !.number = n, !.done = (task.kind = "otp")]
        BY <2>3, <2>5 DEF PublishBegin
      <4>2. w'.err = r.err
        BY <1>1, <4>1 DEF Results
      <4> QED
        BY <2>3, <2>5, <4>2 DEF PublishBegin
    <3> QED
      BY <2>1, <2>2, <2>3, <3>1 DEF Begun
  <2> QED
    BY <2>4, <2>5
<1>5. CASE TellBegin \/ ReportStatus \/ WriteTicket
  <2>1. wpc \in Begun /\ wpc' \in Begun /\ UNCHANGED <<w, reached>>
    BY <1>5 DEF TellBegin, ReportStatus, WriteTicket, Begun
  <2> QED
    BY <2>1 DEF ReachInv, Begun
<1>6. CASE PollAgain \/ PollAnswered
  <2>1. wpc \in Begun /\ reached' = reached /\ wpc' \in {"exited", "asked", "poll", "report"}
    BY <1>6 DEF PollAgain, PollAnswered, PublishStatus, Begun
  <2>2. w' = w \/ \E s : w' = [w EXCEPT !.status = s, !.done = TRUE]
    BY <1>6 DEF PollAgain, PollAnswered, PublishStatus
  <2>3. w'.err = w.err
    BY <1>1, <2>2 DEF Results
  <2> QED
    BY <2>1, <2>3 DEF ReachInv, Begun
<1> QED
  BY <1>2, <1>3, <1>4, <1>5, <1>6 DEF WorkerStep

\* A result that says nobody answered stays true while a call works on its copy.
LEMMA ReachKept ==
  ASSUME Inv, CallInv, ReachInv, [Next]_vars
  PROVE  ReachInv'
<1> USE NextOp
<1>1. CASE Next /\ ~Tile(CallStep) /\ ~Tile(WorkerStep)
  <2>1. /\ snap' = Fresh /\ (upc' = "join" => cont'.op # "failopen")
    BY <1>1, FirstSteps DEF CallInv
  <2>2. CASE UNCHANGED workVars
    BY <2>1, <2>2 DEF workVars, ReachInv
  <2>3. CASE tile # "alive" /\ NewTile
    BY <2>1, <2>3 DEF NewTile, ReachInv, Inv, ThreadInv, Begun
  <2> QED
    BY <1>1, <2>2, <2>3, QuietCalls
<1>2. CASE Tile(CallStep)
  <2>1. ASSUME w' = Fresh, ~reached', snap' = Fresh, upc' # "join" PROVE ReachInv'
    BY <2>1 DEF ReachInv
  <2>2. CASE StopPollThread
    <3>1. /\ UNCHANGED <<wpc, reached, snap>> /\ w'.err = w.err /\ cont'.op # "failopen"
      BY <2>2 DEF StopPollThread, Inv, TypeInv, Results, CallInv
    <3> QED
      BY <3>1 DEF ReachInv
  <2>3. CASE SwitchToMode
    BY <2>1, <2>3 DEF SwitchToMode, Return, StartWorkerJob, JoinPollThread
  <2>4. CASE StoreAfterReset \/ FinishSerialization \/ Destroy
    BY <2>1, <2>4 DEF StoreAfterReset, FinishSerialization, Destroy, Return, JoinPollThread
  <2>5. CASE SubmitMode
    <3>1. snap = Fresh /\ upc' # "join"
      BY <2>5 DEF SubmitMode, CallInv
    <3>2. CASE StartWorkerJob(JobOf(mode), name, pass) /\ snap' = snap
      BY <2>1, <3>1, <3>2 DEF StartWorkerJob
    <3>3. CASE UNCHANGED workVars /\ snap' \in {snap, w}
      BY <3>1, <3>3 DEF workVars, ReachInv
    <3> QED
      BY <2>5, <3>2, <3>3 DEF SubmitMode
  <2>6. CASE ApplyResult
    <3>1. UNCHANGED <<w, wpc, reached, cfg>>
      BY <2>6 DEF ApplyResult, workVars, setupVars
    <3>2. CASE Verdict = "wait"
      BY <2>6, <3>1, <3>2 DEF ApplyResult, Return, ReachInv
    <3>3. CASE Verdict # "wait"
      <4>1. snap' = snap /\ cont'.op = Verdict
        BY <2>6, <3>3 DEF ApplyResult
      <4>2. Verdict = "failopen" => FailsOpen
        BY DEF Verdict
      <4> QED
        BY <3>1, <4>1, <4>2 DEF FailsOpen, ReachInv
    <3> QED
      BY <3>2, <3>3
  <2>7. CASE SubmitAgain
    BY <2>7 DEF SubmitAgain, Return, workVars, ReachInv
  <2> QED
    BY <1>2, <2>2, <2>3, <2>4, <2>5, <2>6, <2>7 DEF Tile, CallStep
<1>3. CASE Tile(WorkerStep)
  <2>1. UNCHANGED <<snap, upc, cont>>
    BY <1>3, WorkerWrites DEF Tile
  <2>2. cfg' = cfg
    BY <1>3 DEF Tile, WorkerStep, TakeJob, CheckGate, BeginJob, TellBegin, PollAgain, PollAnswered,
       ReportStatus, WriteTicket, workerFrame, setupVars
  <2>3. WorkerStep
    BY <1>3 DEF Tile
  <2>4. /\ wpc' \notin Begun => w'.err = ""
        /\ wpc' \in {"none", "start", "gate", "begin"} => ~reached'
        /\ w'.err = "network_error" => ~reached'
        /\ wpc \in Begun => wpc' \in Begun /\ reached' = reached
    BY <2>3, WorkerReach
  <2>5. snap'.err = "network_error" => ~reached' /\ wpc' \in Begun
    BY <2>1, <2>4 DEF ReachInv
  <2>6. upc' = "join" /\ cont'.op = "failopen" => ~cfg'.FailClose /\ snap'.err = "network_error"
    BY <2>1, <2>2 DEF ReachInv
  <2> QED
    BY <2>4, <2>5, <2>6 DEF ReachInv
<1>4. CASE UNCHANGED vars
  BY <1>4 DEF vars, tileVars, setupVars, callVars, workVars, ReachInv
<1> QED
  BY <1>1, <1>2, <1>3, <1>4

\* No logon is waiting for its result.
LEMMA NothingOut == NoLogon.cause = "none"
  BY DEF NoLogon

\* The causes a step hands a logon out for.
LEMMA HandedOut ==
  ASSUME Inv, [Next]_vars
  PROVE  \/ out' \in {out, NoLogon} \/ PackAndFinish("bypass")
         \/ upc = "recheck" /\ auth /\ PackAndFinish("confirmed")
         \/ upc = "join" /\ cont.op \in {"pack", "approve"} /\ PackAndFinish("confirmed")
         \/ upc = "join" /\ cont.op = "failopen" /\ PackAndFinish("failopen")
<1> DEFINE Goal == \/ out' \in {out, NoLogon} \/ PackAndFinish("bypass")
                   \/ upc = "recheck" /\ auth /\ PackAndFinish("confirmed")
                   \/ upc = "join" /\ cont.op \in {"pack", "approve"} /\ PackAndFinish("confirmed")
                   \/ upc = "join" /\ cont.op = "failopen" /\ PackAndFinish("failopen")
<1> SUFFICES Goal
  OBVIOUS
<1>1. CASE CreateInstance \/ GetCredentialAt \/ ReleaseTile \/ ReleaseProvider
  BY <1>1 DEF CreateInstance, GetCredentialAt, ReleaseTile, ReleaseProvider, tileVars
<1>2. CASE \/ \E reg \in Registries, c \in Scenarios, isRemote \in BOOLEAN, p \in Prompts :
                SetUsageScenario(reg, c, isRemote, p)
           \/ \E on \in BOOLEAN : AdviseProvider(on)
  BY <1>2 DEF SetUsageScenario, NewTile, AdviseProvider
<1>3. CASE UserCall \/ Reacts
  <2>1. CASE GetSerialization \/ LogonUIReacts
    BY <2>1 DEF GetSerialization, LogonUIReacts, SubmitSteps
  <2>2. CASE ~GetSerialization /\ ~LogonUIReacts
    BY <1>3, <2>2 DEF UserCall, Reacts, SetUserName, SetPassword, SetOtpCode, SetDeselected,
       CommandLinkClicked, ReportResult, HostTakesLogon
  <2> QED
    BY <2>1, <2>2
<1>4. CASE FinishSerialization
  BY <1>4 DEF FinishSerialization
<1>5. CASE SubmitAgain
  BY <1>5 DEF SubmitAgain
<1>6. CASE StopPollThread \/ SwitchToMode \/ StoreAfterReset \/ SubmitMode \/ ApplyResult \/ Destroy
  BY <1>6 DEF StopPollThread, SwitchToMode, StoreAfterReset, SubmitMode, ApplyResult, Destroy
<1>7. CASE WorkerStep
  BY <1>7 DEF WorkerStep, TakeJob, CheckGate, BeginJob, TellBegin, PollAgain, PollAnswered,
     ReportStatus, WriteTicket, workerFrame
<1>8. CASE UNCHANGED vars
  BY <1>8 DEF vars, tileVars
<1>9. /\ Tile(UserCall) => UserCall
      /\ Tile(Reacts) => Reacts
      /\ Tile(CallStep) => CallStep
      /\ Tile(WorkerStep) => WorkerStep
  BY DEF Tile
<1> HIDE DEF Goal
<1> QED
  BY <1>1, <1>2, <1>3, <1>4, <1>5, <1>6, <1>7, <1>8, <1>9 DEF Next, CallStep

\* The tile lets a user in without a second factor only where the policy says so and
\* no server answered, although the worker goes on between the copy of its result and
\* the logon.
THEOREM FailOpenTheorem == Spec => []FailOpenOnlyUnreached
<1>1. Init => CallInv /\ ReachInv /\ FailOpenOnlyUnreached
  <2> SUFFICES ASSUME Init PROVE CallInv /\ ReachInv /\ FailOpenOnlyUnreached
    OBVIOUS
  <2>1. /\ upc = "idle" /\ cont.op = "none" /\ snap = Fresh /\ w.err = "" /\ snap.err = ""
        /\ reached = FALSE /\ out.cause = "none"
    BY NextOp, NothingOut DEF Init, TileInit
  <2> QED
    BY <2>1 DEF CallInv, ReachInv, FailOpenOnlyUnreached
<1>2. Inv /\ ReachInv /\ FailOpenOnlyUnreached /\ [Next]_vars => FailOpenOnlyUnreached'
  <2> SUFFICES ASSUME Inv, ReachInv, FailOpenOnlyUnreached, [Next]_vars PROVE FailOpenOnlyUnreached'
    OBVIOUS
  <2>1. CASE out' \in {out, NoLogon}
    BY <2>1, NothingOut DEF FailOpenOnlyUnreached
  <2>2. ASSUME NEW c \in {"bypass", "confirmed"}, PackAndFinish(c) PROVE FailOpenOnlyUnreached'
    BY <2>1, <2>2 DEF PackAndFinish, FailOpenOnlyUnreached
  <2>3. CASE upc = "join" /\ cont.op = "failopen" /\ PackAndFinish("failopen")
    <3>1. ~cfg.FailClose /\ ~reached
      BY <2>3 DEF ReachInv
    <3>2. out' = out \/ (out'.failClose = cfg.FailClose /\ out'.reached = reached)
      BY <2>3 DEF PackAndFinish
    <3> QED
      BY <2>1, <3>1, <3>2 DEF FailOpenOnlyUnreached
  <2> QED
    BY <2>1, <2>2, <2>3, HandedOut
<1> QED
  BY <1>1, <1>2, InitInv, NextInv, CallKept, ReachKept, PTL DEF Spec

-----------------------------------------------------------------------------
(* A confirmed logon.  LogonUI sets no scenario while a worker runs: where *)
(* it does (ScenarioWhileBusy), Initialize replaces the mode under the     *)
(* worker and the branch of the code takes the result of another factor.   *)

\* A call that begins keeps the confirmation or clears it to reset, and the mode of
\* a worker stays.
LEMMA FirstGrants ==
  ASSUME Inv, Next, ~ScenarioWhileBusy, ~Tile(CallStep), ~Tile(WorkerStep)
  PROVE  /\ mode' = mode \/ wpc = "none"
         /\ \/ UNCHANGED <<auth, conf>>
            \/ ~auth' /\ upc' = "stop" /\ cont'.op = "store"
            \/ ~auth' /\ NewTile
<1> USE NextOp
<1> DEFINE Goal == /\ mode' = mode \/ wpc = "none"
                   /\ \/ UNCHANGED <<auth, conf>>
                      \/ ~auth' /\ upc' = "stop" /\ cont'.op = "store"
                      \/ ~auth' /\ NewTile
<1> SUFFICES Goal
  OBVIOUS
<1>1. CASE CreateInstance
  BY <1>1 DEF CreateInstance, tileVars
<1>2. ASSUME NEW reg \in Registries, NEW c \in Scenarios, NEW isRemote \in BOOLEAN, NEW p \in Prompts,
             SetUsageScenario(reg, c, isRemote, p)
      PROVE  Goal
  <2>1. wpc = "none"
    BY <1>2 DEF SetUsageScenario, Inv, ThreadInv
  <2>2. CASE NewTile
    BY <2>1, <2>2 DEF NewTile
  <2>3. CASE UNCHANGED <<auth, conf>>
    BY <2>1, <2>3
  <2> QED
    BY <1>2, <2>2, <2>3 DEF SetUsageScenario
<1>3. ASSUME NEW on \in BOOLEAN, AdviseProvider(on) PROVE Goal
  BY <1>3 DEF AdviseProvider
<1>4. CASE GetCredentialAt \/ ReleaseTile \/ ReleaseProvider
  BY <1>4 DEF GetCredentialAt, ReleaseTile, ReleaseProvider
<1>5. ASSUME UserCall \/ Reacts PROVE Goal
  <2>1. ASSUME NEW x, ResetAuthState(x), x.op = "store", mode' = mode PROVE Goal
    BY <2>1 DEF ResetAuthState
  <2>2. ASSUME NEW n \in Names, SetUserName(n) PROVE Goal
    <3>1. [Then("store") EXCEPT !.name = n].op = "store"
      OBVIOUS
    <3> QED
      BY <2>1, <2>2, <3>1 DEF SetUserName
  <2>3. ASSUME NEW p \in Passwords, SetPassword(p) PROVE Goal
    <3>1. [Then("store") EXCEPT !.pass = p].op = "store"
      OBVIOUS
    <3> QED
      BY <2>1, <2>3, <3>1 DEF SetPassword
  <2>4. CASE SetDeselected \/ ReportResult
    <3>1. Then("store").op = "store" /\ [Then("store") EXCEPT !.pass = NoPass].op = "store"
      OBVIOUS
    <3> QED
      BY <2>1, <2>4, <3>1 DEF SetDeselected, ReportResult
  <2>5. CASE \/ GetSerialization \/ LogonUIReacts \/ HostTakesLogon
             \/ \E b \in BOOLEAN : SetOtpCode(b)
             \/ \E link \in {"first", "second"} : CommandLinkClicked(link)
    BY <2>5 DEF GetSerialization, LogonUIReacts, HostTakesLogon, SetOtpCode, CommandLinkClicked
  <2> HIDE NextOp DEF Goal
  <2> QED
    BY <1>5, <2>2, <2>3, <2>4, <2>5 DEF UserCall, Reacts
<1>6. /\ Tile(UserCall) => UserCall
      /\ Tile(Reacts) => Reacts
  BY DEF Tile
<1> HIDE NextOp DEF Goal
<1> QED
  BY <1>1, <1>2, <1>3, <1>4, <1>5, <1>6 DEF Next

\* The job that is started is that of the mode.
LEMMA JobOfMode == ASSUME mode \in Modes PROVE JobOf(mode) = "otp" <=> mode = "otp"
<1>1. JobOf("push") = "push" /\ JobOf("otp") = "otp" /\ JobOf("fido2") = "webauthn"
  BY DEF JobOf
<1> QED
  BY <1>1 DEF Modes

\* A job keeps its kind until the next one is started.
LEMMA KindKept ==
  ASSUME Inv, TaskShape, KindInv, ~ScenarioWhileBusy, [Next]_vars
  PROVE  KindInv'
<1>1. ~Fresh.done
  BY DEF Fresh
<1>2. ASSUME wpc' = "none", ~w'.done PROVE KindInv'
  BY <1>2 DEF KindInv
<1>3. ASSUME NEW k, NEW n, NEW p, StartWorkerJob(k, n, p), k = "otp" <=> mode' = "otp" PROVE KindInv'
  <2>1. wpc' = "none" \/ (wpc' = "start" /\ job'.kind = k)
    BY <1>3 DEF StartWorkerJob
  <2>2. w' = Fresh
    BY <1>3 DEF StartWorkerJob
  <2> QED
    BY <1>1, <1>2, <1>3, <2>1, <2>2 DEF KindInv
<1>4. CASE Next /\ ~Tile(CallStep) /\ ~Tile(WorkerStep)
  <2>1. mode' = mode \/ wpc = "none"
    BY <1>4, FirstGrants
  <2>2. CASE UNCHANGED workVars
    BY <2>1, <2>2 DEF workVars, KindInv
  <2>3. CASE tile # "alive" /\ NewTile
    BY <1>1, <1>2, <2>3 DEF NewTile, Inv, ThreadInv
  <2> QED
    BY <1>4, <2>2, <2>3, QuietCalls
<1>5. CASE Tile(CallStep)
  <2>1. CASE StopPollThread
    <3>1. UNCHANGED <<mode, wpc, job, task>> /\ w'.done = w.done
      BY <2>1 DEF StopPollThread, Inv, TypeInv, Results
    <3> QED
      BY <3>1 DEF KindInv
  <2>2. CASE SwitchToMode
    <3>1. CASE cont.mode = "fido2" /\ StartWorkerJob("webauthn", name, pass)
      BY <1>3, <2>2, <3>1 DEF SwitchToMode
    <3>2. CASE JoinPollThread
      BY <1>1, <1>2, <3>2 DEF JoinPollThread
    <3> QED
      BY <2>2, <3>1, <3>2 DEF SwitchToMode
  <2>3. CASE StoreAfterReset \/ FinishSerialization \/ Destroy
    BY <1>1, <1>2, <2>3 DEF StoreAfterReset, FinishSerialization, Destroy, JoinPollThread
  <2>4. CASE SubmitMode
    <3>1. mode' = mode /\ (JobOf(mode) = "otp" <=> mode = "otp")
      BY <2>4, JobOfMode DEF SubmitMode, Inv, TypeInv
    <3>2. CASE StartWorkerJob(JobOf(mode), name, pass)
      BY <1>3, <3>1, <3>2
    <3>3. CASE UNCHANGED workVars
      BY <3>1, <3>3 DEF workVars, KindInv
    <3> QED
      BY <2>4, <3>2, <3>3 DEF SubmitMode
  <2>5. CASE ApplyResult \/ SubmitAgain
    BY <2>5 DEF ApplyResult, SubmitAgain, workVars, KindInv
  <2> QED
    BY <1>5, <2>1, <2>2, <2>3, <2>4, <2>5 DEF Tile, CallStep
<1>6. CASE Tile(WorkerStep)
  <2>1. mode' = mode /\ wpc' # "none" /\ WorkerStep
    BY <1>6, WorkerWrites DEF Tile
  <2>2. CASE TakeJob
    <3>1. wpc = "start" /\ wpc' \in {"gate", "begin"} /\ task'.kind = job.kind
      BY <2>2 DEF TakeJob
    <3> QED
      BY <2>1, <3>1 DEF KindInv
  <2>3. CASE CheckGate \/ BeginJob
    <3>1. /\ wpc \in {"gate", "begin"} /\ wpc' \in {"begin", "told", "report", "exited"}
          /\ task' \in {task, [task EXCEPT !.pass = NoPass]}
      BY <2>3 DEF CheckGate, BeginJob, PublishBegin
    <3>2. task'.kind = task.kind
      BY <3>1 DEF TaskShape
    <3> QED
      BY <2>1, <3>1, <3>2 DEF KindInv
  <2>4. CASE TellBegin
    BY <2>1, <2>4 DEF TellBegin, KindInv
  <2>5. CASE PollAgain \/ PollAnswered
    <3>1. wpc \in {"poll", "asked"} /\ wpc' \in {"poll", "asked", "report", "exited"} /\ task' = task
      BY <2>5 DEF PollAgain, PollAnswered, PublishStatus
    <3> QED
      BY <2>1, <3>1 DEF KindInv
  <2>6. CASE ReportStatus \/ WriteTicket
    BY <2>1, <2>6 DEF ReportStatus, WriteTicket, KindInv
  <2> QED
    BY <2>1, <2>2, <2>3, <2>4, <2>5, <2>6 DEF WorkerStep
<1>7. CASE UNCHANGED vars
  BY <1>7 DEF vars, tileVars, workVars, KindInv
<1> QED
  BY <1>4, <1>5, <1>6, <1>7

\* What makes a result an approval also confirms it for the owner of the job.
LEMMA WorkerGrants ==
  ASSUME Inv, KindInv, WorkerStep
  PROVE  conf' = owner \/ (conf' = conf /\ (auth' => auth) /\ (Approves(w)' => Approves(w)))
<1>1. w \in Results /\ mode' = mode
  BY WorkerWrites DEF Inv, TypeInv
<1>2. CASE UNCHANGED <<w, auth, conf>>
  BY <1>1, <1>2 DEF Approves
<1>3. CASE TakeJob \/ TellBegin \/ ReportStatus \/ WriteTicket
  BY <1>2, <1>3 DEF TakeJob, TellBegin, ReportStatus, WriteTicket
<1>4. CASE CheckGate
  BY <1>2, <1>4 DEF CheckGate
<1>5. CASE BeginJob
  <2>1. PICK r : PublishBegin(r, task.kind = "otp")
    BY <1>5 DEF BeginJob
  <2>2. task.kind = "otp" <=> mode = "otp"
    BY <1>5 DEF BeginJob, KindInv
  <2>3. CASE w.stop
    BY <1>2, <2>1, <2>3 DEF PublishBegin
  <2>4. CASE ~w.stop /\ task.kind = "otp" /\ r.ok
    BY <2>1, <2>4 DEF PublishBegin
  <2>5. CASE ~w.stop /\ ~(task.kind = "otp" /\ r.ok)
    <3>1. conf' = conf /\ (auth' => auth)
      BY <2>1, <2>5 DEF PublishBegin
    <3>2. PICK n : w' = [w EXCEPT !.beginDone = TRUE, !.beginOk = r.ok, !.err = r.err,
                                  !.number = n, !.done = (task.kind = "otp")]
      BY <2>1, <2>5 DEF PublishBegin
    <3>3. (w'.done <=> task.kind = "otp") /\ (w'.beginOk <=> r.ok)
      BY <1>1, <3>2 DEF Results
    <3>4. ~Approves(w)'
      BY <1>1, <2>2, <2>5, <3>3 DEF Approves
    <3> QED
      BY <3>1, <3>4
  <2> QED
    BY <2>3, <2>4, <2>5
<1>6. ASSUME NEW status, NEW sso, PublishStatus(status, sso), wpc \in {"poll", "asked"}
      PROVE  conf' = owner \/ (conf' = conf /\ (auth' => auth) /\ (Approves(w)' => Approves(w)))
  <2>1. CASE w.stop
    BY <1>2, <1>6, <2>1 DEF PublishStatus
  <2>2. CASE ~w.stop /\ status = "approved"
    BY <1>6, <2>2 DEF PublishStatus
  <2>3. CASE ~w.stop /\ status # "approved"
    <3>1. conf' = conf /\ (auth' => auth) /\ w' = [w EXCEPT !.status = status, !.done = TRUE]
      BY <1>6, <2>3 DEF PublishStatus
    <3>2. w'.status = status
      BY <1>1, <3>1 DEF Results
    <3>3. mode # "otp"
      BY <1>6 DEF KindInv
    <3>4. ~Approves(w)'
      BY <1>1, <2>3, <3>2, <3>3 DEF Approves
    <3> QED
      BY <3>1, <3>4
  <2> QED
    BY <2>1, <2>2, <2>3
<1>7. CASE PollAgain
  BY <1>2, <1>6, <1>7 DEF PollAgain
<1>8. CASE PollAnswered
  BY <1>2, <1>6, <1>8 DEF PollAnswered
<1> QED
  BY <1>3, <1>4, <1>5, <1>7, <1>8 DEF WorkerStep

\* Every place where a call takes the factor for confirmed keeps its confirmation.
LEMMA GrantKept ==
  ASSUME Inv, CallInv, KindInv, GrantInv, ~ScenarioWhileBusy, [Next]_vars
  PROVE  GrantInv'
<1>1. ~Fresh.done /\ Done.op = "none"
  BY NextOp DEF Fresh
<1>2. ASSUME auth' => auth, conf' = conf, w' = Fresh, upc' \notin {"apply", "join"}
      PROVE  GrantInv'
  BY <1>1, <1>2 DEF GrantInv, Approves
<1>3. CASE Next /\ ~Tile(CallStep) /\ ~Tile(WorkerStep)
  <2>1. upc = "idle" /\ upc' # "apply" /\ ~Resetting
    BY <1>3, FirstSteps DEF Resetting
  <2>2. CASE tile # "alive" /\ NewTile /\ UNCHANGED callVars
    <3>1. w' = Fresh /\ auth' = FALSE /\ upc' = "idle"
      BY <2>1, <2>2 DEF NewTile, callVars
    <3> QED
      BY <1>1, <3>1 DEF GrantInv, Approves
  <2>3. CASE UNCHANGED workVars
    <3>1. mode' = mode \/ ~w.done
      BY <1>3, FirstGrants DEF KindInv
    <3>2. Approves(w)' => Approves(w)
      BY <2>3, <3>1 DEF workVars, Approves
    <3>3. CASE UNCHANGED <<auth, conf>>
      <4>1. auth' => conf' # Nobody
        BY <3>3 DEF GrantInv
      <4>2. Approves(w)' => conf' # Nobody
        BY <2>1, <3>2, <3>3 DEF GrantInv
      <4>3. upc' = "join" => conf' # Nobody
        BY <1>3, <2>1, <3>3, FirstSteps DEF GrantInv
      <4> QED
        BY <2>1, <4>1, <4>2, <4>3 DEF GrantInv
    <3>4. CASE ~auth' /\ upc' = "stop" /\ cont'.op = "store"
      BY <3>4 DEF GrantInv, Resetting
    <3>5. CASE ~auth' /\ NewTile
      <4>1. w' = Fresh
        BY <3>5 DEF NewTile
      <4>2. upc' # "join"
        BY <1>3, <2>1, <3>5, FirstSteps DEF NewTile, GrantInv
      <4> QED
        BY <1>1, <2>1, <3>5, <4>1, <4>2 DEF GrantInv, Approves
    <3> QED
      BY <1>3, <3>3, <3>4, <3>5, FirstGrants
  <2> QED
    BY <1>3, <2>2, <2>3, QuietCalls
<1>4. CASE Tile(CallStep)
  <2>1. CASE StopPollThread
    <3>1. /\ UNCHANGED <<auth, conf, mode, cont>> /\ upc' = "join" /\ cont.op \in {"store", "switch", "destroy"}
          /\ upc = "stop" /\ w' = [w EXCEPT !.stop = TRUE]
      BY <2>1 DEF StopPollThread, CallInv
    <3>2. w'.done = w.done /\ w'.beginOk = w.beginOk /\ w'.status = w.status
      BY <3>1 DEF Inv, TypeInv, Results
    <3>3. Approves(w)' => Approves(w)
      BY <3>1, <3>2 DEF Approves
    <3>4. Resetting => Resetting'
      BY <3>1 DEF Resetting
    <3> QED
      BY <3>1, <3>3, <3>4 DEF GrantInv
  <2>2. CASE SwitchToMode \/ StoreAfterReset \/ Destroy
    BY <1>2, <2>2 DEF SwitchToMode, StoreAfterReset, Destroy, Return, StartWorkerJob, JoinPollThread
  <2>3. CASE FinishSerialization
    <3>1. conf' = conf /\ w' = Fresh /\ upc' = "idle" /\ (auth' => auth \/ cont.op = "approve") /\ upc = "join"
      BY <2>3 DEF FinishSerialization, Return, JoinPollThread
    <3> QED
      BY <1>1, <3>1 DEF GrantInv, Approves
  <2>4. CASE SubmitMode
    <3>1. UNCHANGED <<auth, conf, mode>> /\ upc = "mode" /\ upc' \in {"idle", "recheck", "apply"} /\ ~Resetting
      BY <2>4 DEF SubmitMode, Resetting
    <3>2. CASE StartWorkerJob(JobOf(mode), name, pass) /\ upc' # "apply"
      BY <1>2, <3>1, <3>2 DEF StartWorkerJob
    <3>3. CASE UNCHANGED workVars /\ (upc' = "apply" => snap' = w)
      <4>1. /\ Approves(w)' => Approves(w)
            /\ upc' = "apply" /\ Approves(snap)' => Approves(w)
        BY <3>1, <3>3 DEF workVars, Approves
      <4> QED
        BY <3>1, <4>1 DEF GrantInv
    <3> QED
      BY <2>4, <3>2, <3>3 DEF SubmitMode
  <2>5. CASE ApplyResult
    <3>1. UNCHANGED <<auth, conf, mode, w>> /\ upc = "apply" /\ upc' # "apply" /\ ~Resetting
      BY <2>5 DEF ApplyResult, Return, workVars, Resetting
    <3>2. Approves(w)' => Approves(w)
      BY <3>1 DEF Approves
    <3>3. upc' = "join" => cont'.op = Verdict
      BY <2>5, NextOp DEF ApplyResult, Return
    <3>4. Verdict = "approve" => conf # Nobody
      <4>1. Verdict = "approve" => Approves(snap) \/ auth
        BY DEF Verdict, Approves
      <4> QED
        BY <3>1, <4>1 DEF GrantInv
    <3>5. Verdict # "pack"
      BY DEF Verdict
    <3> QED
      BY <3>1, <3>2, <3>3, <3>4, <3>5 DEF GrantInv
  <2>6. CASE SubmitAgain
    <3>1. UNCHANGED <<auth, conf, mode, w>> /\ upc' = "idle" /\ ~Resetting
      BY <2>6 DEF SubmitAgain, Return, workVars, Resetting
    <3>2. Approves(w)' => Approves(w)
      BY <3>1 DEF Approves
    <3> QED
      BY <3>1, <3>2 DEF GrantInv
  <2> QED
    BY <1>4, <2>1, <2>2, <2>3, <2>4, <2>5, <2>6 DEF Tile, CallStep
<1>5. CASE Tile(WorkerStep)
  <2>1. /\ WorkerStep /\ UNCHANGED <<mode, upc, cont, snap>> /\ owner # Nobody
    BY <1>5, WorkerWrites DEF Tile, Inv, ThreadInv
  <2>2. CASE conf' = owner
    BY <2>1, <2>2 DEF GrantInv
  <2>3. CASE conf' = conf /\ (auth' => auth) /\ (Approves(w)' => Approves(w))
    <3>1. Approves(snap)' => Approves(snap)
      BY <2>1 DEF Approves
    <3>2. Resetting => Resetting'
      BY <2>1 DEF Resetting
    <3> QED
      BY <2>1, <2>3, <3>1, <3>2 DEF GrantInv
  <2> QED
    BY <2>1, <2>2, <2>3, WorkerGrants
<1>6. CASE UNCHANGED vars
  BY <1>6 DEF vars, tileVars, callVars, workVars, GrantInv, Approves, Resetting
<1> QED
  BY <1>3, <1>4, <1>5, <1>6

\* A logon handed out as confirmed was confirmed by a server, whichever thread set
\* m_authenticated, whatever the call had read of the worker's result before, and
\* however often the job was stopped, switched and started again; as long as LogonUI
\* sets no scenario while a worker runs.
THEOREM ConfirmedTheorem ==
  ASSUME ~ScenarioWhileBusy PROVE Spec => []ConfirmedByServer
<1> DEFINE All == /\ Inv /\ TaskShape /\ SecretInv /\ CallInv /\ KindInv /\ GrantInv
                  /\ ConfirmedByServer
<1>1. Init => All
  <2> SUFFICES ASSUME Init PROVE CallInv /\ KindInv /\ GrantInv /\ ConfirmedByServer
    BY InitInv, InitSecret
  <2>1. /\ upc = "idle" /\ cont.op = "none" /\ snap = Fresh /\ ~w.done /\ ~auth
        /\ wpc = "none" /\ out.cause = "none"
    <3>1. ~Fresh.done
      BY DEF Fresh
    <3> QED
      BY <3>1, NextOp, NothingOut DEF Init, TileInit
  <2> QED
    BY <2>1 DEF CallInv, KindInv, GrantInv, Approves, ConfirmedByServer
<1>2. All /\ [Next]_vars => All'
  <2> SUFFICES ASSUME All, [Next]_vars PROVE ConfirmedByServer'
    BY NextInv, SecretKept, CallKept, KindKept, GrantKept
  <2>1. CASE out' \in {out, NoLogon}
    BY <2>1, NothingOut DEF ConfirmedByServer
  <2>2. CASE PackAndFinish("bypass") \/ PackAndFinish("failopen")
    BY <2>1, <2>2 DEF PackAndFinish, ConfirmedByServer
  <2>3. CASE PackAndFinish("confirmed") /\ conf # Nobody
    BY <2>1, <2>3 DEF PackAndFinish, ConfirmedByServer
  <2> QED
    BY <2>1, <2>2, <2>3, HandedOut DEF GrantInv
<1>3. All => ConfirmedByServer
  OBVIOUS
<1> HIDE DEF All
<1> QED
  BY <1>1, <1>2, <1>3, PTL DEF Spec
===============================================================================
