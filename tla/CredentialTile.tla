---------------------------- MODULE CredentialTile ----------------------------
(***************************************************************************)
(* The logon tile (LigamentCredential.cpp) and its worker thread.          *)
(*                                                                         *)
(* LogonUI calls the tile on one thread; every request to the server runs  *)
(* on a worker, of which there is at most one (m_hPollThread).  The two    *)
(* share the fields that m_csPoll protects, and m_authenticated, which is  *)
(* read without it.  A call of LogonUI is one step unless it stops or      *)
(* joins the worker or reads its result: there the worker may step in      *)
(* between, and upc says where the call is and cont what it still has to   *)
(* do.  Each turn of the worker ends where it takes the lock.              *)
(*                                                                         *)
(* Of a user, password and code only what is compared is kept; the texts   *)
(* of the tile are left out.                                               *)
(***************************************************************************)
EXTENDS HttpApiClient

CONSTANTS
  Names,            \* what may be typed as a user name
  Passwords,        \* what may be typed as a password
  Machine,          \* the machine: [joined, domain, sam], see EffectiveDomain
  MaxPolls,         \* pushTimeoutSec, one poll a second
  EventsMarshalled  \* TRUE: a call of the worker to LogonUI is served by LogonUI's thread

NoPass == ""
Fresh  == [stop |-> FALSE, beginDone |-> FALSE, beginOk |-> FALSE, err |-> "",
           number |-> FALSE, done |-> FALSE, status |-> ""]
NoJob  == [kind |-> "none", user |-> "", pass |-> NoPass]
NoTask == [kind |-> "none", user |-> "", pass |-> NoPass, cfg |-> Defaults]
Nobody == [user |-> "", pass |-> NoPass]
NoLogon == [cause |-> "none", user |-> "", pass |-> NoPass, domain |-> "", by |-> Nobody,
            failClose |-> TRUE, reached |-> FALSE]

VARIABLES
  tile,      \* "none", "alive" or "gone" (m_pCredential)
  cfg,       \* m_config
  cpus,      \* m_cpus
  remote,    \* m_isRemoteSession
  mode,      \* m_currentMode: "push", "otp" or "fido2"
  name,      \* m_usernameRaw; m_username and m_domain follow from it
  pass,      \* m_password
  otp,       \* m_otpCode: TRUE if there is one
  auth,      \* m_authenticated
  number,    \* m_numberMatch: TRUE if there is one
  qr,        \* m_hQrBmp: TRUE if there is one
  applied,   \* m_beginApplied
  job,       \* m_job, m_jobUser, m_jobPass
  w,         \* m_worker
  upc,       \* LogonUI's thread: "idle", "stop", "join", "mode", "apply", "recheck"
  cont,      \* what the call does after the join: [op, name, pass, mode]
  snap,      \* the copy of m_worker GetSerialization works on
  handle,    \* m_hPollThread: TRUE if there is one
  wpc,       \* the worker: "none", "start", "gate", "begin", "told",
             \* "poll", "asked", "report", "ticket", "exited"
  task,      \* the worker's copy of the job and of the settings
  polls,     \* polls made
  ticket,    \* TRUE: the approval came with an SSO ticket
  events,    \* who can be called back: subset of {"field", "provider"}
  dirty,     \* CredentialsChanged is on its way to LogonUI
  owner,     \* history: for whom the job was started
  conf,      \* history: for whom auth was set, Nobody after it was cleared
  reached,   \* history: the request for the factor in this job was answered, see Reached
  out        \* history: the last logon handed out, NoLogon after its result

setupVars == <<tile, cfg, cpus, remote>>
typedVars == <<name, pass, otp>>
shownVars == <<number, qr, applied>>
callVars  == <<upc, cont, snap>>
workVars  == <<job, w, handle, wpc, task, polls, ticket, owner, reached>>
tileVars  == <<setupVars, mode, typedVars, auth, conf, shownVars, callVars, workVars,
               events, dirty, out>>

Then(op) == [op |-> op, name |-> name, pass |-> pass, mode |-> mode]
Done     == [op |-> "none", name |-> NoName, pass |-> NoPass, mode |-> "push"]

\* A call of LogonUI returns.
Return == upc' = "idle" /\ cont' = Done /\ snap' = Fresh

\* The constructor; nothing is typed, nothing runs.
TileInit ==
  /\ tile = "none" /\ cfg = Defaults /\ cpus = "logon" /\ remote = FALSE /\ mode = "push"
  /\ name = NoName /\ pass = NoPass /\ otp = FALSE
  /\ auth = FALSE /\ conf = Nobody
  /\ number = FALSE /\ qr = FALSE /\ applied = FALSE
  /\ upc = "idle" /\ cont = Done /\ snap = Fresh
  /\ job = NoJob /\ w = Fresh /\ handle = FALSE /\ wpc = "none" /\ task = NoTask /\ polls = 0 /\ ticket = FALSE
  /\ owner = Nobody /\ reached = FALSE
  /\ events = {} /\ dirty = FALSE /\ out = NoLogon

\* LogonUI calls a tile between calls.
Idle == tile = "alive" /\ upc = "idle"

HasCredentials == SplitUser(name) # "" /\ pass # NoPass
Bypassed == IsBypassAccount(cfg, SplitUser(name), SplitDomain(name))

-----------------------------------------------------------------------------
(* Starting and ending the worker.                                         *)

\* Mutant: a job whose thread was not created keeps its password.
StartKeepingSecret(kind, n, p) ==
  LET for == [user |-> SplitUser(n), pass |-> p] IN
  /\ w' = Fresh /\ applied' = FALSE /\ reached' = FALSE
  /\ job' = [kind |-> kind, user |-> for.user, pass |-> for.pass]
  /\ \/ handle' = TRUE /\ wpc' = "start" /\ owner' = for
     \/ handle' = FALSE /\ wpc' = "none" /\ owner' = Nobody
  /\ task' = NoTask /\ polls' = 0 /\ ticket' = FALSE

\* StartWorkerJob, where no worker is left.  CreateThread may fail.
StartWorkerJob(kind, n, p) ==
  LET for == [user |-> SplitUser(n), pass |-> p] IN
  /\ w' = Fresh /\ applied' = FALSE /\ reached' = FALSE
  /\ \/ /\ job' = [kind |-> kind, user |-> for.user, pass |-> for.pass]
        /\ handle' = TRUE /\ wpc' = "start" /\ owner' = for
     \/ /\ job' = NoJob /\ handle' = FALSE /\ wpc' = "none" /\ owner' = Nobody
  /\ task' = NoTask /\ polls' = 0 /\ ticket' = FALSE

\* The thread has ended, or there is none.
Joinable == handle => wpc = "exited"

\* Mutant: the wait of the join is bounded.
JoinWithTimeout ==
  /\ handle' = FALSE /\ wpc' = IF wpc = "exited" THEN "none" ELSE wpc
  /\ job' = NoJob /\ w' = Fresh /\ UNCHANGED <<task, polls, ticket, owner, reached>>

\* JoinPollThread: wait for the end of the thread, then forget its job.
JoinPollThread ==
  /\ Joinable /\ handle' = FALSE /\ wpc' = "none" /\ job' = NoJob /\ w' = Fresh
  /\ task' = NoTask /\ polls' = 0 /\ ticket' = FALSE /\ owner' = Nobody /\ reached' = FALSE

\* StopPollThread up to the wait.
StopPollThread ==
  /\ upc = "stop" /\ upc' = "join"
  /\ w' = [w EXCEPT !.stop = TRUE]
  /\ UNCHANGED <<setupVars, mode, typedVars, auth, conf, shownVars, cont, snap,
                 job, handle, wpc, task, polls, ticket, owner, reached, events, dirty, out>>

\* NotifyQrChanged: the provider is told where the picture has changed.
NotifyQrChanged == dirty' = (dirty \/ (qr' # qr /\ "provider" \in events))

\* CreateQrBitmap gives a picture or none.
CreateQrBitmap == BOOLEAN

\* ResetAuthState up to StopPollThread.
ResetAuthState(next) ==
  /\ auth' = FALSE /\ conf' = Nobody
  /\ number' = FALSE /\ applied' = FALSE /\ qr' = FALSE /\ otp' = FALSE /\ NotifyQrChanged
  /\ upc' = "stop" /\ cont' = next

-----------------------------------------------------------------------------
(* What the user types and clicks.                                         *)

\* SetStringValue of the name; the same name in another case is no change.
SetUserName(n) ==
  /\ Idle
  /\ IF n # StoredName(name)
     THEN ResetAuthState([Then("store") EXCEPT !.name = n]) /\ name' = name
     ELSE /\ name' = n
          /\ UNCHANGED <<auth, conf, number, applied, qr, otp, dirty, upc, cont>>
  /\ UNCHANGED <<setupVars, mode, pass, snap, workVars, events, out>>

SetPassword(p) ==
  /\ Idle /\ p # pass
  /\ ResetAuthState([Then("store") EXCEPT !.pass = p])
  /\ UNCHANGED <<setupVars, mode, name, pass, snap, workVars, events, out>>

SetOtpCode(b) ==
  /\ Idle /\ otp' = b
  /\ UNCHANGED <<setupVars, mode, name, pass, auth, conf, shownVars, callVars, workVars,
                 events, dirty, out>>

\* SetDeselected: only where nothing was started or confirmed.
SetDeselected ==
  /\ Idle /\ ~handle /\ ~auth
  /\ ResetAuthState(Then("store"))
  /\ UNCHANGED <<setupVars, mode, name, pass, snap, workVars, events, out>>

\* GetFieldState of the two links.
LinkShown(link, m) ==
  \/ link = "first" /\ (m = "push" => Fido2Allowed(cfg, cpus))
  \/ link = "second" /\ (m = "otp" => Fido2Allowed(cfg, cpus))
\* CommandLinkClicked: where the click leads.
LinkTarget(link) ==
  IF link = "first" THEN IF mode = "push" THEN "fido2" ELSE "push"
  ELSE IF mode \in {"push", "fido2"} THEN "otp" ELSE "fido2"

\* CommandLinkClicked and SwitchToMode up to StopPollThread.
CommandLinkClicked(link) ==
  /\ Idle /\ LinkShown(link, mode)
  /\ LinkTarget(link) = "fido2" => Fido2Allowed(cfg, cpus)
  /\ LinkTarget(link) # mode
  /\ upc' = "stop" /\ cont' = [Then("switch") EXCEPT !.mode = LinkTarget(link)]
  /\ UNCHANGED <<setupVars, mode, typedVars, auth, conf, shownVars, snap, workVars,
                 events, dirty, out>>

\* The rest of SwitchToMode.  A passkey is asked for at once.
SwitchToMode ==
  /\ upc = "join" /\ cont.op = "switch" /\ Joinable
  /\ mode' = cont.mode /\ number' = FALSE /\ qr' = FALSE /\ NotifyQrChanged
  /\ Return
  /\ IF cont.mode = "fido2" /\ HasCredentials /\ ~auth
     THEN StartWorkerJob("webauthn", name, pass)
     ELSE JoinPollThread /\ UNCHANGED applied
  /\ UNCHANGED <<setupVars, typedVars, auth, conf, events, out>>

\* The end of ResetAuthState, and the store that follows it.
StoreAfterReset ==
  /\ upc = "join" /\ cont.op = "store" /\ JoinPollThread
  /\ name' = cont.name /\ pass' = cont.pass /\ Return
  /\ UNCHANGED <<setupVars, mode, otp, auth, conf, shownVars, events, dirty, out>>

-----------------------------------------------------------------------------
(* Submitting.                                                             *)

\* The domain that goes into the logon: the one KerbInteractiveLogonPack works out,
\* or the name as it was typed.
KerbInteractiveLogonPack == EffectiveDomain(SplitDomain(name), SplitUser(name), Machine)
CredUiPackAuthentication == SplitDomain(name)

\* PackAndFinish: a logon is handed out, or packing fails and the tile stays.
PackAndFinish(cause) ==
  \/ out' = [cause |-> cause, user |-> SplitUser(name), pass |-> pass,
             domain |-> IF cpus = "credui" THEN CredUiPackAuthentication ELSE KerbInteractiveLogonPack,
             by |-> conf, failClose |-> cfg.FailClose, reached |-> reached]
  \/ out' = out

\* GetSerialization: bypass, a confirmed second factor, or the branch of the mode.
SubmitSteps ==
  \/ /\ Bypassed /\ PackAndFinish("bypass") /\ UNCHANGED <<upc, cont>>
  \/ /\ ~Bypassed /\ auth /\ upc' = "join" /\ cont' = Then("pack") /\ out' = out
  \/ /\ ~Bypassed /\ ~auth /\ upc' = "mode" /\ UNCHANGED <<cont, out>>

GetSerialization ==
  /\ Idle /\ HasCredentials /\ out = NoLogon /\ SubmitSteps
  /\ UNCHANGED <<setupVars, mode, typedVars, auth, conf, shownVars, snap, workVars, events, dirty>>

JobOf(m) == [push |-> "push", otp |-> "otp", fido2 |-> "webauthn"][m]

\* The branch of the mode: wait for a code, start the job, or copy its result.
SubmitMode ==
  /\ upc = "mode"
  /\ \/ /\ mode = "otp" /\ ~otp /\ upc' = "idle"
        /\ UNCHANGED <<snap, applied, workVars>>
     \/ /\ mode = "otp" => otp
        /\ ~handle /\ snap' = snap
        /\ upc' = IF mode = "fido2" THEN "recheck" ELSE "idle"
        /\ StartWorkerJob(JobOf(mode), name, pass)
     \/ /\ mode = "otp" => otp
        /\ handle /\ upc' = "apply" /\ snap' = w
        /\ UNCHANGED <<applied, workVars>>
  /\ UNCHANGED <<setupVars, mode, typedVars, auth, conf, number, qr, cont, events, dirty, out>>

\* After TriggerFIDO2Auth: a worker the gate let through may be that quick.
SubmitAgain ==
  /\ upc = "recheck" /\ Return
  /\ IF auth THEN PackAndFinish("confirmed") ELSE out' = out
  /\ UNCHANGED <<setupVars, mode, typedVars, auth, conf, shownVars, workVars, events, dirty>>

\* Fail-open: only where the policy allows it and the error is that of no answer.
FailsOpen == ~cfg.FailClose /\ snap.err = "network_error"

\* Mutant: a finished poll counts as an approval.
VerdictWhenDone ==
  CASE ~snap.done /\ ~(snap.beginDone /\ ~snap.beginOk) -> "wait"
    [] snap.beginDone /\ ~snap.beginOk -> IF FailsOpen /\ mode # "fido2" THEN "failopen" ELSE "message"
    [] OTHER -> "approve"

\* What the copied result means: the end of the branches of GetSerialization.
Verdict ==
  IF mode = "otp"
  THEN IF ~snap.done THEN "wait"
       ELSE IF snap.beginDone /\ snap.beginOk THEN "approve"
       ELSE IF FailsOpen THEN "failopen" ELSE "message"
  ELSE IF snap.beginDone /\ ~snap.beginOk
       THEN IF FailsOpen /\ mode = "push" THEN "failopen" ELSE "message"
       ELSE IF ~snap.done THEN "wait"
       ELSE IF snap.status = "approved" \/ auth THEN "approve" ELSE "message"

\* The first result is shown once: the number, or a QR code the worker has not drawn.
ApplyResult ==
  /\ upc = "apply"
  /\ LET begun == mode # "otp" /\ snap.beginDone /\ snap.beginOk /\ ~applied IN
     /\ applied' = (applied \/ begun)
     /\ number' = IF begun /\ mode = "push" THEN w.number ELSE number
     /\ qr' \in IF begun /\ mode = "fido2" /\ ~qr THEN CreateQrBitmap ELSE {qr}
  /\ NotifyQrChanged
  /\ IF Verdict = "wait" THEN Return
     ELSE upc' = "join" /\ cont' = Then(Verdict) /\ snap' = snap
  /\ UNCHANGED <<setupVars, mode, typedVars, auth, conf, workVars, events, out>>

\* The end of GetSerialization after the join.
FinishSerialization ==
  /\ upc = "join" /\ cont.op \in {"pack", "approve", "failopen", "message"}
  /\ JoinPollThread /\ Return
  /\ number' = (number /\ cont.op # "pack" /\ mode # "push")
  /\ qr' = (qr /\ cont.op # "pack" /\ mode # "fido2")
  /\ NotifyQrChanged
  /\ auth' = (auth \/ cont.op = "approve")
  /\ CASE cont.op = "message" -> out' = out
       [] cont.op = "failopen" -> PackAndFinish("failopen")
       [] OTHER -> PackAndFinish("confirmed")
  /\ UNCHANGED <<setupVars, mode, typedVars, conf, applied, events>>

\* ReportResult: Windows tells how the logon went; CREDUI does not.
ReportResult ==
  /\ Idle /\ out # NoLogon /\ cpus # "credui"
  /\ pass' = NoPass /\ out' = NoLogon
  /\ ResetAuthState([Then("store") EXCEPT !.pass = NoPass])
  /\ UNCHANGED <<setupVars, mode, name, snap, workVars, events>>

\* In CREDUI the host takes the blob and asks again (external).
HostTakesLogon ==
  /\ Idle /\ out # NoLogon /\ cpus = "credui" /\ out' = NoLogon
  /\ UNCHANGED <<setupVars, mode, typedVars, auth, conf, shownVars, callVars, workVars,
                 events, dirty>>

\* LogonUI answers CredentialsChanged by asking for the tiles again; with a
\* confirmed factor SetSelected and GetCredentialCount ask for the logon (external).
LogonUIReacts ==
  /\ Idle /\ dirty /\ dirty' = FALSE
  /\ IF auth /\ HasCredentials /\ out = NoLogon THEN SubmitSteps ELSE UNCHANGED <<upc, cont, out>>
  /\ UNCHANGED <<setupVars, mode, typedVars, auth, conf, shownVars, snap, workVars, events>>

\* Release of the last reference: ~LigamentCredential up to the wait, and the rest.
ReleaseLast ==
  /\ upc' = "stop" /\ cont' = Then("destroy")

Destroy ==
  /\ upc = "join" /\ cont.op = "destroy" /\ JoinPollThread
  /\ tile' = "gone" /\ Return
  /\ qr' = FALSE /\ dirty' = FALSE /\ events' = {} /\ pass' = NoPass /\ otp' = FALSE
  /\ UNCHANGED <<cfg, cpus, remote, mode, name, auth, conf, number, applied, out>>

-----------------------------------------------------------------------------
(* The worker: RunAsyncJob.                                                *)

workerFrame == <<setupVars, mode, typedVars, applied, callVars, handle, events, out, owner>>

\* Mutant: every call-back waits for LogonUI's thread.
NotifyWaits == events # {} => upc = "idle"

\* The end of a phase: NotifyFieldChanged and NotifyProviderChangedFromWorker.
\* A marshalled call waits for LogonUI's thread, which serves it between its calls.
CanNotify == EventsMarshalled /\ events # {} => upc = "idle"
Notify == CanNotify /\ dirty' = (dirty \/ "provider" \in events)

TakeJob ==
  /\ wpc = "start"
  /\ task' = [kind |-> job.kind, user |-> job.user, pass |-> job.pass, cfg |-> cfg]
  /\ job' = NoJob
  /\ wpc' = IF remote /\ cpus # "credui" THEN "gate" ELSE "begin"
  /\ UNCHANGED <<workerFrame, auth, conf, number, qr, w, polls, ticket, reached, dirty>>

\* Phase 0: a logon through the gateway needs no further factor.
CheckGate ==
  /\ wpc = "gate"
  /\ \E core \in {"unreachable", "refused", "done"}, shows \in BOOLEAN :
       LET gate == [key |-> shows, window |-> TRUE, nonce |-> shows] IN
       IF ~CheckRdpMfaSatisfied(task.cfg, gate, core)
       THEN wpc' = "begin" /\ UNCHANGED <<w, auth, conf, task, reached>>
       ELSE /\ task' = [task EXCEPT !.pass = NoPass] /\ reached' = TRUE
            /\ IF w.stop THEN wpc' = "exited" /\ UNCHANGED <<w, auth, conf>>
               ELSE /\ w' = [w EXCEPT !.beginDone = TRUE, !.beginOk = TRUE, !.done = TRUE]
                    /\ auth' = TRUE /\ conf' = owner /\ wpc' = "report"
  /\ UNCHANGED <<workerFrame, job, number, qr, polls, ticket, dirty>>

\* Mutant: the result of a stopped job is published.
PublishAnyway(r, isOtp) ==
  /\ w' = [w EXCEPT !.beginDone = TRUE, !.beginOk = r.ok, !.err = r.err, !.done = isOtp]
  /\ auth' = (auth \/ (isOtp /\ r.ok)) /\ conf' = IF isOtp /\ r.ok THEN owner ELSE conf
  /\ wpc' = "told" /\ UNCHANGED <<number, qr>>

\* The result of phase 1 goes out under the lock, unless the job was stopped.
PublishBegin(r, isOtp) ==
  IF w.stop THEN wpc' = "exited" /\ UNCHANGED <<w, auth, conf, number, qr>>
  ELSE /\ wpc' = "told"
       /\ \E n \in IF task.kind = "push" /\ r.ok THEN BOOLEAN ELSE {FALSE} :
            /\ w' = [w EXCEPT !.beginDone = TRUE, !.beginOk = r.ok, !.err = r.err,
                              !.number = n, !.done = isOtp]
            /\ number' = IF task.kind = "push" /\ r.ok THEN n ELSE number
       /\ auth' = (auth \/ (isOtp /\ r.ok)) /\ conf' = IF isOtp /\ r.ok THEN owner ELSE conf
       /\ IF task.kind = "webauthn"
          THEN qr' \in IF r.ok THEN CreateQrBitmap ELSE {FALSE}
          ELSE qr' = qr

\* Phase 1: StartPush, WebAuthnBegin or VerifyCombined; the password is wiped.
BeginJob ==
  /\ wpc = "begin"
  /\ \E core, relay \in Answers, text \in Texts :
       LET isOtp == task.kind = "otp" IN
       /\ reached' = (reached \/ Reached(task.cfg, core, relay, isOtp, text))
       /\ \E r \in CASE isOtp -> {VerifyCombined(task.cfg, core, relay, text)}
                      [] task.kind = "push" -> {StartPush(task.cfg, core, text)}
                      [] OTHER -> WebAuthnBegin(task.cfg, core, text) :
            PublishBegin(r, isOtp)
  /\ task' = [task EXCEPT !.pass = NoPass]
  /\ UNCHANGED <<workerFrame, job, polls, ticket, dirty>>

\* LogonUI is told; a code is checked in one phase, the others are polled for.
TellBegin ==
  /\ wpc = "told" /\ Notify
  /\ wpc' = IF w.beginOk /\ task.kind # "otp" THEN "poll" ELSE "exited"
  /\ polls' = 0
  /\ UNCHANGED <<workerFrame, auth, conf, number, qr, job, w, task, ticket, reached>>

\* A terminal status under the lock; the QR code and the number go away.
PublishStatus(status, sso) ==
  IF w.stop THEN wpc' = "exited" /\ UNCHANGED <<w, auth, conf, number, qr, ticket>>
  ELSE /\ w' = [w EXCEPT !.status = status, !.done = TRUE]
       /\ auth' = (auth \/ status = "approved")
       /\ conf' = IF status = "approved" THEN owner ELSE conf
       /\ qr' = FALSE /\ number' = FALSE /\ wpc' = "report" /\ ticket' = sso

\* Phase 2: the stop flag is looked at before each request; after pushTimeoutSec
\* requests the time is up.
PollAgain ==
  /\ wpc = "poll"
  /\ \/ /\ w.stop /\ wpc' = "exited" /\ UNCHANGED <<w, auth, conf, number, qr, ticket>>
     \/ /\ ~w.stop /\ polls < MaxPolls /\ wpc' = "asked"
        /\ UNCHANGED <<w, auth, conf, number, qr, ticket>>
     \/ /\ ~w.stop /\ polls >= MaxPolls /\ PublishStatus("timeout", FALSE)
  /\ UNCHANGED <<workerFrame, job, task, polls, reached, dirty>>

PollAnswered ==
  /\ wpc = "asked" /\ polls' = polls + 1
  /\ \E status \in PollStatuses :
       IF status \in {"approved", "denied", "expired"}
       THEN \E sso \in IF status = "approved" THEN BOOLEAN ELSE {FALSE} : PublishStatus(status, sso)
       ELSE /\ wpc' = IF w.stop THEN "exited" ELSE "poll"
            /\ UNCHANGED <<w, auth, conf, number, qr, ticket>>
  /\ UNCHANGED <<workerFrame, job, task, reached, dirty>>

\* LogonUI is told of the end; only then the ticket is written.
ReportStatus ==
  /\ wpc = "report" /\ Notify
  /\ wpc' = IF ticket THEN "ticket" ELSE "exited"
  /\ UNCHANGED <<workerFrame, auth, conf, number, qr, job, w, task, polls, ticket, reached>>

\* WriteSsoTicketFile: it writes a file beside the old one and renames it, or fails.
WriteTicket ==
  /\ wpc = "ticket" /\ wpc' = "exited" /\ ticket' = FALSE
  /\ UNCHANGED <<workerFrame, auth, conf, number, qr, job, w, task, polls, reached, dirty>>

WorkerStep ==
  \/ TakeJob \/ CheckGate \/ BeginJob \/ TellBegin \/ PollAgain \/ PollAnswered
  \/ ReportStatus \/ WriteTicket

\* The steps a call of LogonUI has left.
CallStep ==
  \/ StopPollThread \/ SwitchToMode \/ StoreAfterReset \/ SubmitMode \/ ApplyResult
  \/ FinishSerialization \/ SubmitAgain \/ Destroy
=============================================================================
