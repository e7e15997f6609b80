--------------------------- MODULE LigamentProvider ---------------------------
(***************************************************************************)
(* The credential provider in LogonUI: LigamentProvider.cpp with its one   *)
(* tile (CredentialTile), the class factory and the count that keeps the   *)
(* DLL loaded (ClassFactory.cpp, dllmain.cpp), and the registry.           *)
(*                                                                         *)
(* LogonUI makes one call at a time; what it may do between calls is the   *)
(* environment of this module.                                             *)
(***************************************************************************)
EXTENDS CredentialTile

CONSTANTS
  Registries,         \* what an administrator may have set when it is read
  Scenarios,          \* the scenarios LogonUI may set
  Prompts,            \* what may ask for credentials in CREDUI
  ScenarioWhileBusy   \* TRUE: LogonUI may set a scenario while a worker runs

VARIABLES
  prov,      \* TRUE: LogonUI holds a provider
  scenario,  \* m_scenario
  enforce,   \* m_shouldEnforce2FA
  hidden,    \* TRUE: the filter hid the password tile
  pevents,   \* m_pEvents: TRUE if LogonUI advised the provider
  uiRef,     \* TRUE: LogonUI holds a reference to the tile
  dllRefs    \* g_cRefDll

provVars == <<prov, scenario, enforce, hidden, pevents, uiRef, dllRefs>>
vars     == <<tileVars, provVars>>

Init ==
  /\ TileInit
  /\ prov = FALSE /\ scenario = "invalid" /\ enforce = FALSE /\ hidden = FALSE
  /\ pevents = FALSE /\ uiRef = FALSE /\ dllRefs = 0

\* LogonUI is between two calls.
Free == upc = "idle"

\* DllGetClassObject, ClassFactory::CreateInstance and the constructor of the
\* provider; the factory is gone when the call returns.  One tile at a time.
CreateInstance ==
  /\ Free /\ ~prov /\ tile # "alive"
  /\ prov' = TRUE /\ dllRefs' = dllRefs + 1
  /\ scenario' = "invalid" /\ enforce' = FALSE /\ pevents' = FALSE
  /\ UNCHANGED <<tileVars, hidden, uiRef>>

\* Initialize: the fields it assigns.
Initialize(c, isRemote, newcfg) ==
  /\ cfg' = newcfg /\ remote' = isRemote /\ cpus' = c /\ mode' = DefaultMode(newcfg, c)

\* The constructor of the tile.
NewTile ==
  /\ tile' = "alive" /\ name' = NoName /\ pass' = NoPass /\ otp' = FALSE
  /\ auth' = FALSE /\ conf' = Nobody /\ number' = FALSE /\ qr' = FALSE /\ applied' = FALSE
  /\ job' = NoJob /\ w' = Fresh /\ task' = NoTask /\ polls' = 0 /\ ticket' = FALSE
  /\ owner' = Nobody /\ reached' = FALSE /\ dirty' = FALSE /\ out' = NoLogon
  /\ UNCHANGED <<handle, wpc>>

\* A new tile, or one of another scenario, is set up.
NeedsInitialize(c) == scenario # c \/ tile # "alive"

\* Filter, then SetUsageScenario: LogonUI asks both when it lists the tiles, and
\* both read the registry.
SetUsageScenario(reg, c, isRemote, p) ==
  /\ Free /\ prov /\ (ScenarioWhileBusy \/ ~handle)
  /\ LET newcfg == LoadFromRegistry(reg)
         on     == ShouldEnforce2FA(newcfg, c, isRemote, p)
     IN  /\ scenario' = c /\ enforce' = on /\ hidden' = FilterEnforces(newcfg, c, isRemote, p)
         /\ IF on /\ tile # "alive"
            THEN NewTile /\ dllRefs' = dllRefs + 1
            ELSE UNCHANGED <<tile, typedVars, auth, conf, shownVars, workVars, dirty, out, dllRefs>>
         /\ IF on /\ NeedsInitialize(c) THEN Initialize(c, isRemote, newcfg)
            ELSE UNCHANGED <<cfg, remote, cpus, mode>>
         /\ events' = IF on /\ pevents THEN events \cup {"provider"} ELSE events
  /\ UNCHANGED <<callVars, prov, pevents, uiRef>>

\* Advise and UnAdvise of the provider, handed on to the tile.
AdviseProvider(on) ==
  /\ Free /\ prov /\ pevents # on /\ pevents' = on
  /\ events' = IF tile # "alive" THEN events
               ELSE IF on THEN events \cup {"provider"} ELSE events \ {"provider"}
  /\ UNCHANGED <<setupVars, mode, typedVars, auth, conf, shownVars, callVars, workVars, dirty, out,
                 prov, scenario, enforce, hidden, uiRef, dllRefs>>

\* GetCredentialCount and GetCredentialAt show the tile where it is enforced;
\* LogonUI advises it.
GetCredentialAt ==
  /\ Idle /\ prov /\ enforce /\ ~uiRef /\ uiRef' = TRUE /\ events' = events \cup {"field"}
  /\ UNCHANGED <<setupVars, mode, typedVars, auth, conf, shownVars, callVars, workVars, dirty, out,
                 prov, scenario, enforce, hidden, pevents, dllRefs>>

\* LogonUI lets go of the tile (UnAdvise, Release) or of the provider; the last one
\* destroys the tile.
ReleaseTile ==
  /\ Idle /\ uiRef /\ uiRef' = FALSE /\ events' = events \ {"field"}
  /\ IF prov THEN UNCHANGED <<upc, cont>> ELSE ReleaseLast
  /\ UNCHANGED <<setupVars, mode, typedVars, auth, conf, shownVars, snap, workVars, dirty, out,
                 prov, scenario, enforce, hidden, pevents, dllRefs>>

ReleaseProvider ==
  /\ Free /\ prov /\ prov' = FALSE /\ dllRefs' = dllRefs - 1 /\ pevents' = FALSE
  /\ IF tile = "alive" /\ ~uiRef THEN ReleaseLast ELSE UNCHANGED <<upc, cont>>
  /\ UNCHANGED <<setupVars, mode, typedVars, auth, conf, shownVars, snap, workVars, events, dirty, out,
                 scenario, enforce, hidden, uiRef>>

\* A call of LogonUI on a tile it shows; while Windows works on a logon nothing is
\* typed or clicked.
Shown == uiRef /\ prov /\ enforce

UserCall ==
  /\ Shown
  /\ \/ /\ out = NoLogon
        /\ \/ \E n \in Names : SetUserName(n)
           \/ \E p \in Passwords : SetPassword(p)
           \/ \E b \in BOOLEAN : b # otp /\ mode = "otp" /\ SetOtpCode(b)
           \/ SetDeselected
           \/ \E link \in {"first", "second"} : CommandLinkClicked(link)
           \/ GetSerialization
     \/ ReportResult \/ HostTakesLogon

Reacts == Shown /\ LogonUIReacts

\* The count follows the destructor of the tile; the provider is not involved.
Tile(A) ==
  /\ A /\ dllRefs' = IF tile = "alive" /\ tile' = "gone" THEN dllRefs - 1 ELSE dllRefs
  /\ UNCHANGED <<prov, scenario, enforce, hidden, pevents, uiRef>>

Next ==
  \/ CreateInstance
  \/ \E reg \in Registries, c \in Scenarios, isRemote \in BOOLEAN, p \in Prompts :
       SetUsageScenario(reg, c, isRemote, p)
  \/ \E on \in BOOLEAN : AdviseProvider(on)
  \/ GetCredentialAt \/ ReleaseTile \/ ReleaseProvider
  \/ Tile(UserCall) \/ Tile(Reacts) \/ Tile(CallStep) \/ Tile(WorkerStep)

Spec == Init /\ [][Next]_vars

\* A call goes on where it can, and so does a thread: requests have timeouts.
Fairness == WF_vars(Tile(CallStep)) /\ WF_vars(Tile(WorkerStep))

FairSpec == Spec /\ Fairness

-----------------------------------------------------------------------------
(* Properties.                                                             *)

\* A logon that is handed out as confirmed was confirmed by a server for a job
\* of this tile, whichever thread set m_authenticated and however far the other
\* one was.
ConfirmedByServer == out.cause = "confirmed" => out.by # Nobody

\* A logon is handed out without a second factor only where the policy says so and no
\* server answered the request for one: an answer, even of the relay, is never overruled,
\* unless its own error text is "network_error", which the tile cannot tell from none
\* (HttpApiClient.cpp:447,534,551).
FailOpenOnlyUnreached == out.cause = "failopen" => ~out.failClose /\ ~out.reached

\* Once the tile is destroyed, and so when the DLL may be unloaded, no worker is
\* left that runs its code.
QuietWhenReleased == (tile # "alive" \/ dllRefs = 0) => wpc \in {"none", "exited"}

\* Between calls no copy of a password is left but the tile's own and that of a
\* worker that needs it; a destroyed tile has none.
SecretsWiped ==
  /\ upc = "idle" /\ ~handle => job.pass = NoPass /\ task.pass = NoPass
  /\ wpc \in {"told", "poll", "asked", "report", "ticket", "exited"} => task.pass = NoPass
  /\ tile = "gone" => pass = NoPass

\* The filter hides the password tile exactly where this provider shows one of its
\* own, as long as both read the same settings: nobody is locked out.
FilterAgrees == prov /\ scenario # "invalid" => hidden = enforce

\* The thread is at most one job at a time, which can grant nothing once stopped.
SlotPhase ==
  IF wpc = "none" THEN "idle" ELSE IF wpc = "exited" THEN "ended"
  ELSE IF w.stop THEN "cancelled" ELSE "running"

Slot == INSTANCE WorkerSlot WITH
  Holders <- [user : {SplitUser(n) : n \in Names}, pass : Passwords],
  phase   <- SlotPhase,
  holder  <- owner,
  grant   <- conf

SlotSpec == Slot!Spec

\* A call of LogonUI returns: the join waits for a thread that ends.
JoinReturns == upc # "idle" ~> upc = "idle"

\* A confirmation does not survive a change of the name or the password: the logon
\* handed out is that of the user it was confirmed for.
ConfirmationIsFresh ==
  out.cause = "confirmed" => out.by = [user |-> out.user, pass |-> out.pass]
=============================================================================
