--------------------------- MODULE CredentialConfig ---------------------------
(***************************************************************************)
(* The settings of the credential provider and what is decided from them:  *)
(* common.h (Config), LigamentProvider.cpp (when two-factor logon          *)
(* applies), LigamentCredential.cpp (names, domains, factors).  All of it  *)
(* is without state; CredentialTile and LigamentProvider call it.          *)
(*                                                                         *)
(* A registry is a record of two keys, the policy and the local one, each  *)
(* a function from the names of the values present to what is stored.  A   *)
(* URL is known by its scheme; a value of the wrong type or a blank string *)
(* counts as absent, which is how LoadFromRegistry treats them.            *)
(***************************************************************************)
EXTENDS Integers

\* The names of the registry values.
ValueNames == {"ServerURL", "AllowHttp", "FallbackRelayURL", "RDP2FAEnabled", "Console2FAEnabled",
               "Elevation2FAEnabled", "FIDO2Enabled", "DefaultFactor", "FailClose", "BypassAccounts"}

\* What applies where neither key has a value.
Defaults == [ServerURL |-> "none", AllowHttp |-> FALSE, FallbackRelayURL |-> "none",
             RDP2FAEnabled |-> FALSE, Console2FAEnabled |-> FALSE,
             Elevation2FAEnabled |-> FALSE, FIDO2Enabled |-> TRUE, DefaultFactor |-> 0,
             FailClose |-> TRUE, BypassAccounts |-> {}]

\* readString, readDword, readInt: the policy before the local setting.
ReadValue(reg, v) ==
  IF v \in DOMAIN reg.policy THEN reg.policy[v]
  ELSE IF v \in DOMAIN reg.local THEN reg.local[v] ELSE Defaults[v]

\* Only https may carry the password, or http where it is allowed.
SchemeAccepted(url, allowHttp) == url = "https" \/ (url = "http" /\ allowHttp)

\* Config::LoadFromRegistry.  A URL that is not accepted counts as none.
LoadFromRegistry(reg) ==
  LET url == ReadValue(reg, "ServerURL")
      ok  == SchemeAccepted(url, ReadValue(reg, "AllowHttp"))
  IN  [v \in ValueNames |-> IF v = "ServerURL" THEN IF ok THEN url ELSE "none" ELSE ReadValue(reg, v)]

Configured(cfg) == cfg.ServerURL # "none"

-----------------------------------------------------------------------------
(* Names.  A name is what was typed: [form, user, domain], with form       *)
(* "plain" (user), "down" (DOMAIN\user) or "upn" (user@domain).            *)

NoName == [form |-> "plain", user |-> "", domain |-> ""]

\* What SetStringValue keeps of a name: m_domain and m_username.
SplitDomain(n) == IF n.form = "plain" THEN "" ELSE n.domain
SplitUser(n)   == n.user

\* The name SetStringValue compares with: m_domain\m_username or m_username.
StoredName(n) ==
  [form |-> IF SplitDomain(n) = "" THEN "plain" ELSE "down",
   user |-> SplitUser(n), domain |-> SplitDomain(n)]

\* Config::IsBypassAccount as GetSerialization calls it: the user comes
\* without its domain.
IsBypassAccount(cfg, user, domain) ==
  \E acc \in cfg.BypassAccounts :
    \/ acc.form = "plain" /\ acc.user = user
    \/ acc.form # "plain" /\ domain # "" /\ acc.user = user /\ acc.domain = domain

\* The domain KerbInteractiveLogonPack logs on to; machine is [joined, domain, sam].
EffectiveDomain(domain, user, machine) ==
  IF domain \in {".", "\\"} THEN "this-pc"
  ELSE IF domain # "" THEN domain
  ELSE IF machine.joined /\ user \notin machine.sam THEN machine.domain ELSE "this-pc"

-----------------------------------------------------------------------------
(* Scenarios: "logon", "unlock", "credui" (and others, where nothing       *)
(* applies); prompt: what asks in CREDUI, [generic, admins, uacHost].      *)

\* IsUacElevationCredUI.
IsUacElevationCredUI(prompt) == ~prompt.generic /\ (prompt.admins \/ prompt.uacHost)

\* m_shouldEnforce2FA as SetUsageScenario computes it.
ShouldEnforce2FA(cfg, cpus, remote, prompt) ==
  /\ Configured(cfg)
  /\ \/ cpus = "credui" /\ cfg.Elevation2FAEnabled /\ IsUacElevationCredUI(prompt)
     \/ cpus \in {"logon", "unlock"} /\ remote /\ cfg.RDP2FAEnabled
     \/ cpus \in {"logon", "unlock"} /\ ~remote /\ cfg.Console2FAEnabled

\* The same decision as Filter takes it, before it hides the password tile.
FilterEnforces(cfg, cpus, remote, prompt) ==
  CASE cpus \in {"logon", "unlock"} ->
         Configured(cfg) /\ ((remote /\ cfg.RDP2FAEnabled) \/ (~remote /\ cfg.Console2FAEnabled))
    [] cpus = "credui" ->
         ~prompt.generic /\ Configured(cfg) /\ cfg.Elevation2FAEnabled /\ IsUacElevationCredUI(prompt)
    [] OTHER -> FALSE

\* A passkey needs a QR code, which the secure desktop of CREDUI cannot use.
Fido2Allowed(cfg, cpus) == cfg.FIDO2Enabled /\ cpus # "credui"

\* The factor a tile starts with (Initialize): 1 passkey, 2 code, else push.
DefaultMode(cfg, cpus) ==
  IF cfg.DefaultFactor = 1 /\ Fido2Allowed(cfg, cpus) THEN "fido2"
  ELSE IF cfg.DefaultFactor = 2 THEN "otp" ELSE "push"
=============================================================================
