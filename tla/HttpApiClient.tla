---------------------------- MODULE HttpApiClient ----------------------------
(***************************************************************************)
(* The requests of the credential provider (HttpApiClient.cpp,             *)
(* rdp_gate.cpp): what a caller is told for what the server, the relay and *)
(* the RDP endpoint service did.                                           *)
(*                                                                         *)
(* A server "says" one of Answers: it may be unreachable (nothing came     *)
(* back: DNS, TLS, timeout), fail (5xx), refuse (any other answer that is  *)
(* not the wanted one, a 200 without the expected field included) or do as *)
(* asked.  The texts of requests and errors are left out; of an error only *)
(* "network_error" is told apart, which the client sets where nothing came *)
(* back, and which an answer may have for its own error text as well.      *)
(***************************************************************************)
EXTENDS CredentialConfig

Answers == {"unreachable", "failing", "refused", "done"}

\* The error text of an answer, as far as it is told apart.
Texts == {"server", "network_error"}

\* ParseUrl and ParseRelayUrl: a host to ask, or none; the relay takes https only.
CoreHost(cfg)  == SchemeAccepted(cfg.ServerURL, cfg.AllowHttp)
RelayHost(cfg) == cfg.FallbackRelayURL = "https"

\* SendRequest and SendRelayRequest: without a host nothing is sent.
SendRequest(cfg, says)      == IF CoreHost(cfg) THEN says ELSE "unreachable"
SendRelayRequest(cfg, says) == IF RelayHost(cfg) THEN says ELSE "unreachable"

Told(ok, err) == [ok |-> ok, err |-> err]

\* StartPush: "network_error" where nothing came back, else the text of the answer.
StartPush(cfg, core, text) ==
  LET a == SendRequest(cfg, core) IN
  IF a = "unreachable" THEN Told(FALSE, "network_error")
  ELSE IF a = "done" THEN Told(TRUE, "") ELSE Told(FALSE, text)

\* WebAuthnBegin: a 200 without a handle has no error text.
WebAuthnBegin(cfg, core, text) ==
  LET a == SendRequest(cfg, core) IN
  CASE a = "unreachable" -> {Told(FALSE, "network_error")}
    [] a = "done"        -> {Told(TRUE, "")}
    [] OTHER             -> {Told(FALSE, e) : e \in {"", text}}

\* Mutant: a relay that refuses leaves the verdict to the missing core.
VerifyIgnoringRelay(cfg, core, relay, text) ==
  LET a == SendRequest(cfg, core)
      b == SendRelayRequest(cfg, relay)
  IN  IF a = "done" \/ (a \in {"unreachable", "failing"} /\ b = "done") THEN Told(TRUE, "")
      ELSE IF a = "unreachable" THEN Told(FALSE, "network_error") ELSE Told(FALSE, text)

\* VerifyCombined: the relay is asked where the core did not answer or failed,
\* and an answer of the relay is final; text is that of the answer that decides.
VerifyCombined(cfg, core, relay, text) ==
  LET a == SendRequest(cfg, core)
      b == SendRelayRequest(cfg, relay)
  IN  IF a = "done" THEN Told(TRUE, "")
      ELSE IF a \in {"unreachable", "failing"} /\ b # "unreachable" THEN
             IF b = "done" THEN Told(TRUE, "") ELSE Told(FALSE, text)
      ELSE IF a = "unreachable" THEN Told(FALSE, "network_error") ELSE Told(FALSE, text)

\* Some HTTP answer came back during a request, and none that speaks of a network error.
Reached(cfg, core, relay, asksRelay, text) ==
  /\ \/ SendRequest(cfg, core) # "unreachable"
     \/ asksRelay /\ SendRelayRequest(cfg, relay) # "unreachable"
  /\ text # "network_error"

\* PollStatus: a status, or an error the caller only counts.
PollStatuses == {"approved", "denied", "expired", "pending", "error"}

-----------------------------------------------------------------------------
(* The RDP gate.  gate is what the machine can show: [key, window, nonce], *)
(* the agent key of the registry, the logon id and SID of this logon       *)
(* window, a nonce from the endpoint service for them.                     *)

LocalProof(gate) == gate.key /\ gate.window /\ gate.nonce

\* The request of the gate: only a 200 that says so satisfies it.
AssertionAccepted(cfg, core) == SchemeAccepted(cfg.ServerURL, cfg.AllowHttp) /\ core = "done"

\* CheckRdpMfaSatisfied: every step that fails leaves the usual factors.
CheckRdpMfaSatisfied(cfg, gate, core) ==
  Configured(cfg) /\ LocalProof(gate) /\ AssertionAccepted(cfg, core)
=============================================================================
