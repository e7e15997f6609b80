-------------------------- MODULE MCLigamentProvider --------------------------
(* Small instances of LigamentProvider.                                    *)
EXTENDS LigamentProvider

MCNames == {[form |-> "plain", user |-> "a", domain |-> ""],
            [form |-> "down", user |-> "b", domain |-> "d"]}
MCMachine == [joined |-> TRUE, domain |-> "d", sam |-> {"a"}]

NoKey  == [v \in {} |-> ""]
MCOpen   == [policy |-> NoKey,
             local  |-> [ServerURL |-> "https", RDP2FAEnabled |-> TRUE, Elevation2FAEnabled |-> TRUE,
                         Console2FAEnabled |-> TRUE, FailClose |-> FALSE, FallbackRelayURL |-> "https"]]
MCClosed == [policy |-> [RDP2FAEnabled |-> TRUE, ServerURL |-> "https", FIDO2Enabled |-> FALSE],
             local  |-> [DefaultFactor |-> 2, FailClose |-> FALSE,
                         BypassAccounts |-> {[form |-> "plain", user |-> "b", domain |-> ""]}]]
MCPlain  == [policy |-> NoKey, local |-> [ServerURL |-> "http", Console2FAEnabled |-> TRUE]]
MCRegistries == {MCOpen, MCClosed, MCPlain}
MCPrompts == {[generic |-> g, admins |-> ~g, uacHost |-> g] : g \in BOOLEAN}
=============================================================================
