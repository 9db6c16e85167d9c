--------------------------- MODULE MCSettingsFile ---------------------------
(* Constants for model checking SettingsFile: two accounts of one name. *)
EXTENDS SettingsFile

OneName == [a \in Accounts |-> "ann"]
\* Exchanges and revocations, accounts, permissions, passwords, logins, settings, expiry.
MixesMC == {{"refresh", "remove"}, {"add", "remove"}, {"update"}, {"password"},
            {"login", "refresh"}, {"set", "reset"}, {"login", "expire"}}
=============================================================================
