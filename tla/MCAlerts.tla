------------------------------ MODULE MCAlerts ------------------------------
(* A small instance of Alerts for TLC. *)
EXTENDS Alerts

SomeApps == {<<"Synced", "Healthy">>, <<"OutOfSync", "Missing">>}

=============================================================================
