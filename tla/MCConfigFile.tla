---------------------------- MODULE MCConfigFile ----------------------------
(***************************************************************************)
(* Two sections that share a key name, and two names nobody knows.         *)
(***************************************************************************)
EXTENDS ConfigFile

MCSections == {"serial", "limits"}
MCKnown == {<<"serial", "device">>, <<"serial", "interval">>, <<"limits", "interval">>}
MCText == {<<"serial", "device">>}
MCSectionNames == {"serial", "limits", "unknown", ""}
MCKeyNames == {"device", "interval", "unknown"}

=============================================================================
