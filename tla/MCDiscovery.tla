---------------------------- MODULE MCDiscovery ----------------------------
(***************************************************************************)
(* Discovery for TLC.                                                      *)
(***************************************************************************)
EXTENDS Discovery, TLC

OwnBase == <<"sse">>        \* a base nothing else is mounted under
ExampleBase == <<"v1">>     \* the base of cmd/a2a-server/main.go

MCSymmetry == Permutations(Client)
=============================================================================
