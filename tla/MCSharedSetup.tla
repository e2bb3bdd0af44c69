--------------------------- MODULE MCSharedSetup ---------------------------
(* A chain of two fixtures: the dependency is started up front, the        *)
(* dependent by command.                                                   *)
EXTENDS SharedSetup, TLC

CONSTANTS db, api

MCFixtures == {db, api}
MCDeps == (db :> {}) @@ (api :> {db})
MCDeferred == {api}
=============================================================================
