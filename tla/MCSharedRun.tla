---------------------------- MODULE MCSharedRun ----------------------------
(* Two fixtures, three suites: the streamed bulk needs the database, a     *)
(* later group the database and the service on top of it, an exclusive     *)
(* suite the database again.                                               *)
EXTENDS SharedRun, TLC

CONSTANTS db, api, bulk, group, tail

MCFixtures == {db, api}
MCDeps == (db :> {}) @@ (api :> {db})
MCDeferred == {api}
MCSuites == {bulk, group, tail}
MCNeeds == (bulk :> {db}) @@ (group :> {db, api}) @@ (tail :> {db})
MCSlotOf == (bulk :> 0) @@ (group :> 1) @@ (tail :> 2)
=============================================================================
