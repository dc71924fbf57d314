---------------------------- MODULE MCHarnessRun ----------------------------
(***************************************************************************)
(* A catalog with a row that is never executed, two internal ones, those   *)
(* of the environment and of the peer identity, and those of three         *)
(* scenarios: one that decides two MUST rows (runHonestAdapter), a SHOULD  *)
(* scenario that also decides a MUST row (runBadPrevFilterHeaderAdapter),  *)
(* and one with a single row.  As in the program, every row that is        *)
(* reported is cataloged.                                                  *)
(***************************************************************************)
EXTENDS HarnessRun

D(id, level) == [id |-> id, level |-> level]

MCCatalog ==
  << D(7, "must"), D(2, "must"), D(3, "info"), D(4, "info"),
     D(5, "should"), D(6, "must"), D(1, "info"), D(8, "must"), D(10, "must"),
     D(9, "must") >>

MCInternal  == << D(7, "must"), D(8, "must") >>
MCIdentity  == D(3, "info")
MCEnvRow    == D(4, "info")
MCScenarios ==
  << [id |-> 9, level |-> "must", reports |-> << D(9, "must"), D(10, "must") >>],
     [id |-> 5, level |-> "should", reports |-> << D(5, "should"), D(6, "must") >>],
     [id |-> 1, level |-> "info", reports |-> << D(1, "info") >>] >>
=============================================================================
