------------------------------ MODULE MCAdapters ------------------------------
(***************************************************************************)
(* Two scripts in two blocks: block 1 pays s1, block 2 spends that output   *)
(* and pays s2.                                                             *)
(***************************************************************************)
EXTENDS Adapters

CONSTANTS s1, s2

AllAdapters  == {"neutrino", "kyoto", "nakamoto", "wasabi", "fake"}
NeutrinoOnly == {"neutrino"}

MCScripts == {s1, s2}
MCPays    == [s \in MCScripts |-> IF s = s1 THEN {1} ELSE {2}]
MCStarts  == [s \in MCScripts |-> IF s = s1 THEN {1, 2} ELSE {1}]
MCSpends  == [s \in MCScripts |-> IF s = s1 THEN {<<2, 1>>} ELSE {}]
=============================================================================
