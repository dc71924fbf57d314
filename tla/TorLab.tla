------------------------------- MODULE TorLab -------------------------------
(***************************************************************************)
(* torlab/lab.go and torlab/control.go: the private Tor network of one run  *)
(* and the onion services of its peers.  Chutney and Tor are external;      *)
(* which services Tor still has is not modelled.                            *)
(***************************************************************************)
EXTENDS Integers, Sequences

VARIABLES
  chutney,    \* the Tor network of this run is up
  services,   \* l.services: the onion services that Close deletes
  serial,     \* how many services were ever added; they are numbered
  torStuck    \* history: chutney stop failed in this run

torVars == <<chutney, services, serial, torStuck>>

\* chutney bootstrap; the network may be up in part when it fails.
Bootstrap(ok) ==
  /\ chutney' \in IF ok THEN {TRUE} ELSE BOOLEAN
  /\ UNCHANGED <<services, serial, torStuck>>

\* ADD_ONION, in a control connection of its own.  Its reply may never come:
\* LabRun does not rely on this step being taken.
AddOnion ==
  /\ serial' = serial + 1
  /\ UNCHANGED <<chutney, services, torStuck>>

\* Expose notes the service.
Exposed ==
  /\ services' = Append(services, serial)
  /\ UNCHANGED <<chutney, serial, torStuck>>

\* Close: DEL_ONION for the last service.  An error does not stop Close, a reply
\* that never comes does.
DelOnion ==
  /\ services # <<>>
  /\ services' = SubSeq(services, 1, Len(services) - 1)
  /\ UNCHANGED <<chutney, serial, torStuck>>

\* Close, at its end, and Start, when it fails: chutney stop.
StopChutney ==
  /\ \/ chutney' = FALSE /\ UNCHANGED torStuck
     \/ torStuck' = TRUE /\ UNCHANGED chutney
  /\ UNCHANGED <<services, serial>>
=============================================================================
