------------------------------ MODULE AddressLab ------------------------------
(***************************************************************************)
(* addresslab/addresslab.go: the hosts that the peers listen on, and the    *)
(* temporary IPv6 addresses of the Linux allocator.  The interface, with    *)
(* the addresses that are on it, is external and outlives the harness.      *)
(* Address i is <prefix>::i/128, the address of peer i.                     *)
(***************************************************************************)
EXTENDS Integers, Sequences

CONSTANT MaxPeers     \* bound on the peers of one scenario

ASSUME MaxPeersAssumption == MaxPeers \in Nat \ {0}

VARIABLES
  labMode,   \* the allocator of this run
  added,     \* the addresses that it has to delete
  device,    \* the addresses on the interface
  leased,    \* history: the addresses it has given out in this run
  stuck      \* history: the addresses whose deletion failed in this run

addressVars == <<labMode, added, device, leased, stuck>>

Peers    == 1 .. MaxPeers
LabModes == {"loopback", "linux-iproute"}

\* The environments in which peers listen on leased hosts: the others require
\* an overlay lab.
ClearEnvs == {"ipv4", "ipv6"}

AddsAddress(env) == env = "ipv6" /\ labMode = "linux-iproute"

\* The lease of peer i.  All peers share one IPv6 loopback host.
Lease(env, i) ==
  IF env = "ipv4" THEN [host |-> <<"127.27.0", i>>, distinct |-> TRUE]
  ELSE IF AddsAddress(env) THEN [host |-> <<"fd7a:b157:b158", i>>, distinct |-> TRUE]
  ELSE [host |-> <<"::1", 0>>, distinct |-> FALSE]

\* Seeded fault for CleanAfterRun: an address that exists is nobody's to delete.
AcquireOwnOnly(env, i) ==
  /\ IF AddsAddress(env)
     THEN /\ added' = IF i \in device THEN added ELSE added \cup {i}
          /\ device' = device \cup {i}
          /\ leased' = leased \cup {i}
     ELSE UNCHANGED <<added, device, leased>>
  /\ UNCHANGED <<labMode, stuck>>

\* Allocate: an address that is on the interface already ("File exists", from
\* a run that was killed) is taken over like one that was added.
Acquire(env, i) ==
  /\ IF AddsAddress(env)
     THEN /\ added' = added \cup {i}
          /\ device' = device \cup {i}
          /\ leased' = leased \cup {i}
     ELSE UNCHANGED <<added, device, leased>>
  /\ UNCHANGED <<labMode, stuck>>

\* One deletion of Close.  That the address is not there is no error.
Delete(i) ==
  /\ i \in added
  /\ added' = added \ {i}
  /\ \/ device' = device \ {i} /\ UNCHANGED stuck
     \/ stuck' = stuck \cup {i} /\ UNCHANGED device
  /\ UNCHANGED <<labMode, leased>>
=============================================================================
