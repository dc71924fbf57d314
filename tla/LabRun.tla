------------------------------- MODULE LabRun -------------------------------
(***************************************************************************)
(* The labs under the runs of the harness: harness/runner.go Run takes an   *)
(* allocator and, for tor-v3, a Tor lab; the identity check and the         *)
(* scenarios start peers in them and stop the peers when they return; and   *)
(* Run closes the labs when it returns.  A harness that is killed runs no   *)
(* deferred call, and another run comes after it on the same host.          *)
(***************************************************************************)
EXTENDS AddressLab, TorLab

CONSTANTS
  MaxRuns,     \* bound on the runs of the harness
  MaxPhases    \* bound on the scenarios of one run, with the identity check

ASSUME LabRunAssumption == MaxRuns \in Nat /\ MaxPhases \in Nat

VARIABLES
  pc,        \* where the run is
  env,       \* its environment
  torLab,    \* opts.torLab is not nil
  server,    \* the identities of the peers that listen
  want,      \* how many peers the scenario starts
  next,      \* the peer that it starts next
  phases,    \* how many scenarios the run has begun
  runs       \* how many runs the harness has begun

runVars == <<env, torLab, runs>>
labRunVars == <<addressVars, torVars, runVars, pc, server, want, next, phases>>

NoServer == [host |-> <<"none", 0>>, distinct |-> FALSE]
Listening == {i \in Peers : server[i] # NoServer}

Init ==
  /\ labMode = "loopback" /\ added = {} /\ device \in SUBSET Peers
  /\ leased = {} /\ stuck = {}
  /\ chutney = FALSE /\ services = <<>> /\ serial = 0 /\ torStuck = FALSE
  /\ pc = "idle" /\ env = "ipv4" /\ torLab = FALSE
  /\ server = [i \in Peers |-> NoServer]
  /\ want = 1 /\ next = 1 /\ phases = 0 /\ runs = 0

\* Run: its options, and a new allocator.  A new run has a Tor network of its
\* own; the one that a killed run has left running is forgotten.
Begin ==
  /\ pc \in {"idle", "ended"}
  /\ runs < MaxRuns
  /\ runs' = runs + 1
  /\ env' \in ClearEnvs \cup {"tor-v3"}
  /\ labMode' \in LabModes
  /\ added' = {} /\ leased' = {} /\ stuck' = {}
  /\ chutney' = FALSE /\ services' = <<>> /\ torStuck' = FALSE
  /\ torLab' = FALSE
  /\ phases' = 0
  /\ pc' \in IF env' = "tor-v3" THEN {"bootstrap", "ready"} ELSE {"ready"}
  /\ UNCHANGED <<device, serial, server, want, next>>

-----------------------------------------------------------------------------
(* torlab.Start.  Run returns its error, with nothing but the allocator to   *)
(* close.                                                                    *)

\* chutney init and bootstrap: a network that was bootstrapped in part is stopped.
TorBootstrap ==
  /\ pc = "bootstrap"
  /\ \/ Bootstrap(TRUE) /\ pc' = "discover"
     \/ Bootstrap(FALSE) /\ pc' = "undo"
     \/ pc' = "freeing" /\ UNCHANGED torVars
  /\ UNCHANGED <<addressVars, runVars, server, want, next, phases>>

\* Seeded fault for TorIsStopped: a network without endpoints is not stopped.
TorDiscoverOnly ==
  /\ pc = "discover"
  /\ \/ torLab' = TRUE /\ pc' = "ready"
     \/ pc' = "freeing" /\ UNCHANGED torLab
  /\ UNCHANGED <<addressVars, torVars, env, runs, server, want, next, phases>>

\* discoverEndpoints.
TorDiscover ==
  /\ pc = "discover"
  /\ \/ torLab' = TRUE /\ pc' = "ready"
     \/ pc' = "undo" /\ UNCHANGED torLab
  /\ UNCHANGED <<addressVars, torVars, env, runs, server, want, next, phases>>

TorUndo ==
  /\ pc = "undo"
  /\ StopChutney
  /\ pc' = "freeing"
  /\ UNCHANGED <<addressVars, runVars, server, want, next, phases>>

-----------------------------------------------------------------------------
(* A scenario, or the identity check.  One of an overlay environment that    *)
(* has no lab is skipped.                                                    *)

BeginPhase ==
  /\ pc = "ready"
  /\ phases < MaxPhases
  /\ env \in ClearEnvs \/ torLab
  /\ phases' = phases + 1
  /\ want' \in Peers
  /\ next' = 1
  /\ pc' = "starting"
  /\ UNCHANGED <<addressVars, torVars, runVars, server>>

\* startInSelectedEnvironment: the lease, or the listener behind an onion.  An
\* error ends the scenario.
Allocate ==
  /\ pc = "starting"
  /\ \/ env \in ClearEnvs /\ Acquire(env, next) /\ pc' = "listen"
     \/ env \notin ClearEnvs /\ pc' = "expose" /\ UNCHANGED addressVars
     \/ pc' = "stopping" /\ UNCHANGED addressVars
  /\ UNCHANGED <<torVars, runVars, server, want, next, phases>>

\* The next peer is up.
Up(identity) ==
  /\ server' = [server EXCEPT ![next] = identity]
  /\ next' = next + 1
  /\ pc' = IF next = want THEN "running" ELSE "starting"

\* Seeded fault for DistinctIdentities: the fallback keeps the lease's claim.
FallbackKeepsClaim == [host |-> <<"127.0.0.1", 0>>, distinct |-> TRUE]

Fallback == [host |-> <<"127.0.0.1", 0>>, distinct |-> FALSE]

\* StartInEnvironment listens on the host of the lease.  When that fails, a
\* peer of ipv4 falls back to a shared host.
Listen ==
  /\ pc = "listen"
  /\ \/ (AddsAddress(env) => next \in device) /\ Up(Lease(env, next))
     \/ env = "ipv4" /\ Up(Fallback)
     \/ pc' = "stopping" /\ UNCHANGED <<server, next>>
  /\ UNCHANGED <<addressVars, torVars, runVars, want, phases>>

\* Expose; when it fails the listener is stopped.
Expose ==
  /\ pc = "expose"
  /\ \/ AddOnion /\ pc' = "exposed"
     \/ pc' = "stopping" /\ UNCHANGED torVars
  /\ UNCHANGED <<addressVars, runVars, server, want, next, phases>>

\* SetAdvertisedAddress.
Advertise ==
  /\ pc = "exposed"
  /\ Exposed
  /\ Up([host |-> <<"onion", serial>>, distinct |-> TRUE])
  /\ UNCHANGED <<addressVars, runVars, want, phases>>

\* The scenario returns.
Return ==
  /\ pc = "running"
  /\ pc' = "stopping"
  /\ UNCHANGED <<addressVars, torVars, runVars, server, want, next, phases>>

\* Seeded fault for LeasesLast: Release deletes the address of the peer.
StopPeerReleases ==
  /\ pc = "stopping"
  /\ \E i \in Listening :
       /\ \A j \in Listening : j <= i
       /\ server' = [server EXCEPT ![i] = NoServer]
       /\ device' = device \ {i}
  /\ UNCHANGED <<labMode, added, leased, stuck, torVars, runVars, pc, want, next, phases>>

\* The deferred Stop of the last peer.  Its lease is kept until Close.
StopPeer ==
  /\ pc = "stopping"
  /\ \E i \in Listening :
       /\ \A j \in Listening : j <= i
       /\ server' = [server EXCEPT ![i] = NoServer]
  /\ UNCHANGED <<addressVars, torVars, runVars, pc, want, next, phases>>

\* Seeded fault for LabTypeOK: the scenario does not wait for its deferred calls.
EndPhaseEarly ==
  /\ pc = "stopping"
  /\ pc' = "ready"
  /\ UNCHANGED <<addressVars, torVars, runVars, server, want, next, phases>>

EndPhase ==
  /\ pc = "stopping" /\ Listening = {}
  /\ pc' = "ready"
  /\ UNCHANGED <<addressVars, torVars, runVars, server, want, next, phases>>

-----------------------------------------------------------------------------
(* Run returns: after the last scenario, when distinct identities are        *)
(* required and not provided, or when the adapter does not claim the         *)
(* environment.                                                              *)

Finish ==
  /\ pc = "ready"
  /\ pc' = IF torLab THEN "closing" ELSE "freeing"
  /\ UNCHANGED <<addressVars, torVars, runVars, server, want, next, phases>>

\* lab.Close.
CloseTorLab ==
  /\ pc = "closing"
  /\ \/ DelOnion /\ UNCHANGED pc
     \/ services = <<>> /\ StopChutney /\ pc' = "freeing"
  /\ UNCHANGED <<addressVars, runVars, server, want, next, phases>>

\* Seeded fault for RunsEnd: Close does not return before all are deleted.
CloseUntilClean ==
  /\ pc = "freeing"
  /\ \/ (\E i \in Peers : Delete(i)) /\ UNCHANGED pc
     \/ added = {} /\ stuck = {} /\ pc' = "ended" /\ UNCHANGED addressVars
  /\ UNCHANGED <<torVars, runVars, server, want, next, phases>>

\* allocator.Close.
CloseAllocator ==
  /\ pc = "freeing"
  /\ \/ (\E i \in Peers : Delete(i)) /\ UNCHANGED pc
     \/ added = {} /\ pc' = "ended" /\ UNCHANGED addressVars
  /\ UNCHANGED <<torVars, runVars, server, want, next, phases>>

\* The harness is killed.  What it has added stays.
Kill ==
  /\ pc \notin {"idle", "ended"}
  /\ pc' = "idle"
  /\ server' = [i \in Peers |-> NoServer]
  /\ UNCHANGED <<addressVars, torVars, runVars, want, next, phases>>

Step ==
  \/ TorBootstrap \/ TorDiscover \/ TorUndo
  \/ BeginPhase \/ Allocate \/ Listen \/ Expose \/ Advertise \/ Return \/ StopPeer \/ EndPhase
  \/ Finish \/ CloseTorLab \/ CloseAllocator

Next == Begin \/ Step \/ Kill

Spec == Init /\ [][Next]_labRunVars

\* The run waits for another program, and nothing bounds the wait: the context
\* of torlab's control connection bounds the dial and not the replies, that of
\* Run, with which chutney starts, is context.Background(), a command that is
\* killed when its time is over is waited for while its children hold the
\* output, and the ip commands have no context.
Awaiting ==
  \/ pc \in {"bootstrap", "undo", "expose", "closing"}
  \/ pc = "starting" /\ AddsAddress(env) /\ next \notin added
  \/ pc = "freeing" /\ added # {}

\* A run goes on by itself, unless it waits for another program.  Nobody has to
\* start or to kill one.
FairSpec == Spec /\ WF_labRunVars(Step /\ ~ Awaiting)

-----------------------------------------------------------------------------

Serving == {"starting", "listen", "expose", "exposed", "running", "stopping"}

\* Types; peers listen in a scenario only, the ones before next.
LabTypeOK ==
  /\ labMode \in LabModes /\ env \in ClearEnvs \cup {"tor-v3"}
  /\ added \subseteq Peers /\ device \subseteq Peers
  /\ leased \subseteq Peers /\ stuck \subseteq Peers
  /\ chutney \in BOOLEAN /\ torStuck \in BOOLEAN /\ torLab \in BOOLEAN
  /\ serial \in Nat /\ services \in Seq(Nat)
  /\ pc \in {"idle", "bootstrap", "discover", "undo", "ready", "closing", "freeing", "ended"}
              \cup Serving
  /\ want \in Peers /\ next \in 1 .. MaxPeers + 1
  /\ pc \in {"starting", "listen", "expose", "exposed"} => next <= want
  /\ phases \in Nat /\ runs \in Nat
  /\ \A i \in Peers : server[i] # NoServer => pc \in Serving /\ i < next

\* "The Linux allocator keeps IPv6 /128 leases until harness shutdown so peerlab
\* listeners cannot lose their assigned addresses between scenarios"
\* (PROJECT_PLAN.md:266): until Close, an address that was given out is on the
\* interface, also after its peer was stopped and started again, and the hosts
\* of the peers that listen are among those.
LeasesLast ==
  /\ pc \notin {"idle", "freeing", "ended"} => leased \subseteq device
  /\ \A i \in Peers : server[i].host = <<"fd7a:b157:b158", i>> => i \in leased

\* docs/environments.md:16: the addresses are removed during harness cleanup.
\* When Run has returned, none that it has given out is on the interface, not
\* even one that a killed run had left there, unless its deletion failed.
CleanAfterRun == pc = "ended" => leased \cap device \subseteq stuck

\* When Run has returned, with or without an error, its Tor network is down
\* unless chutney could not stop it.
TorIsStopped == pc = "ended" /\ chutney => torStuck

\* Two peers that claim a distinct identity are not told apart by their port
\* alone: the peerIdentityResults of runner.go rely on it.
DistinctIdentities ==
  \A i, j \in Peers :
    i # j /\ server[i].distinct /\ server[j].distinct => server[i].host # server[j].host

\* Whatever fails on its way, Run returns or is killed, unless one call of chutney,
\* of Tor or of ip never returns: no scenario, no order of failures and no
\* address that cannot be deleted keeps it from its end.
RunsEnd == (pc # "idle") ~> (pc \in {"idle", "ended"} \/ []Awaiting)
=============================================================================
