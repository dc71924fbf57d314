---------------------------- MODULE LabRunProofs ----------------------------
(***************************************************************************)
(* The invariants of LabRun, for every number of peers, of scenarios and of *)
(* runs.  Each is strengthened by itself; TypeInv supports the others.      *)
(***************************************************************************)
EXTENDS LabRun, SequenceTheorems, TLAPS

\* LabTypeOK, that server is a function, and that the service of a peer that is
\* exposed has a number.
TypeInv ==
  /\ LabTypeOK
  /\ server = [i \in Peers |-> server[i]]
  /\ pc = "exposed" => serial # 0

\* A peer that comes up, whatever its identity, keeps what is said of servers.
LEMMA UpStep ==
  ASSUME TypeInv, pc \in {"listen", "exposed"}, NEW identity, Up(identity), UNCHANGED want
  PROVE  /\ pc' \in {"running", "starting"}
         /\ next' \in 1 .. MaxPeers + 1
         /\ pc' = "starting" => next' <= want'
         /\ \A i \in Peers : server'[i] # NoServer => i < next'
         /\ server' = [i \in Peers |-> IF i = next THEN identity ELSE server[i]]
         /\ server' = [i \in Peers |-> server'[i]]
<1> USE MaxPeersAssumption DEF TypeInv, LabTypeOK, Peers
<1>1. next \in 1 .. MaxPeers /\ want \in 1 .. MaxPeers /\ next <= want
  OBVIOUS
<1>2. server' = [i \in Peers |-> IF i = next THEN identity ELSE server[i]]
  BY <1>1 DEF Up
<1>3. \A i \in Peers : server'[i] # NoServer => i < next + 1
  BY <1>1, <1>2
<1>4. /\ pc' \in {"running", "starting"}
      /\ next' = next + 1
      /\ pc' = "starting" => next < want
  BY <1>1 DEF Up
<1>5. server' = [i \in Peers |-> server'[i]]
  BY <1>2
<1>6. QED
  BY <1>1, <1>2, <1>3, <1>4, <1>5

\* Types are kept, action by action.
LEMMA TypeStep ==
  ASSUME TypeInv, [Next]_labRunVars
  PROVE  TypeInv'
<1> USE DEF TypeInv, LabTypeOK, Serving, Peers, NoServer, ClearEnvs, LabModes
<1>1. CASE Begin
  <2>1. services' \in Seq(Nat)
    BY <1>1 DEF Begin
  <2>2. pc \notin Serving /\ pc' \notin Serving /\ pc' \in {"bootstrap", "ready"}
    BY <1>1 DEF Begin
  <2>3. /\ labMode' \in {"loopback", "linux-iproute"}
        /\ env' \in {"ipv4", "ipv6", "tor-v3"}
        /\ added' = {} /\ leased' = {} /\ stuck' = {}
        /\ chutney' = FALSE /\ torStuck' = FALSE /\ torLab' = FALSE
        /\ phases' = 0 /\ runs' = runs + 1
        /\ UNCHANGED <<device, serial, server, want, next>>
    BY <1>1 DEF Begin
  <2>4. \A i \in Peers : server'[i] = NoServer
    BY <2>2, <2>3
  <2>5. LabTypeOK'
    <3>1. labMode' \in LabModes /\ env' \in ClearEnvs \cup {"tor-v3"}
      BY <2>3
    <3>2. serial' \in Nat /\ services' \in Seq(Nat)
      BY <2>1, <2>3
    <3>3. /\ want' \in Peers /\ next' \in 1 .. MaxPeers + 1 /\ phases' \in Nat /\ runs' \in Nat
          /\ added' \subseteq Peers /\ device' \subseteq Peers
          /\ leased' \subseteq Peers /\ stuck' \subseteq Peers
      BY <2>3
    <3>4. \A i \in Peers : server'[i] # NoServer => pc' \in Serving /\ i < next'
      BY <2>4
    <3>5. QED
      BY <2>2, <2>3, <3>1, <3>2, <3>3, <3>4
  <2>6. server' = [i \in Peers |-> server'[i]] /\ pc' # "exposed"
    BY <2>2, <2>3
  <2>7. QED
    BY <2>5, <2>6
<1>2. CASE TorBootstrap
  BY <1>2 DEF TorBootstrap, Bootstrap, addressVars, torVars, runVars
<1>3. CASE TorDiscover
  BY <1>3 DEF TorDiscover, addressVars, torVars, runVars
<1>4. CASE TorUndo
  BY <1>4 DEF TorUndo, StopChutney, addressVars, torVars, runVars
<1>5. CASE BeginPhase
  BY <1>5, MaxPeersAssumption DEF BeginPhase, addressVars, torVars, runVars
<1>6. CASE Allocate
  <2>1. next \in Peers
    BY <1>6, MaxPeersAssumption DEF Allocate
  <2>2. CASE Acquire(env, next) /\ pc' = "listen"
    BY <1>6, <2>1, <2>2 DEF Allocate, Acquire, torVars, runVars
  <2>3. CASE pc' \in {"expose", "stopping"} /\ UNCHANGED addressVars
    BY <1>6, <2>3 DEF Allocate, addressVars, torVars, runVars
  <2>4. QED
    BY <1>6, <2>2, <2>3 DEF Allocate
<1>7. CASE Listen
  <2>1. CASE \E identity : Up(identity)
    BY <1>7, <2>1, UpStep DEF Listen, TypeInv, addressVars, torVars, runVars
  <2>2. CASE pc' = "stopping" /\ UNCHANGED <<server, next>>
    BY <1>7, <2>2 DEF Listen, addressVars, torVars, runVars
  <2>3. QED
    BY <1>7, <2>1, <2>2 DEF Listen
<1>8. CASE Expose
  BY <1>8 DEF Expose, AddOnion, addressVars, torVars, runVars
<1>9. CASE Advertise
  <2>1. services' \in Seq(Nat)
    BY <1>9 DEF Advertise, Exposed
  <2>2. \E identity : Up(identity)
    BY <1>9 DEF Advertise
  <2>3. QED
    BY <1>9, <2>1, <2>2, UpStep DEF Advertise, Exposed, addressVars, runVars
<1>10. CASE Return
  BY <1>10 DEF Return, addressVars, torVars, runVars
<1>11. CASE StopPeer
  BY <1>11 DEF StopPeer, Listening, addressVars, torVars, runVars
<1>12. CASE EndPhase
  BY <1>12 DEF EndPhase, Listening, addressVars, torVars, runVars
<1>13. CASE Finish
  BY <1>13 DEF Finish, addressVars, torVars, runVars
<1>14. CASE CloseTorLab
  <2>1. CASE DelOnion /\ UNCHANGED pc
    <3>1. services \in Seq(Nat) /\ Len(services) \in Nat
      OBVIOUS
    <3>2. \A i \in 1 .. Len(services) - 1 : services[i] \in Nat
      BY <3>1
    <3>3. services' \in Seq(Nat)
      BY <2>1, <3>1, <3>2, SubSeqProperties DEF DelOnion
    <3>4. QED
      BY <1>14, <2>1, <3>3 DEF CloseTorLab, DelOnion, addressVars, runVars
  <2>2. CASE StopChutney /\ pc' = "freeing"
    BY <1>14, <2>2 DEF CloseTorLab, StopChutney, addressVars, runVars
  <2>3. QED
    BY <1>14, <2>1, <2>2 DEF CloseTorLab
<1>15. CASE CloseAllocator
  BY <1>15 DEF CloseAllocator, Delete, addressVars, torVars, runVars
<1>16. CASE Kill
  BY <1>16 DEF Kill, addressVars, torVars, runVars
<1>17. CASE UNCHANGED labRunVars
  BY <1>17 DEF labRunVars, addressVars, torVars, runVars
<1>18. QED
  BY <1>1, <1>2, <1>3, <1>4, <1>5, <1>6, <1>7, <1>8, <1>9, <1>10, <1>11, <1>12, <1>13, <1>14, <1>15, <1>16, <1>17 DEF Next, Step

-----------------------------------------------------------------------------

\* The peer that is about to listen has its address leased.
LeaseInv ==
  /\ LeasesLast
  /\ pc = "listen" /\ AddsAddress(env) => next \in leased

\* A peer that does not listen is on no address of the allocator.
LEMMA NoLabHost == \A i \in Peers : NoServer.host # <<"fd7a:b157:b158", i>>
BY DEF NoServer

\* An address is on the interface before it is leased, and Close alone, after the
\* last scenario, deletes it.
LEMMA LeaseStep ==
  ASSUME TypeInv, LeaseInv, [Next]_labRunVars
  PROVE  LeaseInv'
<1> USE DEF LeaseInv, LeasesLast, AddsAddress
<1>1. CASE Begin
  <2>1. pc \notin Serving /\ pc' # "listen" /\ leased' = {} /\ server' = server
    BY <1>1 DEF Begin, Serving
  <2>2. \A i \in Peers : server[i] = NoServer
    BY <2>1 DEF TypeInv, LabTypeOK
  <2>3. QED
    BY <2>1, <2>2, NoLabHost
<1>2. CASE TorBootstrap
  BY <1>2 DEF TorBootstrap, Bootstrap, addressVars, torVars, runVars
<1>3. CASE TorDiscover
  BY <1>3 DEF TorDiscover, addressVars, torVars, runVars
<1>4. CASE TorUndo
  BY <1>4 DEF TorUndo, StopChutney, addressVars, torVars, runVars
<1>5. CASE BeginPhase
  BY <1>5 DEF BeginPhase, addressVars, torVars, runVars
<1>6. CASE Allocate
  <2>1. CASE Acquire(env, next)
    BY <1>6, <2>1 DEF Allocate, Acquire, runVars
  <2>2. CASE UNCHANGED addressVars
    <3>1. pc' = "listen" => ~ AddsAddress(env) \/ next \in leased
      BY <1>6, <2>2 DEF Allocate, Acquire, addressVars
    <3>2. QED
      BY <1>6, <2>2, <3>1 DEF Allocate, addressVars, runVars
  <2>3. QED
    BY <1>6, <2>1, <2>2 DEF Allocate
<1>7. CASE Listen
  <2>1. UNCHANGED <<leased, device, labMode, env>> /\ pc = "listen" /\ pc' # "listen"
    BY <1>7 DEF Listen, Up, addressVars, runVars
  <2>2. pc' \notin {"idle", "freeing", "ended"}
    BY <1>7 DEF Listen, Up
  <2>3. \A i \in Peers : server'[i].host = <<"fd7a:b157:b158", i>> => i \in leased
    <3>1. CASE Up(Lease(env, next))
      <4>1. server' = [i \in Peers |-> IF i = next THEN Lease(env, next) ELSE server[i]]
        BY <1>7, <3>1, UpStep DEF Listen
      <4>2. Lease(env, next).host = <<"fd7a:b157:b158", next>> => AddsAddress(env)
        BY <2>1 DEF Lease, AddsAddress
      <4>3. QED
        BY <2>1, <4>1, <4>2
    <3>2. CASE Up(Fallback)
      <4>1. server' = [i \in Peers |-> IF i = next THEN Fallback ELSE server[i]]
        BY <1>7, <3>2, UpStep DEF Listen
      <4>2. Fallback.host # <<"fd7a:b157:b158", next>>
        BY DEF Fallback
      <4>3. QED
        BY <4>1, <4>2
    <3>3. CASE UNCHANGED server
      BY <3>3
    <3>4. QED
      BY <1>7, <3>1, <3>2, <3>3 DEF Listen
  <2>4. QED
    BY <2>1, <2>2, <2>3
<1>8. CASE Expose
  BY <1>8 DEF Expose, AddOnion, addressVars, torVars, runVars
<1>9. CASE Advertise
  <2>1. UNCHANGED <<leased, device, labMode, env>> /\ pc = "exposed"
        /\ pc' \in {"running", "starting"}
    BY <1>9 DEF Advertise, Up, addressVars, runVars
  <2>2. server' = [i \in Peers |-> IF i = next
                                THEN [host |-> <<"onion", serial>>, distinct |-> TRUE] ELSE server[i]]
    BY <1>9, UpStep DEF Advertise
  <2>3. <<"onion", serial>> # <<"fd7a:b157:b158", next>>
    OBVIOUS
  <2>4. QED
    BY <2>1, <2>2, <2>3
<1>10. CASE Return
  BY <1>10 DEF Return, addressVars, torVars, runVars
<1>11. CASE StopPeer
  <2>1. PICK p \in Peers : server' = [server EXCEPT ![p] = NoServer]
    BY <1>11 DEF StopPeer, Listening
  <2>2. server' = [i \in Peers |-> IF i = p THEN NoServer ELSE server[i]]
    BY <2>1 DEF TypeInv
  <2>3. QED
    BY <1>11, <2>2, NoLabHost DEF StopPeer, addressVars, runVars
<1>12. CASE EndPhase
  BY <1>12 DEF EndPhase, Listening, addressVars, torVars, runVars
<1>13. CASE Finish
  BY <1>13 DEF Finish, addressVars, torVars, runVars
<1>14. CASE CloseTorLab
  BY <1>14 DEF CloseTorLab, DelOnion, StopChutney, addressVars, torVars, runVars
<1>15. CASE CloseAllocator
  BY <1>15 DEF CloseAllocator, Delete, addressVars, torVars, runVars
<1>16. CASE Kill
  <2>1. pc' = "idle" /\ \A i \in Peers : server'[i] = NoServer
    BY <1>16 DEF Kill
  <2>2. QED
    BY <2>1, NoLabHost
<1>17. CASE UNCHANGED labRunVars
  BY <1>17 DEF labRunVars, addressVars, torVars, runVars
<1>18. QED
  BY <1>1, <1>2, <1>3, <1>4, <1>5, <1>6, <1>7, <1>8, <1>9, <1>10, <1>11, <1>12, <1>13, <1>14, <1>15, <1>16, <1>17 DEF Next, Step

-----------------------------------------------------------------------------

\* What is leased and on the interface is still to be deleted, or stuck.
CleanInv ==
  /\ pc # "idle" => leased \cap device \subseteq added \cup stuck
  /\ pc = "ended" => added = {}

\* A deletion takes the address off the interface or makes it stuck.
LEMMA CleanStep ==
  ASSUME CleanInv, [Next]_labRunVars
  PROVE  CleanInv'
<1> USE DEF CleanInv
<1>1. CASE Begin
  BY <1>1 DEF Begin, ClearEnvs, LabModes, addressVars, torVars, runVars
<1>2. CASE TorBootstrap
  BY <1>2 DEF TorBootstrap, Bootstrap, addressVars, torVars, runVars
<1>3. CASE TorDiscover
  BY <1>3 DEF TorDiscover, addressVars, torVars, runVars
<1>4. CASE TorUndo
  BY <1>4 DEF TorUndo, StopChutney, addressVars, torVars, runVars
<1>5. CASE BeginPhase
  BY <1>5 DEF BeginPhase, addressVars, torVars, runVars
<1>6. CASE Allocate
  BY <1>6 DEF Allocate, Acquire, addressVars, torVars, runVars
<1>7. CASE Listen
  BY <1>7 DEF Listen, Up, Lease, Fallback, AddsAddress, addressVars, torVars, runVars
<1>8. CASE Expose
  BY <1>8 DEF Expose, AddOnion, addressVars, torVars, runVars
<1>9. CASE Advertise
  BY <1>9 DEF Advertise, Exposed, Up, addressVars, torVars, runVars
<1>10. CASE Return
  BY <1>10 DEF Return, addressVars, torVars, runVars
<1>11. CASE StopPeer
  BY <1>11 DEF StopPeer, Listening, addressVars, torVars, runVars
<1>12. CASE EndPhase
  BY <1>12 DEF EndPhase, Listening, addressVars, torVars, runVars
<1>13. CASE Finish
  BY <1>13 DEF Finish, addressVars, torVars, runVars
<1>14. CASE CloseTorLab
  BY <1>14 DEF CloseTorLab, DelOnion, StopChutney, addressVars, torVars, runVars
<1>15. CASE CloseAllocator
  BY <1>15 DEF CloseAllocator, Delete, addressVars, torVars, runVars
<1>16. CASE Kill
  BY <1>16 DEF Kill, addressVars, torVars, runVars
<1>17. CASE UNCHANGED labRunVars
  BY <1>17 DEF labRunVars, addressVars, torVars, runVars
<1>18. QED
  BY <1>1, <1>2, <1>3, <1>4, <1>5, <1>6, <1>7, <1>8, <1>9, <1>10, <1>11, <1>12, <1>13, <1>14, <1>15, <1>16, <1>17 DEF Next, Step

-----------------------------------------------------------------------------

\* Without a lab there is no network, and with none left to close it is stopped.
TorInv ==
  /\ pc = "bootstrap" => ~ chutney
  /\ pc \in Serving \cup {"ready"} /\ ~ torLab => ~ chutney
  /\ pc \in {"freeing", "ended"} /\ chutney => torStuck

\* Every way from a network that may be up to the end leads over chutney stop.
LEMMA TorStep ==
  ASSUME TypeInv, TorInv, [Next]_labRunVars
  PROVE  TorInv'
<1> USE DEF TorInv, TorIsStopped, Serving
<1>1. CASE Begin
  BY <1>1 DEF Begin, ClearEnvs, LabModes, addressVars, torVars, runVars
<1>2. CASE TorBootstrap
  <2>1. chutney \in BOOLEAN
    BY DEF TypeInv, LabTypeOK
  <2>2. chutney = FALSE /\ pc' \in {"discover", "undo", "freeing"}
    BY <1>2, <2>1 DEF TorBootstrap
  <2>3. pc' = "freeing" => chutney' = chutney
    BY <1>2 DEF TorBootstrap, torVars
  <2>4. QED
    BY <2>2, <2>3
<1>3. CASE TorDiscover
  BY <1>3 DEF TorDiscover, addressVars, torVars, runVars
<1>4. CASE TorUndo
  BY <1>4 DEF TorUndo, StopChutney, addressVars, torVars, runVars
<1>5. CASE BeginPhase
  BY <1>5 DEF BeginPhase, addressVars, torVars, runVars
<1>6. CASE Allocate
  BY <1>6 DEF Allocate, Acquire, addressVars, torVars, runVars
<1>7. CASE Listen
  BY <1>7 DEF Listen, Up, Lease, Fallback, AddsAddress, addressVars, torVars, runVars
<1>8. CASE Expose
  BY <1>8 DEF Expose, AddOnion, addressVars, torVars, runVars
<1>9. CASE Advertise
  BY <1>9 DEF Advertise, Exposed, Up, addressVars, torVars, runVars
<1>10. CASE Return
  BY <1>10 DEF Return, addressVars, torVars, runVars
<1>11. CASE StopPeer
  BY <1>11 DEF StopPeer, Listening, addressVars, torVars, runVars
<1>12. CASE EndPhase
  BY <1>12 DEF EndPhase, Listening, addressVars, torVars, runVars
<1>13. CASE Finish
  BY <1>13 DEF Finish, addressVars, torVars, runVars
<1>14. CASE CloseTorLab
  BY <1>14 DEF CloseTorLab, DelOnion, StopChutney, addressVars, torVars, runVars
<1>15. CASE CloseAllocator
  BY <1>15 DEF CloseAllocator, Delete, addressVars, torVars, runVars
<1>16. CASE Kill
  BY <1>16 DEF Kill, addressVars, torVars, runVars
<1>17. CASE UNCHANGED labRunVars
  BY <1>17 DEF labRunVars, addressVars, torVars, runVars
<1>18. QED
  BY <1>1, <1>2, <1>3, <1>4, <1>5, <1>6, <1>7, <1>8, <1>9, <1>10, <1>11, <1>12, <1>13, <1>14, <1>15, <1>16, <1>17 DEF Next, Step


-----------------------------------------------------------------------------

\* The numbers of the services that peers can advertise.
Given == 1 .. IF pc = "exposed" THEN serial - 1 ELSE serial

\* A distinct identity is an address of its own peer or an onion.
IdInv ==
  /\ DistinctIdentities
  /\ \A i \in Peers : server[i].distinct =>
       \/ server[i].host \in {<<"127.27.0", i>>, <<"fd7a:b157:b158", i>>}
       \/ \E n \in Given : server[i].host = <<"onion", n>>

\* An identity that no peer has yet, or that is not distinct, can be taken.
LEMMA IdSet ==
  ASSUME IdInv, Given \subseteq Given', NEW p \in Peers, NEW identity,
         server' = [i \in Peers |-> IF i = p THEN identity ELSE server[i]],
         identity.distinct =>
           \/ identity.host \in {<<"127.27.0", p>>, <<"fd7a:b157:b158", p>>}
           \/ \E n \in Given' \ Given : identity.host = <<"onion", n>>
  PROVE  IdInv'
<1>1. \A i \in Peers \ {p} : server'[i] = server[i]
  OBVIOUS
<1>2. server'[p] = identity
  OBVIOUS
<1>3. ASSUME NEW i \in Peers \ {p}, server[i].distinct, identity.distinct
      PROVE  server[i].host # identity.host
  BY <1>3 DEF IdInv
<1>4. DistinctIdentities'
  BY <1>1, <1>2, <1>3 DEF IdInv, DistinctIdentities
<1>5. \A i \in Peers : server'[i].distinct =>
        \/ server'[i].host \in {<<"127.27.0", i>>, <<"fd7a:b157:b158", i>>}
        \/ \E n \in Given' : server'[i].host = <<"onion", n>>
  BY <1>1, <1>2 DEF IdInv
<1>6. QED
  BY <1>4, <1>5 DEF IdInv

\* Peers that stay as they are keep their identities.
LEMMA IdKept ==
  ASSUME IdInv, UNCHANGED server, Given \subseteq Given'
  PROVE  IdInv'
BY DEF IdInv, DistinctIdentities

\* Only peers that come up get an identity, and theirs is a new one.
LEMMA IdStep ==
  ASSUME TypeInv, IdInv, [Next]_labRunVars
  PROVE  IdInv'
<1>1. CASE Begin
  BY <1>1, IdKept DEF Begin, ClearEnvs, LabModes, Given, addressVars, torVars, runVars
<1>2. CASE TorBootstrap
  BY <1>2, IdKept DEF TorBootstrap, Bootstrap, Given, addressVars, torVars, runVars
<1>3. CASE TorDiscover
  BY <1>3, IdKept DEF TorDiscover, Given, addressVars, torVars, runVars
<1>4. CASE TorUndo
  BY <1>4, IdKept DEF TorUndo, StopChutney, Given, addressVars, torVars, runVars
<1>5. CASE BeginPhase
  BY <1>5, IdKept DEF BeginPhase, Given, addressVars, torVars, runVars
<1>6. CASE Allocate
  BY <1>6, IdKept DEF Allocate, Acquire, Given, addressVars, torVars, runVars
<1>7. CASE Listen
  <2>1. Given = Given'
    BY <1>7 DEF Listen, Up, Given, torVars
  <2>2. next \in Peers
    BY <1>7, MaxPeersAssumption DEF Listen, TypeInv, LabTypeOK, Peers
  <2>3. CASE Up(Lease(env, next))
    <3>1. server' = [i \in Peers |-> IF i = next THEN Lease(env, next) ELSE server[i]]
      BY <1>7, <2>3, UpStep DEF Listen
    <3>2. Lease(env, next).distinct =>
            Lease(env, next).host \in {<<"127.27.0", next>>, <<"fd7a:b157:b158", next>>}
      BY DEF Lease, AddsAddress
    <3>3. QED
      BY <2>1, <2>2, <3>1, <3>2, IdSet
  <2>4. CASE Up(Fallback)
    <3>1. server' = [i \in Peers |-> IF i = next THEN Fallback ELSE server[i]]
      BY <1>7, <2>4, UpStep DEF Listen
    <3>2. ~ Fallback.distinct
      BY DEF Fallback
    <3>3. QED
      BY <2>1, <2>2, <3>1, <3>2, IdSet
  <2>5. CASE UNCHANGED server
    BY <2>1, <2>5, IdKept
  <2>6. QED
    BY <1>7, <2>3, <2>4, <2>5 DEF Listen
<1>8. CASE Expose
  <2>1. Given = Given' /\ UNCHANGED server
    BY <1>8 DEF Expose, AddOnion, Given, TypeInv, LabTypeOK, torVars
  <2>2. QED
    BY <2>1, IdKept
<1>9. CASE Advertise
  <2> DEFINE onion == [host |-> <<"onion", serial>>, distinct |-> TRUE]
  <2>1. next \in Peers
    BY <1>9, MaxPeersAssumption DEF Advertise, TypeInv, LabTypeOK, Peers
  <2>2. server' = [i \in Peers |-> IF i = next THEN onion ELSE server[i]]
    BY <1>9, UpStep DEF Advertise
  <2>3. Given \subseteq Given' /\ serial \in Given' /\ serial \notin Given
    BY <1>9 DEF Advertise, Up, Exposed, Given, TypeInv, LabTypeOK
  <2>4. QED
    BY <2>1, <2>2, <2>3, IdSet
<1>10. CASE Return
  BY <1>10, IdKept DEF Return, Given, addressVars, torVars, runVars
<1>11. CASE StopPeer
  <2>1. PICK p \in Peers : server' = [server EXCEPT ![p] = NoServer]
    BY <1>11 DEF StopPeer, Listening
  <2>2. server' = [i \in Peers |-> IF i = p THEN NoServer ELSE server[i]]
    BY <2>1 DEF TypeInv
  <2>3. Given = Given'
    BY <1>11 DEF StopPeer, Given, torVars
  <2>4. ~ NoServer.distinct
    BY DEF NoServer
  <2>5. QED
    BY <2>2, <2>3, <2>4, IdSet
<1>12. CASE EndPhase
  BY <1>12, IdKept DEF EndPhase, Listening, Given, addressVars, torVars, runVars
<1>13. CASE Finish
  BY <1>13, IdKept DEF Finish, Given, addressVars, torVars, runVars
<1>14. CASE CloseTorLab
  BY <1>14, IdKept DEF CloseTorLab, DelOnion, StopChutney, Given, addressVars, torVars, runVars
<1>15. CASE CloseAllocator
  BY <1>15, IdKept DEF CloseAllocator, Delete, Given, addressVars, torVars, runVars
<1>16. CASE Kill
  <2>1. \A i \in Peers : ~ server'[i].distinct
    BY <1>16 DEF Kill, NoServer
  <2>2. QED
    BY <2>1 DEF IdInv, DistinctIdentities
<1>17. CASE UNCHANGED labRunVars
  BY <1>17, IdKept DEF Given, labRunVars, addressVars, torVars, runVars
<1>18. QED
  BY <1>1, <1>2, <1>3, <1>4, <1>5, <1>6, <1>7, <1>8, <1>9, <1>10, <1>11, <1>12, <1>13, <1>14, <1>15, <1>16, <1>17 DEF Next, Step

-----------------------------------------------------------------------------

\* All of it together.
LabInv == TypeInv /\ LeaseInv /\ CleanInv /\ TorInv /\ IdInv

\* All of it holds initially.
LEMMA InitLabInv == Init => LabInv
<1> SUFFICES ASSUME Init PROVE LabInv
  OBVIOUS
<1>1. \A i \in Peers : server[i] = NoServer
  BY DEF Init
<1>2. TypeInv
  <2>1. 1 \in Peers /\ 1 \in 1 .. MaxPeers + 1
    BY MaxPeersAssumption DEF Peers
  <2>2. services \in Seq(Nat)
    BY DEF Init
  <2>3. QED
    BY <1>1, <2>1, <2>2 DEF Init, TypeInv, LabTypeOK, LabModes, ClearEnvs, Serving
<1>3. LeaseInv
  BY <1>1, NoLabHost DEF Init, LeaseInv, LeasesLast
<1>4. CleanInv /\ TorInv
  BY DEF Init, CleanInv, TorInv, Serving
<1>5. IdInv
  BY <1>1 DEF IdInv, DistinctIdentities, NoServer
<1>6. QED
  BY <1>2, <1>3, <1>4, <1>5 DEF LabInv

\* Whatever fails, and wherever the harness is killed, the strengthened
\* invariants of the labs hold in every state.
THEOREM LabInvariance == Spec => []LabInv
<1>1. LabInv /\ [Next]_labRunVars => LabInv'
  BY TypeStep, LeaseStep, CleanStep, TorStep, IdStep DEF LabInv
<1>2. QED
  BY InitLabInv, <1>1, PTL DEF Spec

\* The variables keep their types, and no peer is left listening when its
\* scenario has returned: every error path of a phase stops what it started.
THEOREM LabTypesHold == Spec => []LabTypeOK
<1>1. LabInv => LabTypeOK
  BY DEF LabInv, TypeInv
<1>2. QED
  BY <1>1, LabInvariance, PTL

\* Addresses that the Linux allocator has given out stay on the interface until
\* Close, however many scenarios start and stop peers on them.
THEOREM LeasesLastAlways == Spec => []LeasesLast
<1>1. LabInv => LeasesLast
  BY DEF LabInv, LeaseInv
<1>2. QED
  BY <1>1, LabInvariance, PTL

\* A run that returns has removed the addresses it has given out, those that it
\* found left over by a killed run too, but for failed deletions.
THEOREM CleanAfterEveryRun == Spec => []CleanAfterRun
<1>1. LabInv => CleanAfterRun
  BY DEF LabInv, CleanInv, CleanAfterRun
<1>2. QED
  BY <1>1, LabInvariance, PTL

\* A run that returns, at whatever point of the start of its Tor lab, has no
\* network left but one that chutney could not stop.
THEOREM TorIsStoppedAlways == Spec => []TorIsStopped
<1>1. LabInv => TorIsStopped
  BY DEF LabInv, TorInv, TorIsStopped
<1>2. QED
  BY <1>1, LabInvariance, PTL

\* Peers that claim distinct identities have different hosts, with any number
\* of peers and services.
THEOREM DistinctIdentitiesAlways == Spec => []DistinctIdentities
<1>1. LabInv => DistinctIdentities
  BY DEF LabInv, IdInv
<1>2. QED
  BY <1>1, LabInvariance, PTL
=============================================================================
