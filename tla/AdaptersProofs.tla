---------------------------- MODULE AdaptersProofs ----------------------------
(***************************************************************************)
(* What is proved of the adapters, for every chain, every set of scripts    *)
(* and every bound on the calls.                                            *)
(***************************************************************************)
EXTENDS Adapters, FiniteSetTheorems, WellFoundedInduction, TLAPS

(***************************************************************************)
(* The inductive invariant of the types: calls, clients, watches, scans.   *)
(***************************************************************************)

Ops == {"configure", "start", "watch", "stop"}

\* Where the handler of a call may be, over all adapters.
Places(op) ==
  IF op \in {"configure", "stop"} THEN {"called", "dispose", "disposing"}
  ELSE IF op = "start" THEN {"called", "start", "load", "install", "create"}
  ELSE {"called", "rescan"}

CallRec == [op     : Ops \cup {"none"},
            pc     : {"none", "called", "start", "load", "install", "create", "rescan",
                      "dispose", "disposing"},
            script : Scripts \cup {NoScript},
            start  : 0 .. Tip,
            client : {0} \cup Clients]

CallOK(c) ==
  c # Idle =>
    /\ c.op \in Ops /\ c.pc \in Places(c.op)
    /\ c.op = "watch" => c.script \in Scripts /\ c.start \in StartHeights[c.script]
    /\ c.pc # "called" => c.client # 0

\* The call that the harness waits for is the one whose turn it was.
TurnOps(t) ==
  IF t = "configure" THEN {"configure"}
  ELSE IF t = "start" THEN {"start"}
  ELSE IF t = "running" THEN {"watch", "stop"}
  ELSE {"stop"}

\* As long as nothing was given up there is one call at a time.
Alone == \A k \in Calls : call[k] = Idle \/ k = waiting

CallInv ==
  /\ call \in [Calls -> CallRec] /\ \A k \in Calls : CallOK(call[k])
  /\ turn \in {"configure", "start", "running", "stop"}
  /\ waiting \in {0} \cup Calls
  /\ waiting # 0 => call[waiting] # Idle /\ call[waiting].op \in TurnOps(turn)
  /\ givenUp \in Nat
  /\ givenUp = 0 => Alone

\* The clients that were made.
Used == {c \in Clients : client[c] # NoClient}

ClientRec == [gen : Nat, st : {"none", "built", "running", "stopped", "orphan"}]

ClientInv ==
  /\ client \in [Clients -> ClientRec]
  /\ inst \in {0} \cup Clients
  /\ inst # 0 /\ impl # "fake" => inst \in Used
  /\ \A k \in Calls : call[k].client # 0 => call[k].client \in Used

\* The calls whose handlers have not begun.
Asked(op) == {k \in Calls : call[k].op = op /\ call[k].pc = "called"}

\* A /start that is still to come for a configuration that was accepted.
Due ==
  IF \/ turn = "start" /\ waiting = 0
     \/ waiting # 0 /\ call[waiting].op = "configure" /\ call[waiting].pc # "called"
  THEN 1 ELSE 0

\* There is a client, or a /start, for each configuration at most, so that a
\* handler that makes a client finds an unused one.
CountInv ==
  /\ gen \in Nat
  /\ \A c \in Clients : client[c].gen <= gen
  /\ gen + Cardinality(Asked("configure")) <= MaxConfigures
  /\ impl \in {"neutrino", "kyoto"} => Cardinality(Used) <= gen
  /\ impl \in {"nakamoto", "wasabi"} => Cardinality(Used) + Cardinality(Asked("start")) + Due <= gen

WatchInv ==
  /\ DOMAIN watches \subseteq Scripts /\ \A s \in DOMAIN watches : watches[s] \in StartHeights[s]
  /\ DOMAIN cursor \subseteq DOMAIN watches
  /\ \A s \in DOMAIN cursor : cursor[s] \in 1 .. Tip + 1

FindsInv ==
  /\ DOMAIN outpoints \subseteq Scripts
  /\ \A s \in DOMAIN outpoints : outpoints[s] \subseteq Pays[s]
  /\ \A m \in matches : m.script \in Scripts /\ <<m.height, m.of>> \in Expected(m.script, Heights)

ScanRec == [client : {0} \cup Clients, script : Scripts \cup {NoScript},
            at : 0 .. Tip + 1, blk : 0 .. Tip, st : {"off", "on", "scan", "fetch", "held"}]

ScanOK(x) ==
  /\ x.st = "fetch" => x.blk # 0
  /\ impl = "nakamoto" => x.st \in {"off", "on"}
  /\ impl = "kyoto" /\ x.st # "off" => x.at # 0
  /\ impl = "wasabi" /\ x.st \in {"scan", "fetch", "held"} => x.at # 0 /\ x.script \in Scripts

ScanInv ==
  /\ scan \in [Scanners -> ScanRec] /\ \A r \in Scanners : ScanOK(scan[r])
  /\ rescanQuit \in {0} \cup Scanners
  /\ missed \subseteq Heights

FlagInv == impl \in Impls /\ alive \in BOOLEAN /\ straggler \in BOOLEAN

AdapterInv ==
  FlagInv /\ CallInv /\ ClientInv /\ CountInv /\ WatchInv /\ FindsInv /\ ScanInv

LEMMA InvTypes == AdapterInv => AdaptersTypeOK
<1> SUFFICES ASSUME AdapterInv
             PROVE  AdaptersTypeOK
  OBVIOUS
<1>1. MaxConfigures \in Nat /\ Tip \in Nat
  BY AdapterAssumption
<1>2. IsFiniteSet(Calls)
  BY FS_Interval, AdapterAssumption DEF Calls
<1>3. IsFiniteSet(Asked("configure"))
  BY <1>2, FS_Subset DEF Asked
<1>4. Cardinality(Asked("configure")) \in Nat
  BY <1>3, FS_CardinalityType
<1>5. gen \in 0 .. MaxConfigures
  BY <1>1, <1>4 DEF AdapterInv, CountInv
<1>6. client \in [Clients -> [gen : 0 .. MaxConfigures, st : {"none", "built", "running", "stopped", "orphan"}]]
  <2>1. \A c \in Clients : client[c].gen \in 0 .. MaxConfigures
    BY <1>1, <1>5 DEF AdapterInv, CountInv, ClientInv, ClientRec
  <2> QED
    BY <2>1 DEF AdapterInv, ClientInv, ClientRec
<1>7. \A r \in Scanners : /\ scan[r].st \in {"off", "on", "scan", "fetch", "held"}
                          /\ scan[r].at \in 0 .. Tip + 1 /\ scan[r].blk \in 0 .. Tip
  BY DEF AdapterInv, ScanInv, ScanRec
<1>8. waiting # 0 => call[waiting] # Idle
  BY DEF AdapterInv, CallInv
<1> QED
  BY <1>5, <1>6, <1>7, <1>8 DEF AdapterInv, FlagInv, CallInv, ClientInv, WatchInv, FindsInv, ScanInv, AdaptersTypeOK

LEMMA InvInit == ProtocolInit => AdapterInv
<1> SUFFICES ASSUME ProtocolInit
             PROVE  AdapterInv
  OBVIOUS
<1>1. MaxConfigures \in Nat /\ Tip \in Nat
  BY AdapterAssumption
<1>2. FlagInv /\ WatchInv /\ FindsInv
  BY DEF ProtocolInit, FlagInv, WatchInv, FindsInv, Nothing
<1>3. CallInv
  BY <1>1 DEF ProtocolInit, CallInv, CallRec, CallOK, Idle, Alone
<1>4. ClientInv
  BY <1>1 DEF ProtocolInit, ClientInv, ClientRec, NoClient, Idle
<1>5. ScanInv
  BY <1>1 DEF ProtocolInit, ScanInv, ScanOK, ScanRec, NoScan
<1>6. Asked("configure") = {} /\ Asked("start") = {} /\ Used = {} /\ Due = 0
  BY DEF ProtocolInit, Asked, Used, Due, Idle
<1>7. \A c \in Clients : client[c].gen <= gen
  BY DEF ProtocolInit, NoClient
<1>8. CountInv
  <2>1. Cardinality({}) = 0 /\ gen = 0
    BY FS_EmptySet DEF ProtocolInit
  <2> QED
    BY <1>1, <1>6, <1>7, <2>1 DEF CountInv
<1> QED
  BY <1>2, <1>3, <1>4, <1>5, <1>8 DEF AdapterInv

-----------------------------------------------------------------------------
(* How a step may change the calls. *)

LEMMA RespondCalls ==
  ASSUME CallInv, NEW k \in Calls, call[k] # Idle, NEW ok \in BOOLEAN, Respond(k, ok)
  PROVE  /\ CallInv'
         /\ \A op : Asked(op)' = Asked(op) \ {k}
         /\ \A j \in Calls : call'[j].client # 0 => call'[j].client = call[j].client
         /\ Due' <= Due + 1
         /\ call[k].op # "configure" \/ ok = FALSE \/ call[k].pc # "called" => Due' <= Due
<1>1. /\ call' = [call EXCEPT ![k] = Idle] /\ givenUp' = givenUp
      /\ IF waiting = k THEN waiting' = 0 /\ turn' = After(call[k].op, ok)
                        ELSE waiting' = waiting /\ turn' = turn
  BY DEF Respond
<1>2. call'[k] = Idle /\ \A j \in Calls : j # k => call'[j] = call[j]
  BY <1>1 DEF CallInv
<1>3. Idle \in CallRec /\ CallOK(Idle)
  BY AdapterAssumption DEF CallRec, Idle, CallOK
<1>4. call' \in [Calls -> CallRec] /\ \A j \in Calls : CallOK(call'[j])
  BY <1>1, <1>2, <1>3 DEF CallInv
<1>5. 0 \notin Calls
  BY DEF Calls
<1>6. call[k].op \in Ops
  BY DEF CallInv, CallOK
<1>7. turn' \in {"configure", "start", "running", "stop"}
  BY <1>1, <1>6 DEF CallInv, After, Ops
<1>8. waiting' # 0 => waiting' = waiting /\ waiting # k /\ turn' = turn
  BY <1>1
<1>9. CallInv'
  BY <1>1, <1>2, <1>4, <1>7, <1>8 DEF CallInv, Alone
<1>10. \A op : Asked(op)' = Asked(op) \ {k}
  BY <1>2 DEF Asked, Idle
<1>11. \A j \in Calls : call'[j].client # 0 => call'[j].client = call[j].client
  BY <1>2 DEF Idle
<1>12. Due \in {0, 1} /\ Due' \in {0, 1}
  BY DEF Due
<1>13. call[k].op # "configure" \/ ok = FALSE \/ call[k].pc # "called" => Due' <= Due
  <2>1. CASE waiting = k
    <3>1. waiting' = 0 /\ turn' = After(call[k].op, ok) /\ waiting # 0
      BY <1>1, <1>5, <2>1
    <3>2. CASE call[k].op # "configure" \/ ok = FALSE
      <4>1. turn' # "start"
        BY <1>6, <3>1, <3>2 DEF After, Ops
      <4>2. Due' = 0
        BY <3>1, <4>1 DEF Due
      <4> QED
        BY <1>12, <4>2
    <3>3. CASE call[k].op = "configure" /\ call[k].pc # "called"
      <4>1. Due = 1
        BY <2>1, <3>1, <3>3 DEF Due
      <4> QED
        BY <1>12, <4>1
    <3> QED
      BY <3>2, <3>3
  <2>2. CASE waiting # k
    <3>1. waiting' = waiting /\ turn' = turn
      BY <1>1, <2>2
    <3>2. waiting # 0 => call'[waiting] = call[waiting]
      BY <1>2, <2>2 DEF CallInv
    <3>3. Due' = Due
      BY <3>1, <3>2 DEF Due
    <3> QED
      BY <1>12, <3>3
  <2> QED
    BY <2>1, <2>2
<1> QED
  BY <1>9, <1>10, <1>11, <1>12, <1>13

LEMMA ProceedCalls ==
  ASSUME CallInv, NEW k \in Calls, call[k] # Idle,
         NEW pc \in Places(call[k].op) \ {"called"}, NEW c \in Clients, Proceed(k, pc, c)
  PROVE  /\ CallInv'
         /\ \A op : Asked(op)' = Asked(op) \ {k}
         /\ \A j \in Calls : call'[j].client = IF j = k THEN c ELSE call[j].client
         /\ Due' <= Due + 1
         /\ call[k].op # "configure" \/ call[k].pc # "called" => Due' <= Due
<1>1. /\ call' = [call EXCEPT ![k].pc = pc, ![k].client = c]
      /\ turn' = turn /\ waiting' = waiting /\ givenUp' = givenUp
  BY DEF Proceed
<1>2. /\ call'[k] = [call[k] EXCEPT !.pc = pc, !.client = c]
      /\ \A j \in Calls : j # k => call'[j] = call[j]
  BY <1>1 DEF CallInv
<1>3. call[k] \in CallRec /\ CallOK(call[k])
  BY DEF CallInv
<1>4. /\ call'[k].op = call[k].op /\ call'[k].pc = pc /\ call'[k].client = c
      /\ call'[k].script = call[k].script /\ call'[k].start = call[k].start
  BY <1>2, <1>3 DEF CallRec
<1>5. c # 0
  BY DEF Clients
<1>6. call'[k] # Idle
  BY <1>4, <1>5 DEF Idle
<1>7. pc \in {"none", "called", "start", "load", "install", "create", "rescan", "dispose", "disposing"}
  BY DEF Places
<1>8. call'[k] \in CallRec
  BY <1>2, <1>3, <1>7 DEF CallRec
<1>9. CallOK(call'[k])
  BY <1>3, <1>4, <1>5 DEF CallOK
<1>10. call' \in [Calls -> CallRec] /\ \A j \in Calls : CallOK(call'[j])
  <2>1. DOMAIN call' = Calls /\ call' = [j \in Calls |-> call'[j]]
    BY <1>1 DEF CallInv
  <2>2. \A j \in Calls : call'[j] \in CallRec /\ CallOK(call'[j])
    BY <1>2, <1>8, <1>9 DEF CallInv
  <2> QED
    BY <2>1, <2>2
<1>11. CallInv'
  BY <1>1, <1>2, <1>4, <1>6, <1>10 DEF CallInv, Alone
<1>12. \A op : Asked(op)' = Asked(op) \ {k}
  BY <1>2, <1>4 DEF Asked
<1>13. Due \in {0, 1} /\ Due' \in {0, 1}
  BY DEF Due
<1>14. call[k].op # "configure" \/ call[k].pc # "called" => Due' <= Due
  <2> SUFFICES ASSUME call[k].op # "configure" \/ call[k].pc # "called"
               PROVE  Due' <= Due
    OBVIOUS
  <2>1. waiting # 0 /\ call'[waiting].op = "configure" /\ call'[waiting].pc # "called" =>
          call[waiting].op = "configure" /\ call[waiting].pc # "called"
    BY <1>2, <1>4 DEF CallInv
  <2>2. Due' = 1 => Due = 1
    BY <1>1, <2>1 DEF Due
  <2> QED
    BY <1>13, <2>2
<1>15. \A j \in Calls : call'[j].client = IF j = k THEN c ELSE call[j].client
  BY <1>2, <1>4
<1>16. Due' <= Due + 1
  BY <1>13
<1> QED
  BY <1>11, <1>12, <1>14, <1>15, <1>16

LEMMA HarnessCalls ==
  ASSUME CallInv, Harness
  PROVE  /\ CallInv' /\ UNCHANGED <<impl, alive, stateVars, client, scan, historyVars>>
         /\ \A j \in Calls : call'[j].client # 0 => call'[j].client = call[j].client
         /\ \/ Asked("configure")' = Asked("configure")
            \/ /\ gen + Cardinality({k \in Calls : call[k].op = "configure"}) < MaxConfigures
               /\ \E k \in Calls : Asked("configure")' = Asked("configure") \cup {k}
         /\ \/ Asked("start")' = Asked("start") /\ Due' <= Due
            \/ Due = 1 /\ Due' = 0 /\ \E k \in Calls : Asked("start")' = Asked("start") \cup {k}
<1> DEFINE Posted(op, s, h) == Post(op, s, h) /\ op \in TurnOps(turn)
                               /\ (IF op = "watch" THEN s \in Scripts /\ h \in StartHeights[s]
                                                   ELSE s = NoScript /\ h = 0)
<1>1. ASSUME NEW op \in Ops, NEW s, NEW h, Posted(op, s, h)
      PROVE  /\ CallInv' /\ UNCHANGED <<impl, alive, stateVars, client, scan, historyVars>>
             /\ \A j \in Calls : call'[j].client # 0 => call'[j].client = call[j].client
             /\ \E k \in Calls : \A o : Asked(o)' = IF o = op THEN Asked(o) \cup {k} ELSE Asked(o)
             /\ Due' = 0 /\ (op = "start" => Due = 1)
  <2>1. PICK k \in Calls :
          /\ call[k] = Idle
          /\ call' = [call EXCEPT ![k] = [op |-> op, pc |-> "called", script |-> s,
                                          start |-> h, client |-> 0]]
          /\ waiting' = k
    BY <1>1 DEF Post
  <2> DEFINE new == [op |-> op, pc |-> "called", script |-> s, start |-> h, client |-> 0]
  <2>2. waiting = 0 /\ turn' = turn /\ givenUp' = givenUp
    BY <1>1 DEF Post
  <2>3. call'[k] = new /\ \A j \in Calls : j # k => call'[j] = call[j]
    BY <2>1 DEF CallInv
  <2>4. s \in Scripts \cup {NoScript} /\ h \in 0 .. Tip
    BY <1>1, AdapterAssumption
  <2>5. new \in CallRec
    BY <2>4 DEF CallRec
  <2>6. CallOK(new) /\ new # Idle
    BY <1>1 DEF CallOK, Places, Idle, Ops
  <2>7. call' \in [Calls -> CallRec] /\ \A j \in Calls : CallOK(call'[j])
    <3> HIDE DEF new
    <3> QED
      BY <2>1, <2>3, <2>5, <2>6 DEF CallInv
  <2>8. k # 0 /\ call'[waiting'].op = op
    BY <2>1, <2>3 DEF Calls
  <2>9. CallInv'
    <3> HIDE DEF new
    <3>1. call'[waiting'] # Idle
      BY <2>1, <2>3, <2>6
    <3>2. givenUp' = 0 => Alone'
      BY <2>1, <2>2, <2>3 DEF CallInv, Alone, Calls
    <3>3. op \in TurnOps(turn')
      BY <1>1, <2>2
    <3> QED
      BY <2>1, <2>2, <2>7, <2>8, <3>1, <3>2, <3>3 DEF CallInv
  <2>10. \A j \in Calls : call'[j].client # 0 => call'[j].client = call[j].client
    BY <2>3
  <2>11. \A o : Asked(o)' = IF o = op THEN Asked(o) \cup {k} ELSE Asked(o)
    BY <2>1, <2>3 DEF Asked, Idle
  <2>12. Due' = 0
    BY <2>1, <2>3, <2>8 DEF Due
  <2>13. op = "start" => Due = 1
    BY <1>1, <2>2 DEF Due, TurnOps, CallInv
  <2>14. UNCHANGED <<impl, alive, stateVars, client, scan, historyVars>>
    BY <1>1 DEF Post
  <2> QED
    BY <2>9, <2>10, <2>11, <2>12, <2>13, <2>14
<1>2. Due \in {0, 1}
  BY DEF Due
<1>3. CASE PostConfigure
  <2>1. Posted("configure", NoScript, 0)
    BY <1>3 DEF PostConfigure, TurnOps
  <2>2. gen + Cardinality({k \in Calls : call[k].op = "configure"}) < MaxConfigures
    BY <1>3 DEF PostConfigure
  <2> HIDE DEF Posted
  <2> QED
    BY <1>1, <1>2, <2>1, <2>2 DEF Ops
<1>4. CASE PostStart
  <2>1. Posted("start", NoScript, 0)
    BY <1>4 DEF PostStart, TurnOps
  <2> HIDE DEF Posted
  <2> QED
    BY <1>1, <1>2, <2>1 DEF Ops
<1>5. CASE PostWatch
  <2>1. PICK s \in Scripts : \E h \in StartHeights[s] : Post("watch", s, h)
    BY <1>5 DEF PostWatch
  <2>2. PICK h \in StartHeights[s] : Post("watch", s, h)
    BY <2>1
  <2>3. Posted("watch", s, h)
    BY <1>5, <2>2 DEF PostWatch, TurnOps
  <2> HIDE DEF Posted
  <2> QED
    BY <1>1, <1>2, <2>3 DEF Ops
<1>6. CASE PostStop
  <2>1. Posted("stop", NoScript, 0)
    BY <1>6 DEF PostStop, TurnOps
  <2> HIDE DEF Posted
  <2> QED
    BY <1>1, <1>2, <2>1 DEF Ops
<1>7. CASE GiveUp
  <2>1. /\ waiting # 0 /\ waiting' = 0 /\ turn' = After(call[waiting].op, FALSE)
        /\ givenUp' = givenUp + 1 /\ call' = call
        /\ UNCHANGED <<impl, alive, stateVars, client, scan, historyVars>>
    BY <1>7 DEF GiveUp
  <2>2. call[waiting].op \in Ops
    BY <2>1 DEF CallInv, CallOK
  <2>3. turn' \in {"configure", "stop"}
    BY <2>1, <2>2 DEF After, Ops
  <2>4. CallInv'
    <3>1. givenUp' \in Nat /\ givenUp' # 0
      BY <2>1 DEF CallInv
    <3>2. (\A k \in Calls : CallOK(call[k]))'
      BY <2>1 DEF CallInv
    <3> QED
      BY <2>1, <2>3, <3>1, <3>2 DEF CallInv
  <2>5. Due' = 0
    BY <2>1, <2>3 DEF Due
  <2>6. Asked("configure")' = Asked("configure") /\ Asked("start")' = Asked("start")
    BY <2>1 DEF Asked
  <2> QED
    BY <1>2, <2>1, <2>4, <2>5, <2>6
<1> QED
  BY <1>3, <1>4, <1>5, <1>6, <1>7 DEF Harness

-----------------------------------------------------------------------------
(* How a handler may change the clients and their number. *)

Fresh(k, op) == call[k].op = op /\ call[k].pc = "called"

\* A handler responds or goes on to its next place, and a configuration that is
\* accepted is a new one.
Handled(k) ==
  \/ \E ok \in BOOLEAN : Respond(k, ok) /\ (ok /\ Fresh(k, "configure") => gen' = gen + 1)
  \/ \E pc \in Places(call[k].op) \ {"called"}, c \in Used' :
       Proceed(k, pc, c) /\ (Fresh(k, "configure") => gen' = gen + 1)

\* Clients are made by /configure, or by /start.
Growth(k) ==
  \/ gen' = gen /\ Used' = Used
  \/ /\ gen' = gen + 1 /\ Fresh(k, "configure")
     /\ \/ Used' = Used
        \/ impl \in {"neutrino", "kyoto"} /\ \E c \in Clients : Used' = Used \cup {c}
  \/ /\ gen' = gen /\ Fresh(k, "start") /\ impl \notin {"neutrino", "kyoto"}
     /\ \E c \in Clients : Used' = Used \cup {c}

ClientsOK ==
  /\ client' \in [Clients -> ClientRec]
  /\ \A c \in Clients : client'[c].gen <= gen'
  /\ inst' \in {0} \cup Clients
  /\ inst' # 0 /\ impl # "fake" => inst' \in Used'

LEMMA FiniteCalls ==
  /\ IsFiniteSet(Used) /\ Cardinality(Used) \in Nat
  /\ \A op : IsFiniteSet(Asked(op)) /\ Cardinality(Asked(op)) \in Nat
  /\ IsFiniteSet(Clients) /\ Cardinality(Clients) = MaxConfigures
<1>1. MaxConfigures \in Nat /\ MaxGivenUp \in Nat
  BY AdapterAssumption
<1>2. IsFiniteSet(Calls)
  BY <1>1, FS_Interval DEF Calls
<1>3. IsFiniteSet(Clients) /\ Cardinality(Clients) = MaxConfigures
  BY <1>1, FS_Interval DEF Clients
<1>4. \A op : IsFiniteSet(Asked(op))
  BY <1>2, FS_Subset DEF Asked
<1>5. IsFiniteSet(Used)
  BY <1>3, FS_Subset DEF Used
<1> QED
  BY <1>3, <1>4, <1>5, FS_CardinalityType

LEMMA OneMore ==
  ASSUME NEW S, IsFiniteSet(S), NEW x, NEW T, T \subseteq S \cup {x}
  PROVE  Cardinality(T) \in Nat /\ Cardinality(T) <= Cardinality(S) + 1
<1>1. /\ IsFiniteSet(S \cup {x}) /\ Cardinality(S) \in Nat
      /\ Cardinality(S \cup {x}) = IF x \in S THEN Cardinality(S) ELSE Cardinality(S) + 1
  BY FS_AddElement, FS_CardinalityType
<1>2. IsFiniteSet(T) /\ Cardinality(T) <= Cardinality(S \cup {x})
  BY <1>1, FS_Subset
<1>3. Cardinality(T) \in Nat
  BY <1>2, FS_CardinalityType
<1> QED
  BY <1>1, <1>2, <1>3

LEMMA OneLess ==
  ASSUME NEW S, IsFiniteSet(S), NEW x, NEW T, T \subseteq S \ {x}
  PROVE  /\ Cardinality(T) \in Nat /\ Cardinality(T) <= Cardinality(S)
         /\ x \in S => Cardinality(T) <= Cardinality(S) - 1
<1>1. /\ IsFiniteSet(S \ {x}) /\ Cardinality(S) \in Nat
      /\ Cardinality(S \ {x}) = IF x \in S THEN Cardinality(S) - 1 ELSE Cardinality(S)
  BY FS_RemoveElement, FS_CardinalityType
<1>2. IsFiniteSet(T) /\ Cardinality(T) <= Cardinality(S \ {x})
  BY <1>1, FS_Subset
<1>3. Cardinality(T) \in Nat
  BY <1>2, FS_CardinalityType
<1> QED
  BY <1>1, <1>2, <1>3

LEMMA SumStays ==
  ASSUME NEW u \in Nat, NEW s \in Nat, NEW d \in Nat, NEW g \in Nat, u + s + d <= g,
         NEW u1 \in Nat, NEW s1 \in Nat, NEW d1 \in Nat, NEW g1 \in Nat,
         \/ u1 <= u /\ s1 <= s /\ d1 <= d /\ g1 >= g
         \/ u1 <= u /\ s1 <= s /\ d1 <= d + 1 /\ g1 >= g + 1
         \/ u1 <= u + 1 /\ s1 <= s - 1 /\ d1 <= d /\ g1 >= g
         \/ u1 <= u /\ s1 <= s + 1 /\ d1 <= d - 1 /\ g1 >= g
  PROVE  u1 + s1 + d1 <= g1
OBVIOUS

LEMMA HandlerKeeps ==
  ASSUME AdapterInv, NEW k \in Calls, call[k] # Idle, impl' = impl,
         Handled(k), Growth(k), ClientsOK
  PROVE  CallInv' /\ ClientInv' /\ CountInv'
<1> DEFINE Skips == ~ Fresh(k, "configure") \/ gen' = gen
<1>1. Used \subseteq Used' /\ Used' \subseteq Clients
  BY DEF Growth, Used
<1>2. /\ CallInv'
      /\ \A op : Asked(op)' = Asked(op) \ {k}
      /\ \A j \in Calls : call'[j].client # 0 => call'[j].client \in Used'
      /\ Due' <= Due + 1
      /\ Skips => Due' <= Due
  <2>1. \A j \in Calls : call[j].client # 0 => call[j].client \in Used'
    BY <1>1 DEF AdapterInv, ClientInv
  <2>2. gen \in Nat
    BY DEF AdapterInv, CountInv
  <2>3. ASSUME NEW ok \in BOOLEAN, Respond(k, ok), ok /\ Fresh(k, "configure") => gen' = gen + 1
        PROVE  /\ CallInv'
               /\ \A op : Asked(op)' = Asked(op) \ {k}
               /\ \A j \in Calls : call'[j].client # 0 => call'[j].client \in Used'
               /\ Due' <= Due + 1
               /\ Skips => Due' <= Due
    <3>1. Skips => call[k].op # "configure" \/ ok = FALSE \/ call[k].pc # "called"
      BY <2>2, <2>3 DEF Fresh
    <3> QED
      BY <2>1, <2>3, <3>1, RespondCalls DEF AdapterInv
  <2>4. ASSUME NEW pc \in Places(call[k].op) \ {"called"}, NEW c \in Used', Proceed(k, pc, c),
               Fresh(k, "configure") => gen' = gen + 1
        PROVE  /\ CallInv'
               /\ \A op : Asked(op)' = Asked(op) \ {k}
               /\ \A j \in Calls : call'[j].client # 0 => call'[j].client \in Used'
               /\ Due' <= Due + 1
               /\ Skips => Due' <= Due
    <3>1. Skips => call[k].op # "configure" \/ call[k].pc # "called"
      BY <2>2, <2>4 DEF Fresh
    <3>2. c \in Clients
      BY <1>1
    <3> QED
      BY <2>1, <2>4, <3>1, <3>2, ProceedCalls DEF AdapterInv
  <2> QED
    BY <2>3, <2>4 DEF Handled
<1>3. ClientInv'
  BY <1>2 DEF ClientInv, ClientsOK
<1> DEFINE a == Cardinality(Asked("configure"))
           s == Cardinality(Asked("start"))
           u == Cardinality(Used)
<1>4. /\ a \in Nat /\ s \in Nat /\ u \in Nat /\ gen \in Nat /\ MaxConfigures \in Nat
      /\ gen + a <= MaxConfigures
      /\ impl \in {"neutrino", "kyoto"} => u <= gen
      /\ impl \in {"nakamoto", "wasabi"} => u + s + Due <= gen
  BY FiniteCalls, AdapterAssumption DEF AdapterInv, CountInv
<1>5. Due \in Nat /\ Due' \in Nat
  BY DEF Due
<1>6. /\ Cardinality(Asked("configure")') <= a /\ Cardinality(Asked("start")') <= s
      /\ Cardinality(Asked("configure")') \in Nat /\ Cardinality(Asked("start")') \in Nat
      /\ Fresh(k, "configure") => Cardinality(Asked("configure")') <= a - 1
      /\ Fresh(k, "start") => Cardinality(Asked("start")') <= s - 1
  <2>1. \A op : Fresh(k, op) => k \in Asked(op)
    BY DEF Fresh, Asked
  <2>2. IsFiniteSet(Asked("configure")) /\ IsFiniteSet(Asked("start"))
    BY FiniteCalls
  <2>3. Asked("configure")' \subseteq Asked("configure") \ {k}
    BY <1>2
  <2>4. Asked("start")' \subseteq Asked("start") \ {k}
    BY <1>2
  <2>5. /\ Cardinality(Asked("configure")') \in Nat /\ Cardinality(Asked("configure")') <= a
        /\ k \in Asked("configure") => Cardinality(Asked("configure")') <= a - 1
    BY <2>2, <2>3, OneLess
  <2>6. /\ Cardinality(Asked("start")') \in Nat /\ Cardinality(Asked("start")') <= s
        /\ k \in Asked("start") => Cardinality(Asked("start")') <= s - 1
    BY <2>2, <2>4, OneLess
  <2> QED
    BY <2>1, <2>5, <2>6
<1>7. \A c \in Clients : client'[c].gen <= gen'
  BY DEF ClientsOK
<1> DEFINE a1 == Cardinality(Asked("configure")')
           s1 == Cardinality(Asked("start")')
           u1 == Cardinality(Used')
           d  == Due
           d1 == Due'
<1>8. CountInv' <=> /\ gen' \in Nat
                    /\ \A c \in Clients : client'[c].gen <= gen'
                    /\ gen' + a1 <= MaxConfigures
                    /\ impl' \in {"neutrino", "kyoto"} => u1 <= gen'
                    /\ impl' \in {"nakamoto", "wasabi"} => u1 + s1 + d1 <= gen'
  BY DEF CountInv
<1>9. u1 \in Nat /\ u1 <= u + 1
  <2>1. PICK c : Used' \subseteq Used \cup {c}
    BY DEF Growth
  <2> QED
    BY <2>1, FiniteCalls, OneMore
<1>10. /\ a1 \in Nat /\ s1 \in Nat /\ a1 <= a /\ s1 <= s
       /\ Fresh(k, "configure") => a1 <= a - 1
       /\ Fresh(k, "start") => s1 <= s - 1
       /\ Used' = Used => u1 = u
       /\ d1 <= d + 1 /\ (Skips => d1 <= d)
       /\ d \in Nat /\ d1 \in Nat /\ (impl \in {"nakamoto", "wasabi"} => u + s + d <= gen)
  BY <1>2, <1>4, <1>5, <1>6
<1>11. CountInv'
  <2> HIDE DEF a, s, u, a1, s1, u1, d, d1
  <2>1. CASE gen' = gen /\ Used' = Used
    <3>1. d1 <= d /\ u1 = u
      BY <1>10, <2>1
    <3>2. gen' + a1 <= MaxConfigures
      BY <1>4, <1>10, <2>1
    <3>3. impl' \in {"neutrino", "kyoto"} => u1 <= gen'
      BY <1>4, <2>1, <3>1
    <3>4. impl' \in {"nakamoto", "wasabi"} => u1 + s1 + d1 <= gen'
      <4>1. u1 <= u /\ s1 <= s /\ d1 <= d /\ gen' >= gen /\ gen' \in Nat
        BY <1>4, <1>10, <2>1, <3>1
      <4> QED
        BY <1>4, <1>5, <1>9, <1>10, <4>1, SumStays
    <3> QED
      BY <1>4, <1>7, <1>8, <2>1, <3>2, <3>3, <3>4
  <2>2. CASE /\ gen' = gen + 1 /\ Fresh(k, "configure")
             /\ \/ Used' = Used
                \/ impl \in {"neutrino", "kyoto"} /\ \E c \in Clients : Used' = Used \cup {c}
    <3>1. gen' \in Nat /\ gen' + a1 <= MaxConfigures
      BY <1>4, <1>10, <2>2
    <3>2. impl' \in {"neutrino", "kyoto"} => u1 <= gen'
      BY <1>4, <1>9, <2>2
    <3>3. impl' \in {"nakamoto", "wasabi"} => u1 + s1 + d1 <= gen'
      <4> SUFFICES ASSUME impl \in {"nakamoto", "wasabi"}
                   PROVE  u1 + s1 + d1 <= gen'
        OBVIOUS
      <4>1. u1 = u
        BY <1>10, <2>2
      <4>2. u1 <= u /\ s1 <= s /\ d1 <= d + 1 /\ gen' >= gen + 1 /\ gen' \in Nat
        BY <1>4, <1>10, <2>2, <4>1
      <4> QED
        BY <1>4, <1>5, <1>9, <1>10, <4>2, SumStays
    <3> QED
      BY <1>7, <1>8, <3>1, <3>2, <3>3
  <2>3. CASE /\ gen' = gen /\ Fresh(k, "start") /\ impl \notin {"neutrino", "kyoto"}
             /\ \E c \in Clients : Used' = Used \cup {c}
    <3>1. gen' \in Nat /\ gen' + a1 <= MaxConfigures
      BY <1>4, <1>10, <2>3
    <3>2. d1 <= d
      BY <1>10, <2>3
    <3>3. impl' \in {"nakamoto", "wasabi"} => u1 + s1 + d1 <= gen'
      <4>1. u1 <= u + 1 /\ s1 <= s - 1 /\ d1 <= d /\ gen' >= gen /\ gen' \in Nat
        BY <1>4, <1>9, <1>10, <2>3, <3>2
      <4> QED
        BY <1>4, <1>5, <1>9, <1>10, <4>1, SumStays
    <3> QED
      BY <1>7, <1>8, <2>3, <3>1, <3>3
  <2> QED
    BY <2>1, <2>2, <2>3 DEF Growth
<1> QED
  BY <1>2, <1>3, <1>11

LEMMA HarnessKeeps ==
  ASSUME AdapterInv, Harness
  PROVE  AdapterInv'
<1>1. /\ CallInv' /\ UNCHANGED <<impl, alive, stateVars, client, scan, historyVars>>
      /\ \A j \in Calls : call'[j].client # 0 => call'[j].client = call[j].client
      /\ \/ Asked("configure")' = Asked("configure")
         \/ /\ gen + Cardinality({k \in Calls : call[k].op = "configure"}) < MaxConfigures
            /\ \E k \in Calls : Asked("configure")' = Asked("configure") \cup {k}
      /\ \/ Asked("start")' = Asked("start") /\ Due' <= Due
         \/ Due = 1 /\ Due' = 0 /\ \E k \in Calls : Asked("start")' = Asked("start") \cup {k}
  BY HarnessCalls DEF AdapterInv
<1>2. FlagInv' /\ WatchInv' /\ FindsInv' /\ ScanInv'
  BY <1>1 DEF AdapterInv, FlagInv, WatchInv, FindsInv, ScanInv, ScanOK, stateVars, historyVars, Expected
<1>3. Used' = Used
  BY <1>1 DEF Used
<1>4. ClientInv'
  BY <1>1, <1>3 DEF AdapterInv, ClientInv, stateVars
<1>5. CountInv'
  <2> DEFINE a == Cardinality(Asked("configure"))
             s == Cardinality(Asked("start"))
             u == Cardinality(Used)
             a1 == Cardinality(Asked("configure")')
             s1 == Cardinality(Asked("start")')
             d == Due
             d1 == Due'
             all == {k \in Calls : call[k].op = "configure"}
  <2>1. /\ a \in Nat /\ s \in Nat /\ u \in Nat /\ gen \in Nat /\ MaxConfigures \in Nat
        /\ gen + a <= MaxConfigures
        /\ impl \in {"neutrino", "kyoto"} => u <= gen
        /\ impl \in {"nakamoto", "wasabi"} => u + s + Due <= gen
    BY FiniteCalls, AdapterAssumption DEF AdapterInv, CountInv
  <2>2. d \in Nat /\ d1 \in Nat /\ (impl \in {"nakamoto", "wasabi"} => u + s + d <= gen)
    BY <2>1 DEF Due
  <2>3. a <= Cardinality(all) /\ Cardinality(all) \in Nat
    <3>1. IsFiniteSet(all)
      <4>1. IsFiniteSet(Calls)
        BY AdapterAssumption, FS_Interval DEF Calls
      <4> QED
        BY <4>1, FS_Subset
    <3>2. Asked("configure") \subseteq all
      BY DEF Asked
    <3> QED
      BY <3>1, <3>2, FS_Subset, FS_CardinalityType
  <2>4. IsFiniteSet(Asked("configure")) /\ IsFiniteSet(Asked("start"))
    BY FiniteCalls
  <2>5. a1 \in Nat /\ (a1 = a \/ (gen + Cardinality(all) < MaxConfigures /\ a1 <= a + 1))
    <3>1. CASE Asked("configure")' = Asked("configure")
      BY <2>1, <3>1
    <3>2. CASE /\ gen + Cardinality(all) < MaxConfigures
               /\ \E k \in Calls : Asked("configure")' = Asked("configure") \cup {k}
      <4>1. PICK k : Asked("configure")' \subseteq Asked("configure") \cup {k}
        BY <3>2
      <4> QED
        BY <2>4, <3>2, <4>1, OneMore
    <3> QED
      BY <1>1, <3>1, <3>2
  <2>6. s1 \in Nat /\ ((s1 = s /\ d1 <= d) \/ (d = 1 /\ d1 = 0 /\ s1 <= s + 1))
    <3>1. CASE Asked("start")' = Asked("start") /\ Due' <= Due
      BY <2>1, <3>1
    <3>2. CASE Due = 1 /\ Due' = 0 /\ \E k \in Calls : Asked("start")' = Asked("start") \cup {k}
      <4>1. PICK k : Asked("start")' \subseteq Asked("start") \cup {k}
        BY <3>2
      <4> QED
        BY <2>4, <3>2, <4>1, OneMore
    <3> QED
      BY <1>1, <3>1, <3>2
  <2>7. /\ gen' = gen /\ impl' = impl /\ client' = client
        /\ \A c \in Clients : client[c].gen <= gen
    BY <1>1 DEF AdapterInv, CountInv, stateVars
  <2>8. CountInv' <=> /\ gen \in Nat
                      /\ gen + a1 <= MaxConfigures
                      /\ impl \in {"neutrino", "kyoto"} => u <= gen
                      /\ impl \in {"nakamoto", "wasabi"} => u + s1 + d1 <= gen
    BY <1>3, <2>7 DEF CountInv
  <2> HIDE DEF a, s, u, a1, s1, d, d1, all
  <2>9. gen + a1 <= MaxConfigures
    BY <2>1, <2>3, <2>5
  <2>10. ASSUME impl \in {"nakamoto", "wasabi"}
         PROVE  u + s1 + d1 <= gen
    <3>1. u + s + d <= gen /\ u <= u /\ gen >= gen
      BY <2>1, <2>2, <2>10
    <3>2. (s1 <= s /\ d1 <= d) \/ (s1 <= s + 1 /\ d1 <= d - 1)
      BY <2>1, <2>2, <2>6
    <3> QED
      BY <2>1, <2>2, <2>6, <3>1, <3>2, SumStays
  <2> QED
    BY <2>1, <2>8, <2>9, <2>10
<1> QED
  BY <1>1, <1>2, <1>4, <1>5 DEF AdapterInv

LEMMA LeastExists ==
  ASSUME NEW S, S \subseteq Nat, S # {}
  PROVE  \E k \in S : \A j \in S : k <= j
<1>1. PICK k \in S : \A j \in S : <<j, k>> \notin OpToRel(<, Nat)
  BY WFMin, NatLessThanWellFounded, Zenon
<1>2. k \in Nat /\ \A j \in S : j \in Nat /\ ~(j < k)
  BY <1>1 DEF OpToRel
<1> QED
  BY <1>2

\* A handler that makes a client finds a number for it.
LEMMA NewClientIs ==
  ASSUME AdapterInv, NEW k \in Calls,
         \/ impl \in {"neutrino", "kyoto"} /\ Fresh(k, "configure")
         \/ impl \in {"nakamoto", "wasabi"} /\ Fresh(k, "start")
  PROVE  NewClient \in Clients /\ NewClient \notin Used
<1> DEFINE a == Cardinality(Asked("configure"))
           s == Cardinality(Asked("start"))
           u == Cardinality(Used)
<1>1. /\ a \in Nat /\ s \in Nat /\ u \in Nat /\ gen \in Nat /\ MaxConfigures \in Nat
      /\ gen + a <= MaxConfigures
      /\ impl \in {"neutrino", "kyoto"} => u <= gen
      /\ impl \in {"nakamoto", "wasabi"} => u + s + Due <= gen
  BY FiniteCalls, AdapterAssumption DEF AdapterInv, CountInv
<1>2. \A op : Fresh(k, op) => Cardinality(Asked(op)) # 0
  <2> SUFFICES ASSUME NEW op, Fresh(k, op)
               PROVE  Cardinality(Asked(op)) # 0
    OBVIOUS
  <2>1. Asked(op) # {}
    BY DEF Fresh, Asked
  <2>2. IsFiniteSet(Asked(op))
    BY FiniteCalls
  <2> QED
    BY <2>1, <2>2, FS_EmptySet
<1>3. Due \in {0, 1}
  BY DEF Due
<1>4. u < MaxConfigures
  <2>1. (impl \in {"neutrino", "kyoto"} /\ a # 0) \/ (impl \in {"nakamoto", "wasabi"} /\ s # 0)
    BY <1>2
  <2> HIDE DEF a, s, u
  <2> QED
    BY <1>1, <1>3, <2>1
<1>5. Used # Clients
  BY <1>4, FiniteCalls
<1> DEFINE Free == {c \in Clients : client[c] = NoClient}
<1>6. Free # {} /\ Free \subseteq Nat
  BY <1>5 DEF Used, Clients
<1>7. PICK c \in Free : \A d \in Free : c <= d
  BY <1>6, LeastExists
<1>8. \E e \in Clients : /\ client[e] = NoClient
                         /\ \A d \in Clients : client[d] = NoClient => e <= d
  BY <1>7
<1>9. NewClient \in Clients /\ client[NewClient] = NoClient
  BY <1>8 DEF NewClient
<1> QED
  BY <1>9 DEF Used

LEMMA ClientStops ==
  ASSUME ClientInv, impl # "fake", NEW cs,
         cs = IF inst = 0 THEN client ELSE [client EXCEPT ![inst].st = "stopped"]
  PROVE  /\ cs \in [Clients -> ClientRec]
         /\ \A c \in Clients : /\ cs[c].gen = client[c].gen
                               /\ cs[c] = NoClient <=> c \notin Used
                               /\ cs[c].st = IF c = inst THEN "stopped" ELSE client[c].st
<1>1. CASE inst = 0
  BY <1>1 DEF ClientInv, Used, Clients
<1>2. CASE inst # 0
  <2>1. inst \in Clients /\ client[inst] # NoClient /\ cs = [client EXCEPT ![inst].st = "stopped"]
    BY <1>2 DEF ClientInv, Used
  <2>2. cs \in [Clients -> ClientRec]
    BY <2>1 DEF ClientInv, ClientRec
  <2>3. \A c \in Clients : c # inst => cs[c] = client[c]
    BY <2>1 DEF ClientInv
  <2>4. cs[inst].st = "stopped" /\ cs[inst].gen = client[inst].gen
    BY <2>1 DEF ClientInv, ClientRec
  <2>5. cs[inst] # NoClient
    BY <2>4 DEF NoClient
  <2> QED
    BY <2>1, <2>2, <2>3, <2>4, <2>5 DEF Used
<1> QED
  BY <1>1, <1>2

WithState(c, st) == [client EXCEPT ![c].st = st]

LEMMA ClientBecomes ==
  ASSUME ClientInv, NEW c \in Used, NEW st \in {"built", "running", "stopped", "orphan"}, NEW cs,
         cs = WithState(c, st)
  PROVE  /\ cs \in [Clients -> ClientRec]
         /\ \A d \in Clients : /\ cs[d].gen = client[d].gen
                               /\ cs[d] = NoClient <=> d \notin Used
                               /\ cs[d].st = IF d = c THEN st ELSE client[d].st
<1>1. c \in Clients /\ client[c] # NoClient
  BY DEF Used
<1>2. cs \in [Clients -> ClientRec]
  BY <1>1 DEF ClientInv, ClientRec, WithState
<1>3. \A d \in Clients : d # c => cs[d] = client[d]
  BY <1>1 DEF ClientInv, WithState
<1>4. cs[c].st = st /\ cs[c].gen = client[c].gen
  BY <1>1 DEF ClientInv, ClientRec, WithState
<1>5. cs[c] # NoClient
  BY <1>4 DEF NoClient
<1> QED
  BY <1>1, <1>2, <1>3, <1>4, <1>5 DEF Used

Made(base, c, g) == [base EXCEPT ![c] = [gen |-> g, st |-> "built"]]

LEMMA ClientMade ==
  ASSUME NEW base \in [Clients -> ClientRec], NEW c \in Clients, NEW g \in Nat, NEW cs,
         cs = Made(base, c, g)
  PROVE  /\ cs \in [Clients -> ClientRec]
         /\ cs[c].gen = g /\ cs[c].st = "built" /\ cs[c] # NoClient
         /\ \A d \in Clients : d # c => cs[d] = base[d]
BY DEF ClientRec, NoClient, Made

-----------------------------------------------------------------------------
(* The handlers of each adapter. *)

HandlerOK(k) ==
  /\ call[k] # Idle /\ impl' = impl /\ FlagInv'
  /\ Handled(k) /\ Growth(k) /\ ClientsOK
  /\ WatchInv' /\ ScanInv'

LEMMA CalledIs ==
  ASSUME NEW k \in Calls, NEW op \in Ops, Called(k, op)
  PROVE  call[k] # Idle /\ Fresh(k, op) /\ \A o : o # op => ~ Fresh(k, o)
BY DEF Called, Fresh, Idle, Ops

LEMMA AtIs ==
  ASSUME NEW k \in Calls, NEW op \in Ops, NEW pc, pc # "called", At(k, op, pc)
  PROVE  call[k] # Idle /\ \A o : ~ Fresh(k, o)
BY DEF At, Fresh, Idle, Ops

LEMMA SameWatches ==
  ASSUME AdapterInv, UNCHANGED <<watches, cursor>>
  PROVE  WatchInv'
BY DEF AdapterInv, WatchInv

LEMMA NoWatches ==
  ASSUME watches' = Nothing, cursor' = Nothing
  PROVE  WatchInv'
BY DEF WatchInv, Nothing

LEMMA OneWatch ==
  ASSUME AdapterInv, NEW k \in Calls, Fresh(k, "watch"),
         watches' = Put(watches, call[k].script, call[k].start),
         cursor' = cursor \/ cursor' = Put(cursor, call[k].script, call[k].start)
  PROVE  WatchInv' /\ call[k].script \in Scripts
<1>1. call[k].script \in Scripts /\ call[k].start \in StartHeights[call[k].script]
  BY DEF AdapterInv, CallInv, CallOK, Fresh, Idle
<1>2. call[k].start \in 1 .. Tip + 1
  BY <1>1, AdapterAssumption
<1>3. WatchInv
  BY DEF AdapterInv
<1> HIDE DEF AdapterInv
<1> QED
  BY <1>1, <1>2, <1>3 DEF WatchInv, Put

LEMMA SameScans ==
  ASSUME AdapterInv, impl' = impl, UNCHANGED <<scan, rescanQuit>>, missed' \subseteq Heights
  PROVE  ScanInv'
BY DEF AdapterInv, ScanInv, ScanOK

LEMMA NoScanIs == NoScan \in ScanRec /\ ScanOK(NoScan)
<1>1. Tip \in Nat
  BY AdapterAssumption
<1> QED
  BY <1>1 DEF NoScan, ScanRec, ScanOK

\* Scans that are as they were or have ended.
LEMMA EndedScans ==
  ASSUME AdapterInv, impl' = impl, rescanQuit' \in {0} \cup Scanners, missed' \subseteq Heights,
         DOMAIN scan' = Scanners, scan' = [r \in Scanners |-> scan'[r]],
         \A r \in Scanners : scan'[r] = scan[r] \/ scan'[r] = NoScan
  PROVE  ScanInv'
<1>1. \A r \in Scanners : scan'[r] \in ScanRec /\ ScanOK(scan'[r])
  BY NoScanIs DEF AdapterInv, ScanInv
<1>2. \A x : ScanOK(x)' <=> ScanOK(x)
  BY DEF ScanOK
<1> QED
  BY <1>1, <1>2 DEF ScanInv, ScanOK

LEMMA OneScan ==
  ASSUME AdapterInv, impl' = impl, rescanQuit' \in {0} \cup Scanners, missed' \subseteq Heights,
         NEW r \in Scanners, NEW x \in ScanRec, ScanOK(x), scan' = [scan EXCEPT ![r] = x]
  PROVE  ScanInv'
<1>1. \A q \in Scanners : scan'[q] \in ScanRec /\ ScanOK(scan'[q])
  BY DEF AdapterInv, ScanInv
<1>2. DOMAIN scan' = Scanners /\ scan' = [q \in Scanners |-> scan'[q]]
  BY DEF AdapterInv, ScanInv
<1> QED
  BY <1>1, <1>2 DEF ScanInv, ScanOK

LEMMA RefuseOK ==
  ASSUME AdapterInv, NEW k \in Calls, Refuse(k)
  PROVE  HandlerOK(k)
<1>1. call[k] # Idle
  BY CalledIs DEF Refuse, Ops
<1>2. Handled(k)
  BY DEF Refuse, Handled
<1>3. Growth(k) /\ ClientsOK
  BY DEF Refuse, Growth, ClientsOK, stateVars, AdapterInv, ClientInv, CountInv, Used
<1>4. WatchInv' /\ ScanInv'
  <2>1. UNCHANGED <<impl, watches, cursor, scan, rescanQuit, missed>>
    BY DEF Refuse, stateVars, historyVars
  <2>2. missed' \subseteq Heights
    BY <2>1 DEF AdapterInv, ScanInv
  <2> QED
    BY <2>1, <2>2, SameWatches, SameScans
<1>5. impl' = impl /\ FlagInv'
  BY DEF Refuse, FlagInv, AdapterInv, historyVars
<1> QED
  BY <1>1, <1>2, <1>3, <1>4, <1>5 DEF HandlerOK

ScanAt(c, s, h) == [client |-> c, script |-> s, at |-> h, blk |-> 0, st |-> "on"]

LEMMA ScanFrom ==
  ASSUME NEW c, NEW s, NEW h, NEW x,
         x = [NoScan EXCEPT !.client = c, !.script = s, !.at = h, !.st = "on"]
  PROVE  x = ScanAt(c, s, h)
BY DEF NoScan, ScanAt

LEMMA ScanFromFirst ==
  ASSUME NEW c, NEW x, x = [NoScan EXCEPT !.client = c, !.at = 1, !.st = "on"]
  PROVE  x = ScanAt(c, NoScript, 1)
BY DEF NoScan, ScanAt

LEMMA ScanFromNone ==
  ASSUME NEW c, NEW x, x = [NoScan EXCEPT !.client = c, !.st = "on"]
  PROVE  x = ScanAt(c, NoScript, 0)
BY DEF NoScan, ScanAt

LEMMA ScanAtOK ==
  ASSUME NEW c \in {0} \cup Clients, NEW s \in Scripts \cup {NoScript}, NEW h \in 0 .. Tip,
         h # 0 \/ impl # "kyoto"
  PROVE  ScanAt(c, s, h) \in ScanRec /\ ScanOK(ScanAt(c, s, h))
<1>1. Tip \in Nat
  BY AdapterAssumption
<1> QED
  BY <1>1 DEF ScanAt, ScanRec, ScanOK

LEMMA NeutrinoHandlerOK ==
  ASSUME AdapterInv, impl = "neutrino", NEW k \in Calls, NeutrinoHandler(k)
  PROVE  HandlerOK(k)
<1>1. /\ FlagInv /\ ClientInv /\ CountInv /\ ScanInv /\ gen \in Nat
      /\ \A c \in Clients : client[c].gen <= gen
  BY DEF AdapterInv, CountInv
<1>2. missed \subseteq Heights /\ {} \subseteq Heights
  BY <1>1 DEF ScanInv
<1> DEFINE ended == Close(rescanQuit)
           stopped == StopService(client)
<1>3. /\ DOMAIN ended = Scanners /\ ended = [r \in Scanners |-> ended[r]]
      /\ \A r \in Scanners : ended[r] = scan[r] \/ ended[r] = NoScan
  BY DEF Close
<1>4. /\ stopped \in [Clients -> ClientRec]
      /\ \A c \in Clients : stopped[c].gen = client[c].gen /\ (stopped[c] = NoClient <=> c \notin Used)
  BY <1>1, ClientStops DEF StopService
<1>5. CASE NeutrinoConfigure(k)
  <2>1. /\ Called(k, "configure") /\ scan' = ended /\ rescanQuit' = 0
        /\ UNCHANGED <<impl, alive, straggler>>
    BY <1>5 DEF NeutrinoConfigure
  <2>2. call[k] # Idle /\ Fresh(k, "configure")
    BY <2>1, CalledIs DEF Ops
  <2>3. CASE /\ inst' = NewClient
             /\ client' = [stopped EXCEPT ![NewClient] = [gen |-> gen + 1, st |-> "built"]]
             /\ Clear /\ Respond(k, TRUE)
    <3>1. NewClient \in Clients /\ NewClient \notin Used
      BY <2>2, NewClientIs
    <3>2. gen' = gen + 1 /\ gen + 1 \in Nat /\ missed' = {}
      BY <1>1, <2>3 DEF Clear
    <3> DEFINE new == NewClient
    <3> HIDE DEF new, stopped
    <3>3. /\ client' \in [Clients -> ClientRec]
          /\ client'[new].gen = gen + 1 /\ client'[new] # NoClient
          /\ \A d \in Clients : d # new => client'[d] = stopped[d]
      <4>1. client' = Made(stopped, new, gen + 1)
        BY <2>3 DEF Made, new
      <4>2. new \in Clients
        BY <3>1 DEF new
      <4> QED
        BY <1>4, <3>2, <4>1, <4>2, ClientMade
    <3>4. Used' = Used \cup {new}
      BY <1>4, <3>1, <3>3 DEF Used, new
    <3>5. \A c \in Clients : client'[c].gen <= gen'
      <4> SUFFICES ASSUME NEW c \in Clients
                   PROVE  client'[c].gen <= gen + 1
        BY <3>2
      <4>1. client[c].gen \in Nat /\ client[c].gen <= gen
        BY <1>1 DEF ClientInv, ClientRec
      <4>2. client'[c].gen = gen + 1 \/ client'[c].gen = client[c].gen
        BY <1>4, <3>3
      <4> QED
        BY <1>1, <4>1, <4>2
    <3>6. ClientsOK
      BY <2>3, <3>1, <3>3, <3>4, <3>5 DEF ClientsOK, new
    <3>7. Growth(k)
      BY <2>2, <3>1, <3>2, <3>4 DEF Growth, new
    <3>8. Handled(k)
      BY <2>3, <3>2 DEF Handled
    <3>9. WatchInv'
      BY <2>3, NoWatches DEF Clear
    <3>10. ScanInv'
      BY <1>2, <1>3, <2>1, <3>2, EndedScans
    <3> QED
      BY <1>1, <2>1, <2>2, <3>6, <3>7, <3>8, <3>9, <3>10 DEF HandlerOK, FlagInv
  <2>4. CASE /\ inst' = 0 /\ client' = stopped /\ Respond(k, FALSE)
             /\ UNCHANGED <<gen, watches, outpoints, matches, cursor, missed>>
    <3>1. Used' = Used
      BY <1>4, <2>4 DEF Used
    <3>2. Growth(k) /\ ClientsOK
      BY <1>1, <1>4, <2>4, <3>1 DEF Growth, ClientsOK
    <3>3. Handled(k)
      BY <2>4 DEF Handled
    <3>4. WatchInv' /\ ScanInv'
      BY <1>2, <1>3, <2>1, <2>4, EndedScans, SameWatches
    <3> QED
      BY <1>1, <2>1, <2>2, <3>2, <3>3, <3>4 DEF HandlerOK, FlagInv
  <2> QED
    BY <1>5, <2>3, <2>4 DEF NeutrinoConfigure
<1>6. CASE NeutrinoStart(k)
  <2>1. /\ Called(k, "start") /\ UNCHANGED <<impl, alive, stateVars, client, scan, historyVars>>
        /\ IF inst = 0 THEN Respond(k, FALSE) ELSE Proceed(k, "start", inst)
    BY <1>6 DEF NeutrinoStart
  <2>2. call[k] # Idle /\ Fresh(k, "start") /\ ~ Fresh(k, "configure")
    BY <2>1, CalledIs DEF Ops
  <2>3. Used' = Used
    BY <2>1 DEF Used
  <2>4. Handled(k)
    <3>1. inst # 0 => inst \in Used'
      BY <1>1, <2>3 DEF ClientInv
    <3>2. "start" \in Places(call[k].op) \ {"called"}
      BY <2>2 DEF Fresh, Places
    <3> QED
      BY <2>1, <2>2, <3>1, <3>2 DEF Handled
  <2>5. Growth(k) /\ ClientsOK
    BY <1>1, <2>1, <2>3 DEF Growth, ClientsOK, ClientInv, stateVars
  <2>6. WatchInv' /\ ScanInv'
    BY <1>2, <2>1, SameWatches, SameScans DEF stateVars, historyVars
  <2> QED
    BY <1>1, <2>1, <2>2, <2>4, <2>5, <2>6 DEF HandlerOK, FlagInv, historyVars
<1>7. CASE NeutrinoStarted(k)
  <2> DEFINE c == call[k].client
  <2>1. /\ At(k, "start", "start") /\ UNCHANGED <<impl, alive, stateVars, scan, historyVars>>
        /\ \/ /\ client' = IF client[c].st = "built" THEN [client EXCEPT ![c].st = "running"] ELSE client
              /\ Respond(k, TRUE)
           \/ UNCHANGED client /\ Respond(k, FALSE)
    BY <1>7 DEF NeutrinoStarted
  <2>2. call[k] # Idle /\ ~ Fresh(k, "configure")
    BY <2>1, AtIs DEF Ops
  <2>3. c \in Used
    BY <1>1, <2>1, <2>2 DEF AdapterInv, CallInv, CallOK, ClientInv, At
  <2>4. /\ client' \in [Clients -> ClientRec]
        /\ \A d \in Clients : client'[d].gen = client[d].gen /\ (client'[d] = NoClient <=> d \notin Used)
    <3>1. CASE client' = [client EXCEPT ![c].st = "running"]
      <4>1. client' = WithState(c, "running")
        BY <3>1 DEF WithState
      <4> HIDE DEF c
      <4> QED
        BY <1>1, <2>3, <4>1, ClientBecomes
    <3>2. CASE client' = client
      BY <1>1, <3>2 DEF ClientInv, Used
    <3> QED
      BY <2>1, <3>1, <3>2
  <2>5. Used' = Used
    BY <2>4 DEF Used
  <2>6. Handled(k)
    BY <2>1, <2>2 DEF Handled
  <2>7. Growth(k) /\ ClientsOK
    BY <1>1, <2>1, <2>4, <2>5 DEF Growth, ClientsOK, ClientInv, stateVars
  <2>8. WatchInv' /\ ScanInv'
    BY <1>2, <2>1, SameWatches, SameScans DEF stateVars, historyVars
  <2> QED
    BY <1>1, <2>1, <2>2, <2>6, <2>7, <2>8 DEF HandlerOK, FlagInv, historyVars
<1>8. CASE NeutrinoStop(k)
  <2>1. /\ Called(k, "stop") /\ scan' = ended /\ rescanQuit' = 0 /\ client' = stopped /\ inst' = 0
        /\ \E ok \in BOOLEAN : Respond(k, ok)
        /\ UNCHANGED <<impl, alive, gen, watches, outpoints, matches, cursor, historyVars>>
    BY <1>8 DEF NeutrinoStop
  <2>2. call[k] # Idle /\ ~ Fresh(k, "configure")
    BY <2>1, CalledIs DEF Ops
  <2>3. Used' = Used
    BY <1>4, <2>1 DEF Used
  <2>4. Handled(k)
    BY <2>1, <2>2 DEF Handled
  <2>5. Growth(k) /\ ClientsOK
    BY <1>1, <1>4, <2>1, <2>3 DEF Growth, ClientsOK
  <2>6. WatchInv' /\ ScanInv'
    BY <1>2, <1>3, <2>1, EndedScans, SameWatches DEF historyVars
  <2> QED
    BY <1>1, <2>1, <2>2, <2>4, <2>5, <2>6 DEF HandlerOK, FlagInv, historyVars
<1>9. CASE NeutrinoWatch(k)
  <2>1. /\ Called(k, "watch") /\ watches' = Put(watches, call[k].script, call[k].start)
        /\ IF inst = 0 THEN Respond(k, FALSE) ELSE Proceed(k, "rescan", inst)
        /\ UNCHANGED <<impl, alive, gen, client, inst, matches, cursor, rescanQuit, scan, historyVars>>
    BY <1>9 DEF NeutrinoWatch
  <2>2. call[k] # Idle /\ Fresh(k, "watch") /\ ~ Fresh(k, "configure")
    BY <2>1, CalledIs DEF Ops
  <2>3. Used' = Used
    BY <2>1 DEF Used
  <2>4. Handled(k)
    <3>1. inst # 0 => inst \in Used'
      BY <1>1, <2>3 DEF ClientInv
    <3>2. "rescan" \in Places(call[k].op) \ {"called"}
      BY <2>2 DEF Fresh, Places
    <3> QED
      BY <2>1, <2>2, <3>1, <3>2 DEF Handled
  <2>5. Growth(k) /\ ClientsOK
    BY <1>1, <2>1, <2>3 DEF Growth, ClientsOK, ClientInv
  <2>6. WatchInv' /\ ScanInv'
    BY <1>2, <2>1, <2>2, OneWatch, SameScans DEF historyVars
  <2> QED
    BY <1>1, <2>1, <2>2, <2>4, <2>5, <2>6 DEF HandlerOK, FlagInv, historyVars
<1>10. CASE NeutrinoRescan(k)
  <2>1. /\ At(k, "watch", "rescan") /\ Respond(k, TRUE)
        /\ UNCHANGED <<impl, alive, gen, inst, watches, outpoints, matches, cursor, client, historyVars>>
    BY <1>10 DEF NeutrinoRescan
  <2>2. PICK r \in Scanners :
          /\ rescanQuit' = r
          /\ scan' = [ended EXCEPT ![r] = [NoScan EXCEPT !.client = call[k].client, !.script = call[k].script,
                                                         !.at = call[k].start, !.st = "on"]]
    BY <1>10 DEF NeutrinoRescan
  <2> DEFINE x == [NoScan EXCEPT !.client = call[k].client, !.script = call[k].script,
                                 !.at = call[k].start, !.st = "on"]
  <2>3. call[k] # Idle /\ ~ Fresh(k, "configure")
    BY <2>1, AtIs DEF Ops
  <2>4. Used' = Used
    BY <2>1 DEF Used
  <2>5. x \in ScanRec /\ ScanOK(x)
    <3>1. call[k] \in CallRec /\ CallOK(call[k])
      BY DEF AdapterInv, CallInv
    <3>2. /\ call[k].client \in {0} \cup Clients /\ call[k].script \in Scripts \cup {NoScript}
          /\ call[k].start \in 0 .. Tip
      BY <3>1 DEF CallRec
    <3>3. call[k].start # 0
      BY <2>1, <2>3, <3>1, AdapterAssumption DEF CallOK, At
    <3>4. \A z : z = x => z = ScanAt(call[k].client, call[k].script, call[k].start)
      BY ScanFrom
    <3> HIDE DEF x
    <3>5. x = ScanAt(call[k].client, call[k].script, call[k].start)
      BY <3>4
    <3> QED
      BY <3>2, <3>3, <3>5, ScanAtOK
  <2>6. ScanInv'
    <3> HIDE DEF x, ended
    <3>1. \A q \in Scanners : scan'[q] \in ScanRec /\ ScanOK(scan'[q])
      BY <1>1, <1>3, <2>2, <2>5, NoScanIs DEF ScanInv, x
    <3>2. DOMAIN scan' = Scanners /\ scan' = [q \in Scanners |-> scan'[q]]
      BY <1>3, <2>2
    <3> QED
      BY <1>1, <1>2, <2>1, <2>2, <3>1, <3>2 DEF ScanInv, ScanOK, historyVars
  <2>7. Handled(k)
    BY <2>1, <2>3 DEF Handled
  <2>8. Growth(k) /\ ClientsOK
    BY <1>1, <2>1, <2>4 DEF Growth, ClientsOK, ClientInv
  <2>9. WatchInv'
    BY <2>1, SameWatches
  <2> QED
    BY <1>1, <2>1, <2>3, <2>6, <2>7, <2>8, <2>9 DEF HandlerOK, FlagInv, historyVars
<1> QED
  BY <1>5, <1>6, <1>7, <1>8, <1>9, <1>10, RefuseOK DEF NeutrinoHandler

LEMMA KyotoHandlerOK ==
  ASSUME AdapterInv, impl = "kyoto", NEW k \in Calls, KyotoHandler(k)
  PROVE  HandlerOK(k)
<1>1. /\ FlagInv /\ ClientInv /\ CountInv /\ ScanInv /\ gen \in Nat
      /\ \A c \in Clients : client[c].gen <= gen
  BY DEF AdapterInv, CountInv
<1>2. missed \subseteq Heights /\ {} \subseteq Heights /\ Tip \in Nat
  BY <1>1, AdapterAssumption DEF ScanInv
<1> DEFINE stopped == StopNode(client)
<1>3. \A sc \in Aborted(scan) :
        /\ DOMAIN sc = Scanners /\ sc = [r \in Scanners |-> sc[r]]
        /\ \A r \in Scanners : sc[r] = scan[r] \/ sc[r] = NoScan
  BY <1>1 DEF Aborted, ScanInv
<1>4. /\ stopped \in [Clients -> ClientRec]
      /\ \A c \in Clients : stopped[c].gen = client[c].gen /\ (stopped[c] = NoClient <=> c \notin Used)
  BY <1>1, ClientStops DEF StopNode
<1>5. Clients \subseteq Scanners
  BY AdapterAssumption DEF Clients, Scanners
<1>6. CASE KyotoConfigure(k)
  <2>1. /\ Called(k, "configure") /\ scan' \in Aborted(scan) /\ inst' = NewClient
        /\ client' = [stopped EXCEPT ![NewClient] = [gen |-> gen + 1, st |-> "built"]]
        /\ Clear /\ Respond(k, TRUE)
        /\ UNCHANGED <<impl, alive, rescanQuit, straggler>>
    BY <1>6 DEF KyotoConfigure
  <2>2. call[k] # Idle /\ Fresh(k, "configure")
    BY <2>1, CalledIs DEF Ops
  <2>3. NewClient \in Clients /\ NewClient \notin Used
    BY <2>2, NewClientIs
  <2>4. gen' = gen + 1 /\ gen + 1 \in Nat /\ missed' = {}
    BY <1>1, <2>1 DEF Clear
  <2> DEFINE new == NewClient
  <2> HIDE DEF new, stopped
  <2>5. /\ client' \in [Clients -> ClientRec]
        /\ client'[new].gen = gen + 1 /\ client'[new] # NoClient
        /\ \A d \in Clients : d # new => client'[d] = stopped[d]
    <3>1. client' = Made(stopped, new, gen + 1)
      BY <2>1 DEF Made, new
    <3>2. new \in Clients
      BY <2>3 DEF new
    <3> QED
      BY <1>4, <2>4, <3>1, <3>2, ClientMade
  <2>6. Used' = Used \cup {new}
    BY <1>4, <2>3, <2>5 DEF Used, new
  <2>7. \A c \in Clients : client'[c].gen <= gen'
    <3> SUFFICES ASSUME NEW c \in Clients
                 PROVE  client'[c].gen <= gen + 1
      BY <2>4
    <3>1. client[c].gen \in Nat /\ client[c].gen <= gen
      BY <1>1 DEF ClientInv, ClientRec
    <3>2. client'[c].gen = gen + 1 \/ client'[c].gen = client[c].gen
      BY <1>4, <2>5
    <3> QED
      BY <1>1, <3>1, <3>2
  <2>8. ClientsOK
    BY <2>1, <2>3, <2>5, <2>6, <2>7 DEF ClientsOK, new
  <2>9. Growth(k)
    BY <2>2, <2>3, <2>4, <2>6 DEF Growth, new
  <2>10. Handled(k)
    BY <2>1, <2>4 DEF Handled
  <2>11. WatchInv'
    BY <2>1, NoWatches DEF Clear
  <2>12. ScanInv'
    BY <1>1, <1>2, <1>3, <2>1, <2>4, EndedScans DEF ScanInv
  <2> QED
    BY <1>1, <2>1, <2>2, <2>8, <2>9, <2>10, <2>11, <2>12 DEF HandlerOK, FlagInv
<1>7. CASE KyotoStart(k)
  <2>1. /\ Called(k, "start") /\ UNCHANGED <<impl, alive, stateVars, historyVars>>
    BY <1>7 DEF KyotoStart
  <2>2. call[k] # Idle /\ ~ Fresh(k, "configure")
    BY <2>1, CalledIs DEF Ops
  <2>3. CASE /\ inst # 0 /\ client' = [client EXCEPT ![inst].st = "running"]
             /\ scan' = [scan EXCEPT ![inst] = [NoScan EXCEPT !.client = inst, !.at = 1, !.st = "on"]]
             /\ Respond(k, TRUE)
    <3>1. inst \in Used /\ inst \in Clients
      BY <1>1, <2>3 DEF ClientInv
    <3>2. /\ client' \in [Clients -> ClientRec]
          /\ \A d \in Clients : client'[d].gen = client[d].gen /\ (client'[d] = NoClient <=> d \notin Used)
      <4>1. client' = WithState(inst, "running")
        BY <2>3 DEF WithState
      <4> QED
        BY <1>1, <3>1, <4>1, ClientBecomes
    <3>3. Used' = Used
      BY <3>2 DEF Used
    <3> DEFINE x == [NoScan EXCEPT !.client = inst, !.at = 1, !.st = "on"]
    <3>4. x \in ScanRec /\ ScanOK(x)
      <4>1. \A z : z = x => z = ScanAt(inst, NoScript, 1)
        BY ScanFromFirst
      <4> HIDE DEF x
      <4>2. x = ScanAt(inst, NoScript, 1) /\ 1 \in 0 .. Tip
        BY <4>1, AdapterAssumption
      <4> HIDE DEF x
      <4>3. inst \in {0} \cup Clients /\ NoScript \in Scripts \cup {NoScript} /\ 1 # 0
        BY <3>1
      <4>4. ScanAt(inst, NoScript, 1) \in ScanRec /\ ScanOK(ScanAt(inst, NoScript, 1))
        BY <4>2, <4>3, ScanAtOK
      <4> QED
        BY <4>2, <4>4
    <3>5. ScanInv'
      <4>1. rescanQuit' \in {0} \cup Scanners /\ missed' \subseteq Heights /\ impl' = impl
        BY <1>1, <1>2, <2>1 DEF ScanInv, stateVars, historyVars
      <4>2. scan' = [scan EXCEPT ![inst] = x] /\ inst \in Scanners
        BY <1>5, <2>3, <3>1
      <4> HIDE DEF x
      <4> QED
        BY <3>4, <4>1, <4>2, OneScan
    <3>6. Growth(k) /\ ClientsOK
      BY <1>1, <2>1, <3>2, <3>3 DEF Growth, ClientsOK, ClientInv, stateVars
    <3>7. Handled(k)
      BY <2>2, <2>3 DEF Handled
    <3>8. WatchInv'
      BY <2>1, SameWatches DEF stateVars
    <3> QED
      BY <1>1, <2>1, <2>2, <3>5, <3>6, <3>7, <3>8 DEF HandlerOK, FlagInv, historyVars
  <2>4. CASE Respond(k, FALSE) /\ UNCHANGED <<client, scan>>
    <3>1. Used' = Used
      BY <2>4 DEF Used
    <3>2. Growth(k) /\ ClientsOK
      BY <1>1, <2>1, <2>4, <3>1 DEF Growth, ClientsOK, ClientInv, stateVars
    <3>3. Handled(k)
      BY <2>4 DEF Handled
    <3>4. WatchInv' /\ ScanInv'
      BY <1>2, <2>1, <2>4, SameWatches, SameScans DEF stateVars, historyVars
    <3> QED
      BY <1>1, <2>1, <2>2, <3>2, <3>3, <3>4 DEF HandlerOK, FlagInv, historyVars
  <2> QED
    BY <1>7, <2>3, <2>4 DEF KyotoStart
<1>8. CASE KyotoStop(k)
  <2>1. /\ Called(k, "stop") /\ scan' \in Aborted(scan) /\ client' = stopped /\ inst' = 0
        /\ Respond(k, TRUE)
        /\ UNCHANGED <<impl, alive, gen, watches, outpoints, matches, cursor, rescanQuit, historyVars>>
    BY <1>8 DEF KyotoStop
  <2>2. call[k] # Idle /\ ~ Fresh(k, "configure")
    BY <2>1, CalledIs DEF Ops
  <2>3. Used' = Used
    BY <1>4, <2>1 DEF Used
  <2>4. Handled(k)
    BY <2>1, <2>2 DEF Handled
  <2>5. Growth(k) /\ ClientsOK
    BY <1>1, <1>4, <2>1, <2>3 DEF Growth, ClientsOK
  <2>6. WatchInv'
    BY <2>1, SameWatches
  <2>7. ScanInv'
    <3>1. rescanQuit' \in {0} \cup Scanners /\ missed' \subseteq Heights
      BY <1>1, <1>2, <2>1 DEF ScanInv, historyVars
    <3> QED
      BY <1>3, <2>1, <3>1, EndedScans
  <2> QED
    BY <1>1, <2>1, <2>2, <2>4, <2>5, <2>6, <2>7 DEF HandlerOK, FlagInv, historyVars
<1>9. CASE KyotoWatch(k)
  <2>1. /\ Called(k, "watch") /\ watches' = Put(watches, call[k].script, call[k].start)
        /\ IF Running(inst) THEN Proceed(k, "rescan", inst) ELSE Respond(k, TRUE)
        /\ UNCHANGED <<impl, alive, gen, inst, matches, cursor, rescanQuit, client, scan, historyVars>>
    BY <1>9 DEF KyotoWatch
  <2>2. call[k] # Idle /\ Fresh(k, "watch") /\ ~ Fresh(k, "configure")
    BY <2>1, CalledIs DEF Ops
  <2>3. Used' = Used
    BY <2>1 DEF Used
  <2>4. Handled(k)
    <3>1. Running(inst) => inst \in Used'
      BY <1>1, <2>3 DEF ClientInv, Running
    <3>2. "rescan" \in Places(call[k].op) \ {"called"}
      BY <2>2 DEF Fresh, Places
    <3> QED
      BY <2>1, <2>2, <3>1, <3>2 DEF Handled
  <2>5. Growth(k) /\ ClientsOK
    BY <1>1, <2>1, <2>3 DEF Growth, ClientsOK, ClientInv
  <2>6. WatchInv' /\ ScanInv'
    BY <1>2, <2>1, <2>2, OneWatch, SameScans DEF historyVars
  <2> QED
    BY <1>1, <2>1, <2>2, <2>4, <2>5, <2>6 DEF HandlerOK, FlagInv, historyVars
<1>10. CASE KyotoRescan(k)
  <2> DEFINE c == call[k].client
  <2>1. /\ At(k, "watch", "rescan") /\ UNCHANGED <<impl, alive, stateVars, client, historyVars>>
        /\ \/ /\ Running(c) /\ scan' = [scan EXCEPT ![c].at = Least(@, call[k].start)]
              /\ Respond(k, TRUE)
           \/ Respond(k, FALSE) /\ UNCHANGED scan
    BY <1>10 DEF KyotoRescan
  <2>2. call[k] # Idle /\ ~ Fresh(k, "configure")
    BY <2>1, AtIs DEF Ops
  <2>3. Used' = Used
    BY <2>1 DEF Used
  <2>4. Handled(k)
    BY <2>1, <2>2 DEF Handled
  <2>5. Growth(k) /\ ClientsOK
    BY <1>1, <2>1, <2>3 DEF Growth, ClientsOK, ClientInv, stateVars
  <2>6. WatchInv'
    BY <2>1, SameWatches DEF stateVars
  <2>7. ScanInv'
    <3>1. CASE Running(c) /\ scan' = [scan EXCEPT ![c].at = Least(@, call[k].start)]
      <4>1. c \in Clients
        BY <1>1, <2>2, <3>1 DEF AdapterInv, CallInv, CallRec, Running
      <4>2. scan[c] \in ScanRec /\ ScanOK(scan[c])
        BY <1>1, <1>5, <4>1 DEF ScanInv
      <4> DEFINE x == [scan[c] EXCEPT !.at = Least(scan[c].at, call[k].start)]
      <4>3. call[k].start \in 1 .. Tip
        <5>1. CallOK(call[k]) /\ call[k].op = "watch"
          BY <2>1 DEF AdapterInv, CallInv, At
        <5> QED
          BY <2>2, <5>1, AdapterAssumption DEF CallOK
      <4>4. /\ Least(scan[c].at, call[k].start) \in 0 .. Tip + 1
            /\ scan[c].at # 0 => Least(scan[c].at, call[k].start) # 0
        <5>1. scan[c].at \in 0 .. Tip + 1
          BY <4>2 DEF ScanRec
        <5> QED
          BY <1>2, <4>3, <5>1 DEF Least
      <4>5. x \in ScanRec /\ ScanOK(x)
        <5> HIDE DEF c
        <5> QED
          BY <4>2, <4>4 DEF ScanRec, ScanOK
      <4>6. scan' = [scan EXCEPT ![c] = x]
        BY <3>1
      <4>7. rescanQuit' \in {0} \cup Scanners /\ missed' \subseteq Heights /\ impl' = impl /\ c \in Scanners
        BY <1>1, <1>2, <1>5, <2>1, <4>1 DEF ScanInv, stateVars, historyVars
      <4> HIDE DEF x, c
      <4> QED
        BY <4>5, <4>6, <4>7, OneScan
    <3>2. CASE UNCHANGED scan
      BY <1>2, <2>1, <3>2, SameScans DEF stateVars, historyVars
    <3> QED
      BY <2>1, <3>1, <3>2
  <2> QED
    BY <1>1, <2>1, <2>2, <2>4, <2>5, <2>6, <2>7 DEF HandlerOK, FlagInv, historyVars
<1> QED
  BY <1>6, <1>7, <1>8, <1>9, <1>10, RefuseOK DEF KyotoHandler

LEMMA NakamotoHandlerOK ==
  ASSUME AdapterInv, impl = "nakamoto", NEW k \in Calls, NakamotoHandler(k)
  PROVE  HandlerOK(k)
<1>1. /\ FlagInv /\ ClientInv /\ CountInv /\ ScanInv /\ gen \in Nat
      /\ \A c \in Clients : client[c].gen <= gen
  BY DEF AdapterInv, CountInv
<1>2. missed \subseteq Heights /\ {} \subseteq Heights /\ Tip \in Nat
  BY <1>1, AdapterAssumption DEF ScanInv
<1> DEFINE stopped == Shutdown(client)
           drained == Drained(scan)
<1>3. /\ DOMAIN drained = Scanners /\ drained = [r \in Scanners |-> drained[r]]
      /\ \A r \in Scanners : drained[r] = scan[r] \/ drained[r] = NoScan
  BY <1>1 DEF Drained, ScanInv
<1>4. /\ stopped \in [Clients -> ClientRec]
      /\ \A c \in Clients : stopped[c].gen = client[c].gen /\ (stopped[c] = NoClient <=> c \notin Used)
  BY <1>1, ClientStops DEF Shutdown
<1>5. Clients \subseteq Scanners
  BY AdapterAssumption DEF Clients, Scanners
<1>6. CASE NakamotoConfigure(k)
  <2>1. /\ Called(k, "configure") /\ scan' = drained /\ inst' = 0 /\ client' = stopped
        /\ Clear /\ Respond(k, TRUE)
        /\ UNCHANGED <<impl, alive, rescanQuit, straggler>>
    BY <1>6 DEF NakamotoConfigure
  <2>2. call[k] # Idle /\ Fresh(k, "configure")
    BY <2>1, CalledIs DEF Ops
  <2>3. Used' = Used
    BY <1>4, <2>1 DEF Used
  <2>4. gen' = gen + 1 /\ missed' = {}
    BY <2>1 DEF Clear
  <2>5. Handled(k)
    BY <2>1, <2>4 DEF Handled
  <2>6. \A c \in Clients : client'[c].gen <= gen'
    <3> SUFFICES ASSUME NEW c \in Clients
                 PROVE  client'[c].gen <= gen + 1
      BY <2>4
    <3>1. client[c].gen \in Nat /\ client[c].gen <= gen /\ client'[c].gen = client[c].gen
      BY <1>1, <1>4, <2>1 DEF ClientInv, ClientRec
    <3> QED
      BY <1>1, <3>1
  <2>7. Growth(k) /\ ClientsOK
    BY <1>4, <2>1, <2>2, <2>3, <2>4, <2>6 DEF Growth, ClientsOK
  <2>8. WatchInv'
    BY <2>1, NoWatches DEF Clear
  <2>9. ScanInv'
    BY <1>1, <1>2, <1>3, <2>1, <2>4, EndedScans DEF ScanInv
  <2> QED
    BY <1>1, <2>1, <2>2, <2>5, <2>7, <2>8, <2>9 DEF HandlerOK, FlagInv
<1>7. CASE NakamotoStart(k)
  <2>1. Called(k, "start") /\ UNCHANGED <<impl, alive, stateVars, scan, historyVars>>
    BY <1>7 DEF NakamotoStart
  <2>2. call[k] # Idle /\ Fresh(k, "start") /\ ~ Fresh(k, "configure")
    BY <2>1, CalledIs DEF Ops
  <2>3. WatchInv' /\ ScanInv'
    BY <1>2, <2>1, SameWatches, SameScans DEF stateVars, historyVars
  <2>4. CASE Respond(k, FALSE) /\ UNCHANGED client
    <3>1. Used' = Used
      BY <2>4 DEF Used
    <3>2. Growth(k) /\ ClientsOK
      BY <1>1, <2>1, <2>4, <3>1 DEF Growth, ClientsOK, ClientInv, stateVars
    <3>3. Handled(k)
      BY <2>4 DEF Handled
    <3> QED
      BY <1>1, <2>1, <2>2, <2>3, <3>2, <3>3 DEF HandlerOK, FlagInv, historyVars
  <2>5. CASE /\ client' = [client EXCEPT ![NewClient] = [gen |-> gen, st |-> "built"]]
             /\ Proceed(k, "load", NewClient)
    <3>1. NewClient \in Clients /\ NewClient \notin Used
      BY <2>2, NewClientIs
    <3> DEFINE new == NewClient
    <3> HIDE DEF new
    <3>2. client \in [Clients -> ClientRec]
      BY <1>1 DEF ClientInv
    <3>3. /\ client' \in [Clients -> ClientRec]
          /\ client'[new].gen = gen /\ client'[new] # NoClient
          /\ \A d \in Clients : d # new => client'[d] = client[d]
      <4>1. client' = Made(client, new, gen)
        BY <2>5 DEF Made, new
      <4>2. new \in Clients
        BY <3>1 DEF new
      <4> QED
        BY <1>1, <3>2, <4>1, <4>2, ClientMade
    <3>4. Used' = Used \cup {new}
      BY <3>1, <3>3 DEF Used, new
    <3>5. \A c \in Clients : client'[c].gen <= gen
      BY <1>1, <3>3
    <3>6. ClientsOK
      BY <1>1, <2>1, <3>3, <3>4, <3>5 DEF ClientsOK, ClientInv, stateVars
    <3>7. Growth(k)
      BY <2>1, <2>2, <3>1, <3>4 DEF Growth, new, stateVars
    <3>8. "load" \in Places(call[k].op) \ {"called"}
      BY <2>2 DEF Fresh, Places
    <3>9. Handled(k)
      BY <2>2, <2>5, <3>4, <3>8 DEF Handled, new
    <3> QED
      BY <1>1, <2>1, <2>2, <2>3, <3>6, <3>7, <3>9 DEF HandlerOK, FlagInv, historyVars
  <2> QED
    BY <1>7, <2>4, <2>5 DEF NakamotoStart
<1>8. CASE NakamotoLoad(k)
  <2> DEFINE c == call[k].client
  <2>1. At(k, "start", "load") /\ UNCHANGED <<impl, alive, stateVars, missed, straggler>>
    BY <1>8 DEF NakamotoLoad, historyVars
  <2>2. call[k] # Idle /\ \A o : ~ Fresh(k, o)
    BY <2>1, AtIs DEF Ops
  <2>3. c \in Used /\ c \in Clients
    BY <1>1, <2>1, <2>2 DEF AdapterInv, CallInv, CallOK, ClientInv, At, Used
  <2>4. WatchInv' /\ rescanQuit' \in {0} \cup Scanners /\ missed' \subseteq Heights
    BY <1>1, <2>1, SameWatches DEF stateVars, ScanInv
  <2>5. ASSUME NEW st \in {"stopped", "running", "orphan"}, client' = [client EXCEPT ![c].st = st]
        PROVE  Used' = Used /\ Growth(k) /\ ClientsOK
    <3>1. client' = WithState(c, st)
      BY <2>5 DEF WithState
    <3>2. /\ client' \in [Clients -> ClientRec]
          /\ \A d \in Clients : client'[d].gen = client[d].gen /\ (client'[d] = NoClient <=> d \notin Used)
      <4> HIDE DEF c
      <4> QED
        BY <1>1, <2>3, <3>1, ClientBecomes
    <3>3. Used' = Used
      BY <3>2 DEF Used
    <3> QED
      BY <1>1, <2>1, <3>2, <3>3 DEF Growth, ClientsOK, ClientInv, stateVars
  <2>6. CASE /\ client' = [client EXCEPT ![c].st = "running"]
             /\ scan' = [scan EXCEPT ![c] = [NoScan EXCEPT !.client = c, !.st = "on"]]
             /\ Proceed(k, "install", c)
    <3>1. Used' = Used /\ Growth(k) /\ ClientsOK
      BY <2>5, <2>6
    <3>2. "install" \in Places(call[k].op) \ {"called"}
      BY <2>1 DEF At, Places
    <3>3. Handled(k)
      BY <2>2, <2>3, <2>6, <3>1, <3>2 DEF Handled
    <3> DEFINE x == [NoScan EXCEPT !.client = c, !.st = "on"]
    <3>4. \A z : z = x => z = ScanAt(c, NoScript, 0)
      BY ScanFromNone
    <3>5. scan' = [scan EXCEPT ![c] = x]
      BY <2>6
    <3> HIDE DEF x, c
    <3>6. x = ScanAt(c, NoScript, 0) /\ 0 \in 0 .. Tip /\ impl # "kyoto"
      BY <1>2, <3>4
    <3>7. ScanAt(c, NoScript, 0) \in ScanRec /\ ScanOK(ScanAt(c, NoScript, 0))
      BY <2>3, <3>6, ScanAtOK
    <3>8. ScanInv'
      <4>1. c \in Scanners /\ x \in ScanRec /\ ScanOK(x) /\ impl' = impl
        BY <1>5, <2>1, <2>3, <3>6, <3>7
      <4> QED
        BY <2>4, <3>5, <4>1, OneScan
    <3> QED
      BY <1>1, <2>1, <2>2, <2>4, <2>6, <3>1, <3>3, <3>8 DEF HandlerOK, FlagInv
  <2>7. CASE /\ \E st \in {"stopped", "orphan"} : client' = [client EXCEPT ![c].st = st]
             /\ Respond(k, FALSE) /\ UNCHANGED scan
    <3>1. PICK st \in {"stopped", "orphan"} : client' = [client EXCEPT ![c].st = st]
      BY <2>7
    <3>2. Growth(k) /\ ClientsOK
      BY <2>5, <3>1
    <3>3. Handled(k)
      BY <2>7 DEF Handled
    <3>4. ScanInv'
      BY <2>1, <2>4, <2>7, SameScans DEF stateVars
    <3>5. FlagInv'
      BY <1>1, <2>1 DEF FlagInv
    <3> QED
      BY <2>1, <2>2, <2>4, <3>2, <3>3, <3>4, <3>5 DEF HandlerOK
  <2> QED
    BY <1>8, <2>6, <2>7 DEF NakamotoLoad
<1>9. CASE NakamotoInstall(k)
  <2>1. /\ At(k, "start", "install") /\ scan' = drained /\ client' = stopped
        /\ inst' = call[k].client /\ Respond(k, TRUE)
        /\ UNCHANGED <<impl, alive, gen, watches, outpoints, matches, cursor, rescanQuit, historyVars>>
    BY <1>9 DEF NakamotoInstall
  <2>2. call[k] # Idle /\ \A o : ~ Fresh(k, o)
    BY <2>1, AtIs DEF Ops
  <2>3. Used' = Used
    BY <1>4, <2>1 DEF Used
  <2>4. inst' \in Used /\ inst' \in Clients
    BY <1>1, <2>1, <2>2 DEF AdapterInv, CallInv, CallOK, ClientInv, At, Used
  <2>5. Handled(k)
    BY <2>1, <2>2 DEF Handled
  <2>6. Growth(k) /\ ClientsOK
    BY <1>1, <1>4, <2>1, <2>3, <2>4 DEF Growth, ClientsOK
  <2>7. WatchInv'
    BY <2>1, SameWatches
  <2>8. ScanInv'
    BY <1>1, <1>2, <1>3, <2>1, EndedScans DEF ScanInv, historyVars
  <2> QED
    BY <1>1, <2>1, <2>2, <2>5, <2>6, <2>7, <2>8 DEF HandlerOK, FlagInv, historyVars
<1>10. CASE NakamotoStop(k)
  <2>1. /\ Called(k, "stop") /\ scan' = drained /\ client' = stopped /\ inst' = 0
        /\ Respond(k, TRUE)
        /\ UNCHANGED <<impl, alive, gen, watches, outpoints, matches, cursor, rescanQuit, historyVars>>
    BY <1>10 DEF NakamotoStop
  <2>2. call[k] # Idle /\ ~ Fresh(k, "configure")
    BY <2>1, CalledIs DEF Ops
  <2>3. Used' = Used
    BY <1>4, <2>1 DEF Used
  <2>4. Handled(k)
    BY <2>1, <2>2 DEF Handled
  <2>5. Growth(k) /\ ClientsOK
    BY <1>1, <1>4, <2>1, <2>3 DEF Growth, ClientsOK
  <2>6. WatchInv'
    BY <2>1, SameWatches
  <2>7. ScanInv'
    BY <1>1, <1>2, <1>3, <2>1, EndedScans DEF ScanInv, historyVars
  <2> QED
    BY <1>1, <2>1, <2>2, <2>4, <2>5, <2>6, <2>7 DEF HandlerOK, FlagInv, historyVars
<1>11. CASE NakamotoWatch(k)
  <2>1. /\ Called(k, "watch") /\ watches' = Put(watches, call[k].script, call[k].start)
        /\ IF inst = 0 THEN Respond(k, FALSE) ELSE Proceed(k, "rescan", inst)
        /\ UNCHANGED <<impl, alive, gen, inst, matches, cursor, rescanQuit, client, scan, historyVars>>
    BY <1>11 DEF NakamotoWatch
  <2>2. call[k] # Idle /\ Fresh(k, "watch") /\ ~ Fresh(k, "configure")
    BY <2>1, CalledIs DEF Ops
  <2>3. Used' = Used
    BY <2>1 DEF Used
  <2>4. Handled(k)
    <3>1. inst # 0 => inst \in Used'
      BY <1>1, <2>3 DEF ClientInv
    <3>2. "rescan" \in Places(call[k].op) \ {"called"}
      BY <2>2 DEF Fresh, Places
    <3> QED
      BY <2>1, <2>2, <3>1, <3>2 DEF Handled
  <2>5. Growth(k) /\ ClientsOK
    BY <1>1, <2>1, <2>3 DEF Growth, ClientsOK, ClientInv
  <2>6. WatchInv' /\ ScanInv'
    BY <1>2, <2>1, <2>2, OneWatch, SameScans DEF historyVars
  <2> QED
    BY <1>1, <2>1, <2>2, <2>4, <2>5, <2>6 DEF HandlerOK, FlagInv, historyVars
<1>12. CASE NakamotoRescan(k)
  <2> DEFINE c == call[k].client
  <2>1. /\ At(k, "watch", "rescan") /\ UNCHANGED <<impl, alive, stateVars, client, historyVars>>
        /\ \/ /\ Running(c)
              /\ scan' = [scan EXCEPT ![c].script = call[k].script, ![c].at = call[k].start]
              /\ Respond(k, TRUE)
           \/ Respond(k, FALSE) /\ UNCHANGED scan
    BY <1>12 DEF NakamotoRescan
  <2>2. call[k] # Idle /\ ~ Fresh(k, "configure")
    BY <2>1, AtIs DEF Ops
  <2>3. Used' = Used
    BY <2>1 DEF Used
  <2>4. Handled(k)
    BY <2>1, <2>2 DEF Handled
  <2>5. Growth(k) /\ ClientsOK
    BY <1>1, <2>1, <2>3 DEF Growth, ClientsOK, ClientInv, stateVars
  <2>6. WatchInv'
    BY <2>1, SameWatches DEF stateVars
  <2>7. ScanInv'
    <3>1. CASE /\ Running(c)
               /\ scan' = [scan EXCEPT ![c].script = call[k].script, ![c].at = call[k].start]
      <4>1. c \in Clients
        BY <1>1, <2>2, <3>1 DEF AdapterInv, CallInv, CallRec, Running
      <4>2. scan[c] \in ScanRec /\ ScanOK(scan[c])
        BY <1>1, <1>5, <4>1 DEF ScanInv
      <4> DEFINE x == [scan[c] EXCEPT !.script = call[k].script, !.at = call[k].start]
      <4>3. call[k].start \in 0 .. Tip + 1 /\ call[k].script \in Scripts \cup {NoScript}
        BY <1>2 DEF AdapterInv, CallInv, CallRec
      <4>4. x \in ScanRec /\ ScanOK(x)
        <5> HIDE DEF c
        <5> QED
          BY <4>2, <4>3 DEF ScanRec, ScanOK
      <4>5. scan' = [scan EXCEPT ![c] = x]
        BY <1>1, <1>5, <3>1, <4>1 DEF ScanInv
      <4>6. rescanQuit' \in {0} \cup Scanners /\ missed' \subseteq Heights /\ impl' = impl /\ c \in Scanners
        BY <1>1, <1>2, <1>5, <2>1, <4>1 DEF ScanInv, stateVars, historyVars
      <4> HIDE DEF x, c
      <4> QED
        BY <4>4, <4>5, <4>6, OneScan
    <3>2. CASE UNCHANGED scan
      BY <1>2, <2>1, <3>2, SameScans DEF stateVars, historyVars
    <3> QED
      BY <2>1, <3>1, <3>2
  <2> QED
    BY <1>1, <2>1, <2>2, <2>4, <2>5, <2>6, <2>7 DEF HandlerOK, FlagInv, historyVars
<1> QED
  BY <1>6, <1>7, <1>8, <1>9, <1>10, <1>11, <1>12, RefuseOK DEF NakamotoHandler

LEMMA WasabiHandlerOK ==
  ASSUME AdapterInv, impl = "wasabi", NEW k \in Calls, WasabiHandler(k)
  PROVE  HandlerOK(k)
<1>1. /\ FlagInv /\ ClientInv /\ CountInv /\ ScanInv /\ gen \in Nat
      /\ \A c \in Clients : client[c].gen <= gen
  BY DEF AdapterInv, CountInv
<1>2. missed \subseteq Heights /\ {} \subseteq Heights /\ Tip \in Nat
  BY <1>1, AdapterAssumption DEF ScanInv
<1>3. Clients \subseteq Scanners
  BY AdapterAssumption DEF Clients, Scanners
<1>4. ASSUME call[k].pc \notin {"none", "called"}
      PROVE  /\ call[k] # Idle /\ \A o : ~ Fresh(k, o)
             /\ call[k].client \in Used /\ call[k].client \in Clients
             /\ call[k].pc \in Places(call[k].op)
  <2>1. call[k] # Idle
    BY <1>4 DEF Idle
  <2>2. CallOK(call[k])
    BY DEF AdapterInv, CallInv
  <2> QED
    BY <1>1, <1>4, <2>1, <2>2 DEF CallOK, Fresh, ClientInv, Used
<1>5. CASE WasabiConfigure(k)
  <2>1. /\ Called(k, "configure") /\ Clear /\ inst' = 0
        /\ IF inst = 0 THEN Respond(k, TRUE) ELSE Proceed(k, "dispose", inst)
        /\ UNCHANGED <<impl, alive, rescanQuit, client, scan, straggler>>
    BY <1>5 DEF WasabiConfigure, TakeClient
  <2>2. call[k] # Idle /\ Fresh(k, "configure")
    BY <2>1, CalledIs DEF Ops
  <2>3. Used' = Used
    BY <2>1 DEF Used
  <2>4. gen' = gen + 1 /\ missed' = {}
    BY <2>1 DEF Clear
  <2>5. Handled(k)
    <3>1. inst # 0 => inst \in Used'
      BY <1>1, <2>3 DEF ClientInv
    <3>2. "dispose" \in Places(call[k].op) \ {"called"}
      BY <2>2 DEF Fresh, Places
    <3> QED
      BY <2>1, <2>4, <3>1, <3>2 DEF Handled
  <2>6. \A c \in Clients : client'[c].gen <= gen'
    <3> SUFFICES ASSUME NEW c \in Clients
                 PROVE  client[c].gen <= gen + 1
      BY <2>1, <2>4
    <3>1. client[c].gen \in Nat /\ client[c].gen <= gen
      BY <1>1 DEF ClientInv, ClientRec
    <3> QED
      BY <1>1, <3>1
  <2>7. Growth(k) /\ ClientsOK
    BY <1>1, <2>1, <2>2, <2>3, <2>4, <2>6 DEF Growth, ClientsOK, ClientInv
  <2>8. WatchInv'
    BY <2>1, NoWatches DEF Clear
  <2>9. ScanInv'
    BY <1>2, <2>1, <2>4, SameScans
  <2> QED
    BY <1>1, <2>1, <2>2, <2>5, <2>7, <2>8, <2>9 DEF HandlerOK, FlagInv
<1>6. CASE WasabiStop(k)
  <2>1. /\ Called(k, "stop") /\ inst' = 0
        /\ IF inst = 0 THEN Respond(k, TRUE) ELSE Proceed(k, "dispose", inst)
        /\ UNCHANGED <<impl, alive, gen, watches, outpoints, matches, cursor, rescanQuit,
                       client, scan, historyVars>>
    BY <1>6 DEF WasabiStop, TakeClient
  <2>2. call[k] # Idle /\ Fresh(k, "stop") /\ ~ Fresh(k, "configure")
    BY <2>1, CalledIs DEF Ops
  <2>3. Used' = Used
    BY <2>1 DEF Used
  <2>4. Handled(k)
    <3>1. inst # 0 => inst \in Used'
      BY <1>1, <2>3 DEF ClientInv
    <3>2. "dispose" \in Places(call[k].op) \ {"called"}
      BY <2>2 DEF Fresh, Places
    <3> QED
      BY <2>1, <2>2, <3>1, <3>2 DEF Handled
  <2>5. Growth(k) /\ ClientsOK
    BY <1>1, <2>1, <2>3 DEF Growth, ClientsOK, ClientInv
  <2>6. WatchInv' /\ ScanInv'
    BY <1>2, <2>1, SameWatches, SameScans DEF historyVars
  <2> QED
    BY <1>1, <2>1, <2>2, <2>4, <2>5, <2>6 DEF HandlerOK, FlagInv, historyVars
<1>7. CASE WasabiCancel(k)
  <2> DEFINE c == call[k].client
  <2>1. /\ call[k].pc = "dispose" /\ client' = [client EXCEPT ![c].st = "stopped"]
        /\ Proceed(k, "disposing", c)
        /\ UNCHANGED <<impl, alive, stateVars, scan, historyVars>>
    BY <1>7 DEF WasabiCancel
  <2>2. /\ call[k] # Idle /\ \A o : ~ Fresh(k, o)
        /\ c \in Used /\ c \in Clients /\ call[k].pc \in Places(call[k].op)
    BY <1>4, <2>1
  <2>3. /\ client' \in [Clients -> ClientRec]
        /\ \A d \in Clients : client'[d].gen = client[d].gen /\ (client'[d] = NoClient <=> d \notin Used)
    <3>1. client' = WithState(c, "stopped")
      BY <2>1 DEF WithState
    <3> HIDE DEF c
    <3> QED
      BY <1>1, <2>2, <3>1, ClientBecomes
  <2>4. Used' = Used
    BY <2>3 DEF Used
  <2>5. "disposing" \in Places(call[k].op) \ {"called"}
    BY <2>1, <2>2 DEF Places
  <2>6. Handled(k)
    BY <2>1, <2>2, <2>4, <2>5 DEF Handled
  <2>7. Growth(k) /\ ClientsOK
    BY <1>1, <2>1, <2>3, <2>4 DEF Growth, ClientsOK, ClientInv, stateVars
  <2>8. WatchInv' /\ ScanInv'
    BY <1>2, <2>1, SameWatches, SameScans DEF stateVars, historyVars
  <2> QED
    BY <1>1, <2>1, <2>2, <2>6, <2>7, <2>8 DEF HandlerOK, FlagInv, historyVars
<1>8. CASE WasabiDisposed(k)
  <2>1. /\ call[k].pc = "disposing" /\ straggler' = (straggler \/ scan[call[k].client].st # "off")
        /\ Respond(k, TRUE)
        /\ UNCHANGED <<impl, alive, stateVars, client, scan, missed>>
    BY <1>8 DEF WasabiDisposed
  <2>2. call[k] # Idle /\ \A o : ~ Fresh(k, o)
    BY <1>4, <2>1
  <2>3. Used' = Used
    BY <2>1 DEF Used
  <2>4. Handled(k)
    BY <2>1, <2>2 DEF Handled
  <2>5. Growth(k) /\ ClientsOK
    BY <1>1, <2>1, <2>3 DEF Growth, ClientsOK, ClientInv, stateVars
  <2>6. WatchInv' /\ ScanInv'
    BY <1>2, <2>1, SameWatches, SameScans DEF stateVars
  <2>7. straggler' \in BOOLEAN
    BY <2>1
  <2> QED
    BY <1>1, <2>1, <2>2, <2>4, <2>5, <2>6, <2>7 DEF HandlerOK, FlagInv
<1>9. CASE WasabiStart(k)
  <2>1. Called(k, "start") /\ UNCHANGED <<impl, alive, stateVars, scan, historyVars>>
    BY <1>9 DEF WasabiStart
  <2>2. call[k] # Idle /\ Fresh(k, "start") /\ ~ Fresh(k, "configure")
    BY <2>1, CalledIs DEF Ops
  <2>3. WatchInv' /\ ScanInv'
    BY <1>2, <2>1, SameWatches, SameScans DEF stateVars, historyVars
  <2>4. CASE Respond(k, gen # 0) /\ UNCHANGED client
    <3>1. Used' = Used
      BY <2>4 DEF Used
    <3>2. Growth(k) /\ ClientsOK
      BY <1>1, <2>1, <2>4, <3>1 DEF Growth, ClientsOK, ClientInv, stateVars
    <3>3. Handled(k)
      <4>1. (gen # 0) \in BOOLEAN
        OBVIOUS
      <4> QED
        BY <2>2, <2>4, <4>1 DEF Handled
    <3> QED
      BY <1>1, <2>1, <2>2, <2>3, <3>2, <3>3 DEF HandlerOK, FlagInv, historyVars
  <2>5. CASE /\ client' = [client EXCEPT ![NewClient] = [gen |-> gen, st |-> "built"]]
             /\ Proceed(k, "create", NewClient)
    <3>1. NewClient \in Clients /\ NewClient \notin Used
      BY <2>2, NewClientIs
    <3> DEFINE new == NewClient
    <3> HIDE DEF new
    <3>2. client \in [Clients -> ClientRec]
      BY <1>1 DEF ClientInv
    <3>3. /\ client' \in [Clients -> ClientRec]
          /\ client'[new].gen = gen /\ client'[new] # NoClient
          /\ \A d \in Clients : d # new => client'[d] = client[d]
      <4>1. client' = Made(client, new, gen)
        BY <2>5 DEF Made, new
      <4>2. new \in Clients
        BY <3>1 DEF new
      <4> QED
        BY <1>1, <3>2, <4>1, <4>2, ClientMade
    <3>4. Used' = Used \cup {new}
      BY <3>1, <3>3 DEF Used, new
    <3>5. \A c \in Clients : client'[c].gen <= gen
      BY <1>1, <3>3
    <3>6. ClientsOK
      BY <1>1, <2>1, <3>3, <3>4, <3>5 DEF ClientsOK, ClientInv, stateVars
    <3>7. Growth(k)
      BY <2>1, <2>2, <3>1, <3>4 DEF Growth, new, stateVars
    <3>8. "create" \in Places(call[k].op) \ {"called"}
      BY <2>2 DEF Fresh, Places
    <3>9. Handled(k)
      BY <2>2, <2>5, <3>4, <3>8 DEF Handled, new
    <3> QED
      BY <1>1, <2>1, <2>2, <2>3, <3>6, <3>7, <3>9 DEF HandlerOK, FlagInv, historyVars
  <2> QED
    BY <1>9, <2>4, <2>5 DEF WasabiStart
<1>10. CASE WasabiCreate(k)
  <2> DEFINE c == call[k].client
  <2>1. At(k, "start", "create")
        /\ UNCHANGED <<impl, alive, gen, watches, outpoints, matches, cursor, rescanQuit, missed,
                       straggler>>
    BY <1>10 DEF WasabiCreate, historyVars
  <2>2. call[k] # Idle /\ (\A o : ~ Fresh(k, o)) /\ c \in Used /\ c \in Clients
    BY <1>4, <2>1 DEF At
  <2>3. WatchInv' /\ rescanQuit' \in {0} \cup Scanners /\ missed' \subseteq Heights
    BY <1>1, <2>1, SameWatches DEF ScanInv
  <2>4. ASSUME NEW st \in {"stopped", "running"}, client' = [client EXCEPT ![c].st = st],
               inst' \in {c, inst}
        PROVE  Growth(k) /\ ClientsOK
    <3>1. client' = WithState(c, st)
      BY <2>4 DEF WithState
    <3>2. /\ client' \in [Clients -> ClientRec]
          /\ \A d \in Clients : client'[d].gen = client[d].gen /\ (client'[d] = NoClient <=> d \notin Used)
      <4> HIDE DEF c
      <4> QED
        BY <1>1, <2>2, <3>1, ClientBecomes
    <3>3. Used' = Used
      BY <3>2 DEF Used
    <3>4. inst' \in {0} \cup Clients /\ (inst' # 0 => inst' \in Used')
      BY <1>1, <2>2, <2>4, <3>3 DEF ClientInv
    <3> QED
      BY <1>1, <2>1, <3>2, <3>3, <3>4 DEF Growth, ClientsOK
  <2>5. CASE /\ client' = [client EXCEPT ![c].st = "running"]
             /\ scan' = [scan EXCEPT ![c] = [NoScan EXCEPT !.client = c, !.st = "on"]]
             /\ inst' = c
             /\ Respond(k, TRUE)
    <3>1. Growth(k) /\ ClientsOK
      BY <2>4, <2>5
    <3>2. Handled(k)
      BY <2>2, <2>5 DEF Handled
    <3> DEFINE x == [NoScan EXCEPT !.client = c, !.st = "on"]
    <3>3. \A z : z = x => z = ScanAt(c, NoScript, 0)
      BY ScanFromNone
    <3>4. scan' = [scan EXCEPT ![c] = x]
      BY <2>5
    <3> HIDE DEF x, c
    <3>5. x = ScanAt(c, NoScript, 0) /\ 0 \in 0 .. Tip /\ impl # "kyoto"
      BY <1>2, <3>3
    <3>6. ScanAt(c, NoScript, 0) \in ScanRec /\ ScanOK(ScanAt(c, NoScript, 0))
      BY <2>2, <3>5, ScanAtOK
    <3>7. ScanInv'
      <4>1. c \in Scanners /\ x \in ScanRec /\ ScanOK(x) /\ impl' = impl
        BY <1>3, <2>1, <2>2, <3>5, <3>6
      <4> QED
        BY <2>3, <3>4, <4>1, OneScan
    <3> QED
      BY <1>1, <2>1, <2>2, <2>3, <3>1, <3>2, <3>7 DEF HandlerOK, FlagInv
  <2>6. CASE /\ client' = [client EXCEPT ![c].st = "stopped"]
             /\ Respond(k, FALSE)
             /\ UNCHANGED <<scan, inst>>
    <3>1. Growth(k) /\ ClientsOK
      BY <2>4, <2>6
    <3>2. Handled(k)
      BY <2>6 DEF Handled
    <3>3. ScanInv'
      BY <2>1, <2>3, <2>6, SameScans
    <3> QED
      BY <1>1, <2>1, <2>2, <2>3, <2>6, <3>1, <3>2, <3>3 DEF HandlerOK, FlagInv
  <2> QED
    BY <1>10, <2>5, <2>6 DEF WasabiCreate
<1>11. CASE WasabiWatch(k)
  <2>1. /\ Called(k, "watch") /\ watches' = Put(watches, call[k].script, call[k].start)
        /\ cursor' = Put(cursor, call[k].script, call[k].start)
        /\ Respond(k, TRUE)
        /\ UNCHANGED <<impl, alive, gen, inst, matches, rescanQuit, client, scan, historyVars>>
    BY <1>11 DEF WasabiWatch
  <2>2. call[k] # Idle /\ Fresh(k, "watch") /\ ~ Fresh(k, "configure")
    BY <2>1, CalledIs DEF Ops
  <2>3. Used' = Used
    BY <2>1 DEF Used
  <2>4. Handled(k)
    BY <2>1, <2>2 DEF Handled
  <2>5. Growth(k) /\ ClientsOK
    BY <1>1, <2>1, <2>3 DEF Growth, ClientsOK, ClientInv
  <2>6. WatchInv' /\ ScanInv'
    BY <1>2, <2>1, <2>2, OneWatch, SameScans DEF historyVars
  <2> QED
    BY <1>1, <2>1, <2>2, <2>4, <2>5, <2>6 DEF HandlerOK, FlagInv, historyVars
<1> QED
  BY <1>5, <1>6, <1>7, <1>8, <1>9, <1>10, <1>11, RefuseOK DEF WasabiHandler

LEMMA FakeHandlerOK ==
  ASSUME AdapterInv, impl = "fake", NEW k \in Calls, FakeHandler(k)
  PROVE  HandlerOK(k)
<1>1. /\ FlagInv /\ ClientInv /\ CountInv /\ ScanInv /\ gen \in Nat
      /\ \A c \in Clients : client[c].gen <= gen
  BY DEF AdapterInv, CountInv
<1>2. missed \subseteq Heights
  BY <1>1 DEF ScanInv
<1>3. gen # 0 => 1 \in Clients
  <2>1. gen <= MaxConfigures
    BY InvTypes, AdapterAssumption DEF AdaptersTypeOK
  <2> QED
    BY <1>1, <2>1, AdapterAssumption DEF Clients
<1>4. ASSUME NEW op \in Ops, Called(k, op), UNCHANGED <<impl, alive, client, scan, historyVars, cursor, rescanQuit>>,
             NEW ok \in BOOLEAN, Respond(k, ok), inst' \in {0} \cup Clients,
             op = "configure" => gen' = gen + 1, op # "configure" => gen' = gen,
             WatchInv'
      PROVE  HandlerOK(k)
  <2>1. call[k] # Idle /\ Fresh(k, op) /\ \A o : o # op => ~ Fresh(k, o)
    BY <1>4, CalledIs
  <2>2. Used' = Used
    BY <1>4 DEF Used
  <2>3. Handled(k)
    BY <1>4, <2>1 DEF Handled
  <2>4. Growth(k)
    BY <1>4, <2>1, <2>2 DEF Growth
  <2>5. \A c \in Clients : client'[c].gen <= gen'
    <3> SUFFICES ASSUME NEW c \in Clients
                 PROVE  client[c].gen <= gen'
      BY <1>4
    <3>1. client[c].gen \in Nat /\ client[c].gen <= gen
      BY <1>1 DEF ClientInv, ClientRec
    <3> QED
      BY <1>1, <1>4, <3>1
  <2>6. ClientsOK
    BY <1>1, <1>4, <2>5 DEF ClientsOK, ClientInv
  <2>7. ScanInv'
    BY <1>2, <1>4, SameScans DEF historyVars
  <2> QED
    BY <1>1, <1>4, <2>1, <2>3, <2>4, <2>6, <2>7 DEF HandlerOK, FlagInv, historyVars
<1>5. CASE FakeConfigure(k)
  BY <1>1, <1>4, <1>5, SameWatches DEF FakeConfigure, Ops, ClientInv
<1>6. CASE FakeStart(k)
  <2>1. (gen # 0) \in BOOLEAN
    OBVIOUS
  <2>2. inst' \in {0} \cup Clients
    BY <1>1, <1>3, <1>6 DEF FakeStart, ClientInv
  <2>3. WatchInv'
    BY <1>6, SameWatches DEF FakeStart
  <2> QED
    BY <1>4, <1>6, <2>1, <2>2, <2>3 DEF FakeStart, Ops
<1>7. CASE FakeStop(k)
  BY <1>4, <1>7, SameWatches DEF FakeStop, Ops
<1>8. CASE FakeWatch(k)
  <2>1. Fresh(k, "watch")
    BY <1>8, CalledIs DEF FakeWatch, Ops
  <2>2. WatchInv'
    BY <1>8, <2>1, OneWatch DEF FakeWatch
  <2> QED
    BY <1>1, <1>4, <1>8, <2>2 DEF FakeWatch, Ops, ClientInv
<1> QED
  BY <1>5, <1>6, <1>7, <1>8, RefuseOK DEF FakeHandler

-----------------------------------------------------------------------------
(* The light clients and the loops. *)

Looked ==
  /\ UNCHANGED <<impl, gen, client, inst, harnessVars>>
  /\ FlagInv' /\ WatchInv' /\ ScanInv'

LEMMA LookedKeeps ==
  ASSUME AdapterInv, Looked
  PROVE  CallInv' /\ ClientInv' /\ CountInv'
<1>1. UNCHANGED <<impl, gen, client, inst, turn, waiting, call, givenUp>>
  BY DEF Looked, harnessVars
<1>2. Used' = Used /\ (\A op : Asked(op)' = Asked(op)) /\ Due' = Due
  BY <1>1 DEF Used, Asked, Due
<1>3. CallInv'
  BY <1>1 DEF AdapterInv, CallInv, Alone
<1>4. ClientInv'
  BY <1>1, <1>2 DEF AdapterInv, ClientInv
<1>5. CountInv'
  BY <1>1, <1>2 DEF AdapterInv, CountInv
<1> QED
  BY <1>3, <1>4, <1>5

LEMMA BlockDone ==
  ASSUME NEW x \in ScanRec, ScanOK(x), NEW y, y = [x EXCEPT !.blk = 0, !.st = "on"],
         impl = "kyoto" => x.at # 0
  PROVE  y \in ScanRec /\ ScanOK(y)
<1>1. 0 \in 0 .. Tip
  BY AdapterAssumption
<1>2. y.blk = 0 /\ y.st = "on" /\ y.at = x.at
  BY DEF ScanRec
<1>3. y \in ScanRec
  BY <1>1 DEF ScanRec
<1> QED
  BY <1>2, <1>3 DEF ScanOK

LEMMA NeutrinoScanLooks ==
  ASSUME AdapterInv, impl = "neutrino", NEW r \in Scanners, NeutrinoScan(r)
  PROVE  Looked
<1>1. FlagInv /\ ScanInv /\ Tip \in Nat /\ scan[r] \in ScanRec /\ ScanOK(scan[r])
  BY AdapterAssumption DEF AdapterInv, ScanInv
<1>2. rescanQuit \in {0} \cup Scanners /\ missed \subseteq Heights
  BY <1>1 DEF ScanInv
<1>3. CASE NeutrinoBlock(r)
  <2> DEFINE x == [scan[r] EXCEPT !.at = scan[r].at + 1, !.blk = scan[r].at, !.st = "held"]
  <2>1. /\ scan' = [scan EXCEPT ![r].at = @ + 1, ![r].blk = scan[r].at, ![r].st = "held"]
        /\ scan[r].at <= Tip
        /\ UNCHANGED <<impl, alive, stateVars, client, harnessVars, historyVars>>
    BY <1>3 DEF NeutrinoBlock
  <2>2. scan' = [scan EXCEPT ![r] = x]
    BY <1>1, <2>1 DEF ScanInv
  <2>3. scan[r].at \in 0 .. Tip /\ scan[r].at + 1 \in 0 .. Tip + 1
    <3>1. scan[r].at \in 0 .. Tip + 1
      BY <1>1 DEF ScanRec
    <3> QED
      BY <1>1, <2>1, <3>1
  <2>4. x \in ScanRec /\ ScanOK(x)
    BY <1>1, <2>3 DEF ScanRec, ScanOK
  <2>5. ScanInv'
    <3> HIDE DEF x
    <3> QED
      BY <1>2, <2>1, <2>2, <2>4, OneScan DEF stateVars, historyVars
  <2>6. WatchInv'
    BY <2>1, SameWatches DEF stateVars
  <2> QED
    BY <1>1, <2>1, <2>5, <2>6 DEF Looked, FlagInv, stateVars, historyVars
<1>4. CASE NeutrinoRecord(r)
  <2> DEFINE x == IF r = rescanQuit THEN [scan[r] EXCEPT !.blk = 0, !.st = "on"] ELSE NoScan
  <2>1. /\ scan' = [scan EXCEPT ![r] = IF r = rescanQuit THEN [@ EXCEPT !.blk = 0, !.st = "on"] ELSE NoScan]
        /\ alive' \in BOOLEAN
        /\ UNCHANGED <<impl, gen, inst, watches, cursor, rescanQuit, client, harnessVars, historyVars>>
    BY <1>1, <1>4 DEF NeutrinoRecord, FlagInv
  <2>2. scan' = [scan EXCEPT ![r] = x]
    BY <1>1, <2>1 DEF ScanInv
  <2>3. x \in ScanRec /\ ScanOK(x)
    <3> DEFINE y == [scan[r] EXCEPT !.blk = 0, !.st = "on"]
    <3>1. y \in ScanRec /\ ScanOK(y)
      BY <1>1, BlockDone
    <3>2. x \in {y, NoScan}
      OBVIOUS
    <3> HIDE DEF x, y
    <3> QED
      BY <3>1, <3>2, NoScanIs
  <2>4. ScanInv'
    <3> HIDE DEF x
    <3> QED
      BY <1>2, <2>1, <2>2, <2>3, OneScan DEF historyVars
  <2>5. WatchInv'
    BY <2>1, SameWatches
  <2> QED
    BY <1>1, <2>1, <2>4, <2>5 DEF Looked, FlagInv, historyVars
<1> QED
  BY <1>3, <1>4 DEF NeutrinoScan

LEMMA KyotoScanLooks ==
  ASSUME AdapterInv, impl = "kyoto", NEW r \in Scanners, KyotoScan(r)
  PROVE  Looked
<1>1. FlagInv /\ ScanInv /\ Tip \in Nat /\ scan[r] \in ScanRec /\ ScanOK(scan[r])
  BY AdapterAssumption DEF AdapterInv, ScanInv
<1>2. rescanQuit \in {0} \cup Scanners /\ missed \subseteq Heights /\ scan[r].at \in 0 .. Tip + 1
  BY <1>1 DEF ScanInv, ScanRec
<1>3. CASE KyotoFilter(r)
  <2> DEFINE h == scan[r].at
             x == [scan[r] EXCEPT !.at = h + 1, !.blk = h, !.st = "fetch"]
             y == [scan[r] EXCEPT !.at = h + 1]
  <2>1. /\ scan[r].st = "on" /\ scan[r].at <= Tip
        /\ \/ scan' = [scan EXCEPT ![r] = [@ EXCEPT !.at = h + 1, !.blk = h, !.st = "fetch"]]
           \/ scan' = [scan EXCEPT ![r] = [@ EXCEPT !.at = h + 1]]
        /\ UNCHANGED <<impl, alive, stateVars, client, harnessVars, historyVars>>
    BY <1>3 DEF KyotoFilter
  <2>2. scan' = [scan EXCEPT ![r] = x] \/ scan' = [scan EXCEPT ![r] = y]
    BY <1>1, <2>1 DEF ScanInv
  <2>3. h \in 0 .. Tip /\ h # 0 /\ h + 1 \in 0 .. Tip + 1 /\ h + 1 # 0
    BY <1>1, <1>2, <2>1 DEF ScanOK
  <2>4. x \in ScanRec /\ ScanOK(x)
    <3> HIDE DEF h
    <3> QED
      BY <1>1, <2>3 DEF ScanRec, ScanOK
  <2>5. y \in ScanRec /\ ScanOK(y)
    <3> HIDE DEF h
    <3> QED
      BY <1>1, <2>1, <2>3 DEF ScanRec, ScanOK
  <2>6. ScanInv'
    <3> HIDE DEF x, y, h
    <3> QED
      BY <1>2, <2>1, <2>2, <2>4, <2>5, OneScan DEF stateVars, historyVars
  <2>7. WatchInv'
    BY <2>1, SameWatches DEF stateVars
  <2> QED
    BY <1>1, <2>1, <2>6, <2>7 DEF Looked, FlagInv, stateVars, historyVars
<1>4. CASE KyotoBlock(r)
  <2> DEFINE x == [scan[r] EXCEPT !.st = "held"]
             y == [scan[r] EXCEPT !.blk = 0, !.st = "on"]
  <2>1. /\ scan[r].st = "fetch"
        /\ \/ scan' = [scan EXCEPT ![r].st = "held"] /\ missed' = missed
           \/ scan' = [scan EXCEPT ![r].blk = 0, ![r].st = "on"] /\ missed' = missed \cup {scan[r].blk}
        /\ UNCHANGED <<impl, alive, stateVars, client, harnessVars, straggler>>
    BY <1>4 DEF KyotoBlock
  <2>2. scan' = [scan EXCEPT ![r] = x] \/ scan' = [scan EXCEPT ![r] = y]
    BY <1>1, <2>1 DEF ScanInv
  <2>3. scan[r].blk \in Heights
    BY <1>1, <2>1 DEF ScanOK, ScanRec, Heights
  <2>4. x \in ScanRec /\ ScanOK(x)
    BY <1>1, <2>1 DEF ScanRec, ScanOK
  <2>5. y \in ScanRec /\ ScanOK(y)
    <3>1. scan[r].at # 0
      BY <1>1, <2>1 DEF ScanOK
    <3> QED
      BY <1>1, <3>1, BlockDone
  <2>6. missed' \subseteq Heights
    BY <1>2, <2>1, <2>3
  <2>7. ScanInv'
    <3> HIDE DEF x, y
    <3> QED
      BY <1>2, <2>1, <2>2, <2>4, <2>5, <2>6, OneScan DEF stateVars
  <2>8. WatchInv'
    BY <2>1, SameWatches DEF stateVars
  <2> QED
    BY <1>1, <2>1, <2>7, <2>8 DEF Looked, FlagInv, stateVars
<1>5. CASE KyotoRecord(r)
  <2> DEFINE x == [scan[r] EXCEPT !.blk = 0, !.st = "on"]
  <2>1. /\ scan[r].st = "held"
        /\ \/ scan' = [scan EXCEPT ![r] = [@ EXCEPT !.blk = 0, !.st = "on"]]
           \/ scan' = [scan EXCEPT ![r] = NoScan]
        /\ UNCHANGED <<impl, alive, gen, inst, watches, cursor, rescanQuit, client, harnessVars,
                       historyVars>>
    BY <1>5 DEF KyotoRecord
  <2>2. scan' = [scan EXCEPT ![r] = x] \/ scan' = [scan EXCEPT ![r] = NoScan]
    BY <1>1, <2>1 DEF ScanInv
  <2>3. x \in ScanRec /\ ScanOK(x)
    <3>1. scan[r].at # 0
      BY <1>1, <2>1 DEF ScanOK
    <3> QED
      BY <1>1, <3>1, BlockDone
  <2>4. ScanInv'
    <3> HIDE DEF x, NoScan
    <3> QED
      BY <1>2, <2>1, <2>2, <2>3, NoScanIs, OneScan DEF historyVars
  <2>5. WatchInv'
    BY <2>1, SameWatches
  <2> QED
    BY <1>1, <2>1, <2>4, <2>5 DEF Looked, FlagInv, historyVars
<1> QED
  BY <1>3, <1>4, <1>5 DEF KyotoScan

LEMMA NakamotoScanLooks ==
  ASSUME AdapterInv, impl = "nakamoto", NEW r \in Scanners, NakamotoScan(r)
  PROVE  Looked
<1>1. FlagInv /\ ScanInv /\ Tip \in Nat /\ scan[r] \in ScanRec /\ ScanOK(scan[r])
  BY AdapterAssumption DEF AdapterInv, ScanInv
<1>2. rescanQuit \in {0} \cup Scanners /\ missed \subseteq Heights /\ scan[r].at \in 0 .. Tip + 1
  BY <1>1 DEF ScanInv, ScanRec
<1>3. CASE NakamotoBlock(r)
  <2> DEFINE h == scan[r].at
             b == IF Concerns(h, scan[r].script) THEN h ELSE 0
             x == [scan[r] EXCEPT !.at = h + 1, !.blk = b]
  <2>1. /\ scan[r].st = "on" /\ scan[r].at <= Tip
        /\ scan' = [scan EXCEPT ![r].at = h + 1, ![r].blk = b]
        /\ UNCHANGED <<impl, alive, stateVars, client, harnessVars, historyVars>>
    BY <1>3 DEF NakamotoBlock
  <2>2. scan' = [scan EXCEPT ![r] = x]
    <3> HIDE DEF b, h
    <3> QED
      BY <1>1, <2>1 DEF ScanInv
  <2>3. b \in 0 .. Tip /\ h + 1 \in 0 .. Tip + 1
    BY <1>1, <1>2, <2>1
  <2>4. x \in ScanRec /\ ScanOK(x)
    <3> HIDE DEF h, b
    <3> QED
      BY <1>1, <2>1, <2>3 DEF ScanRec, ScanOK
  <2>5. ScanInv'
    <3> HIDE DEF x, h, b
    <3> QED
      BY <1>2, <2>1, <2>2, <2>4, OneScan DEF stateVars, historyVars
  <2>6. WatchInv'
    BY <2>1, SameWatches DEF stateVars
  <2> QED
    BY <1>1, <2>1, <2>5, <2>6 DEF Looked, FlagInv, stateVars, historyVars
<1>4. CASE NakamotoRecord(r)
  <2> DEFINE x == [scan[r] EXCEPT !.blk = 0]
             y == IF Running(scan[r].client) THEN x ELSE NoScan
  <2>1. /\ scan' = [scan EXCEPT ![r] = IF Running(@.client) THEN [@ EXCEPT !.blk = 0] ELSE NoScan]
        /\ UNCHANGED <<impl, alive, gen, inst, watches, cursor, rescanQuit, client, harnessVars,
                       historyVars>>
    BY <1>4 DEF NakamotoRecord
  <2>2. scan' = [scan EXCEPT ![r] = y]
    BY <1>1, <2>1 DEF ScanInv
  <2>3. y \in ScanRec /\ ScanOK(y)
    <3>1. x \in ScanRec /\ ScanOK(x)
      BY <1>1 DEF ScanRec, ScanOK
    <3>2. y \in {x, NoScan}
      OBVIOUS
    <3> HIDE DEF x, y
    <3> QED
      BY <3>1, <3>2, NoScanIs
  <2>4. ScanInv'
    <3> HIDE DEF y
    <3> QED
      BY <1>2, <2>1, <2>2, <2>3, NoScanIs, OneScan DEF historyVars
  <2>5. WatchInv'
    BY <2>1, SameWatches
  <2> QED
    BY <1>1, <2>1, <2>4, <2>5 DEF Looked, FlagInv, historyVars
<1> QED
  BY <1>3, <1>4 DEF NakamotoScan

LEMMA BlockLeft ==
  ASSUME NEW x \in ScanRec, NEW y, y = [x EXCEPT !.blk = 0, !.st = "scan"]
  PROVE  y \in ScanRec /\ y.at = x.at /\ y.script = x.script /\ y.st = "scan"
<1>1. 0 \in 0 .. Tip
  BY AdapterAssumption
<1>2. y.blk = 0 /\ y.st = "scan" /\ y.at = x.at /\ y.script = x.script
  BY DEF ScanRec
<1>3. y \in ScanRec
  BY <1>1 DEF ScanRec
<1> QED
  BY <1>2, <1>3

LEMMA WatchDone ==
  ASSUME NEW x \in ScanRec, NEW y, y = [x EXCEPT !.script = NoScript, !.at = 0, !.st = "on"]
  PROVE  y \in ScanRec /\ y.st = "on"
<1>1. 0 \in 0 .. Tip + 1
  BY AdapterAssumption
<1>2. y.st = "on"
  BY DEF ScanRec
<1>3. y \in ScanRec
  BY <1>1 DEF ScanRec
<1> QED
  BY <1>2, <1>3

LEMMA WasabiScanLooks ==
  ASSUME AdapterInv, impl = "wasabi", NEW r \in Scanners, WasabiScan(r)
  PROVE  Looked
<1>1. /\ FlagInv /\ ScanInv /\ WatchInv /\ Tip \in Nat /\ scan[r] \in ScanRec /\ ScanOK(scan[r])
      /\ scan \in [Scanners -> ScanRec]
  BY AdapterAssumption DEF AdapterInv, ScanInv
<1>2. rescanQuit \in {0} \cup Scanners /\ missed \subseteq Heights
  BY <1>1 DEF ScanInv
<1>3. /\ scan[r].client \in {0} \cup Clients /\ scan[r].script \in Scripts \cup {NoScript}
      /\ scan[r].at \in 0 .. Tip + 1 /\ scan[r].blk \in 0 .. Tip
      /\ scan[r].st \in {"off", "on", "scan", "fetch", "held"}
  BY <1>1 DEF ScanRec
<1>4. ASSUME NEW x \in ScanRec, ScanOK(x), scan' = [scan EXCEPT ![r] = x], WatchInv',
             missed' \subseteq Heights,
             UNCHANGED <<impl, alive, gen, client, inst, rescanQuit, harnessVars, straggler>>
      PROVE  Looked
  <2>1. ScanInv'
    BY <1>2, <1>4, OneScan
  <2> QED
    BY <1>1, <1>4, <2>1 DEF Looked, FlagInv
<1>5. CASE WasabiBatch(r)
  <2>1. /\ scan[r].st = "on" /\ UNCHANGED <<impl, alive, stateVars, client, harnessVars, historyVars>>
    BY <1>5 DEF WasabiBatch
  <2>2. PICK s \in DOMAIN cursor :
          /\ cursor[s] <= Tip
          /\ scan' = [scan EXCEPT ![r] = [@ EXCEPT !.script = s, !.at = cursor[s], !.st = "scan"]]
    BY <1>5 DEF WasabiBatch
  <2>3. s \in Scripts /\ cursor[s] \in 0 .. Tip + 1 /\ cursor[s] # 0
    BY <1>1 DEF WatchInv
  <2> DEFINE x == [scan[r] EXCEPT !.script = s, !.at = cursor[s], !.st = "scan"]
  <2>4. scan' = [scan EXCEPT ![r] = x]
    BY <1>1, <2>2
  <2>5. x \in ScanRec
    BY <1>1, <2>3 DEF ScanRec
  <2>6. ScanOK(x)
    BY <1>1, <2>3 DEF ScanRec, ScanOK
  <2>7. WatchInv'
    BY <2>1, SameWatches DEF stateVars
  <2> HIDE DEF x
  <2> QED
    BY <1>2, <1>4, <2>1, <2>4, <2>5, <2>6, <2>7 DEF stateVars, historyVars
<1>6. CASE WasabiFilter(r)
  <2>1. /\ scan[r].st = "scan" /\ UNCHANGED <<impl, alive, stateVars, client, harnessVars, historyVars>>
    BY <1>6 DEF WasabiFilter
  <2>2. PICK h \in Hits(r) :
          scan' = [scan EXCEPT ![r] = [@ EXCEPT !.at = h + 1, !.blk = h, !.st = "fetch"]]
    BY <1>6 DEF WasabiFilter
  <2>3. scan[r].at # 0 /\ scan[r].script \in Scripts
    BY <1>1, <2>1 DEF ScanOK
  <2>4. h \in 0 .. Tip /\ h # 0 /\ h + 1 \in 0 .. Tip + 1 /\ h + 1 # 0
    BY <1>1, <1>3, <2>3 DEF Hits
  <2> DEFINE x == [scan[r] EXCEPT !.at = h + 1, !.blk = h, !.st = "fetch"]
  <2>5. scan' = [scan EXCEPT ![r] = x]
    BY <1>1, <2>2
  <2>6. x \in ScanRec
    BY <1>1, <2>4 DEF ScanRec
  <2>7. ScanOK(x)
    BY <1>1, <2>3, <2>4 DEF ScanRec, ScanOK
  <2>8. WatchInv'
    BY <2>1, SameWatches DEF stateVars
  <2> HIDE DEF x
  <2> QED
    BY <1>2, <1>4, <2>1, <2>5, <2>6, <2>7, <2>8 DEF stateVars, historyVars
<1>7. CASE WasabiBlock(r)
  <2> DEFINE x == [scan[r] EXCEPT !.st = "held"]
             y == [scan[r] EXCEPT !.blk = 0, !.st = "scan"]
  <2>1. /\ scan[r].st = "fetch"
        /\ \/ scan' = [scan EXCEPT ![r].st = "held"] /\ missed' = missed
           \/ /\ scan' = [scan EXCEPT ![r].blk = 0, ![r].st = "scan"]
              /\ missed' \subseteq missed \cup {scan[r].blk}
        /\ UNCHANGED <<impl, alive, stateVars, client, harnessVars, straggler>>
    BY <1>7 DEF WasabiBlock
  <2>2. scan' = [scan EXCEPT ![r] = x] \/ scan' = [scan EXCEPT ![r] = y]
    BY <1>1, <2>1
  <2>3. scan[r].blk \in Heights
    BY <1>1, <1>3, <2>1 DEF ScanOK, Heights
  <2>4. missed' \subseteq Heights
    BY <1>2, <2>1, <2>3
  <2>5. scan[r].at # 0 /\ scan[r].script \in Scripts
    BY <1>1, <2>1 DEF ScanOK
  <2>6. x \in ScanRec /\ ScanOK(x)
    BY <1>1, <2>1, <2>5 DEF ScanRec, ScanOK
  <2>7. y \in ScanRec /\ y.at = scan[r].at /\ y.script = scan[r].script /\ y.st = "scan"
    BY <1>1, BlockLeft
  <2>8. ScanOK(y)
    <3> HIDE DEF y
    <3> QED
      BY <2>5, <2>7 DEF ScanOK
  <2>9. WatchInv'
    BY <2>1, SameWatches DEF stateVars
  <2> HIDE DEF x, y
  <2> QED
    BY <1>4, <2>1, <2>2, <2>4, <2>6, <2>7, <2>8, <2>9 DEF stateVars
<1>8. CASE WasabiRecord(r)
  <2> DEFINE y == [scan[r] EXCEPT !.blk = 0, !.st = "scan"]
  <2>1. /\ scan[r].st = "held"
        /\ scan' = [scan EXCEPT ![r].blk = 0, ![r].st = "scan"]
        /\ UNCHANGED <<impl, alive, gen, inst, watches, cursor, rescanQuit, client, harnessVars,
                       historyVars>>
    BY <1>8 DEF WasabiRecord
  <2>2. scan' = [scan EXCEPT ![r] = y]
    BY <1>1, <2>1
  <2>3. scan[r].at # 0 /\ scan[r].script \in Scripts
    BY <1>1, <2>1 DEF ScanOK
  <2>4. y \in ScanRec /\ y.at = scan[r].at /\ y.script = scan[r].script /\ y.st = "scan"
    BY <1>1, BlockLeft
  <2>5. ScanOK(y)
    <3> HIDE DEF y
    <3> QED
      BY <2>3, <2>4 DEF ScanOK
  <2>6. WatchInv'
    BY <2>1, SameWatches
  <2> HIDE DEF y
  <2> QED
    BY <1>2, <1>4, <2>1, <2>2, <2>4, <2>5, <2>6 DEF historyVars
<1>9. CASE WasabiMark(r)
  <2> DEFINE x == [scan[r] EXCEPT !.script = NoScript, !.at = 0, !.st = "on"]
  <2>1. /\ cursor' = [s \in DOMAIN cursor |-> IF s = scan[r].script THEN Most(cursor[s], Tip + 1)
                                                                  ELSE cursor[s]]
        /\ scan' = [scan EXCEPT ![r] = [@ EXCEPT !.script = NoScript, !.at = 0, !.st = "on"]]
        /\ UNCHANGED <<impl, alive, gen, inst, watches, outpoints, matches, rescanQuit, client,
                       harnessVars, historyVars>>
    BY <1>9 DEF WasabiMark
  <2>2. scan' = [scan EXCEPT ![r] = x]
    BY <1>1, <2>1
  <2>3. x \in ScanRec /\ x.st = "on"
    BY <1>1, WatchDone
  <2>4. ScanOK(x)
    <3> HIDE DEF x
    <3> QED
      BY <2>3 DEF ScanOK
  <2>5. WatchInv'
    <3>1. \A s \in DOMAIN cursor : Most(cursor[s], Tip + 1) \in 1 .. Tip + 1
      BY <1>1 DEF WatchInv, Most
    <3> HIDE DEF Most
    <3> QED
      BY <1>1, <2>1, <3>1 DEF WatchInv
  <2> HIDE DEF x
  <2> QED
    BY <1>2, <1>4, <2>1, <2>2, <2>3, <2>4, <2>5 DEF historyVars
<1>10. CASE WasabiEnd(r)
  <2>1. /\ scan' = [scan EXCEPT ![r] = NoScan]
        /\ UNCHANGED <<impl, alive, stateVars, client, harnessVars, historyVars>>
    BY <1>10 DEF WasabiEnd
  <2>2. WatchInv'
    BY <2>1, SameWatches DEF stateVars
  <2> QED
    BY <1>2, <1>4, <2>1, <2>2, NoScanIs DEF stateVars, historyVars
<1> QED
  BY <1>5, <1>6, <1>7, <1>8, <1>9, <1>10 DEF WasabiScan

-----------------------------------------------------------------------------
(* How a step may change what was found. *)

Quiet == matches' = matches /\ outpoints' = outpoints

Emptied == matches' = {} /\ outpoints' = Nothing

Added ==
  \E s \in Scripts :
    /\ matches' = matches
    /\ outpoints' = IF s \in DOMAIN outpoints THEN outpoints ELSE Put(outpoints, s, {})

Recorded == \E S \in SUBSET Scripts : \E h : Record(S, h)

FindsStep == Quiet \/ Emptied \/ Added \/ Recorded

LEMMA RefuseQuiet ==
  ASSUME NEW k \in Calls, Refuse(k)
  PROVE  Quiet
BY DEF Refuse, Quiet, stateVars

LEMMA WatchedIs ==
  ASSUME AdapterInv, NEW k \in Calls, Called(k, "watch")
  PROVE  call[k].script \in Scripts
<1>1. Fresh(k, "watch") /\ call[k] # Idle
  BY CalledIs DEF Ops
<1> QED
  BY <1>1 DEF AdapterInv, CallInv, CallOK, Fresh

LEMMA NeutrinoFinds ==
  ASSUME AdapterInv
  PROVE  /\ \A k \in Calls : NeutrinoHandler(k) => FindsStep
         /\ \A r \in Scanners : NeutrinoScan(r) => FindsStep
<1>1. ASSUME NEW k \in Calls, NeutrinoHandler(k)
      PROVE  FindsStep
  <2>1. CASE NeutrinoConfigure(k)
    BY <2>1 DEF NeutrinoConfigure, Clear, Emptied, Quiet, FindsStep
  <2>2. CASE NeutrinoStart(k) \/ NeutrinoStarted(k) \/ NeutrinoStop(k) \/ NeutrinoRescan(k)
    BY <2>2 DEF NeutrinoStart, NeutrinoStarted, NeutrinoStop, NeutrinoRescan, Quiet, FindsStep, stateVars
  <2>3. CASE NeutrinoWatch(k)
    BY <2>3, WatchedIs DEF NeutrinoWatch, Added, FindsStep
  <2> QED
    BY <1>1, <2>1, <2>2, <2>3, RefuseQuiet DEF NeutrinoHandler, FindsStep
<1>2. ASSUME NEW r \in Scanners, NeutrinoScan(r)
      PROVE  FindsStep
  <2>1. CASE NeutrinoBlock(r)
    BY <2>1 DEF NeutrinoBlock, Quiet, FindsStep, stateVars
  <2>2. CASE NeutrinoRecord(r)
    <3>1. \A s \in DOMAIN outpoints : {s} \in SUBSET Scripts
      BY DEF AdapterInv, FindsInv
    <3> QED
      BY <2>2, <3>1 DEF NeutrinoRecord, Quiet, Recorded, FindsStep
  <2> QED
    BY <1>2, <2>1, <2>2 DEF NeutrinoScan
<1> QED
  BY <1>1, <1>2

LEMMA KyotoFinds ==
  ASSUME AdapterInv
  PROVE  /\ \A k \in Calls : KyotoHandler(k) => FindsStep
         /\ \A r \in Scanners : KyotoScan(r) => FindsStep
<1>1. ASSUME NEW k \in Calls, KyotoHandler(k)
      PROVE  FindsStep
  <2>1. CASE KyotoConfigure(k)
    BY <2>1 DEF KyotoConfigure, Clear, Emptied, FindsStep
  <2>2. CASE KyotoStart(k) \/ KyotoStop(k) \/ KyotoRescan(k)
    BY <2>2 DEF KyotoStart, KyotoStop, KyotoRescan, Quiet, FindsStep, stateVars
  <2>3. CASE KyotoWatch(k)
    BY <2>3, WatchedIs DEF KyotoWatch, Added, FindsStep
  <2> QED
    BY <1>1, <2>1, <2>2, <2>3, RefuseQuiet DEF KyotoHandler, FindsStep
<1>2. ASSUME NEW r \in Scanners, KyotoScan(r)
      PROVE  FindsStep
  <2>1. CASE KyotoFilter(r) \/ KyotoBlock(r)
    BY <2>1 DEF KyotoFilter, KyotoBlock, Quiet, FindsStep, stateVars
  <2>2. CASE KyotoRecord(r)
    <3>1. DOMAIN watches \in SUBSET Scripts
      BY DEF AdapterInv, WatchInv
    <3> QED
      BY <2>2, <3>1 DEF KyotoRecord, Recorded, FindsStep
  <2> QED
    BY <1>2, <2>1, <2>2 DEF KyotoScan
<1> QED
  BY <1>1, <1>2

LEMMA NakamotoFinds ==
  ASSUME AdapterInv
  PROVE  /\ \A k \in Calls : NakamotoHandler(k) => FindsStep
         /\ \A r \in Scanners : NakamotoScan(r) => FindsStep
<1>1. ASSUME NEW k \in Calls, NakamotoHandler(k)
      PROVE  FindsStep
  <2>1. CASE NakamotoConfigure(k)
    BY <2>1 DEF NakamotoConfigure, Clear, Emptied, FindsStep
  <2>2. CASE NakamotoStart(k) \/ NakamotoLoad(k) \/ NakamotoInstall(k)
    BY <2>2 DEF NakamotoStart, NakamotoLoad, NakamotoInstall, Quiet, FindsStep, stateVars
  <2>3. CASE NakamotoStop(k) \/ NakamotoRescan(k)
    BY <2>3 DEF NakamotoStop, NakamotoRescan, Quiet, FindsStep, stateVars
  <2>4. CASE NakamotoWatch(k)
    BY <2>4, WatchedIs DEF NakamotoWatch, Added, FindsStep
  <2> QED
    BY <1>1, <2>1, <2>2, <2>3, <2>4, RefuseQuiet DEF NakamotoHandler, FindsStep
<1>2. ASSUME NEW r \in Scanners, NakamotoScan(r)
      PROVE  FindsStep
  <2>1. CASE NakamotoBlock(r)
    BY <2>1 DEF NakamotoBlock, Quiet, FindsStep, stateVars
  <2>2. CASE NakamotoRecord(r)
    <3>1. DOMAIN watches \in SUBSET Scripts
      BY DEF AdapterInv, WatchInv
    <3> QED
      BY <2>2, <3>1 DEF NakamotoRecord, Recorded, FindsStep
  <2> QED
    BY <1>2, <2>1, <2>2 DEF NakamotoScan
<1> QED
  BY <1>1, <1>2

LEMMA WasabiFinds ==
  ASSUME AdapterInv, impl = "wasabi"
  PROVE  /\ \A k \in Calls : WasabiHandler(k) => FindsStep
         /\ \A r \in Scanners : WasabiScan(r) => FindsStep
<1>1. ASSUME NEW k \in Calls, WasabiHandler(k)
      PROVE  FindsStep
  <2>1. CASE WasabiConfigure(k)
    BY <2>1 DEF WasabiConfigure, Clear, Emptied, FindsStep
  <2>2. CASE WasabiStop(k) \/ WasabiCancel(k) \/ WasabiDisposed(k)
    BY <2>2 DEF WasabiStop, WasabiCancel, WasabiDisposed, Quiet, FindsStep, stateVars
  <2>3. CASE WasabiStart(k) \/ WasabiCreate(k)
    BY <2>3 DEF WasabiStart, WasabiCreate, Quiet, FindsStep, stateVars
  <2>4. CASE WasabiWatch(k)
    BY <2>4, WatchedIs DEF WasabiWatch, Added, FindsStep
  <2> QED
    BY <1>1, <2>1, <2>2, <2>3, <2>4, RefuseQuiet DEF WasabiHandler, FindsStep
<1>2. ASSUME NEW r \in Scanners, WasabiScan(r)
      PROVE  FindsStep
  <2>1. CASE WasabiBatch(r) \/ WasabiFilter(r) \/ WasabiBlock(r)
    BY <2>1 DEF WasabiBatch, WasabiFilter, WasabiBlock, Quiet, FindsStep, stateVars
  <2>2. CASE WasabiMark(r) \/ WasabiEnd(r)
    BY <2>2 DEF WasabiMark, WasabiEnd, Quiet, FindsStep, stateVars
  <2>3. CASE WasabiRecord(r)
    <3>1. {scan[r].script} \in SUBSET Scripts
      BY <2>3 DEF WasabiRecord, AdapterInv, ScanInv, ScanOK
    <3> QED
      BY <2>3, <3>1 DEF WasabiRecord, Recorded, FindsStep
  <2> QED
    BY <1>2, <2>1, <2>2, <2>3 DEF WasabiScan
<1> QED
  BY <1>1, <1>2

LEMMA FakeFinds ==
  \A k \in Calls : FakeHandler(k) => FindsStep
<1> SUFFICES ASSUME NEW k \in Calls, FakeHandler(k)
             PROVE  FindsStep
  OBVIOUS
<1>1. CASE FakeConfigure(k) \/ FakeStart(k) \/ FakeStop(k) \/ FakeWatch(k)
  BY <1>1 DEF FakeConfigure, FakeStart, FakeStop, FakeWatch, Quiet, FindsStep
<1> QED
  BY <1>1, RefuseQuiet DEF FakeHandler, FindsStep

LEMMA NextFinds ==
  ASSUME AdapterInv, [Next]_adapterVars
  PROVE  FindsStep
<1>1. CASE Harness
  BY <1>1, HarnessCalls DEF FindsStep, Quiet, stateVars, AdapterInv
<1>2. ASSUME NEW k \in Calls, Handler(k)
      PROVE  FindsStep
  BY <1>2, NeutrinoFinds, KyotoFinds, NakamotoFinds, WasabiFinds, FakeFinds DEF Handler
<1>3. ASSUME NEW r \in Scanners, Scan(r)
      PROVE  FindsStep
  BY <1>3, NeutrinoFinds, KyotoFinds, NakamotoFinds, WasabiFinds DEF Scan
<1>4. CASE UNCHANGED adapterVars
  BY <1>4 DEF adapterVars, stateVars, Quiet, FindsStep
<1> QED
  BY <1>1, <1>2, <1>3, <1>4 DEF Next

LEMMA RecordTypes ==
  ASSUME FindsInv, NEW S \in SUBSET Scripts, NEW h, Record(S, h)
  PROVE  FindsInv'
<1> DEFINE outs == {Match(s, h, h) : s \in {t \in S : h \in Pays[t]}}
           spends(s) == {Match(s, h, p[2]) :
                           p \in {q \in Spends[s] : q[1] = h /\ q[2] \in outpoints'[s]}}
           ins  == UNION {spends(s) : s \in S}
<1>1. matches' = (matches \cup outs) \cup ins /\ outpoints' = Found(S, h)
  BY DEF Record
<1>2. /\ DOMAIN outpoints' \subseteq Scripts
      /\ \A s \in DOMAIN outpoints' : outpoints'[s] \subseteq Pays[s]
  BY <1>1 DEF Found, FindsInv
<1>3. \A m \in matches : m.script \in Scripts /\ <<m.height, m.of>> \in Expected(m.script, Heights)
  BY DEF FindsInv
<1>4. \A m \in outs : m.script \in Scripts /\ <<m.height, m.of>> \in Expected(m.script, Heights)
  <2> SUFFICES ASSUME NEW s \in S, h \in Pays[s]
               PROVE  /\ Match(s, h, h).script \in Scripts
                      /\ <<Match(s, h, h).height, Match(s, h, h).of>>
                           \in Expected(Match(s, h, h).script, Heights)
    OBVIOUS
  <2>1. s \in Scripts /\ h \in Heights
    BY AdapterAssumption DEF Heights
  <2> QED
    BY <2>1 DEF Match, Expected
<1>5. \A m \in ins : m.script \in Scripts /\ <<m.height, m.of>> \in Expected(m.script, Heights)
  <2> SUFFICES ASSUME NEW m \in ins
               PROVE  m.script \in Scripts /\ <<m.height, m.of>> \in Expected(m.script, Heights)
    OBVIOUS
  <2>1. PICK s \in S : m \in spends(s)
    OBVIOUS
  <2>2. PICK p \in Spends[s] : p[1] = h /\ m = Match(s, h, p[2])
    BY <2>1
  <2>3. s \in Scripts /\ p \in (1 .. Tip) \X (1 .. Tip)
    BY AdapterAssumption
  <2>4. p = <<p[1], p[2]>> /\ p[1] \in Heights /\ p[2] \in Heights
    BY <2>3 DEF Heights
  <2>5. <<h, p[2]>> \in Spends[s]
    BY <2>2, <2>4
  <2>6. m.script = s /\ m.height = h /\ m.of = p[2]
    BY <2>2 DEF Match
  <2> QED
    BY <2>2, <2>3, <2>4, <2>5, <2>6 DEF Expected
<1>6. \A m \in matches' : m.script \in Scripts /\ <<m.height, m.of>> \in Expected(m.script, Heights)
  <2> HIDE DEF outs, ins
  <2> QED
    BY <1>1, <1>3, <1>4, <1>5
<1> QED
  BY <1>2, <1>6 DEF FindsInv, Expected

LEMMA FindsKept ==
  ASSUME FindsInv, FindsStep
  PROVE  FindsInv'
<1>1. CASE Quiet
  BY <1>1 DEF Quiet, FindsInv, Expected
<1>2. CASE Emptied
  BY <1>2 DEF Emptied, Nothing, FindsInv
<1>3. CASE Added
  BY <1>3 DEF Added, Put, FindsInv, Expected
<1>4. CASE Recorded
  BY <1>4, RecordTypes DEF Recorded
<1> QED
  BY <1>1, <1>2, <1>3, <1>4 DEF FindsStep

-----------------------------------------------------------------------------
(* Types. *)

LEMMA AdapterStep == AdapterInv /\ [Next]_adapterVars => AdapterInv'
<1> SUFFICES ASSUME AdapterInv, [Next]_adapterVars
             PROVE  AdapterInv'
  OBVIOUS
<1>1. FindsInv'
  BY NextFinds, FindsKept DEF AdapterInv
<1>2. CASE Harness
  BY <1>2, HarnessKeeps
<1>3. ASSUME NEW k \in Calls, Handler(k)
      PROVE  AdapterInv'
  <2>1. HandlerOK(k)
    BY <1>3, NeutrinoHandlerOK, KyotoHandlerOK, NakamotoHandlerOK, WasabiHandlerOK, FakeHandlerOK
       DEF Handler
  <2>2. CallInv' /\ ClientInv' /\ CountInv'
    BY <2>1, HandlerKeeps DEF HandlerOK
  <2> QED
    BY <1>1, <2>1, <2>2 DEF HandlerOK, AdapterInv
<1>4. ASSUME NEW r \in Scanners, Scan(r)
      PROVE  AdapterInv'
  <2>1. Looked
    BY <1>4, NeutrinoScanLooks, KyotoScanLooks, NakamotoScanLooks, WasabiScanLooks DEF Scan
  <2>2. CallInv' /\ ClientInv' /\ CountInv'
    BY <2>1, LookedKeeps
  <2> QED
    BY <1>1, <2>1, <2>2 DEF Looked, AdapterInv
<1>5. CASE UNCHANGED adapterVars
  <2>1. missed \subseteq Heights
    BY DEF AdapterInv, ScanInv
  <2>2. Looked
    BY <1>5, <2>1, SameWatches, SameScans
       DEF Looked, FlagInv, AdapterInv, adapterVars, stateVars, historyVars
  <2>3. CallInv' /\ ClientInv' /\ CountInv'
    BY <2>2, LookedKeeps
  <2> QED
    BY <1>1, <2>2, <2>3 DEF Looked, AdapterInv
<1> QED
  BY <1>2, <1>3, <1>4, <1>5 DEF Next

\* The inductive invariant of the types: each handler is where its operation can
\* be, the clients that calls refer to were made, and there is always a number
\* left for a client that /configure or /start makes.
THEOREM AdapterInvariance == Spec => []AdapterInv
<1> QED
  BY InvInit, AdapterStep, PTL DEF Spec

\* The state of each adapter has its type: watches start where the harness may
\* start them, a cursor belongs to a watch (AdapterState.cs), the outpoints and
\* the matches of a script are outputs to it and spends of them, and the call
\* that the harness waits for is one that a handler has.
THEOREM AdapterTypes == Spec => []AdaptersTypeOK
<1> QED
  BY AdapterInvariance, InvTypes, PTL

-----------------------------------------------------------------------------
(* One client. *)

\* Neutrino and Kyoto make their client under the lock, in /configure: no other
\* one can run, or be started later.
NodeInv ==
  /\ inst # 0 => client[inst].gen = gen
  /\ \A c \in Clients : client[c].st \in {"built", "running"} => c = inst

\* A handler that is about to install client c, or to stop it.
Holds(k, c) == call[k].client = c /\ call[k].pc \in {"install", "dispose"}

\* Whoever replaces a client of Nakamoto shuts it down.
HeldInv == \A c \in Clients : client[c].st = "running" => c = inst \/ \E k \in Calls : Holds(k, c)

\* Nakamoto and Wasabi make it in /start.  As long as there is one call at a
\* time, the client that is made is of the last configuration, and the place
\* that it takes is free.
SlotInv ==
  /\ inst # 0 => client[inst].gen = gen
  /\ \A k \in Calls : call[k].pc \in {"load", "install", "create"} => client[call[k].client].gen = gen
  /\ \A k \in Calls : call[k].pc = "create" => inst = 0
  /\ HeldInv

OneInv ==
  /\ impl \in {"neutrino", "kyoto"} => NodeInv
  /\ impl = "nakamoto" => HeldInv
  /\ impl \in {"nakamoto", "wasabi"} /\ givenUp = 0 => SlotInv
  /\ impl = "fake" => \A c \in Clients : client[c].st = "none"

\* The handlers that go on after their call was given up.
Late == {k \in Calls : call[k] # Idle /\ k # waiting}

\* The harness waits for a /start of Wasabi whose client will take the place of
\* one that another handler has installed meanwhile.
Owed == IF waiting # 0 /\ call[waiting].pc = "create" /\ inst # 0 THEN 1 ELSE 0

\* Each client of Wasabi that is lost, or may be lost by a handler that goes on,
\* has cost the harness a call.
CostInv == Cardinality(Lost) + Cardinality(Late) + Owed <= givenUp

\* Where the client of a handler of Wasabi is: a handler makes one of its own,
\* and one that disposes of a client has got it out of the state.
PlaceInv ==
  /\ inst # 0 => client[inst].st # "built"
  /\ \A k \in Calls :
       /\ call[k].pc \in {"none", "called"} => call[k].client = 0
       /\ call[k].pc = "create" => client[call[k].client].st = "built"
       /\ call[k].pc = "dispose" => client[call[k].client].st # "built"
       /\ call[k].pc = "disposing" => client[call[k].client].st = "stopped"
  /\ \A j, k \in Calls :
       call[j].pc = "create" /\ call[k].pc = "create" /\ call[j].client = call[k].client => j = k

LossInv == impl = "wasabi" => PlaceInv /\ CostInv

LEMMA FiniteLosses ==
  /\ IsFiniteSet(Lost) /\ Cardinality(Lost) \in Nat
  /\ IsFiniteSet(Late) /\ Cardinality(Late) \in Nat
<1>1. MaxGivenUp \in Nat
  BY AdapterAssumption
<1>2. IsFiniteSet(Calls)
  BY <1>1, FS_Interval DEF Calls
<1>3. IsFiniteSet(Late)
  BY <1>2, FS_Subset DEF Late
<1>4. IsFiniteSet(Lost)
  BY FiniteCalls, FS_Subset DEF Lost
<1> QED
  BY <1>3, <1>4, FS_CardinalityType

LEMMA OneInvInit == ProtocolInit => OneInv
<1> SUFFICES ASSUME ProtocolInit
             PROVE  OneInv
  OBVIOUS
<1>1. inst = 0 /\ (\A c \in Clients : client[c].st = "none") /\ (\A k \in Calls : call[k].pc = "none")
  BY DEF ProtocolInit, NoClient, Idle
<1> QED
  BY <1>1 DEF OneInv, NodeInv, SlotInv, HeldInv

LEMMA OneInvShows == AdapterInv /\ OneInv /\ LossInv => OneClientOfThisRun
<1> SUFFICES ASSUME AdapterInv, OneInv, LossInv
             PROVE  OneClientOfThisRun
  OBVIOUS
<1>1. impl \in {"neutrino", "kyoto", "nakamoto", "wasabi", "fake"}
  BY AdapterAssumption DEF AdapterInv, FlagInv
<1>2. ClientIsOfThisRun \/ (impl \in {"nakamoto", "wasabi"} /\ givenUp # 0)
  BY <1>1 DEF OneInv, NodeInv, SlotInv, ClientIsOfThisRun
<1>3. ASSUME NEW c \in Lost
      PROVE  client[c].st = "orphan" \/ impl = "wasabi"
  <2> SUFFICES ASSUME client[c].st = "running", impl # "wasabi"
               PROVE  FALSE
    BY DEF Lost, Networking
  <2>1. c \in Clients /\ c # inst /\ \A k \in Calls : call[k].client # c
    BY DEF Lost
  <2>2. CASE impl \in {"neutrino", "kyoto"}
    BY <2>1, <2>2 DEF OneInv, NodeInv
  <2>3. CASE impl = "nakamoto"
    BY <2>1, <2>3 DEF OneInv, HeldInv, Holds
  <2>4. CASE impl = "fake"
    BY <2>1, <2>4 DEF OneInv
  <2> QED
    BY <1>1, <2>2, <2>3, <2>4
<1>4. impl = "wasabi" => Cardinality(Lost) <= givenUp
  <2>1. givenUp \in Nat /\ Owed \in Nat
    BY DEF AdapterInv, CallInv, Owed
  <2> QED
    BY <2>1, FiniteLosses DEF LossInv, CostInv
<1> QED
  BY <1>2, <1>3, <1>4 DEF OneClientOfThisRun

LEMMA RespondIs ==
  ASSUME AdapterInv, NEW k \in Calls, NEW ok, Respond(k, ok)
  PROVE  /\ call'[k] = Idle /\ call'[k].pc = "none" /\ call'[k].client = 0
         /\ \A j \in Calls : j # k => call'[j] = call[j]
         /\ givenUp' = givenUp
BY DEF Respond, AdapterInv, CallInv, Idle

LEMMA ProceedIs ==
  ASSUME AdapterInv, NEW k \in Calls, NEW pc, NEW c, Proceed(k, pc, c)
  PROVE  /\ call'[k].pc = pc /\ call'[k].client = c
         /\ \A j \in Calls : j # k => call'[j] = call[j]
         /\ givenUp' = givenUp
BY DEF Proceed, AdapterInv, CallInv, CallRec

LEMMA HarnessOne ==
  ASSUME AdapterInv, OneInv, Harness
  PROVE  OneInv'
<1>1. UNCHANGED <<impl, alive, stateVars, client, scan, historyVars>>
  BY HarnessCalls DEF AdapterInv
<1>2. CallInv /\ givenUp \in Nat
  BY DEF AdapterInv, CallInv
<1>3. ASSUME NEW op, NEW s, NEW h, Post(op, s, h)
      PROVE  /\ givenUp' = givenUp
             /\ \A j \in Calls : call'[j] = call[j] \/ (call[j].pc = "none" /\ call'[j].pc = "called")
  <2>1. PICK k \in Calls :
          /\ call[k] = Idle
          /\ call' = [call EXCEPT ![k] = [op |-> op, pc |-> "called", script |-> s,
                                          start |-> h, client |-> 0]]
    BY <1>3 DEF Post
  <2>2. call'[k].pc = "called" /\ call[k].pc = "none" /\ \A j \in Calls : j # k => call'[j] = call[j]
    BY <1>2, <2>1 DEF CallInv, Idle
  <2> QED
    BY <1>3, <2>2 DEF Post
<1>4. /\ givenUp' = 0 => givenUp = 0
      /\ \A j \in Calls : call'[j] = call[j] \/ (call[j].pc = "none" /\ call'[j].pc = "called")
  <2>1. CASE PostConfigure
    BY <1>3, <2>1 DEF PostConfigure
  <2>2. CASE PostStart
    BY <1>3, <2>2 DEF PostStart
  <2>3. CASE PostWatch
    BY <1>3, <2>3 DEF PostWatch
  <2>4. CASE PostStop
    BY <1>3, <2>4 DEF PostStop
  <2>5. CASE GiveUp
    BY <1>2, <2>5 DEF GiveUp
  <2> QED
    BY <2>1, <2>2, <2>3, <2>4, <2>5 DEF Harness
<1>5. /\ inst' = inst /\ gen' = gen /\ client' = client /\ impl' = impl /\ straggler' = straggler
  BY <1>1 DEF stateVars, historyVars
<1>6. NodeInv => NodeInv'
  BY <1>5 DEF NodeInv
<1>7. HeldInv => HeldInv'
  <2>1. \A c : \A k \in Calls : Holds(k, c) => Holds(k, c)'
    BY <1>4 DEF Holds
  <2> QED
    BY <1>5, <2>1 DEF HeldInv
<1>8. SlotInv => SlotInv'
  <2> SUFFICES ASSUME SlotInv
               PROVE  SlotInv'
    OBVIOUS
  <2>1. \A k \in Calls : call'[k].pc \in {"load", "install", "create"} => call'[k] = call[k]
    BY <1>4
  <2> QED
    BY <1>5, <1>7, <2>1 DEF SlotInv
<1> QED
  BY <1>4, <1>5, <1>6, <1>7, <1>8 DEF OneInv

LEMMA LookedOne ==
  ASSUME AdapterInv, OneInv, Looked
  PROVE  OneInv'
BY DEF Looked, harnessVars, OneInv, NodeInv, SlotInv, HeldInv, Holds

LEMMA ScanStraggles ==
  ASSUME NEW r \in Scanners, Scan(r)
  PROVE  straggler' = straggler
<1>1. ASSUME NeutrinoScan(r)
      PROVE  straggler' = straggler
  BY <1>1 DEF NeutrinoScan, NeutrinoBlock, NeutrinoRecord, historyVars
<1>2. ASSUME KyotoScan(r)
      PROVE  straggler' = straggler
  BY <1>2 DEF KyotoScan, KyotoFilter, KyotoBlock, KyotoRecord, historyVars
<1>3. ASSUME NakamotoScan(r)
      PROVE  straggler' = straggler
  BY <1>3 DEF NakamotoScan, NakamotoBlock, NakamotoRecord, historyVars
<1>4. ASSUME WasabiScan(r)
      PROVE  straggler' = straggler
  <2>1. CASE WasabiBatch(r) \/ WasabiFilter(r) \/ WasabiBlock(r)
    BY <2>1 DEF WasabiBatch, WasabiFilter, WasabiBlock, historyVars
  <2>2. CASE WasabiRecord(r) \/ WasabiMark(r) \/ WasabiEnd(r)
    BY <2>2 DEF WasabiRecord, WasabiMark, WasabiEnd, historyVars
  <2> QED
    BY <1>4, <2>1, <2>2 DEF WasabiScan
<1> QED
  BY <1>1, <1>2, <1>3, <1>4 DEF Scan

LEMMA NeutrinoOne ==
  ASSUME AdapterInv, NodeInv, impl = "neutrino", NEW k \in Calls, NeutrinoHandler(k)
  PROVE  NodeInv'
<1>1. ClientInv
  BY DEF AdapterInv
<1> DEFINE stopped == StopService(client)
<1>2. /\ stopped \in [Clients -> ClientRec]
      /\ \A c \in Clients : stopped[c].st = IF c = inst THEN "stopped" ELSE client[c].st
  BY <1>1, ClientStops DEF StopService
<1>3. CASE Refuse(k) \/ NeutrinoStart(k) \/ NeutrinoWatch(k) \/ NeutrinoRescan(k)
  BY <1>3 DEF Refuse, NeutrinoStart, NeutrinoWatch, NeutrinoRescan, stateVars, NodeInv
<1>4. CASE NeutrinoConfigure(k)
  <2>1. Fresh(k, "configure")
    BY <1>4, CalledIs DEF NeutrinoConfigure, Ops
  <2>2. CASE /\ inst' = NewClient /\ Clear
             /\ client' = [stopped EXCEPT ![NewClient] = [gen |-> gen + 1, st |-> "built"]]
    <3>1. NewClient \in Clients
      BY <2>1, NewClientIs
    <3> DEFINE new == NewClient
    <3> HIDE DEF new, stopped
    <3>2. /\ client'[new].gen = gen + 1
          /\ \A d \in Clients : d # new => client'[d] = stopped[d]
      BY <1>2, <2>2, <3>1 DEF new
    <3>3. inst' = new /\ gen' = gen + 1
      BY <2>2 DEF Clear, new
    <3> QED
      BY <1>2, <3>2, <3>3 DEF NodeInv
  <2>3. CASE inst' = 0 /\ client' = stopped
    BY <1>2, <2>3 DEF NodeInv
  <2> QED
    BY <1>4, <2>2, <2>3 DEF NeutrinoConfigure
<1>5. CASE NeutrinoStarted(k)
  <2> DEFINE c == call[k].client
  <2>1. /\ inst' = inst /\ gen' = gen /\ At(k, "start", "start")
        /\ (client' = WithState(c, "running") /\ client[c].st = "built") \/ client' = client
    BY <1>5 DEF NeutrinoStarted, stateVars, WithState
  <2>2. c \in Used /\ c \in Clients
    <3>1. call[k] # Idle
      BY <2>1, AtIs DEF Ops
    <3> QED
      BY <1>1, <2>1, <3>1 DEF AdapterInv, CallInv, CallOK, ClientInv, At, Used
  <2>3. CASE client' = WithState(c, "running") /\ client[c].st = "built"
    <3>1. \A d \in Clients : /\ client'[d].gen = client[d].gen
                             /\ client'[d].st = IF d = c THEN "running" ELSE client[d].st
      <4> HIDE DEF c
      <4> QED
        BY <1>1, <2>2, <2>3, ClientBecomes
    <3>2. inst # 0 => inst \in Clients
      BY <1>1 DEF ClientInv
    <3>3. c = inst
      BY <2>2, <2>3 DEF NodeInv
    <3> QED
      BY <2>1, <3>1, <3>2, <3>3 DEF NodeInv
  <2>4. CASE client' = client
    BY <2>1, <2>4 DEF NodeInv
  <2> QED
    BY <2>1, <2>3, <2>4
<1>6. CASE NeutrinoStop(k)
  <2>1. inst' = 0 /\ client' = stopped
    BY <1>6 DEF NeutrinoStop
  <2> QED
    BY <1>2, <2>1 DEF NodeInv
<1> QED
  BY <1>3, <1>4, <1>5, <1>6 DEF NeutrinoHandler

LEMMA KyotoOne ==
  ASSUME AdapterInv, NodeInv, impl = "kyoto", NEW k \in Calls, KyotoHandler(k)
  PROVE  NodeInv'
<1>1. ClientInv
  BY DEF AdapterInv
<1> DEFINE stopped == StopNode(client)
<1>2. /\ stopped \in [Clients -> ClientRec]
      /\ \A c \in Clients : stopped[c].st = IF c = inst THEN "stopped" ELSE client[c].st
  BY <1>1, ClientStops DEF StopNode
<1>3. CASE Refuse(k) \/ KyotoWatch(k) \/ KyotoRescan(k)
  BY <1>3 DEF Refuse, KyotoWatch, KyotoRescan, stateVars, NodeInv
<1>4. CASE KyotoConfigure(k)
  <2>1. Fresh(k, "configure")
    BY <1>4, CalledIs DEF KyotoConfigure, Ops
  <2>2. /\ inst' = NewClient /\ Clear
        /\ client' = [stopped EXCEPT ![NewClient] = [gen |-> gen + 1, st |-> "built"]]
    BY <1>4 DEF KyotoConfigure
  <2>3. NewClient \in Clients
    BY <2>1, NewClientIs
  <2> DEFINE new == NewClient
  <2> HIDE DEF new, stopped
  <2>4. /\ client'[new].gen = gen + 1
        /\ \A d \in Clients : d # new => client'[d] = stopped[d]
    BY <1>2, <2>2, <2>3 DEF new
  <2>5. inst' = new /\ gen' = gen + 1
    BY <2>2 DEF Clear, new
  <2> QED
    BY <1>2, <2>4, <2>5 DEF NodeInv
<1>5. CASE KyotoStart(k)
  <2>1. /\ inst' = inst /\ gen' = gen
        /\ (inst # 0 /\ client' = WithState(inst, "running")) \/ client' = client
    BY <1>5 DEF KyotoStart, stateVars, WithState
  <2>2. CASE inst # 0 /\ client' = WithState(inst, "running")
    <3>1. inst \in Used /\ inst \in Clients
      BY <1>1, <2>2 DEF ClientInv
    <3>2. \A d \in Clients : /\ client'[d].gen = client[d].gen
                             /\ client'[d].st = IF d = inst THEN "running" ELSE client[d].st
      BY <1>1, <2>2, <3>1, ClientBecomes
    <3> QED
      BY <2>1, <3>1, <3>2 DEF NodeInv
  <2>3. CASE client' = client
    BY <2>1, <2>3 DEF NodeInv
  <2> QED
    BY <2>1, <2>2, <2>3
<1>6. CASE KyotoStop(k)
  <2>1. inst' = 0 /\ client' = stopped
    BY <1>6 DEF KyotoStop
  <2> QED
    BY <1>2, <2>1 DEF NodeInv
<1> QED
  BY <1>3, <1>4, <1>5, <1>6 DEF KyotoHandler
\* With one call at a time, only the handler that goes on holds a client.
LEMMA SlotIs ==
  ASSUME AdapterInv, SlotInv, givenUp = 0, NEW k \in Calls, call[k] # Idle
  PROVE  /\ \A j \in Calls : j # k => call[j].pc = "none"
         /\ \A c \in Clients : client[c].st = "running" => c = inst \/ Holds(k, c)
<1>1. \A j \in Calls : j # k => call[j] = Idle
  BY DEF AdapterInv, CallInv, Alone
<1>2. \A j \in Calls : j # k => call[j].pc = "none"
  BY <1>1 DEF Idle
<1> QED
  BY <1>2 DEF SlotInv, HeldInv, Holds

LEMMA SlotNext ==
  ASSUME NEW k \in Calls,
         \A j \in Calls : j # k => call[j].pc = "none" /\ call'[j] = call[j],
         inst' # 0 => client'[inst'].gen = gen',
         call'[k].pc \in {"load", "install", "create"} => client'[call'[k].client].gen = gen',
         call'[k].pc = "create" => inst' = 0,
         \A c \in Clients : client'[c].st = "running" => c = inst' \/ Holds(k, c)'
  PROVE  SlotInv'
<1>1. \A j \in Calls : call'[j].pc \in {"load", "install", "create"} => j = k
  OBVIOUS
<1>2. HeldInv'
  BY DEF HeldInv
<1> QED
  BY <1>1, <1>2 DEF SlotInv

LEMMA NakamotoOne ==
  ASSUME AdapterInv, SlotInv, givenUp = 0, impl = "nakamoto", NEW k \in Calls, NakamotoHandler(k)
  PROVE  SlotInv'
<1>1. ClientInv
  BY DEF AdapterInv
<1> DEFINE stopped == Shutdown(client)
<1>2. \A c \in Clients : /\ stopped[c].st = IF c = inst THEN "stopped" ELSE client[c].st
                         /\ stopped[c].gen = client[c].gen
  BY <1>1, ClientStops DEF Shutdown
<1>3. HandlerOK(k)
  BY NakamotoHandlerOK
<1>4. /\ \A j \in Calls : j # k => call[j].pc = "none"
      /\ \A c \in Clients : client[c].st = "running" => c = inst \/ Holds(k, c)
  BY <1>3, SlotIs DEF HandlerOK
<1>5. inst # 0 => client[inst].gen = gen /\ inst \in Clients
  BY <1>1 DEF SlotInv, ClientInv
<1>6. ASSUME NEW op \in Ops, Called(k, op)
      PROVE  \A c \in Clients : client[c].st = "running" => c = inst
  BY <1>4, <1>6 DEF Called, Holds
<1>7. CASE Refuse(k)
  <2>1. /\ Called(k, "configure") /\ Respond(k, FALSE)
        /\ inst' = inst /\ client' = client /\ gen' = gen
    BY <1>7 DEF Refuse, stateVars
  <2> QED
    BY <1>4, <1>5, <1>6, <2>1, RespondIs, SlotNext DEF Ops
<1>8. CASE NakamotoConfigure(k) \/ NakamotoStop(k)
  <2>1. /\ Called(k, "configure") \/ Called(k, "stop")
        /\ Respond(k, TRUE) /\ inst' = 0 /\ client' = stopped
    BY <1>8 DEF NakamotoConfigure, NakamotoStop
  <2>2. \A c \in Clients : client'[c].st # "running"
    BY <1>2, <1>6, <2>1 DEF Ops
  <2> QED
    BY <1>4, <2>1, <2>2, RespondIs, SlotNext
<1>9. CASE NakamotoStart(k)
  <2>1. Called(k, "start") /\ inst' = inst /\ gen' = gen
    BY <1>9 DEF NakamotoStart, stateVars
  <2>2. CASE Respond(k, FALSE) /\ client' = client
    BY <1>4, <1>5, <1>6, <2>1, <2>2, RespondIs, SlotNext DEF Ops
  <2>3. CASE /\ client' = [client EXCEPT ![NewClient] = [gen |-> gen, st |-> "built"]]
             /\ Proceed(k, "load", NewClient)
    <3>1. NewClient \in Clients /\ NewClient \notin Used
      BY <2>1, CalledIs, NewClientIs DEF Ops
    <3> DEFINE new == NewClient
    <3> HIDE DEF new
    <3>2. /\ client'[new].gen = gen /\ client'[new].st = "built"
          /\ \A d \in Clients : d # new => client'[d] = client[d]
      <4>1. client' = Made(client, new, gen)
        BY <2>3 DEF Made, new
      <4>2. new \in Clients /\ client \in [Clients -> ClientRec] /\ gen \in Nat
        BY <1>1, <3>1 DEF new, ClientInv, AdapterInv, CountInv
      <4> QED
        BY <4>1, <4>2, ClientMade
    <3>3. inst # 0 => inst # new
      BY <1>1, <3>1 DEF new, ClientInv
    <3>4. /\ call'[k].client = new /\ call'[k].pc = "load"
          /\ \A j \in Calls : j # k => call'[j] = call[j]
      BY <2>3, ProceedIs DEF new
    <3>5. \A c \in Clients : client'[c].st = "running" => c = inst
      BY <1>6, <2>1, <3>2 DEF Ops
    <3>6. inst' # 0 => client'[inst'].gen = gen'
      BY <1>5, <2>1, <3>2, <3>3
    <3> QED
      BY <1>4, <2>1, <3>2, <3>4, <3>5, <3>6, SlotNext
  <2> QED
    BY <1>9, <2>2, <2>3 DEF NakamotoStart
<1>10. CASE NakamotoLoad(k)
  <2> DEFINE c == call[k].client
  <2>1. /\ At(k, "start", "load") /\ inst' = inst /\ gen' = gen
        /\ \/ client' = WithState(c, "running") /\ Proceed(k, "install", c)
           \/ \E st \in {"stopped", "orphan"} : client' = WithState(c, st) /\ Respond(k, FALSE)
    BY <1>10 DEF NakamotoLoad, stateVars, WithState
  <2>2. c \in Used /\ c \in Clients /\ client[c].gen = gen
    <3>1. call[k] # Idle
      BY <2>1, AtIs DEF Ops
    <3> QED
      BY <1>1, <2>1, <3>1 DEF AdapterInv, CallInv, CallOK, ClientInv, At, Used, SlotInv
  <2>3. \A d \in Clients : client[d].st = "running" => d = inst
    BY <1>4, <2>1 DEF At, Holds
  <2>4. ASSUME NEW st \in {"stopped", "running", "orphan"}, client' = WithState(c, st)
        PROVE  \A d \in Clients : /\ client'[d].gen = client[d].gen
                                  /\ client'[d].st = IF d = c THEN st ELSE client[d].st
    <3> HIDE DEF c
    <3> QED
      BY <1>1, <2>2, <2>4, ClientBecomes
  <2>5. CASE client' = WithState(c, "running") /\ Proceed(k, "install", c)
    <3>1. \A d \in Clients : /\ client'[d].gen = client[d].gen
                             /\ client'[d].st = IF d = c THEN "running" ELSE client[d].st
      BY <2>4, <2>5
    <3>2. /\ call'[k].client = c /\ call'[k].pc = "install"
          /\ \A j \in Calls : j # k => call'[j] = call[j]
      BY <2>5, ProceedIs
    <3>3. \A d \in Clients : client'[d].st = "running" => d = inst' \/ Holds(k, d)'
      BY <2>1, <2>3, <3>1, <3>2 DEF Holds
    <3>4. client'[call'[k].client].gen = gen' /\ (inst' # 0 => client'[inst'].gen = gen')
      BY <1>5, <2>1, <2>2, <3>1, <3>2
    <3> HIDE DEF c
    <3> QED
      BY <1>4, <3>2, <3>3, <3>4, SlotNext
  <2>6. CASE \E st \in {"stopped", "orphan"} : client' = WithState(c, st) /\ Respond(k, FALSE)
    <3>0. PICK st \in {"stopped", "orphan"} : client' = WithState(c, st) /\ Respond(k, FALSE)
      BY <2>6
    <3>1. \A d \in Clients : /\ client'[d].gen = client[d].gen
                             /\ client'[d].st = IF d = c THEN st ELSE client[d].st
      BY <2>4, <3>0
    <3>2. call'[k].pc = "none" /\ \A j \in Calls : j # k => call'[j] = call[j]
      BY <3>0, RespondIs
    <3>3. \A d \in Clients : client'[d].st = "running" => d = inst'
      BY <2>1, <2>3, <3>1
    <3>4. inst' # 0 => client'[inst'].gen = gen'
      BY <1>5, <2>1, <3>1
    <3> QED
      BY <1>4, <3>2, <3>3, <3>4, SlotNext
  <2> QED
    BY <2>1, <2>5, <2>6
<1>11. CASE NakamotoInstall(k)
  <2>1. /\ At(k, "start", "install") /\ client' = stopped /\ inst' = call[k].client
        /\ Respond(k, TRUE) /\ gen' = gen
    BY <1>11 DEF NakamotoInstall
  <2>2. inst' \in Clients /\ client[inst'].gen = gen
    <3>1. call[k] # Idle
      BY <2>1, AtIs DEF Ops
    <3> QED
      BY <1>1, <2>1, <3>1 DEF AdapterInv, CallInv, CallOK, ClientInv, At, Used, SlotInv
  <2>3. call'[k].pc = "none" /\ \A j \in Calls : j # k => call'[j] = call[j]
    BY <2>1, RespondIs
  <2>4. \A d \in Clients : client'[d].st = "running" => d = inst'
    BY <1>2, <1>4, <2>1 DEF Holds
  <2>5. client'[inst'].gen = gen'
    BY <1>2, <2>1, <2>2
  <2> HIDE DEF stopped
  <2> QED
    BY <1>4, <2>3, <2>4, <2>5, SlotNext
<1>12. CASE NakamotoWatch(k) \/ NakamotoRescan(k)
  <2>1. /\ Called(k, "watch") \/ At(k, "watch", "rescan")
        /\ (\E ok \in BOOLEAN : Respond(k, ok)) \/ Proceed(k, "rescan", inst)
        /\ inst' = inst /\ client' = client /\ gen' = gen
    BY <1>12 DEF NakamotoWatch, NakamotoRescan, stateVars
  <2>2. /\ call'[k].pc \in {"none", "rescan"}
        /\ \A j \in Calls : j # k => call'[j] = call[j]
    BY <2>1, RespondIs, ProceedIs
  <2>3. \A c \in Clients : client'[c].st = "running" => c = inst'
    BY <1>4, <2>1 DEF Called, At, Holds
  <2>4. inst' # 0 => client'[inst'].gen = gen'
    BY <1>5, <2>1
  <2> QED
    BY <1>4, <2>2, <2>3, <2>4, SlotNext
<1> QED
  BY <1>7, <1>8, <1>9, <1>10, <1>11, <1>12 DEF NakamotoHandler

LEMMA HeldNext ==
  ASSUME HeldInv, NEW k \in Calls, \A j \in Calls : j # k => call'[j] = call[j],
         \A c \in Clients : client'[c].st = "running" =>
           c = inst' \/ Holds(k, c)' \/ (client[c].st = "running" /\ c # inst /\ ~ Holds(k, c))
  PROVE  HeldInv'
<1> SUFFICES ASSUME NEW c \in Clients, client'[c].st = "running", c # inst', ~ Holds(k, c)'
             PROVE  \E j \in Calls : Holds(j, c)'
  BY DEF HeldInv
<1>1. PICK j \in Calls : Holds(j, c) /\ j # k
  BY DEF HeldInv
<1> QED
  BY <1>1 DEF Holds

LEMMA NakamotoHeld ==
  ASSUME AdapterInv, HeldInv, impl = "nakamoto", NEW k \in Calls, NakamotoHandler(k)
  PROVE  HeldInv'
<1>1. ClientInv
  BY DEF AdapterInv
<1> DEFINE stopped == Shutdown(client)
<1>2. \A c \in Clients : stopped[c].st = IF c = inst THEN "stopped" ELSE client[c].st
  BY <1>1, ClientStops DEF Shutdown
<1>3. \A op, c : Called(k, op) \/ At(k, "start", "load") \/ At(k, "watch", "rescan") => ~ Holds(k, c)
  BY DEF Called, At, Holds
<1>4. ASSUME \E ok : Respond(k, ok)
      PROVE  \A j \in Calls : j # k => call'[j] = call[j]
  BY <1>4, RespondIs
<1>5. CASE Refuse(k) \/ NakamotoWatch(k) \/ NakamotoRescan(k)
  <2>1. /\ Called(k, "configure") \/ Called(k, "watch") \/ At(k, "watch", "rescan")
        /\ (\E ok : Respond(k, ok)) \/ Proceed(k, "rescan", inst)
        /\ inst' = inst /\ client' = client
    BY <1>5 DEF Refuse, NakamotoWatch, NakamotoRescan, stateVars
  <2>2. \A j \in Calls : j # k => call'[j] = call[j]
    BY <1>4, <2>1, ProceedIs
  <2> QED
    BY <1>3, <2>1, <2>2, HeldNext
<1>6. CASE NakamotoConfigure(k) \/ NakamotoStop(k)
  <2>1. /\ Called(k, "configure") \/ Called(k, "stop")
        /\ Respond(k, TRUE) /\ client' = stopped
    BY <1>6 DEF NakamotoConfigure, NakamotoStop
  <2>2. \A c \in Clients : client'[c].st = "running" => client[c].st = "running" /\ c # inst
    BY <1>2, <2>1
  <2> HIDE DEF stopped
  <2> QED
    BY <1>3, <1>4, <2>1, <2>2, HeldNext
<1>7. CASE NakamotoStart(k)
  <2>1. Called(k, "start") /\ inst' = inst
    BY <1>7 DEF NakamotoStart, stateVars
  <2>2. CASE Respond(k, FALSE) /\ client' = client
    BY <1>3, <1>4, <2>1, <2>2, HeldNext
  <2>3. CASE /\ client' = [client EXCEPT ![NewClient] = [gen |-> gen, st |-> "built"]]
             /\ Proceed(k, "load", NewClient)
    <3>1. \A c \in Clients : client'[c].st = "running" => client[c].st = "running"
      BY <1>1, <2>3 DEF ClientInv
    <3>2. \A j \in Calls : j # k => call'[j] = call[j]
      BY <2>3, ProceedIs
    <3> QED
      BY <1>3, <2>1, <3>1, <3>2, HeldNext
  <2> QED
    BY <1>7, <2>2, <2>3 DEF NakamotoStart
<1>8. CASE NakamotoLoad(k)
  <2> DEFINE c == call[k].client
  <2>1. /\ At(k, "start", "load") /\ inst' = inst
        /\ \/ client' = WithState(c, "running") /\ Proceed(k, "install", c)
           \/ \E st \in {"stopped", "orphan"} : client' = WithState(c, st) /\ Respond(k, FALSE)
    BY <1>8 DEF NakamotoLoad, stateVars, WithState
  <2>2. c \in Used
    <3>1. call[k] # Idle
      BY <2>1, AtIs DEF Ops
    <3> QED
      BY <1>1, <2>1, <3>1 DEF AdapterInv, CallInv, CallOK, ClientInv, At
  <2>3. ASSUME NEW st \in {"stopped", "running", "orphan"}, client' = WithState(c, st)
        PROVE  \A d \in Clients : client'[d].st = IF d = c THEN st ELSE client[d].st
    <3> HIDE DEF c
    <3> QED
      BY <1>1, <2>2, <2>3, ClientBecomes
  <2>4. CASE client' = WithState(c, "running") /\ Proceed(k, "install", c)
    <3>1. \A d \in Clients : client'[d].st = IF d = c THEN "running" ELSE client[d].st
      BY <2>3, <2>4
    <3>2. /\ call'[k].pc = "install" /\ call'[k].client = c
          /\ \A j \in Calls : j # k => call'[j] = call[j]
      BY <2>4, ProceedIs
    <3>3. ASSUME NEW d \in Clients, client'[d].st = "running"
          PROVE  d = inst' \/ Holds(k, d)' \/ (client[d].st = "running" /\ d # inst /\ ~ Holds(k, d))
      <4>1. ~ Holds(k, d)
        BY <1>3, <2>1
      <4>2. CASE d = c
        BY <3>2, <4>2 DEF Holds
      <4>3. CASE d # c
        <5>1. client[d].st = "running"
          BY <3>1, <3>3, <4>3
        <5> QED
          BY <2>1, <4>1, <5>1
      <4> QED
        BY <4>2, <4>3
    <3> HIDE DEF c
    <3> QED
      BY <3>2, <3>3, HeldNext
  <2>5. CASE \E st \in {"stopped", "orphan"} : client' = WithState(c, st) /\ Respond(k, FALSE)
    <3>1. PICK st \in {"stopped", "orphan"} : client' = WithState(c, st) /\ Respond(k, FALSE)
      BY <2>5
    <3>2. \A d \in Clients : client'[d].st = IF d = c THEN st ELSE client[d].st
      BY <2>3, <3>1
    <3>3. \A d \in Clients : client'[d].st = "running" =>
            d = inst' \/ (client[d].st = "running" /\ d # inst /\ ~ Holds(k, d))
      BY <1>3, <2>1, <3>2
    <3> HIDE DEF c
    <3> QED
      BY <1>4, <3>1, <3>3, HeldNext
  <2> QED
    BY <2>1, <2>4, <2>5
<1>9. CASE NakamotoInstall(k)
  <2>1. /\ At(k, "start", "install") /\ client' = stopped /\ inst' = call[k].client
        /\ Respond(k, TRUE)
    BY <1>9 DEF NakamotoInstall
  <2>2. \A c \in Clients : client'[c].st = "running" =>
          c = inst' \/ (client[c].st = "running" /\ c # inst /\ ~ Holds(k, c))
    BY <1>2, <2>1 DEF Holds
  <2> HIDE DEF stopped
  <2> QED
    BY <1>4, <2>1, <2>2, HeldNext
<1> QED
  BY <1>5, <1>6, <1>7, <1>8, <1>9 DEF NakamotoHandler

LEMMA WasabiOne ==
  ASSUME AdapterInv, SlotInv, givenUp = 0, impl = "wasabi", NEW k \in Calls, WasabiHandler(k)
  PROVE  SlotInv'
<1>1. ClientInv
  BY DEF AdapterInv
<1>2. HandlerOK(k)
  BY WasabiHandlerOK
<1>3. /\ \A j \in Calls : j # k => call[j].pc = "none"
      /\ \A c \in Clients : client[c].st = "running" => c = inst \/ Holds(k, c)
  BY <1>2, SlotIs DEF HandlerOK
<1>4. inst # 0 => client[inst].gen = gen /\ inst \in Clients
  BY <1>1 DEF SlotInv, ClientInv
<1>5. ASSUME NEW op \in Ops, Called(k, op)
      PROVE  \A c \in Clients : client[c].st = "running" => c = inst
  BY <1>3, <1>5 DEF Called, Holds
<1>6. call[k].pc \notin {"none", "called"} => call[k].client \in Used /\ call[k].client \in Clients
  <2>1. CallOK(call[k])
    BY DEF AdapterInv, CallInv
  <2> QED
    BY <1>1, <2>1 DEF CallOK, Idle, ClientInv, Used
<1>7. ASSUME NEW c \in Used, NEW st \in {"stopped", "running"}, client' = WithState(c, st)
      PROVE  \A d \in Clients : /\ client'[d].gen = client[d].gen
                                /\ client'[d].st = IF d = c THEN st ELSE client[d].st
  BY <1>1, <1>7, ClientBecomes
<1>8. CASE Refuse(k) \/ WasabiWatch(k)
  <2>1. /\ Called(k, "configure") \/ Called(k, "watch")
        /\ \E ok \in BOOLEAN : Respond(k, ok)
        /\ inst' = inst /\ client' = client /\ gen' = gen
    BY <1>8 DEF Refuse, WasabiWatch, stateVars
  <2>2. call'[k].pc = "none" /\ \A j \in Calls : j # k => call'[j] = call[j]
    BY <2>1, RespondIs
  <2>3. \A c \in Clients : client'[c].st = "running" => c = inst'
    BY <1>5, <2>1 DEF Ops
  <2> QED
    BY <1>3, <1>4, <2>1, <2>2, <2>3, SlotNext
<1>9. CASE WasabiConfigure(k) \/ WasabiStop(k)
  <2>1. /\ Called(k, "configure") \/ Called(k, "stop")
        /\ inst' = 0 /\ client' = client
        /\ IF inst = 0 THEN Respond(k, TRUE) ELSE Proceed(k, "dispose", inst)
    BY <1>9 DEF WasabiConfigure, WasabiStop, TakeClient
  <2>2. \A c \in Clients : client'[c].st = "running" => c = inst
    BY <1>5, <2>1 DEF Ops
  <2>3. CASE inst = 0 /\ Respond(k, TRUE)
    <3>1. call'[k].pc = "none" /\ \A j \in Calls : j # k => call'[j] = call[j]
      BY <2>3, RespondIs
    <3>2. \A c \in Clients : client'[c].st # "running"
      BY <2>2, <2>3 DEF Clients
    <3> QED
      BY <1>3, <2>1, <3>1, <3>2, SlotNext
  <2>4. CASE inst # 0 /\ Proceed(k, "dispose", inst)
    <3>1. /\ call'[k].pc = "dispose" /\ call'[k].client = inst
          /\ \A j \in Calls : j # k => call'[j] = call[j]
      BY <2>4, ProceedIs
    <3>2. \A c \in Clients : client'[c].st = "running" => c = inst' \/ Holds(k, c)'
      BY <2>2, <3>1 DEF Holds
    <3> QED
      BY <1>3, <2>1, <3>1, <3>2, SlotNext
  <2> QED
    BY <2>1, <2>3, <2>4
<1>10. CASE WasabiCancel(k)
  <2> DEFINE c == call[k].client
  <2>1. /\ call[k].pc = "dispose" /\ client' = WithState(c, "stopped")
        /\ Proceed(k, "disposing", c) /\ inst' = inst /\ gen' = gen
    BY <1>10 DEF WasabiCancel, stateVars, WithState
  <2>2. \A d \in Clients : /\ client'[d].gen = client[d].gen
                           /\ client'[d].st = IF d = c THEN "stopped" ELSE client[d].st
    BY <1>6, <1>7, <2>1
  <2>3. call'[k].pc = "disposing" /\ \A j \in Calls : j # k => call'[j] = call[j]
    BY <2>1, ProceedIs
  <2>4. \A d \in Clients : client'[d].st = "running" => d = inst'
    BY <1>3, <2>1, <2>2 DEF Holds
  <2>5. inst' # 0 => client'[inst'].gen = gen'
    BY <1>4, <2>1, <2>2
  <2> QED
    BY <1>3, <2>3, <2>4, <2>5, SlotNext
<1>11. CASE WasabiDisposed(k)
  <2>1. /\ call[k].pc = "disposing" /\ Respond(k, TRUE)
        /\ inst' = inst /\ gen' = gen /\ client' = client
    BY <1>11 DEF WasabiDisposed, stateVars
  <2>2. call'[k].pc = "none" /\ \A j \in Calls : j # k => call'[j] = call[j]
    BY <2>1, RespondIs
  <2>3. \A d \in Clients : client'[d].st = "running" => d = inst'
    BY <1>3, <2>1 DEF Holds
  <2> QED
    BY <1>3, <1>4, <2>1, <2>2, <2>3, SlotNext
<1>12. CASE WasabiStart(k)
  <2>1. Called(k, "start") /\ inst' = inst /\ gen' = gen
    BY <1>12 DEF WasabiStart, stateVars
  <2>2. CASE Respond(k, gen # 0) /\ client' = client
    <3>1. call'[k].pc = "none" /\ \A j \in Calls : j # k => call'[j] = call[j]
      BY <2>2, RespondIs
    <3> QED
      BY <1>3, <1>4, <1>5, <2>1, <2>2, <3>1, SlotNext DEF Ops
  <2>3. CASE /\ client' = [client EXCEPT ![NewClient] = [gen |-> gen, st |-> "built"]]
             /\ Proceed(k, "create", NewClient) /\ inst = 0
    <3>1. NewClient \in Clients /\ NewClient \notin Used
      BY <2>1, CalledIs, NewClientIs DEF Ops
    <3> DEFINE new == NewClient
    <3> HIDE DEF new
    <3>2. /\ client'[new].gen = gen /\ client'[new].st = "built"
          /\ \A d \in Clients : d # new => client'[d] = client[d]
      <4>1. client' = Made(client, new, gen)
        BY <2>3 DEF Made, new
      <4>2. new \in Clients /\ client \in [Clients -> ClientRec] /\ gen \in Nat
        BY <1>1, <3>1 DEF new, ClientInv, AdapterInv, CountInv
      <4> QED
        BY <4>1, <4>2, ClientMade
    <3>3. inst # 0 => inst # new
      BY <1>1, <3>1 DEF new, ClientInv
    <3>4. /\ call'[k].client = new /\ call'[k].pc = "create"
          /\ \A j \in Calls : j # k => call'[j] = call[j]
      BY <2>3, ProceedIs DEF new
    <3>5. \A c \in Clients : client'[c].st = "running" => c = inst
      BY <1>5, <2>1, <3>2 DEF Ops
    <3>6. inst' # 0 => client'[inst'].gen = gen'
      BY <1>4, <2>1, <3>2, <3>3
    <3> QED
      BY <1>3, <2>1, <2>3, <3>2, <3>4, <3>5, <3>6, SlotNext
  <2> QED
    BY <1>12, <2>2, <2>3 DEF WasabiStart
<1>13. CASE WasabiCreate(k)
  <2> DEFINE c == call[k].client
  <2>1. /\ At(k, "start", "create") /\ gen' = gen
        /\ \/ client' = WithState(c, "running") /\ inst' = c /\ ~ Running(inst) /\ Respond(k, TRUE)
           \/ client' = WithState(c, "stopped") /\ inst' = inst /\ Respond(k, FALSE)
    <3>1. inst = 0
      BY <1>13 DEF WasabiCreate, At, SlotInv
    <3> QED
      BY <1>13, <3>1 DEF WasabiCreate, WithState, Running
  <2>2. c \in Used /\ c \in Clients /\ client[c].gen = gen
    BY <1>6, <2>1 DEF At, SlotInv
  <2>3. call'[k].pc = "none" /\ \A j \in Calls : j # k => call'[j] = call[j]
    BY <2>1, RespondIs
  <2>4. \A d \in Clients : client[d].st = "running" => d = inst
    BY <1>3, <2>1 DEF At, Holds
  <2>5. CASE client' = WithState(c, "running") /\ inst' = c /\ ~ Running(inst)
    <3>1. \A d \in Clients : /\ client'[d].gen = client[d].gen
                             /\ client'[d].st = IF d = c THEN "running" ELSE client[d].st
      BY <1>7, <2>2, <2>5
    <3>2. \A d \in Clients : client[d].st # "running"
      BY <2>4, <2>5 DEF Running, Clients
    <3>3. \A d \in Clients : client'[d].st = "running" => d = inst'
      BY <2>5, <3>1, <3>2
    <3>4. client'[inst'].gen = gen'
      BY <2>1, <2>2, <2>5, <3>1
    <3> HIDE DEF c
    <3> QED
      BY <1>3, <2>3, <3>3, <3>4, SlotNext
  <2>6. CASE client' = WithState(c, "stopped") /\ inst' = inst
    <3>1. \A d \in Clients : /\ client'[d].gen = client[d].gen
                             /\ client'[d].st = IF d = c THEN "stopped" ELSE client[d].st
      BY <1>7, <2>2, <2>6
    <3>2. \A d \in Clients : client'[d].st = "running" => d = inst'
      BY <2>4, <2>6, <3>1
    <3>3. inst' # 0 => client'[inst'].gen = gen'
      BY <1>4, <2>1, <2>6, <3>1
    <3> QED
      BY <1>3, <2>3, <3>2, <3>3, SlotNext
  <2> QED
    BY <2>1, <2>5, <2>6
<1> QED
  BY <1>8, <1>9, <1>10, <1>11, <1>12, <1>13 DEF WasabiHandler

LEMMA StragglerStays ==
  ASSUME NEW k \in Calls, impl \in {"nakamoto", "wasabi"}, Handler(k), AdapterInv
  PROVE  /\ straggler => straggler'
         /\ givenUp' = givenUp
<1>1. givenUp' = givenUp
  <2>1. HandlerOK(k)
    BY NakamotoHandlerOK, WasabiHandlerOK DEF Handler
  <2> QED
    BY <2>1 DEF HandlerOK, Handled, Respond, Proceed
<1>2. ASSUME NakamotoHandler(k)
      PROVE  straggler => straggler'
  <2>1. CASE Refuse(k) \/ NakamotoConfigure(k) \/ NakamotoStart(k) \/ NakamotoInstall(k)
    BY <2>1 DEF Refuse, NakamotoConfigure, NakamotoStart, NakamotoInstall, historyVars
  <2>2. CASE NakamotoStop(k) \/ NakamotoWatch(k) \/ NakamotoRescan(k) \/ NakamotoLoad(k)
    BY <2>2 DEF NakamotoStop, NakamotoWatch, NakamotoRescan, NakamotoLoad, historyVars
  <2> QED
    BY <1>2, <2>1, <2>2 DEF NakamotoHandler
<1>3. ASSUME WasabiHandler(k)
      PROVE  straggler => straggler'
  <2>1. CASE Refuse(k) \/ WasabiConfigure(k) \/ WasabiStop(k) \/ WasabiCancel(k)
    BY <2>1 DEF Refuse, WasabiConfigure, WasabiStop, WasabiCancel, historyVars
  <2>2. CASE WasabiDisposed(k) \/ WasabiStart(k) \/ WasabiCreate(k) \/ WasabiWatch(k)
    BY <2>2 DEF WasabiDisposed, WasabiStart, WasabiCreate, WasabiWatch, historyVars
  <2> QED
    BY <1>3, <2>1, <2>2 DEF WasabiHandler
<1> QED
  BY <1>1, <1>2, <1>3 DEF Handler

LEMMA OneStep == AdapterInv /\ OneInv /\ [Next]_adapterVars => OneInv'
<1> SUFFICES ASSUME AdapterInv, OneInv, [Next]_adapterVars
             PROVE  OneInv'
  OBVIOUS
<1>1. CASE Harness
  BY <1>1, HarnessOne
<1>2. ASSUME NEW k \in Calls, Handler(k)
      PROVE  OneInv'
  <2>1. HandlerOK(k) /\ impl' = impl
    BY <1>2, NeutrinoHandlerOK, KyotoHandlerOK, NakamotoHandlerOK, WasabiHandlerOK, FakeHandlerOK
       DEF Handler, HandlerOK
  <2>2. CASE impl \in {"neutrino", "kyoto"}
    <3>1. NodeInv
      BY <2>2 DEF OneInv
    <3>2. NodeInv'
      BY <1>2, <2>2, <3>1, NeutrinoOne, KyotoOne DEF Handler
    <3> QED
      BY <2>1, <2>2, <3>2 DEF OneInv
  <2>3. CASE impl \in {"nakamoto", "wasabi"}
    <3>1. impl = "nakamoto" => HeldInv'
      BY <1>2, NakamotoHeld DEF Handler, OneInv
    <3>2. ASSUME givenUp' = 0
          PROVE  SlotInv'
      <4>1. givenUp = 0
        BY <1>2, <2>3, <3>2, StragglerStays
      <4>2. SlotInv
        BY <2>3, <4>1 DEF OneInv
      <4> QED
        BY <1>2, <2>3, <4>1, <4>2, NakamotoOne, WasabiOne DEF Handler
    <3> QED
      BY <2>1, <2>3, <3>1, <3>2 DEF OneInv
  <2>4. CASE impl = "fake"
    <3>1. client' = client
      BY <1>2, <2>4 DEF Handler, FakeHandler, Refuse, FakeConfigure, FakeStart, FakeStop, FakeWatch
    <3> QED
      BY <2>1, <2>4, <3>1 DEF OneInv
  <2> QED
    BY <1>2, <2>2, <2>3, <2>4 DEF Handler
<1>3. ASSUME NEW r \in Scanners, Scan(r)
      PROVE  OneInv'
  <2>1. Looked
    BY <1>3, NeutrinoScanLooks, KyotoScanLooks, NakamotoScanLooks, WasabiScanLooks DEF Scan
  <2> QED
    BY <2>1, LookedOne
<1>4. CASE UNCHANGED adapterVars
  BY <1>4 DEF adapterVars, stateVars, harnessVars, OneInv, NodeInv, SlotInv, HeldInv, Holds
<1> QED
  BY <1>1, <1>2, <1>3, <1>4 DEF Next

-----------------------------------------------------------------------------
(* What Wasabi loses. *)

LEMMA LossInit == ProtocolInit => LossInv
<1> SUFFICES ASSUME ProtocolInit
             PROVE  PlaceInv /\ CostInv
  BY DEF LossInv
<1>1. PlaceInv
  BY DEF ProtocolInit, PlaceInv, Idle
<1>2. Lost = {} /\ Late = {} /\ Owed = 0 /\ givenUp = 0
  BY DEF ProtocolInit, Lost, Networking, Late, Owed, NoClient
<1>3. Cardinality(Lost) = 0 /\ Cardinality(Late) = 0
  BY <1>2, FS_EmptySet
<1> QED
  BY <1>1, <1>2, <1>3 DEF CostInv

\* What the step of the handler of k may cost: nothing, or a client that a late
\* handler has dropped, or one that the handler was known to drop.
Costs(k) ==
  \/ Lost' \subseteq Lost /\ Late' \subseteq Late /\ Owed' <= Owed
  \/ Lost' \subseteq Lost \cup {inst} /\ k \in Late /\ Late' \subseteq Late \ {k} /\ Owed' <= Owed
  \/ Lost' \subseteq Lost /\ k \in Late /\ Late' \subseteq Late \ {k}
  \/ Lost' \subseteq Lost \cup {inst} /\ Late' \subseteq Late /\ Owed = 1 /\ Owed' = 0

LEMMA CostStays ==
  ASSUME AdapterInv, CostInv, NEW k \in Calls, Costs(k), givenUp' = givenUp
  PROVE  CostInv'
<1> DEFINE l == Cardinality(Lost)
           t == Cardinality(Late)
           l1 == Cardinality(Lost')
           t1 == Cardinality(Late')
<1>1. /\ l \in Nat /\ t \in Nat /\ IsFiniteSet(Lost) /\ IsFiniteSet(Late)
      /\ Owed \in {0, 1} /\ Owed' \in {0, 1} /\ givenUp \in Nat
      /\ l + t + Owed <= givenUp
  BY FiniteLosses DEF AdapterInv, CallInv, CostInv, Owed
<1>2. /\ Lost' \subseteq Lost => l1 \in Nat /\ l1 <= l
      /\ Lost' \subseteq Lost \cup {inst} => l1 \in Nat /\ l1 <= l + 1
  <2>1. ASSUME Lost' \subseteq Lost
        PROVE  l1 \in Nat /\ l1 <= l
    BY <1>1, <2>1, FS_Subset, FS_CardinalityType
  <2>2. ASSUME Lost' \subseteq Lost \cup {inst}
        PROVE  l1 \in Nat /\ l1 <= l + 1
    BY <1>1, <2>2, OneMore
  <2> QED
    BY <2>1, <2>2
<1>3. /\ Late' \subseteq Late => t1 \in Nat /\ t1 <= t
      /\ k \in Late /\ Late' \subseteq Late \ {k} => t1 \in Nat /\ t1 <= t - 1
  <2>1. ASSUME Late' \subseteq Late
        PROVE  t1 \in Nat /\ t1 <= t
    BY <1>1, <2>1, FS_Subset, FS_CardinalityType
  <2>2. ASSUME k \in Late, Late' \subseteq Late \ {k}
        PROVE  t1 \in Nat /\ t1 <= t - 1
    BY <1>1, <2>2, OneLess
  <2> QED
    BY <2>1, <2>2
<1>4. l1 + t1 + Owed' <= givenUp
  <2> DEFINE o == Owed
             o1 == Owed'
  <2>1. \/ l1 <= l /\ t1 <= t /\ o1 <= o
        \/ l1 <= l + 1 /\ t1 <= t - 1 /\ o1 <= o
        \/ l1 <= l /\ t1 <= t - 1 /\ o1 <= o + 1
        \/ l1 <= l + 1 /\ t1 <= t /\ o = 1 /\ o1 = 0
    BY <1>1, <1>2, <1>3 DEF Costs
  <2>2. l1 \in Nat /\ t1 \in Nat /\ o \in {0, 1} /\ o1 \in {0, 1}
    BY <1>1, <1>2, <1>3 DEF Costs
  <2> HIDE DEF l, t, l1, t1, o, o1
  <2>3. l + t + o <= givenUp
    BY <1>1 DEF o
  <2>4. l1 + t1 + o1 <= givenUp
    BY <1>1, <2>1, <2>2, <2>3
  <2> QED
    BY <2>4 DEF o1
<1> QED
  BY <1>4 DEF CostInv

LEMMA HarnessLoses ==
  ASSUME AdapterInv, LossInv, Harness
  PROVE  LossInv'
<1>1. UNCHANGED <<impl, alive, stateVars, client, scan, historyVars>>
  BY HarnessCalls DEF AdapterInv
<1>2. inst' = inst /\ client' = client /\ impl' = impl
  BY <1>1 DEF stateVars
<1>3. CallInv /\ givenUp \in Nat /\ 0 \notin Calls
  BY DEF AdapterInv, CallInv, Calls
<1>4. ASSUME PlaceInv, CostInv, NEW op, NEW s, NEW h, Post(op, s, h)
      PROVE  PlaceInv' /\ CostInv'
  <2>1. PICK k \in Calls :
          /\ call[k] = Idle
          /\ call' = [call EXCEPT ![k] = [op |-> op, pc |-> "called", script |-> s,
                                          start |-> h, client |-> 0]]
          /\ waiting' = k
    BY <1>4 DEF Post
  <2>2. waiting = 0 /\ givenUp' = givenUp
    BY <1>4 DEF Post
  <2>3. /\ call'[k].pc = "called" /\ call'[k].client = 0 /\ call[k].client = 0
        /\ \A j \in Calls : j # k => call'[j] = call[j]
    BY <1>3, <2>1 DEF CallInv, Idle
  <2>4. PlaceInv'
    BY <1>2, <1>4, <2>3 DEF PlaceInv
  <2>5. Lost' = Lost
    BY <1>2, <2>3 DEF Lost, Networking
  <2>6. Late' \subseteq Late
    BY <1>3, <2>1, <2>2, <2>3 DEF Late
  <2>7. Owed' = 0 /\ Owed' <= Owed
    BY <2>1, <2>3 DEF Owed
  <2> QED
    BY <1>4, <2>2, <2>4, <2>5, <2>6, <2>7, CostStays DEF Costs
<1>5. ASSUME PlaceInv, CostInv, GiveUp
      PROVE  PlaceInv' /\ CostInv'
  <2>1. call' = call /\ waiting' = 0 /\ givenUp' = givenUp + 1
    BY <1>5 DEF GiveUp
  <2>2. PlaceInv' /\ Lost' = Lost
    BY <1>2, <1>5, <2>1 DEF PlaceInv, Lost, Networking
  <2>3. Late' \subseteq Late \cup {waiting} /\ Owed' = 0 /\ Owed \in {0, 1}
    BY <2>1 DEF Late, Owed
  <2> DEFINE l == Cardinality(Lost)
             t == Cardinality(Late)
             t1 == Cardinality(Late')
  <2>4. l \in Nat /\ t \in Nat /\ t1 \in Nat /\ t1 <= t + 1
    BY <2>3, FiniteLosses, OneMore
  <2>5. l + t + Owed <= givenUp
    BY <1>5 DEF CostInv
  <2>6. l + t1 + 0 <= givenUp'
    <3> HIDE DEF l, t, t1
    <3> QED
      BY <1>3, <2>1, <2>3, <2>4, <2>5
  <2> QED
    BY <2>2, <2>3, <2>6 DEF CostInv
<1>6. ASSUME PlaceInv, CostInv
      PROVE  PlaceInv' /\ CostInv'
  BY <1>4, <1>5, <1>6 DEF Harness, PostConfigure, PostStart, PostWatch, PostStop
<1> QED
  BY <1>2, <1>6 DEF LossInv

\* A handler that is done with no client, or with one that does not run.
LEMMA RespondLoses ==
  ASSUME AdapterInv, PlaceInv, NEW k \in Calls, call[k] # Idle, NEW ok, Respond(k, ok),
         client' = client, inst' = inst,
         call[k].client = 0 \/ ~ Networking(call[k].client)
  PROVE  PlaceInv' /\ Costs(k)
<1>1. /\ call'[k] = Idle /\ call'[k].pc = "none" /\ call'[k].client = 0
      /\ \A j \in Calls : j # k => call'[j] = call[j]
  BY RespondIs
<1>2. IF waiting = k THEN waiting' = 0 ELSE waiting' = waiting
  BY DEF Respond
<1>3. 0 \notin Calls /\ 0 \notin Clients /\ waiting \in {0} \cup Calls
  BY DEF Calls, Clients, AdapterInv, CallInv
<1>4. PlaceInv'
  BY <1>1 DEF PlaceInv
<1>5. Lost' \subseteq Lost
  BY <1>1, <1>3 DEF Lost, Networking
<1>6. Late' \subseteq Late
  BY <1>1, <1>2, <1>3 DEF Late
<1>7. Owed' <= Owed
  BY <1>1, <1>2, <1>3 DEF Owed
<1> QED
  BY <1>4, <1>5, <1>6, <1>7 DEF Costs

LEMMA WasabiLoses ==
  ASSUME AdapterInv, PlaceInv, CostInv, impl = "wasabi", NEW k \in Calls, WasabiHandler(k)
  PROVE  PlaceInv' /\ CostInv'
<1>1. ClientInv /\ 0 \notin Clients /\ 0 \notin Calls /\ waiting \in {0} \cup Calls
  BY DEF AdapterInv, CallInv, Clients, Calls
<1>2. call[k] # Idle /\ givenUp' = givenUp
  <2>1. HandlerOK(k)
    BY WasabiHandlerOK
  <2> QED
    BY <2>1 DEF HandlerOK, Handled, Respond, Proceed
<1>3. \A j \in Calls : call[j].pc \notin {"none", "called"} =>
                         call[j].client \in Used /\ call[j].client \in Clients
  <2> SUFFICES ASSUME NEW j \in Calls, call[j].pc \notin {"none", "called"}
               PROVE  call[j].client \in Used /\ call[j].client \in Clients
    OBVIOUS
  <2>1. CallOK(call[j]) /\ call[j] # Idle
    BY DEF AdapterInv, CallInv, Idle
  <2> QED
    BY <1>1, <2>1 DEF CallOK, ClientInv, Used
<1>4. ASSUME NEW op \in Ops, Called(k, op)
      PROVE  call[k].client = 0 /\ call[k].pc = "called"
  BY <1>4 DEF Called, PlaceInv
<1>5. ASSUME NEW c \in Used, NEW st \in {"stopped", "running"}, client' = WithState(c, st)
      PROVE  \A d \in Clients : client'[d].st = IF d = c THEN st ELSE client[d].st
  BY <1>1, <1>5, ClientBecomes
<1>6. CASE Refuse(k) \/ WasabiWatch(k)
  <2>1. /\ Called(k, "configure") \/ Called(k, "watch")
        /\ \E ok \in BOOLEAN : Respond(k, ok)
        /\ inst' = inst /\ client' = client
    BY <1>6 DEF Refuse, WasabiWatch, stateVars
  <2>2. call[k].client = 0
    BY <1>4, <2>1 DEF Ops
  <2> QED
    BY <1>2, <2>1, <2>2, RespondLoses, CostStays
<1>7. CASE WasabiConfigure(k) \/ WasabiStop(k)
  <2>1. /\ Called(k, "configure") \/ Called(k, "stop")
        /\ inst' = 0 /\ client' = client
        /\ IF inst = 0 THEN Respond(k, TRUE) ELSE Proceed(k, "dispose", inst)
    BY <1>7 DEF WasabiConfigure, WasabiStop, TakeClient
  <2>2. call[k].client = 0 /\ call[k].pc = "called"
    BY <1>4, <2>1 DEF Ops
  <2>3. CASE inst = 0 /\ Respond(k, TRUE)
    BY <1>2, <2>1, <2>2, <2>3, RespondLoses, CostStays
  <2>4. CASE inst # 0 /\ Proceed(k, "dispose", inst)
    <3>1. /\ call'[k].pc = "dispose" /\ call'[k].client = inst
          /\ \A j \in Calls : j # k => call'[j] = call[j]
      BY <2>4, ProceedIs
    <3>2. waiting' = waiting
      BY <2>4 DEF Proceed
    <3>3. PlaceInv'
      BY <2>1, <2>4, <3>1 DEF PlaceInv
    <3>4. Lost' \subseteq Lost
      BY <1>1, <2>1, <2>2, <3>1 DEF Lost, Networking
    <3>5. Late' \subseteq Late
      BY <1>2, <3>1, <3>2 DEF Late
    <3>6. Owed' <= Owed
      BY <2>1 DEF Owed
    <3> QED
      BY <1>2, <3>3, <3>4, <3>5, <3>6, CostStays DEF Costs
  <2> QED
    BY <2>1, <2>3, <2>4
<1>8. CASE WasabiCancel(k)
  <2> DEFINE c == call[k].client
  <2>1. /\ call[k].pc = "dispose" /\ client' = WithState(c, "stopped")
        /\ Proceed(k, "disposing", c) /\ inst' = inst
    BY <1>8 DEF WasabiCancel, stateVars, WithState
  <2>2. \A d \in Clients : client'[d].st = IF d = c THEN "stopped" ELSE client[d].st
    BY <1>3, <1>5, <2>1
  <2>3. /\ call'[k].pc = "disposing" /\ call'[k].client = c
        /\ \A j \in Calls : j # k => call'[j] = call[j]
    BY <2>1, ProceedIs
  <2>4. waiting' = waiting /\ c \in Clients /\ client[c].st # "built"
    BY <1>3, <2>1 DEF Proceed, PlaceInv
  <2>5. inst # 0 => inst \in Clients
    BY <1>1 DEF ClientInv
  <2> HIDE DEF c
  <2>6. PlaceInv'
    BY <1>3, <2>1, <2>2, <2>3, <2>4, <2>5 DEF PlaceInv
  <2>7. Lost' \subseteq Lost
    BY <1>1, <2>1, <2>2, <2>3 DEF Lost, Networking, c
  <2>8. Late' \subseteq Late
    BY <1>2, <2>3, <2>4 DEF Late
  <2>9. Owed' <= Owed
    BY <1>1, <2>1, <2>3, <2>4 DEF Owed
  <2> QED
    BY <1>2, <2>6, <2>7, <2>8, <2>9, CostStays DEF Costs
<1>9. CASE WasabiDisposed(k)
  <2>1. /\ call[k].pc = "disposing" /\ Respond(k, TRUE)
        /\ inst' = inst /\ client' = client
    BY <1>9 DEF WasabiDisposed, stateVars
  <2>2. ~ Networking(call[k].client)
    BY <2>1 DEF PlaceInv, Networking
  <2> QED
    BY <1>2, <2>1, <2>2, RespondLoses, CostStays
<1>10. CASE WasabiStart(k)
  <2>1. Called(k, "start") /\ inst' = inst
    BY <1>10 DEF WasabiStart, stateVars
  <2>2. call[k].client = 0 /\ call[k].pc = "called"
    BY <1>4, <2>1 DEF Ops
  <2>3. CASE Respond(k, gen # 0) /\ client' = client
    BY <1>2, <2>1, <2>2, <2>3, RespondLoses, CostStays
  <2>4. CASE /\ client' = [client EXCEPT ![NewClient] = [gen |-> gen, st |-> "built"]]
             /\ Proceed(k, "create", NewClient) /\ inst = 0
    <3>1. NewClient \in Clients /\ NewClient \notin Used
      BY <2>1, CalledIs, NewClientIs DEF Ops
    <3> DEFINE new == NewClient
    <3> HIDE DEF new
    <3>2. /\ client'[new].st = "built"
          /\ \A d \in Clients : d # new => client'[d] = client[d]
      <4>1. client' = Made(client, new, gen)
        BY <2>4 DEF Made, new
      <4>2. new \in Clients /\ client \in [Clients -> ClientRec] /\ gen \in Nat
        BY <1>1, <3>1 DEF new, ClientInv, AdapterInv, CountInv
      <4> QED
        BY <4>1, <4>2, ClientMade
    <3>3. /\ call'[k].client = new /\ call'[k].pc = "create"
          /\ \A j \in Calls : j # k => call'[j] = call[j]
      BY <2>4, ProceedIs DEF new
    <3>4. waiting' = waiting
      BY <2>4 DEF Proceed
    <3>5. \A j \in Calls : call[j].pc \notin {"none", "called"} => call[j].client # new
      BY <1>3, <3>1 DEF new
    <3>6. PlaceInv'
      BY <1>3, <2>1, <2>4, <3>2, <3>3, <3>5 DEF PlaceInv
    <3>7. Lost' \subseteq Lost
      BY <1>1, <2>1, <2>2, <3>2, <3>3 DEF Lost, Networking
    <3>8. Late' \subseteq Late
      BY <1>2, <3>3, <3>4 DEF Late
    <3>9. Owed' <= Owed
      BY <2>1, <2>4 DEF Owed
    <3> QED
      BY <1>2, <3>6, <3>7, <3>8, <3>9, CostStays DEF Costs
  <2> QED
    BY <1>10, <2>3, <2>4 DEF WasabiStart
<1>11. CASE WasabiCreate(k)
  <2> DEFINE c == call[k].client
  <2>1. /\ call[k].pc = "create"
        /\ \/ client' = WithState(c, "running") /\ inst' = c /\ Respond(k, TRUE)
           \/ client' = WithState(c, "stopped") /\ inst' = inst /\ Respond(k, FALSE)
    BY <1>11 DEF WasabiCreate, At, WithState
  <2>2. c \in Used /\ c \in Clients /\ client[c].st = "built" /\ c # inst
    BY <1>1, <1>3, <2>1 DEF PlaceInv
  <2>3. /\ call'[k].pc = "none" /\ call'[k].client = 0 /\ call'[k] = Idle
        /\ \A j \in Calls : j # k => call'[j] = call[j]
    BY <2>1, RespondIs
  <2>4. IF waiting = k THEN waiting' = 0 ELSE waiting' = waiting
    BY <2>1 DEF Respond
  <2>5. /\ \A j \in Calls : j # k /\ call[j].pc = "create" => call[j].client # c
        /\ \A j \in Calls : call[j].pc \in {"dispose", "disposing"} => call[j].client # c
    BY <2>1, <2>2 DEF PlaceInv
  <2>6. Late' \subseteq Late \ {k} /\ (waiting # k => k \in Late)
    BY <1>1, <1>2, <2>3, <2>4 DEF Late
  <2>7. inst # 0 => inst \in Clients
    BY <1>1 DEF ClientInv
  <2>8. CASE client' = WithState(c, "running") /\ inst' = c
    <3>1. \A d \in Clients : client'[d].st = IF d = c THEN "running" ELSE client[d].st
      BY <1>5, <2>2, <2>8
    <3> HIDE DEF c
    <3>2. PlaceInv'
      BY <1>3, <2>2, <2>3, <2>5, <2>8, <3>1 DEF PlaceInv
    <3>3. \A d \in Lost' : d \in Clients /\ d # c /\ \A j \in Calls : call[j].client # d
      <4> SUFFICES ASSUME NEW d \in Lost'
                   PROVE  d \in Clients /\ d # c /\ \A j \in Calls : call[j].client # d
        OBVIOUS
      <4>1. d \in Clients /\ d # c /\ \A j \in Calls : call'[j].client # d
        BY <2>8 DEF Lost
      <4> QED
        BY <2>3, <4>1 DEF c
    <3>4. Lost' \subseteq Lost \cup {inst}
      BY <3>1, <3>3 DEF Lost, Networking
    <3>5. inst = 0 => Lost' \subseteq Lost
      BY <1>1, <3>3, <3>4
    <3>6. CASE waiting = k
      <4>1. Owed' = 0
        BY <2>4, <3>6 DEF Owed
      <4>2. CASE inst = 0
        BY <1>2, <2>6, <3>2, <3>5, <4>1, <4>2, CostStays DEF Costs, Owed
      <4>3. CASE inst # 0
        <5>1. Owed = 1
          BY <1>1, <2>1, <3>6, <4>3 DEF Owed
        <5> QED
          BY <1>2, <2>6, <3>2, <3>4, <4>1, <5>1, CostStays DEF Costs
      <4> QED
        BY <4>2, <4>3
    <3>7. CASE waiting # k
      <4>1. CASE inst = 0
        BY <1>2, <2>6, <3>2, <3>5, <3>7, <4>1, CostStays DEF Costs
      <4>2. CASE inst # 0
        <5>1. waiting' = waiting /\ (waiting # 0 => call'[waiting] = call[waiting])
          BY <1>1, <2>3, <2>4, <3>7
        <5>2. Owed' <= Owed
          BY <4>2, <5>1 DEF Owed
        <5> QED
          BY <1>2, <2>6, <3>2, <3>4, <3>7, <5>2, CostStays DEF Costs
      <4> QED
        BY <4>1, <4>2
    <3> QED
      BY <3>6, <3>7
  <2>9. CASE client' = WithState(c, "stopped") /\ inst' = inst
    <3>1. \A d \in Clients : client'[d].st = IF d = c THEN "stopped" ELSE client[d].st
      BY <1>5, <2>2, <2>9
    <3> HIDE DEF c
    <3>2. PlaceInv'
      BY <1>3, <2>2, <2>3, <2>5, <2>7, <2>9, <3>1 DEF PlaceInv
    <3>3. Lost' \subseteq Lost
      <4> SUFFICES ASSUME NEW d \in Lost'
                   PROVE  d \in Lost
        OBVIOUS
      <4>1. /\ d \in Clients /\ d # inst /\ client'[d].st \in {"running", "orphan"}
            /\ \A j \in Calls : call'[j].client # d
        BY <2>9 DEF Lost, Networking
      <4>2. d # c /\ client[d].st \in {"running", "orphan"}
        BY <3>1, <4>1
      <4> QED
        BY <2>3, <4>1, <4>2 DEF Lost, Networking, c
    <3>4. Owed' <= Owed
      BY <1>1, <2>3, <2>4, <2>9 DEF Owed
    <3> QED
      BY <1>2, <2>6, <3>2, <3>3, <3>4, CostStays DEF Costs
  <2> QED
    BY <2>1, <2>8, <2>9
<1> QED
  BY <1>6, <1>7, <1>8, <1>9, <1>10, <1>11 DEF WasabiHandler

LEMMA LossStep == AdapterInv /\ LossInv /\ [Next]_adapterVars => LossInv'
<1> SUFFICES ASSUME AdapterInv, LossInv, [Next]_adapterVars
             PROVE  LossInv'
  OBVIOUS
<1>1. CASE Harness
  BY <1>1, HarnessLoses
<1>2. ASSUME NEW k \in Calls, Handler(k)
      PROVE  LossInv'
  <2>1. impl' = impl
    BY <1>2, NeutrinoHandlerOK, KyotoHandlerOK, NakamotoHandlerOK, WasabiHandlerOK, FakeHandlerOK
       DEF Handler, HandlerOK
  <2>2. impl = "wasabi" => WasabiHandler(k) /\ PlaceInv /\ CostInv
    BY <1>2 DEF Handler, LossInv
  <2> QED
    BY <2>1, <2>2, WasabiLoses DEF LossInv
<1>3. ASSUME UNCHANGED <<impl, client, inst, harnessVars>>
      PROVE  LossInv'
  <2>1. Lost' = Lost /\ Late' = Late /\ Owed' = Owed /\ givenUp' = givenUp
    BY <1>3 DEF Lost, Networking, Late, Owed, harnessVars
  <2>2. CostInv => CostInv'
    BY <2>1 DEF CostInv
  <2>3. PlaceInv => PlaceInv'
    BY <1>3 DEF PlaceInv, harnessVars
  <2> QED
    BY <1>3, <2>2, <2>3 DEF LossInv
<1>4. ASSUME NEW r \in Scanners, Scan(r)
      PROVE  LossInv'
  <2>1. Looked
    BY <1>4, NeutrinoScanLooks, KyotoScanLooks, NakamotoScanLooks, WasabiScanLooks DEF Scan
  <2> QED
    BY <1>3, <2>1 DEF Looked
<1>5. CASE UNCHANGED adapterVars
  BY <1>3, <1>5 DEF adapterVars, stateVars
<1> QED
  BY <1>1, <1>2, <1>4, <1>5 DEF Next

\* No client runs that /stop and /configure do not get hold of, and no run is
\* served from the client of an earlier one.  For Neutrino and Kyoto there is no
\* exception, whatever the harness has given up.  Nakamoto, whatever was given
\* up, loses only the client that loads just after its /start has timed out;
\* Wasabi loses one for each call that was given up at most; and these two may
\* install an old one once a call was given up.
THEOREM ClientsAreReached == Spec => []OneClientOfThisRun
<1> QED
  BY InvInit, AdapterStep, OneInvInit, OneStep, LossInit, LossStep, OneInvShows, PTL DEF Spec

-----------------------------------------------------------------------------
(* Spends and outputs. *)

\* The match of an output to s in block h.
HasOutput(s, h) == \E o \in matches : o.script = s /\ o.height = h /\ o.of = h

\* The outpoints are those of outputs that are matches: recording a block adds
\* both, and /configure forgets both.
OutpointsAreMatches ==
  \A s \in DOMAIN outpoints : \A h \in outpoints[s] : HasOutput(s, h)

SpendsInv == OutpointsAreMatches /\ SpendsHaveOutputs

LEMMA RecordSpends ==
  ASSUME SpendsInv, NEW S, NEW h, Record(S, h)
  PROVE  SpendsInv'
<1> DEFINE outs == {Match(s, h, h) : s \in {t \in S : h \in Pays[t]}}
           spends(s) == {Match(s, h, p[2]) :
                           p \in {q \in Spends[s] : q[1] = h /\ q[2] \in outpoints'[s]}}
           ins  == UNION {spends(s) : s \in S}
<1>1. matches' = (matches \cup outs) \cup ins
  BY DEF Record
<1>2. outpoints' = Found(S, h)
  BY DEF Record
<1>3. \A s, x : HasOutput(s, x) => HasOutput(s, x)'
  <2> HIDE DEF outs, ins
  <2> QED
    BY <1>1 DEF HasOutput
<1>4. \A s \in S : h \in Pays[s] => HasOutput(s, h)'
  <2> SUFFICES ASSUME NEW s \in S, h \in Pays[s]
               PROVE  HasOutput(s, h)'
    OBVIOUS
  <2>1. Match(s, h, h) \in outs
    OBVIOUS
  <2>2. Match(s, h, h) \in matches'
    <3> HIDE DEF outs, ins
    <3> QED
      BY <1>1, <2>1
  <2> QED
    BY <2>2 DEF HasOutput, Match
<1>5. OutpointsAreMatches'
  <2> SUFFICES ASSUME NEW s \in DOMAIN Found(S, h), NEW x \in Found(S, h)[s]
               PROVE  HasOutput(s, x)'
    BY <1>2 DEF OutpointsAreMatches
  <2>1. \/ s \in DOMAIN outpoints /\ x \in outpoints[s]
        \/ s \in S /\ x \in Pays[s] /\ x = h
    BY DEF Found
  <2>2. CASE s \in DOMAIN outpoints /\ x \in outpoints[s]
    BY <1>3, <2>2 DEF SpendsInv, OutpointsAreMatches
  <2>3. CASE s \in S /\ x \in Pays[s] /\ x = h
    BY <1>4, <2>3
  <2> QED
    BY <2>1, <2>2, <2>3
<1>6. \A m \in matches' : HasOutput(m.script, m.of)'
  <2> SUFFICES ASSUME NEW m \in matches'
               PROVE  HasOutput(m.script, m.of)'
    OBVIOUS
  <2>1. CASE m \in matches
    <3>1. HasOutput(m.script, m.of)
      BY <2>1 DEF SpendsInv, SpendsHaveOutputs, HasOutput
    <3> QED
      BY <1>3, <3>1
  <2>2. CASE m \in outs
    <3>1. PICK s \in S : h \in Pays[s] /\ m = Match(s, h, h)
      BY <2>2
    <3> QED
      BY <1>4, <3>1 DEF Match
  <2>3. CASE m \in ins
    <3>1. PICK s \in S : m \in spends(s)
      BY <2>3
    <3>2. PICK p \in Spends[s] : p[1] = h /\ p[2] \in outpoints'[s] /\ m = Match(s, h, p[2])
      BY <3>1
    <3>3. s \in DOMAIN outpoints'
      BY <1>2 DEF Found
    <3> QED
      BY <1>5, <3>2, <3>3 DEF OutpointsAreMatches, Match
  <2> QED
    <3> HIDE DEF outs, ins
    <3> QED
      BY <1>1, <2>1, <2>2, <2>3
<1> QED
  BY <1>5, <1>6 DEF SpendsInv, SpendsHaveOutputs, HasOutput

LEMMA SpendsStep == AdapterInv /\ SpendsInv /\ [Next]_adapterVars => SpendsInv'
<1> SUFFICES ASSUME AdapterInv, SpendsInv, [Next]_adapterVars
             PROVE  SpendsInv'
  OBVIOUS
<1>1. CASE Quiet
  BY <1>1 DEF Quiet, SpendsInv, OutpointsAreMatches, SpendsHaveOutputs, HasOutput
<1>2. CASE Emptied
  BY <1>2 DEF Emptied, Nothing, SpendsInv, OutpointsAreMatches, SpendsHaveOutputs
<1>3. CASE Added
  <2>1. PICK s : outpoints' = IF s \in DOMAIN outpoints THEN outpoints ELSE Put(outpoints, s, {})
    BY <1>3 DEF Added
  <2>2. matches' = matches
    BY <1>3 DEF Added
  <2>3. \A t \in DOMAIN outpoints' : \A h \in outpoints'[t] :
          t \in DOMAIN outpoints /\ h \in outpoints[t]
    BY <2>1 DEF Put
  <2> QED
    BY <2>2, <2>3 DEF SpendsInv, OutpointsAreMatches, SpendsHaveOutputs, HasOutput
<1>4. CASE Recorded
  BY <1>4, RecordSpends DEF Recorded
<1> QED
  BY <1>1, <1>2, <1>3, <1>4, NextFinds DEF FindsStep

LEMMA SpendsInit == ProtocolInit => SpendsInv
BY DEF ProtocolInit, Nothing, SpendsInv, OutpointsAreMatches, SpendsHaveOutputs

\* "A spend match means a transaction spends a previously watched output"
\* (docs/adapters.md:47-48): in no adapter, and however late a block is
\* recorded, is there a spend whose output is not a match of the same script.
THEOREM SpendsKeepOutputs == Spec => []SpendsHaveOutputs
<1>1. SpendsInv => SpendsHaveOutputs
  BY DEF SpendsInv
<1> QED
  BY <1>1, InvInit, AdapterStep, SpendsInit, SpendsStep, PTL DEF Spec

-----------------------------------------------------------------------------
(* What is done with is reported.                                           *)

Reports(m, s, h, o) == \E x \in m : x.script = s /\ x.height = h /\ x.of = o

\* With outpoints o and matches m, the blocks H are done with for s: its outputs
\* in them are among the outpoints, and the spends of these in them are matches.
Done(o, m, s, H) ==
  /\ s \in DOMAIN o
  /\ Pays[s] \cap H \subseteq o[s]
  /\ \A p \in Spends[s] : p[1] \in H /\ p[2] \in H => Reports(m, s, p[1], p[2])

\* Outpoints and matches are only added.
Grew(o, m, o2, m2) ==
  /\ \A s \in DOMAIN o : s \in DOMAIN o2 /\ o[s] \subseteq o2[s]
  /\ m \subseteq m2

LEMMA DoneMore ==
  ASSUME NEW o, NEW m, NEW o2, NEW m2, Grew(o, m, o2, m2),
         NEW s, NEW H, Done(o, m, s, H), NEW H2, H2 \subseteq H
  PROVE  Done(o2, m2, s, H2)
<1>1. s \in DOMAIN o2 /\ Pays[s] \cap H2 \subseteq o2[s]
  BY DEF Done, Grew
<1>2. ASSUME NEW p \in Spends[s], p[1] \in H2, p[2] \in H2
      PROVE  Reports(m2, s, p[1], p[2])
  <2>1. Reports(m, s, p[1], p[2])
    BY <1>2 DEF Done
  <2> QED
    BY <2>1 DEF Reports, Grew
<1> QED
  BY <1>1, <1>2 DEF Done

LEMMA SpendIs ==
  ASSUME NEW s \in Scripts, NEW p \in Spends[s]
  PROVE  /\ p = <<p[1], p[2]>> /\ p[1] \in Heights /\ p[2] \in Heights
         /\ p[2] \in Pays[s] /\ p[2] < p[1]
<1>1. p \in (1 .. Tip) \X (1 .. Tip) /\ p[2] \in Pays[s] /\ p[1] \in p[2] + 1 .. Tip
  BY AdapterAssumption
<1>2. Tip \in Nat
  BY AdapterAssumption
<1> QED
  BY <1>1, <1>2 DEF Heights

\* A block that does not concern s needs no look.
LEMMA DoneSkip ==
  ASSUME NEW o, NEW m, NEW s \in Scripts, NEW H, Done(o, m, s, H),
         NEW H2, \A h \in H2 : h \in H \/ ~ Concerns(h, s)
  PROVE  Done(o, m, s, H2)
<1>1. Pays[s] \cap H2 \subseteq H
  BY DEF Concerns
<1>2. ASSUME NEW p \in Spends[s], p[1] \in H2, p[2] \in H2
      PROVE  Reports(m, s, p[1], p[2])
  <2>1. p[2] \in Pays[s]
    BY SpendIs
  <2>2. p[1] \in H /\ p[2] \in H
    BY <1>2, <2>1 DEF Concerns
  <2> QED
    BY <2>2 DEF Done
<1> QED
  BY <1>1, <1>2 DEF Done

\* Recording the block after the ones that are done with.
LEMMA DoneRecord ==
  ASSUME NEW S, NEW b \in Nat, Record(S, b),
         NEW s \in S, s \in Scripts, NEW H, Done(outpoints, matches, s, H),
         \A h \in H : h \in Nat /\ h <= b, NEW H2, H2 \subseteq H \cup {b}
  PROVE  Done(outpoints', matches', s, H2)
<1> DEFINE outs == {Match(t, b, b) : t \in {t \in S : b \in Pays[t]}}
           spends(t) == {Match(t, b, p[2]) :
                           p \in {q \in Spends[t] : q[1] = b /\ q[2] \in outpoints'[t]}}
           ins  == UNION {spends(t) : t \in S}
<1>1. matches' = (matches \cup outs) \cup ins /\ outpoints' = Found(S, b)
  BY DEF Record
<1>2. s \in DOMAIN outpoints' /\ outpoints'[s] = outpoints[s] \cup (Pays[s] \cap {b})
  BY <1>1 DEF Found, Done
<1>3. Pays[s] \cap H2 \subseteq outpoints'[s]
  BY <1>2 DEF Done
<1>4. ASSUME NEW p \in Spends[s], p[1] \in H2, p[2] \in H2
      PROVE  Reports(matches', s, p[1], p[2])
  <2>1. /\ p[2] \in Pays[s] /\ p[1] \in Nat /\ p[2] \in Nat /\ p[2] < p[1]
    BY SpendIs DEF Heights
  <2>2. CASE p[1] = b
    <3>1. p[2] \in outpoints'[s]
      BY <1>3, <1>4, <2>1
    <3>2. Match(s, b, p[2]) \in spends(s)
      BY <2>2, <3>1
    <3>3. Match(s, b, p[2]) \in ins
      <4> HIDE DEF spends
      <4> QED
        BY <3>2
    <3>4. Match(s, b, p[2]) \in matches'
      <4> HIDE DEF outs, ins
      <4> QED
        BY <1>1, <3>3
    <3> QED
      BY <2>2, <3>4 DEF Match, Reports
  <2>3. CASE p[1] # b
    <3>1. p[1] \in H
      BY <1>4, <2>3
    <3>2. p[2] # b
      BY <2>1, <3>1
    <3>3. p[2] \in H
      BY <1>4, <3>2
    <3>4. Reports(matches, s, p[1], p[2])
      BY <3>1, <3>3 DEF Done
    <3> HIDE DEF outs, ins
    <3> QED
      BY <1>1, <3>4 DEF Reports
  <2> QED
    BY <2>2, <2>3
<1> QED
  BY <1>2, <1>3, <1>4 DEF Done

LEMMA RecordGrew ==
  ASSUME NEW S, NEW b, Record(S, b)
  PROVE  Grew(outpoints, matches, outpoints', matches')
BY DEF Record, Found, Grew

LEMMA SameGrew ==
  ASSUME outpoints' = outpoints, matches' = matches
  PROVE  Grew(outpoints, matches, outpoints', matches')
BY DEF Grew

LEMMA EntryGrew ==
  ASSUME NEW s, matches' = matches,
         outpoints' = IF s \in DOMAIN outpoints THEN outpoints ELSE Put(outpoints, s, {})
  PROVE  Grew(outpoints, matches, outpoints', matches') /\ s \in DOMAIN outpoints'
BY DEF Put, Grew

-----------------------------------------------------------------------------
(* The calls that were answered.                                            *)

\* The harness gave no call up, no scan outlived its client, and the adapter runs.
Smooth == givenUp = 0 /\ ~ straggler /\ alive

AckedSet == {acked[i] : i \in DOMAIN acked}

\* What the handlers have done for the calls that were answered, and for the
\* one that is under way.
AckInv ==
  /\ acked \in Seq(Scripts)
  /\ turn = "start" => acked = <<>>
  /\ \A k \in Calls : call[k].op \in {"configure", "start"} => acked = <<>>
  /\ \A k \in Calls : call[k].op = "watch" => call[k].script \notin AckedSet
  /\ \A s \in AckedSet : s \in DOMAIN watches /\ s \in DOMAIN outpoints
  /\ \A k \in Calls : call[k].pc = "rescan" =>
       /\ call[k].script \in DOMAIN watches /\ call[k].script \in DOMAIN outpoints
       /\ watches[call[k].script] = call[k].start
       /\ call[k].client = inst

LEMMA AckedSetIs ==
  ASSUME NEW s \in Scripts, acked \in Seq(Scripts), acked' = Append(acked, s)
  PROVE  /\ acked' \in Seq(Scripts) /\ acked' # <<>> /\ acked'[Len(acked')] = s
         /\ AckedSet' = AckedSet \cup {s}
<1>1. /\ acked' \in Seq(Scripts) /\ Len(acked') = Len(acked) + 1 /\ Len(acked) \in Nat
      /\ DOMAIN acked' = 1 .. Len(acked) + 1 /\ DOMAIN acked = 1 .. Len(acked)
      /\ \A i \in 1 .. Len(acked) : acked'[i] = acked[i]
      /\ acked'[Len(acked) + 1] = s
  OBVIOUS
<1>2. acked' # <<>>
  BY <1>1
<1>3. AckedSet' = AckedSet \cup {s}
  BY <1>1 DEF AckedSet
<1> QED
  BY <1>1, <1>2, <1>3

LEMMA AckedIs ==
  ASSUME acked \in Seq(Scripts)
  PROVE  /\ acked # <<>> => acked[Len(acked)] \in AckedSet
         /\ AckedSet \subseteq Scripts
         /\ acked = <<>> => AckedSet = {}
<1>1. DOMAIN acked = 1 .. Len(acked) /\ Len(acked) \in Nat /\ \A i \in 1 .. Len(acked) : acked[i] \in Scripts
  OBVIOUS
<1>2. acked # <<>> => Len(acked) \in 1 .. Len(acked)
  OBVIOUS
<1>3. acked = <<>> => DOMAIN acked = {}
  OBVIOUS
<1> QED
  BY <1>1, <1>2, <1>3 DEF AckedSet

LEMMA AckInit == ProtocolInit => AckInv
<1> SUFFICES ASSUME ProtocolInit
             PROVE  AckInv
  OBVIOUS
<1>1. acked = <<>> /\ \A k \in Calls : call[k].op = "none" /\ call[k].pc = "none"
  BY DEF ProtocolInit, Idle
<1>2. acked \in Seq(Scripts) /\ AckedSet = {}
  BY <1>1 DEF AckedSet
<1> QED
  BY <1>1, <1>2 DEF AckInv

\* The harness makes a call, and begins a new list with a configuration.
LEMMA AckHarness ==
  ASSUME AdapterInv, AckInv, Harness, givenUp' = 0
  PROVE  /\ AckInv' /\ turn' = turn
         /\ acked' = acked \/ (acked' = <<>> /\ turn = "configure")
         /\ \E k \in Calls : /\ call[k] = Idle /\ call'[k].pc = "called"
                             /\ \A j \in Calls : j # k => call'[j] = call[j]
<1>1. CallInv /\ givenUp \in Nat /\ DOMAIN acked = 1 .. Len(acked)
  BY DEF AdapterInv, CallInv, AckInv
<1>2. UNCHANGED <<stateVars, client>>
  BY <1>1, HarnessCalls
<1>3. ~ GiveUp
  <2>1. GiveUp => givenUp' = givenUp + 1
    BY DEF GiveUp
  <2> QED
    BY <1>1, <2>1
<1>4. ASSUME NEW op, NEW s, NEW h, Post(op, s, h)
      PROVE  /\ turn' = turn
             /\ \E k \in Calls :
                  /\ call[k] = Idle
                  /\ call'[k].op = op /\ call'[k].pc = "called" /\ call'[k].script = s
                  /\ \A j \in Calls : j # k => call'[j] = call[j]
  <2>1. PICK k \in Calls :
          /\ call[k] = Idle
          /\ call' = [call EXCEPT ![k] = [op |-> op, pc |-> "called", script |-> s,
                                          start |-> h, client |-> 0]]
    BY <1>4 DEF Post
  <2>2. /\ call'[k].op = op /\ call'[k].pc = "called" /\ call'[k].script = s
        /\ \A j \in Calls : j # k => call'[j] = call[j]
    BY <1>1, <2>1 DEF CallInv
  <2> QED
    BY <1>4, <2>1, <2>2 DEF Post
<1>5. PICK op, s, h :
        /\ Post(op, s, h)
        /\ \/ op = "configure" /\ acked' = <<>> /\ turn = "configure"
           \/ op = "start" /\ acked' = acked /\ turn = "start"
           \/ op = "watch" /\ acked' = acked /\ s \notin AckedSet
           \/ op = "stop" /\ acked' = acked
  <2>1. CASE PostConfigure
    BY <2>1 DEF PostConfigure
  <2>2. CASE PostStart
    BY <2>2 DEF PostStart
  <2>3. CASE PostWatch
    <3>1. PICK s \in Scripts : /\ \A i \in DOMAIN acked : acked[i] # s
                               /\ \E h \in StartHeights[s] : Post("watch", s, h)
      BY <2>3 DEF PostWatch
    <3>2. s \notin AckedSet
      BY <3>1 DEF AckedSet
    <3> QED
      BY <2>3, <3>1, <3>2 DEF PostWatch
  <2>4. CASE PostStop
    BY <2>4 DEF PostStop
  <2> QED
    BY <1>3, <2>1, <2>2, <2>3, <2>4 DEF Harness
<1>6. turn' = turn
  BY <1>4, <1>5
<1>7. PICK k \in Calls :
        /\ call[k] = Idle
        /\ call'[k].op = op /\ call'[k].pc = "called" /\ call'[k].script = s
        /\ \A j \in Calls : j # k => call'[j] = call[j]
  BY <1>4, <1>5
<1>8. acked' = acked \/ (acked' = <<>> /\ turn = "configure")
  BY <1>5
<1>9. AckInv'
  <2>1. acked' \in Seq(Scripts)
    <3>1. acked \in Seq(Scripts) /\ <<>> \in Seq(Scripts)
      BY DEF AckInv
    <3> QED
      BY <1>8, <3>1
  <2>2. AckedSet' = AckedSet \/ AckedSet' = {}
    BY <1>8 DEF AckedSet
  <2>3. turn' = "start" => acked' = <<>>
    BY <1>6, <1>8 DEF AckInv
  <2>4. \A j \in Calls : call'[j].op \in {"configure", "start"} => acked' = <<>>
    <3> SUFFICES ASSUME NEW j \in Calls, call'[j].op \in {"configure", "start"}
                 PROVE  acked' = <<>>
      OBVIOUS
    <3>1. CASE j = k
      BY <1>5, <1>7, <3>1 DEF AckInv
    <3>2. CASE j # k
      BY <1>7, <1>8, <3>2 DEF AckInv
    <3> QED
      BY <3>1, <3>2
  <2>5. \A j \in Calls : call'[j].op = "watch" => call'[j].script \notin AckedSet'
    <3> SUFFICES ASSUME NEW j \in Calls, call'[j].op = "watch"
                 PROVE  call'[j].script \notin AckedSet'
      OBVIOUS
    <3>1. CASE j = k
      BY <1>5, <1>7, <2>2, <3>1
    <3>2. CASE j # k
      BY <1>7, <2>2, <3>2 DEF AckInv
    <3> QED
      BY <3>1, <3>2
  <2>6. \A x \in AckedSet' : x \in DOMAIN watches' /\ x \in DOMAIN outpoints'
    BY <1>2, <2>2 DEF AckInv, stateVars
  <2>7. \A j \in Calls : call'[j].pc = "rescan" =>
          /\ call'[j].script \in DOMAIN watches' /\ call'[j].script \in DOMAIN outpoints'
          /\ watches'[call'[j].script] = call'[j].start
          /\ call'[j].client = inst'
    BY <1>2, <1>7 DEF AckInv, stateVars
  <2> QED
    BY <2>1, <2>3, <2>4, <2>5, <2>6, <2>7 DEF AckInv
<1> QED
  BY <1>6, <1>7, <1>8, <1>9

LEMMA OnlyCall ==
  ASSUME AdapterInv, givenUp = 0, NEW k \in Calls, call[k] # Idle
  PROVE  /\ waiting = k
         /\ \A j \in Calls : j # k => call[j] = Idle
         /\ call[k].op \in Ops /\ call[k].op \in TurnOps(turn) /\ call[k].pc \in Places(call[k].op)
         /\ call[k].pc = "called" \/ call[k].client \in Used
<1>1. CallInv /\ ClientInv /\ k # 0
  BY DEF AdapterInv, Calls
<1>2. waiting = k /\ \A j \in Calls : j # k => call[j] = Idle
  BY <1>1 DEF CallInv, Alone
<1>3. /\ call[k].op \in Ops /\ call[k].op \in TurnOps(turn)
      /\ call[k].pc \in Places(call[k].op)
  BY <1>1, <1>2 DEF CallInv, CallOK
<1>4. call[k].pc = "called" \/ call[k].client \in Used
  BY <1>1 DEF CallInv, CallOK, ClientInv
<1> QED
  BY <1>2, <1>3, <1>4

LEMMA Answer ==
  ASSUME AdapterInv, givenUp = 0, NEW k \in Calls, call[k] # Idle, NEW ok, Respond(k, ok)
  PROVE  /\ turn' = After(call[k].op, ok) /\ givenUp' = 0
         /\ acked' = IF call[k].op = "watch" /\ ok THEN Append(acked, call[k].script) ELSE acked
         /\ \A j \in Calls : call'[j] = Idle
<1>1. waiting = k /\ \A j \in Calls : j # k => call[j] = Idle
  BY OnlyCall
<1>2. givenUp' = 0 /\ \A j \in Calls : call'[j] = Idle
  BY <1>1, RespondIs
<1> QED
  BY <1>1, <1>2 DEF Respond

\* A handler returns or goes on, to a rescan from a watch that has come in.
Goes(k) ==
  \/ \E ok \in BOOLEAN : Respond(k, ok)
  \/ \E pc, c : Proceed(k, pc, c) /\ (pc = "rescan" => Fresh(k, "watch") /\ c = inst')

\* What was watched still is, and a watch that has come in is kept.
Watched(k) ==
  /\ DOMAIN watches \subseteq DOMAIN watches' /\ DOMAIN outpoints \subseteq DOMAIN outpoints'
  /\ Fresh(k, "watch") =>
       /\ call[k].script \in DOMAIN watches' /\ call[k].script \in DOMAIN outpoints'
       /\ watches'[call[k].script] = call[k].start

LEMMA AckHandler ==
  ASSUME AdapterInv, AckInv, givenUp = 0, NEW k \in Calls, call[k] # Idle, Goes(k),
         call[k].op \in {"configure", "start"} \/ Watched(k)
  PROVE  AckInv'
<1>1. /\ waiting = k /\ \A j \in Calls : j # k => call[j] = Idle
      /\ call[k].op \in Ops /\ call[k].pc \in Places(call[k].op) /\ call[k].op \in TurnOps(turn)
  BY OnlyCall
<1>2. Idle.op = "none" /\ Idle.pc = "none"
  BY DEF Idle
<1>3. call[k].op \in {"configure", "start"} => acked = <<>>
  BY DEF AckInv
<1>4. acked \in Seq(Scripts) /\ (acked = <<>> => AckedSet = {}) /\ AckedSet \subseteq Scripts
  BY AckedIs DEF AckInv
<1>5. call[k].op = "watch" => call[k].script \in Scripts /\ turn = "running"
  <2>1. CallOK(call[k])
    BY DEF AdapterInv, CallInv
  <2> QED
    BY <1>1, <2>1 DEF CallOK, TurnOps
<1>6. call[k].op = "watch" => Watched(k)
  OBVIOUS
<1>7. call[k].op = "watch" => call[k].script \in DOMAIN watches' /\ call[k].script \in DOMAIN outpoints'
  <2> SUFFICES ASSUME call[k].op = "watch"
               PROVE  call[k].script \in DOMAIN watches' /\ call[k].script \in DOMAIN outpoints'
    OBVIOUS
  <2>1. call[k].pc = "called" \/ call[k].pc = "rescan"
    BY <1>1 DEF Places
  <2>2. call[k].pc = "rescan" => call[k].script \in DOMAIN watches /\ call[k].script \in DOMAIN outpoints
    BY DEF AckInv
  <2> QED
    BY <1>6, <2>1, <2>2 DEF Watched, Fresh
<1>8. ASSUME NEW ok \in BOOLEAN, Respond(k, ok)
      PROVE  AckInv'
  <2>1. /\ turn' = After(call[k].op, ok)
        /\ acked' = IF call[k].op = "watch" /\ ok THEN Append(acked, call[k].script) ELSE acked
        /\ \A j \in Calls : call'[j] = Idle
    BY <1>8, Answer
  <2>2. /\ acked' \in Seq(Scripts)
        /\ AckedSet' = IF call[k].op = "watch" /\ ok THEN AckedSet \cup {call[k].script} ELSE AckedSet
    <3>1. CASE call[k].op = "watch" /\ ok
      BY <1>4, <1>5, <2>1, <3>1, AckedSetIs
    <3>2. CASE ~ (call[k].op = "watch" /\ ok)
      BY <1>4, <2>1, <3>2 DEF AckedSet
    <3> QED
      BY <3>1, <3>2
  <2>3. turn' = "start" => acked' = <<>>
    BY <1>1, <1>3, <2>1 DEF After, Ops
  <2>4. \A s \in AckedSet' : s \in DOMAIN watches' /\ s \in DOMAIN outpoints'
    <3>1. CASE call[k].op \in {"configure", "start"}
      BY <1>3, <1>4, <2>2, <3>1
    <3>2. CASE call[k].op \notin {"configure", "start"}
      <4>1. \A s \in AckedSet : s \in DOMAIN watches' /\ s \in DOMAIN outpoints'
        BY <3>2 DEF Watched, AckInv
      <4> QED
        BY <1>7, <2>2, <4>1
    <3> QED
      BY <3>1, <3>2
  <2> QED
    BY <1>2, <2>1, <2>2, <2>3, <2>4 DEF AckInv
<1>9. ASSUME NEW pc, NEW c, Proceed(k, pc, c), pc = "rescan" => Fresh(k, "watch") /\ c = inst'
      PROVE  AckInv'
  <2>1. /\ turn' = turn /\ acked' = acked
        /\ call' = [call EXCEPT ![k].pc = pc, ![k].client = c]
    BY <1>9 DEF Proceed
  <2>2. AckedSet' = AckedSet
    BY <2>1 DEF AckedSet
  <2>3. /\ call'[k].op = call[k].op /\ call'[k].pc = pc /\ call'[k].client = c
        /\ call'[k].script = call[k].script /\ call'[k].start = call[k].start
        /\ \A j \in Calls : j # k => call'[j] = call[j]
    BY <2>1 DEF AdapterInv, CallInv, CallRec
  <2>4. acked' \in Seq(Scripts) /\ (turn' = "start" => acked' = <<>>)
    BY <2>1 DEF AckInv
  <2>5. \A j \in Calls : call'[j].op \in {"configure", "start"} => acked' = <<>>
    BY <2>1, <2>3 DEF AckInv
  <2>6. \A j \in Calls : call'[j].op = "watch" => call'[j].script \notin AckedSet'
    BY <2>2, <2>3 DEF AckInv
  <2>7. \A s \in AckedSet' : s \in DOMAIN watches' /\ s \in DOMAIN outpoints'
    <3>1. CASE call[k].op \in {"configure", "start"}
      BY <1>3, <1>4, <2>2, <3>1
    <3>2. CASE call[k].op \notin {"configure", "start"}
      BY <2>2, <3>2 DEF Watched, AckInv
    <3> QED
      BY <3>1, <3>2
  <2>8. \A j \in Calls : call'[j].pc = "rescan" =>
          /\ call'[j].script \in DOMAIN watches' /\ call'[j].script \in DOMAIN outpoints'
          /\ watches'[call'[j].script] = call'[j].start
          /\ call'[j].client = inst'
    <3> SUFFICES ASSUME NEW j \in Calls, call'[j].pc = "rescan"
                 PROVE  /\ call'[j].script \in DOMAIN watches' /\ call'[j].script \in DOMAIN outpoints'
                        /\ watches'[call'[j].script] = call'[j].start
                        /\ call'[j].client = inst'
      OBVIOUS
    <3>1. j = k
      BY <1>1, <1>2, <2>3
    <3>2. pc = "rescan" /\ Fresh(k, "watch") /\ c = inst'
      BY <1>9, <2>3, <3>1
    <3>3. Watched(k)
      BY <1>6, <3>2 DEF Fresh
    <3> QED
      BY <2>3, <3>1, <3>2, <3>3 DEF Watched
  <2> QED
    BY <2>4, <2>5, <2>6, <2>7, <2>8 DEF AckInv
<1> QED
  BY <1>8, <1>9 DEF Goes

\* The scans leave the calls and the watches alone.
LEMMA AckScan ==
  ASSUME AckInv, UNCHANGED <<harnessVars, watches, inst>>,
         Grew(outpoints, matches, outpoints', matches')
  PROVE  AckInv'
<1>1. UNCHANGED <<turn, call, acked, watches, inst>> /\ DOMAIN outpoints \subseteq DOMAIN outpoints'
  BY DEF harnessVars, Grew
<1>2. AckedSet' = AckedSet
  BY <1>1 DEF AckedSet
<1> QED
  BY <1>1, <1>2 DEF AckInv

LEMMA WatchCalled ==
  ASSUME AckInv, NEW k \in Calls, Fresh(k, "watch"),
         watches' = Put(watches, call[k].script, call[k].start),
         outpoints' = IF call[k].script \in DOMAIN outpoints THEN outpoints
                      ELSE Put(outpoints, call[k].script, {})
  PROVE  /\ Watched(k)
         /\ \A s \in AckedSet : watches'[s] = watches[s]
<1>1. call[k].script \notin AckedSet
  BY DEF AckInv, Fresh
<1>2. \A s \in AckedSet : s \in DOMAIN watches
  BY DEF AckInv
<1>3. /\ DOMAIN watches' = DOMAIN watches \cup {call[k].script}
      /\ watches'[call[k].script] = call[k].start
      /\ \A s \in DOMAIN watches : s # call[k].script => watches'[s] = watches[s]
  BY DEF Put
<1>4. DOMAIN outpoints' = DOMAIN outpoints \cup {call[k].script}
  BY DEF Put
<1>5. Watched(k)
  BY <1>3, <1>4 DEF Watched
<1> QED
  BY <1>1, <1>2, <1>3, <1>5

LEMMA NothingWatched ==
  ASSUME NEW k \in Calls, ~ Fresh(k, "watch"), watches' = watches, outpoints' = outpoints
  PROVE  Watched(k)
BY DEF Watched

-----------------------------------------------------------------------------
(* What a scan has passed. *)

Below(from, to) == {h \in Heights : from <= h /\ h < to}

\* The blocks that scan x has passed, but for the one it has in hand and those
\* that it did not get.
Passed(from, x, ms) == Below(from, x.at) \ ({x.blk} \cup ms)

LastAcked == acked[Len(acked)]

\* The rescan whose quit channel is a.rescanQuit serves the last script.
NeutrinoScanInv ==
  rescanQuit # 0 =>
    LET x == scan[rescanQuit]
    IN  /\ (x.st = "on" /\ x.blk = 0) \/ (x.st = "held" /\ x.at = x.blk + 1)
        /\ acked # <<>> =>
             /\ x.script = LastAcked
             /\ Done(outpoints, matches, LastAcked, Passed(watches[LastAcked], x, missed))

LEMMA PassedLess ==
  ASSUME NEW from, NEW x, NEW ms, NEW ms2, ms \subseteq ms2
  PROVE  Passed(from, x, ms2) \subseteq Passed(from, x, ms)
BY DEF Passed

\* Scan y is scan x, with the block that x had before it in hand.
LEMMA PassedNext ==
  ASSUME NEW from, NEW x \in ScanRec, NEW y, NEW ms, x.blk = 0,
         y.at = x.at + 1, y.blk = x.at
  PROVE  Passed(from, y, ms) \subseteq Passed(from, x, ms)
<1>1. x.at \in Int /\ Tip \in Int
  BY AdapterAssumption DEF ScanRec
<1>2. ASSUME NEW h \in Passed(from, y, ms)
      PROVE  h \in Passed(from, x, ms)
  <2>1. h \in Heights /\ h \in Int /\ h # 0 /\ from <= h /\ h < x.at + 1 /\ h # x.at /\ h \notin ms
    BY DEF Passed, Below, Heights
  <2>2. h < x.at
    BY <1>1, <2>1
  <2> QED
    BY <2>1, <2>2 DEF Passed, Below
<1> QED
  BY <1>2

LEMMA NeutrinoSame ==
  ASSUME NeutrinoScanInv, rescanQuit' = rescanQuit,
         rescanQuit # 0 => scan'[rescanQuit] = scan[rescanQuit],
         acked' = acked \/ acked' = <<>>,
         acked # <<>> => watches'[LastAcked] = watches[LastAcked],
         missed \subseteq missed', Grew(outpoints, matches, outpoints', matches')
  PROVE  NeutrinoScanInv'
<1> SUFFICES ASSUME rescanQuit # 0
             PROVE  LET x == scan[rescanQuit]
                    IN  /\ (x.st = "on" /\ x.blk = 0) \/ (x.st = "held" /\ x.at = x.blk + 1)
                        /\ acked' # <<>> =>
                             /\ x.script = LastAcked'
                             /\ Done(outpoints', matches', LastAcked',
                                     Passed(watches'[LastAcked'], x, missed'))
  BY DEF NeutrinoScanInv
<1> DEFINE x == scan[rescanQuit]
<1>1. (x.st = "on" /\ x.blk = 0) \/ (x.st = "held" /\ x.at = x.blk + 1)
  BY DEF NeutrinoScanInv
<1>2. ASSUME acked' # <<>>
      PROVE  x.script = LastAcked' /\ Done(outpoints', matches', LastAcked',
                                           Passed(watches'[LastAcked'], x, missed'))
  <2>1. acked' = acked /\ LastAcked' = LastAcked /\ acked # <<>>
    BY <1>2 DEF LastAcked
  <2>2. x.script = LastAcked /\ Done(outpoints, matches, LastAcked, Passed(watches[LastAcked], x, missed))
    BY <2>1 DEF NeutrinoScanInv
  <2>3. Passed(watches[LastAcked], x, missed') \subseteq Passed(watches[LastAcked], x, missed)
    BY PassedLess
  <2>4. Done(outpoints', matches', LastAcked, Passed(watches[LastAcked], x, missed'))
    BY <2>2, <2>3, DoneMore
  <2> QED
    BY <2>1, <2>2, <2>4
<1> QED
  BY <1>1, <1>2

LEMMA NeutrinoHandlerServes ==
  ASSUME AdapterInv, AckInv, NeutrinoScanInv, givenUp = 0, NEW k \in Calls, NeutrinoHandler(k)
  PROVE  AckInv' /\ NeutrinoScanInv'
<1>0. ScanInv /\ 0 \notin Scanners /\ scan \in [Scanners -> ScanRec]
  BY DEF AdapterInv, ScanInv, Scanners
<1>1. ASSUME NEW op \in Ops, Called(k, op)
      PROVE  call[k] # Idle /\ Fresh(k, op) /\ call[k].op = op
  BY <1>1, CalledIs DEF Fresh
<1>2. ASSUME NEW op \in Ops, NEW pc, pc # "called", At(k, op, pc)
      PROVE  call[k] # Idle /\ ~ Fresh(k, "watch") /\ call[k].op = op
  BY <1>2, AtIs DEF At
<1>3. ASSUME NEW ok \in BOOLEAN, Respond(k, ok)
      PROVE  Goes(k)
  BY <1>3 DEF Goes
<1>4. ASSUME UNCHANGED <<rescanQuit, scan, watches, outpoints, matches, missed>>, acked' = acked
      PROVE  NeutrinoScanInv'
  BY <1>4, NeutrinoSame, SameGrew
<1>5. CASE Refuse(k)
  <2>1. Called(k, "configure") /\ Respond(k, FALSE) /\ UNCHANGED <<stateVars, scan, historyVars>>
    BY <1>5 DEF Refuse
  <2>2. call[k] # Idle /\ call[k].op = "configure"
    BY <1>1, <2>1 DEF Ops
  <2>3. acked' = acked
    BY <2>1, <2>2, Answer
  <2>4. AckInv'
    BY <1>3, <2>1, <2>2, AckHandler
  <2> QED
    BY <1>4, <2>1, <2>3, <2>4 DEF stateVars, historyVars
<1>6. CASE NeutrinoConfigure(k)
  <2>1. Called(k, "configure") /\ rescanQuit' = 0 /\ \E ok \in BOOLEAN : Respond(k, ok)
    BY <1>6 DEF NeutrinoConfigure
  <2>2. call[k] # Idle /\ call[k].op = "configure"
    BY <1>1, <2>1 DEF Ops
  <2>3. AckInv'
    BY <1>3, <2>1, <2>2, AckHandler
  <2> QED
    BY <2>1, <2>3 DEF NeutrinoScanInv
<1>7. CASE NeutrinoStart(k)
  <2>1. /\ Called(k, "start") /\ UNCHANGED <<stateVars, scan, historyVars>>
        /\ Respond(k, FALSE) \/ Proceed(k, "start", inst)
    BY <1>7 DEF NeutrinoStart
  <2>2. call[k] # Idle /\ call[k].op = "start"
    BY <1>1, <2>1 DEF Ops
  <2>3. acked' = acked
    BY <2>1, <2>2, Answer DEF Proceed
  <2>4. Goes(k)
    <3>1. "start" # "rescan"
      OBVIOUS
    <3> QED
      BY <1>3, <2>1, <3>1 DEF Goes
  <2>5. AckInv'
    BY <2>2, <2>4, AckHandler
  <2> QED
    BY <1>4, <2>1, <2>3, <2>5 DEF stateVars, historyVars
<1>8. CASE NeutrinoStarted(k)
  <2>1. /\ At(k, "start", "start") /\ UNCHANGED <<stateVars, scan, historyVars>>
        /\ \E ok \in BOOLEAN : Respond(k, ok)
    BY <1>8 DEF NeutrinoStarted
  <2>2. call[k] # Idle /\ call[k].op = "start"
    BY <1>2, <2>1 DEF Ops
  <2>3. acked' = acked
    BY <2>1, <2>2, Answer
  <2>4. AckInv'
    BY <1>3, <2>1, <2>2, AckHandler
  <2> QED
    BY <1>4, <2>1, <2>3, <2>4 DEF stateVars, historyVars
<1>9. CASE NeutrinoStop(k)
  <2>1. /\ Called(k, "stop") /\ rescanQuit' = 0 /\ UNCHANGED <<watches, outpoints>>
        /\ \E ok \in BOOLEAN : Respond(k, ok)
    BY <1>9 DEF NeutrinoStop
  <2>2. call[k] # Idle /\ call[k].op = "stop"
    BY <1>1, <2>1 DEF Ops
  <2>3. Watched(k)
    BY <2>1, <2>2, NothingWatched DEF Fresh
  <2>4. AckInv'
    BY <1>3, <2>1, <2>2, <2>3, AckHandler
  <2> QED
    BY <2>1, <2>4 DEF NeutrinoScanInv
<1>10. CASE NeutrinoWatch(k)
  <2>1. /\ Called(k, "watch")
        /\ watches' = Put(watches, call[k].script, call[k].start)
        /\ outpoints' = IF call[k].script \in DOMAIN outpoints THEN outpoints
                        ELSE Put(outpoints, call[k].script, {})
        /\ Respond(k, FALSE) \/ Proceed(k, "rescan", inst)
        /\ UNCHANGED <<inst, matches, rescanQuit, scan, missed>>
    BY <1>10 DEF NeutrinoWatch, historyVars
  <2>2. call[k] # Idle /\ Fresh(k, "watch")
    BY <1>1, <2>1 DEF Ops
  <2>3. Watched(k) /\ \A s \in AckedSet : watches'[s] = watches[s]
    BY <2>1, <2>2, WatchCalled
  <2>4. Goes(k)
    BY <2>1, <2>2 DEF Goes
  <2>5. AckInv'
    BY <2>2, <2>3, <2>4, AckHandler
  <2>6. acked' = acked
    BY <2>1, <2>2, Answer DEF Proceed
  <2>7. acked # <<>> => LastAcked \in AckedSet
    BY AckedIs DEF AckInv, LastAcked
  <2>8. Grew(outpoints, matches, outpoints', matches')
    BY <2>1, EntryGrew
  <2>9. acked # <<>> => watches'[LastAcked] = watches[LastAcked]
    BY <2>3, <2>7
  <2>10. NeutrinoScanInv'
    BY <2>1, <2>6, <2>8, <2>9, NeutrinoSame
  <2> QED
    BY <2>5, <2>10
<1>11. CASE NeutrinoRescan(k)
  <2>1. /\ At(k, "watch", "rescan") /\ Respond(k, TRUE)
        /\ UNCHANGED <<watches, outpoints, matches, missed>>
    BY <1>11 DEF NeutrinoRescan, historyVars
  <2> DEFINE s == call[k].script
  <2>2. call[k] # Idle /\ ~ Fresh(k, "watch") /\ call[k].op = "watch" /\ call[k].pc = "rescan"
    BY <1>2, <2>1 DEF Ops, At
  <2>3. AckInv'
    BY <1>3, <2>1, <2>2, NothingWatched, AckHandler
  <2>4. /\ s \in Scripts /\ s \in DOMAIN outpoints /\ watches[s] = call[k].start
        /\ call[k].start \in Int
    <3>1. CallOK(call[k]) /\ call[k] \in CallRec
      BY DEF AdapterInv, CallInv
    <3> QED
      BY <2>2, <3>1 DEF CallOK, CallRec, AckInv
  <2>5. acked' = Append(acked, s)
    BY <2>1, <2>2, Answer
  <2>6. LastAcked' = s
    BY <2>4, <2>5, AckedSetIs DEF AckInv, LastAcked
  <2>7. PICK r \in Scanners :
          /\ rescanQuit' = r
          /\ scan' = [Close(rescanQuit) EXCEPT
                     ![r] = [NoScan EXCEPT !.client = call[k].client, !.script = call[k].script,
                                           !.at = call[k].start, !.st = "on"]]
    BY <1>11 DEF NeutrinoRescan
  <2> DEFINE x == [NoScan EXCEPT !.client = call[k].client, !.script = call[k].script,
                                           !.at = call[k].start, !.st = "on"]
  <2>8. x = ScanAt(call[k].client, s, call[k].start)
    BY ScanFrom
  <2>9. scan'[r] = x
    <3> HIDE DEF x
    <3>1. r \in DOMAIN Close(rescanQuit) /\ scan' = [Close(rescanQuit) EXCEPT ![r] = x]
      BY <2>7 DEF Close, x
    <3> QED
      BY <3>1
  <2>10. x.script = s /\ x.at = call[k].start /\ x.blk = 0 /\ x.st = "on"
    <3> HIDE DEF x
    <3> QED
      BY <2>8 DEF ScanAt
  <2>11. Passed(watches[s], x, missed) = {}
    <3> HIDE DEF x
    <3> QED
      BY <2>4, <2>10 DEF Passed, Below, Heights
  <2>12. Done(outpoints', matches', s, {})
    BY <2>1, <2>4 DEF Done
  <2> HIDE DEF x
  <2>13. NeutrinoScanInv'
    BY <2>1, <2>6, <2>7, <2>9, <2>10, <2>11, <2>12 DEF NeutrinoScanInv
  <2> QED
    BY <2>3, <2>13
<1> QED
  BY <1>5, <1>6, <1>7, <1>8, <1>9, <1>10, <1>11 DEF NeutrinoHandler

LEMMA NeutrinoScanServes ==
  ASSUME AdapterInv, AckInv, NeutrinoScanInv, NEW r \in Scanners, NeutrinoScan(r), alive'
  PROVE  AckInv' /\ NeutrinoScanInv'
<1>1. ScanInv /\ 0 \notin Scanners /\ scan \in [Scanners -> ScanRec]
  BY DEF AdapterInv, ScanInv, Scanners
<1>2. ASSUME acked # <<>>
      PROVE  LastAcked \in AckedSet /\ LastAcked \in Scripts /\ LastAcked \in DOMAIN outpoints
  BY <1>2, AckedIs DEF AckInv, LastAcked
<1>3. CASE NeutrinoBlock(r)
  <2>1. /\ scan[r].st = "on"
        /\ scan' = [scan EXCEPT ![r].at = @ + 1, ![r].blk = scan[r].at, ![r].st = "held"]
        /\ UNCHANGED <<inst, watches, outpoints, matches, rescanQuit, missed>> /\ UNCHANGED harnessVars
    BY <1>3 DEF NeutrinoBlock, stateVars, historyVars
  <2>2. Grew(outpoints, matches, outpoints', matches')
    BY <2>1, SameGrew
  <2>3. AckInv'
    BY <2>1, <2>2, AckScan
  <2>4. acked' = acked
    BY <2>1 DEF harnessVars
  <2>5. CASE r # rescanQuit
    <3>1. rescanQuit # 0 => scan'[rescanQuit] = scan[rescanQuit]
      BY <1>1, <2>1, <2>5 DEF ScanInv
    <3> QED
      BY <2>1, <2>2, <2>3, <2>4, <3>1, NeutrinoSame
  <2>6. CASE r = rescanQuit
    <3> DEFINE x == scan[r]
               y == scan'[r]
    <3>1. y.at = x.at + 1 /\ y.blk = x.at /\ y.st = "held" /\ y.script = x.script
      BY <1>1, <2>1 DEF ScanRec
    <3>2. x \in ScanRec /\ x.blk = 0
      BY <1>1, <2>1, <2>6 DEF NeutrinoScanInv
    <3>3. ASSUME acked # <<>>
          PROVE  y.script = LastAcked /\ Done(outpoints, matches, LastAcked,
                                              Passed(watches[LastAcked], y, missed))
      <4>1. x.script = LastAcked /\ Done(outpoints, matches, LastAcked, Passed(watches[LastAcked], x, missed))
        BY <1>1, <2>6, <3>3 DEF NeutrinoScanInv
      <4>2. Passed(watches[LastAcked], y, missed) \subseteq Passed(watches[LastAcked], x, missed)
        <5> HIDE DEF x, y
        <5> QED
          BY <3>1, <3>2, PassedNext
      <4>3. Grew(outpoints, matches, outpoints, matches)
        BY DEF Grew
      <4>4. Done(outpoints, matches, LastAcked, Passed(watches[LastAcked], y, missed))
        BY <4>1, <4>2, <4>3, DoneMore
      <4> QED
        BY <3>1, <4>1, <4>4
    <3>4. y.at = y.blk + 1
      BY <3>1
    <3>5. LastAcked' = LastAcked
      BY <2>4 DEF LastAcked
    <3> HIDE DEF x
    <3>6. NeutrinoScanInv'
      BY <2>1, <2>4, <2>6, <3>1, <3>3, <3>4, <3>5 DEF NeutrinoScanInv
    <3> QED
      BY <2>3, <3>6
  <2> QED
    BY <2>5, <2>6
<1>4. CASE NeutrinoRecord(r)
  <2> DEFINE s == scan[r].script
             h == scan[r].blk
  <2>1. /\ scan[r].st = "held"
        /\ scan' = [scan EXCEPT ![r] = IF r = rescanQuit THEN [@ EXCEPT !.blk = 0, !.st = "on"] ELSE NoScan]
        /\ UNCHANGED <<inst, watches, rescanQuit, missed>> /\ UNCHANGED harnessVars
        /\ IF s \in DOMAIN outpoints THEN Record({s}, h)
                                     ELSE UNCHANGED <<outpoints, matches>>
    BY <1>4 DEF NeutrinoRecord, historyVars
  <2>2. Grew(outpoints, matches, outpoints', matches')
    BY <2>1, SameGrew, RecordGrew
  <2>3. AckInv'
    BY <2>1, <2>2, AckScan
  <2>4. acked' = acked
    BY <2>1 DEF harnessVars
  <2>5. CASE r # rescanQuit
    <3>1. rescanQuit # 0 => scan'[rescanQuit] = scan[rescanQuit]
      BY <1>1, <2>1, <2>5 DEF ScanInv
    <3> QED
      BY <2>1, <2>2, <2>3, <2>4, <3>1, NeutrinoSame
  <2>6. CASE r = rescanQuit
    <3> DEFINE x == scan[r]
               y == scan'[r]
    <3>1. scan' = [scan EXCEPT ![r] = [@ EXCEPT !.blk = 0, !.st = "on"]]
      BY <2>1, <2>6
    <3>2. y.at = x.at /\ y.blk = 0 /\ y.st = "on" /\ y.script = x.script
      BY <1>1, <3>1 DEF ScanRec
    <3>3. x \in ScanRec /\ x.at = x.blk + 1
      BY <1>1, <2>1, <2>6 DEF NeutrinoScanInv
    <3>4. ASSUME acked # <<>>
          PROVE  y.script = LastAcked /\ Done(outpoints', matches', LastAcked,
                                              Passed(watches[LastAcked], y, missed))
      <4>1. x.script = LastAcked /\ Done(outpoints, matches, LastAcked, Passed(watches[LastAcked], x, missed))
        BY <1>1, <2>6, <3>4 DEF NeutrinoScanInv
      <4>2. Record({s}, h) /\ LastAcked \in {s} /\ LastAcked \in Scripts
        BY <1>2, <2>1, <3>4, <4>1
      <4>3. h \in Nat
        BY <3>3, AdapterAssumption DEF ScanRec
      <4>4. \A b \in Passed(watches[LastAcked], x, missed) : b \in Nat /\ b <= h
        <5>1. x.at = h + 1
          BY <3>3
        <5> HIDE DEF x, h
        <5> QED
          BY <4>3, <5>1 DEF Passed, Below, Heights
      <4>5. Passed(watches[LastAcked], y, missed) \subseteq Passed(watches[LastAcked], x, missed) \cup {h}
        <5> HIDE DEF y
        <5> QED
          BY <3>2 DEF Passed
      <4>6. Done(outpoints', matches', LastAcked, Passed(watches[LastAcked], y, missed))
        <5> DEFINE G == client[scan[r].client].gen
        <5> HIDE DEF x, y, s, h, G
        <5> QED
          BY <4>1, <4>2, <4>3, <4>4, <4>5, DoneRecord DEF G
      <4> QED
        BY <3>2, <4>1, <4>6
    <3>5. LastAcked' = LastAcked
      BY <2>4 DEF LastAcked
    <3>6. NeutrinoScanInv'
      BY <2>1, <2>4, <2>6, <3>2, <3>4, <3>5 DEF NeutrinoScanInv
    <3> QED
      BY <2>3, <3>6
  <2> QED
    BY <2>5, <2>6
<1> QED
  BY <1>3, <1>4 DEF NeutrinoScan

LEMMA PassedSub ==
  ASSUME NEW from, NEW x, NEW y, NEW ms, NEW ms2, x.at \in Int, y.at \in Int, y.at <= x.at,
         ms \subseteq ms2, x.blk = y.blk \/ x.blk = 0 \/ x.blk \in ms2
  PROVE  Passed(from, y, ms2) \subseteq Passed(from, x, ms)
<1>1. ASSUME NEW h \in Passed(from, y, ms2)
      PROVE  h \in Passed(from, x, ms)
  <2>1. /\ h \in Heights /\ h \in Int /\ h # 0 /\ from <= h /\ h < y.at
        /\ h # y.blk /\ h \notin ms2
    BY AdapterAssumption DEF Passed, Below, Heights
  <2>2. h < x.at
    BY <2>1
  <2>3. h \notin ms /\ h # x.blk
    BY <2>1
  <2> QED
    BY <2>1, <2>2, <2>3 DEF Passed, Below
<1> QED
  BY <1>1

LEMMA PassedNone ==
  ASSUME NEW from \in Int, NEW y, NEW ms, y.at \in Int, y.at <= from
  PROVE  Passed(from, y, ms) = {}
BY DEF Passed, Below, Heights

LEMMA PassedTill ==
  ASSUME NEW from, NEW x, NEW ms, x.at \in Int, x.blk \in Int, x.at <= x.blk + 1
  PROVE  \A h \in Passed(from, x, ms) : h \in Nat /\ h <= x.blk
BY AdapterAssumption DEF Passed, Below, Heights

-----------------------------------------------------------------------------
(* Kyoto: the event loop of the client serves all the watches.              *)

KyotoLoopInv ==
  /\ \A c \in Clients : client[c].st \in {"none", "built"} => scan[c] = NoScan
  /\ inst # 0 => client[inst].st \in {"built", "running"}
  /\ \A r \in Scanners : scan[r].st \in {"off", "on"} => scan[r].blk = 0

KyotoServeInv ==
  inst # 0 =>
    /\ \A s \in AckedSet : Done(outpoints, matches, s, Passed(watches[s], scan[inst], missed))
    /\ scan[inst].blk # 0 => scan[inst].at <= scan[inst].blk + 1

LEMMA KyotoSame ==
  ASSUME KyotoServeInv, inst' = inst, inst # 0 => scan'[inst] = scan[inst],
         AckedSet' \subseteq AckedSet, \A s \in AckedSet : watches'[s] = watches[s],
         missed \subseteq missed', Grew(outpoints, matches, outpoints', matches')
  PROVE  KyotoServeInv'
<1> SUFFICES ASSUME inst # 0
             PROVE  /\ \A s \in AckedSet' : Done(outpoints', matches', s,
                                                 Passed(watches'[s], scan[inst], missed'))
                    /\ scan[inst].blk # 0 => scan[inst].at <= scan[inst].blk + 1
  BY DEF KyotoServeInv
<1>1. ASSUME NEW s \in AckedSet'
      PROVE  Done(outpoints', matches', s, Passed(watches'[s], scan[inst], missed'))
  <2>1. Done(outpoints, matches, s, Passed(watches[s], scan[inst], missed)) /\ watches'[s] = watches[s]
    BY DEF KyotoServeInv
  <2>2. Passed(watches[s], scan[inst], missed') \subseteq Passed(watches[s], scan[inst], missed)
    BY PassedLess
  <2>3. Done(outpoints', matches', s, Passed(watches[s], scan[inst], missed'))
    BY <2>1, <2>2, DoneMore
  <2> QED
    BY <2>1, <2>3
<1> QED
  BY <1>1 DEF KyotoServeInv

\* The loops that a handler aborts, or leaves alone.
LEMMA AbortedIs ==
  ASSUME AdapterInv, scan' \in Aborted(scan)
  PROVE  \A r \in Scanners : scan'[r] = scan[r] \/ scan'[r] = NoScan
<1>1. scan' = scan \/ (inst # 0 /\ scan' = [scan EXCEPT ![inst] = NoScan])
  BY DEF Aborted
<1>2. DOMAIN scan = Scanners
  BY DEF AdapterInv, ScanInv
<1> QED
  BY <1>1, <1>2

LEMMA KyotoHandlerServes ==
  ASSUME AdapterInv, AckInv, KyotoLoopInv, KyotoServeInv, impl = "kyoto", givenUp = 0,
         NEW k \in Calls, KyotoHandler(k)
  PROVE  AckInv' /\ KyotoLoopInv' /\ KyotoServeInv'
<1>0. /\ ScanInv /\ ClientInv /\ scan \in [Scanners -> ScanRec]
      /\ 0 \notin Clients /\ Clients \subseteq Scanners
      /\ inst # 0 => inst \in Clients /\ inst \in Used
  BY AdapterAssumption DEF AdapterInv, ClientInv, ScanInv, Scanners, Clients
<1>1. ASSUME NEW op \in Ops, Called(k, op)
      PROVE  call[k] # Idle /\ Fresh(k, op) /\ call[k].op = op
  BY <1>1, CalledIs DEF Fresh
<1>2. ASSUME NEW op \in Ops, NEW pc, pc # "called", At(k, op, pc)
      PROVE  call[k] # Idle /\ ~ Fresh(k, "watch") /\ call[k].op = op
  BY <1>2, AtIs DEF At
<1>3. ASSUME NEW ok \in BOOLEAN, Respond(k, ok)
      PROVE  Goes(k)
  BY <1>3 DEF Goes
<1>4. ASSUME acked' = acked
      PROVE  AckedSet' = AckedSet
  BY <1>4 DEF AckedSet
<1>5. ASSUME call[k].op \in {"configure", "start"}
      PROVE  acked = <<>> /\ AckedSet = {}
  BY <1>5, AckedIs DEF AckInv
<1>6. NoScan.st = "off" /\ NoScan.blk = 0 /\ NoScan.at = 0
  BY DEF NoScan
<1> DEFINE stopped == StopNode(client)
<1>7. /\ stopped \in [Clients -> ClientRec]
      /\ \A c \in Clients : stopped[c].st = IF c = inst THEN "stopped" ELSE client[c].st
  BY <1>0, ClientStops DEF StopNode
<1>8. CASE Refuse(k)
  <2>1. Called(k, "configure") /\ Respond(k, FALSE) /\ UNCHANGED <<stateVars, client, scan, historyVars>>
    BY <1>8 DEF Refuse
  <2>2. call[k] # Idle /\ call[k].op = "configure"
    BY <1>1, <2>1 DEF Ops
  <2>3. acked' = acked
    BY <2>1, <2>2, Answer
  <2>4. AckInv'
    BY <1>3, <2>1, <2>2, AckHandler
  <2>5. UNCHANGED <<inst, watches, outpoints, matches, client, scan, missed>>
    BY <2>1 DEF stateVars, historyVars
  <2>6. KyotoLoopInv'
    BY <2>5 DEF KyotoLoopInv
  <2> QED
    BY <1>4, <2>3, <2>4, <2>5, <2>6, KyotoSame, SameGrew
<1>9. CASE KyotoConfigure(k)
  <2>1. /\ Called(k, "configure") /\ inst' = NewClient /\ scan' \in Aborted(scan) /\ Respond(k, TRUE)
        /\ client' = [stopped EXCEPT ![NewClient] = [gen |-> gen + 1, st |-> "built"]]
    BY <1>9 DEF KyotoConfigure
  <2>2. call[k] # Idle /\ Fresh(k, "configure") /\ call[k].op = "configure"
    BY <1>1, <2>1 DEF Ops
  <2>3. AckInv'
    BY <1>3, <2>1, <2>2, AckHandler
  <2>4. AckedSet' = {}
    BY <1>4, <1>5, <2>1, <2>2, Answer
  <2>5. \A r \in Scanners : scan'[r] = scan[r] \/ scan'[r] = NoScan
    BY <2>1, AbortedIs
  <2>6. NewClient \in Clients /\ NewClient \notin Used
    BY <2>2, NewClientIs
  <2> DEFINE new == NewClient
  <2> HIDE DEF new, stopped
  <2>7. /\ client'[new].st = "built" /\ \A d \in Clients : d # new => client'[d] = stopped[d]
        /\ inst' = new /\ new \in Clients /\ new # inst
    BY <1>0, <1>7, <2>1, <2>6 DEF new
  <2>8. scan[new] = NoScan
    <3>1. client[new].st = "none"
      BY <2>6 DEF new, Used, NoClient
    <3> QED
      BY <2>7, <3>1 DEF KyotoLoopInv
  <2>9. scan'[new] = NoScan
    BY <1>0, <2>5, <2>7, <2>8
  <2>10. KyotoLoopInv'
    <3>1. \A c \in Clients : client'[c].st \in {"none", "built"} => scan'[c] = NoScan
      <4> SUFFICES ASSUME NEW c \in Clients, client'[c].st \in {"none", "built"}, c # new
                   PROVE  scan'[c] = NoScan
        BY <2>9
      <4>1. client[c].st \in {"none", "built"}
        BY <1>7, <2>7
      <4>2. scan[c] = NoScan
        BY <4>1 DEF KyotoLoopInv
      <4> QED
        BY <1>0, <2>5, <4>2
    <3>2. \A r \in Scanners : scan'[r].st \in {"off", "on"} => scan'[r].blk = 0
      BY <1>6, <2>5 DEF KyotoLoopInv
    <3> QED
      BY <2>7, <3>1, <3>2 DEF KyotoLoopInv
  <2>11. KyotoServeInv'
    BY <1>6, <2>4, <2>7, <2>9 DEF KyotoServeInv
  <2> QED
    BY <2>3, <2>10, <2>11
<1>10. CASE KyotoStart(k)
  <2>1. Called(k, "start") /\ UNCHANGED stateVars /\ missed' = missed
    BY <1>10 DEF KyotoStart, historyVars
  <2>2. UNCHANGED <<inst, watches, outpoints, matches, missed>>
    BY <2>1 DEF stateVars
  <2>3. call[k] # Idle /\ call[k].op = "start"
    BY <1>1, <2>1 DEF Ops
  <2>4. CASE /\ inst # 0 /\ client[inst].st = "built" /\ Respond(k, TRUE)
             /\ client' = WithState(inst, "running")
             /\ scan' = [scan EXCEPT ![inst] = [NoScan EXCEPT !.client = inst, !.at = 1, !.st = "on"]]
    <3>1. AckInv'
      BY <1>3, <2>3, <2>4, AckHandler
    <3>2. AckedSet' = {}
      BY <1>4, <1>5, <2>3, <2>4, Answer
    <3> DEFINE x == [NoScan EXCEPT !.client = inst, !.at = 1, !.st = "on"]
    <3>3. x = ScanAt(inst, NoScript, 1)
      BY ScanFromFirst
    <3> HIDE DEF x
    <3>4. x.blk = 0 /\ x.st = "on"
      BY <3>3 DEF ScanAt
    <3>5. scan'[inst] = x /\ \A r \in Scanners : r # inst => scan'[r] = scan[r]
      BY <1>0, <2>4 DEF x
    <3>6. \A d \in Clients : client'[d].st = IF d = inst THEN "running" ELSE client[d].st
      BY <1>0, <2>4, ClientBecomes
    <3>7. KyotoLoopInv'
      <4>1. \A c \in Clients : client'[c].st \in {"none", "built"} => scan'[c] = NoScan
        BY <1>0, <3>5, <3>6 DEF KyotoLoopInv
      <4>2. \A r \in Scanners : scan'[r].st \in {"off", "on"} => scan'[r].blk = 0
        BY <3>4, <3>5 DEF KyotoLoopInv
      <4> QED
        BY <1>0, <2>2, <3>6, <4>1, <4>2 DEF KyotoLoopInv
    <3>8. KyotoServeInv'
      BY <2>2, <3>2, <3>4, <3>5 DEF KyotoServeInv
    <3> QED
      BY <3>1, <3>7, <3>8
  <2>5. CASE Respond(k, FALSE) /\ UNCHANGED <<client, scan>>
    <3>1. acked' = acked
      BY <2>3, <2>5, Answer
    <3>2. AckInv'
      BY <1>3, <2>3, <2>5, AckHandler
    <3>3. KyotoLoopInv'
      BY <2>2, <2>5 DEF KyotoLoopInv
    <3> QED
      BY <1>4, <2>2, <2>5, <3>1, <3>2, <3>3, KyotoSame, SameGrew
  <2> QED
    BY <1>10, <2>4, <2>5 DEF KyotoStart, WithState
<1>11. CASE KyotoStop(k)
  <2>1. /\ Called(k, "stop") /\ inst' = 0 /\ scan' \in Aborted(scan) /\ Respond(k, TRUE)
        /\ client' = stopped /\ UNCHANGED <<watches, outpoints>>
    BY <1>11 DEF KyotoStop
  <2>2. call[k] # Idle /\ call[k].op = "stop"
    BY <1>1, <2>1 DEF Ops
  <2>3. Watched(k)
    BY <2>1, <2>2, NothingWatched DEF Fresh
  <2>4. AckInv'
    BY <1>3, <2>1, <2>2, <2>3, AckHandler
  <2>5. \A r \in Scanners : scan'[r] = scan[r] \/ scan'[r] = NoScan
    BY <2>1, AbortedIs
  <2>6. KyotoLoopInv'
    <3> HIDE DEF stopped
    <3>1. \A c \in Clients : client'[c].st \in {"none", "built"} => client[c].st \in {"none", "built"}
      BY <1>7, <2>1
    <3>2. \A c \in Clients : client'[c].st \in {"none", "built"} => scan'[c] = NoScan
      BY <1>0, <2>5, <3>1 DEF KyotoLoopInv
    <3>3. \A r \in Scanners : scan'[r].st \in {"off", "on"} => scan'[r].blk = 0
      BY <1>6, <2>5 DEF KyotoLoopInv
    <3> QED
      BY <2>1, <3>2, <3>3 DEF KyotoLoopInv
  <2>7. KyotoServeInv'
    BY <2>1 DEF KyotoServeInv
  <2> QED
    BY <2>4, <2>6, <2>7
<1>12. CASE KyotoWatch(k)
  <2> DEFINE s == call[k].script
  <2>1. /\ Called(k, "watch")
        /\ watches' = Put(watches, s, call[k].start)
        /\ outpoints' = IF s \in DOMAIN outpoints THEN outpoints ELSE Put(outpoints, s, {})
        /\ IF Running(inst) THEN Proceed(k, "rescan", inst) ELSE Respond(k, TRUE)
        /\ UNCHANGED <<inst, matches, client, scan, missed>>
    BY <1>12 DEF KyotoWatch, historyVars
  <2>2. call[k] # Idle /\ Fresh(k, "watch") /\ call[k].op = "watch"
    BY <1>1, <2>1 DEF Ops
  <2>3. Watched(k) /\ \A t \in AckedSet : watches'[t] = watches[t]
    BY <2>1, <2>2, WatchCalled
  <2>4. Goes(k)
    BY <2>1, <2>2 DEF Goes
  <2>5. AckInv'
    BY <2>2, <2>3, <2>4, AckHandler
  <2>6. Grew(outpoints, matches, outpoints', matches') /\ s \in DOMAIN outpoints'
    BY <2>1, EntryGrew
  <2>7. KyotoLoopInv'
    BY <2>1 DEF KyotoLoopInv
  <2>8. CASE Running(inst)
    <3>1. acked' = acked
      BY <2>1, <2>8 DEF Proceed
    <3> QED
      BY <1>4, <2>1, <2>3, <2>5, <2>6, <2>7, <3>1, KyotoSame
  <2>9. CASE ~ Running(inst)
    <3>1. /\ s \in Scripts /\ AckedSet' = AckedSet \cup {s}
      <4>1. acked' = Append(acked, s)
        BY <2>1, <2>2, <2>9, Answer
      <4>2. s \in Scripts
        BY <2>1, WatchedIs
      <4> QED
        BY <4>1, <4>2, AckedSetIs DEF AckInv
    <3>2. inst # 0 => scan[inst] = NoScan
      BY <1>0, <2>9 DEF Running, KyotoLoopInv
    <3>3. inst # 0 => \A t : Passed(watches'[t], scan[inst], missed) = {}
      BY <1>6, <3>2 DEF Passed, Below, Heights
    <3>4. \A t \in AckedSet' : Done(outpoints', matches', t, {})
      <4>1. \A t \in AckedSet' : t \in DOMAIN outpoints'
        BY <2>5 DEF AckInv
      <4> QED
        BY <4>1 DEF Done
    <3>5. KyotoServeInv'
      BY <1>6, <2>1, <3>2, <3>3, <3>4 DEF KyotoServeInv
    <3> QED
      BY <2>5, <2>7, <3>5
  <2> QED
    BY <2>8, <2>9
<1>13. CASE KyotoRescan(k)
  <2> DEFINE s == call[k].script
             c == call[k].client
  <2>1. At(k, "watch", "rescan") /\ UNCHANGED stateVars /\ client' = client /\ missed' = missed
    BY <1>13 DEF KyotoRescan, historyVars
  <2>2. UNCHANGED <<inst, watches, outpoints, matches>>
    BY <2>1 DEF stateVars
  <2>3. call[k] # Idle /\ ~ Fresh(k, "watch") /\ call[k].op = "watch" /\ call[k].pc = "rescan"
    BY <1>2, <2>1 DEF Ops, At
  <2>4. /\ s \in Scripts /\ s \in DOMAIN outpoints /\ watches[s] = call[k].start /\ c = inst
        /\ call[k].start \in Int
    <3>1. CallOK(call[k]) /\ call[k] \in CallRec
      BY DEF AdapterInv, CallInv
    <3> QED
      BY <2>3, <3>1 DEF CallOK, CallRec, AckInv
  <2>5. Grew(outpoints, matches, outpoints', matches')
    BY <2>2, SameGrew
  <2>6. CASE Running(c) /\ Respond(k, TRUE) /\ scan' = [scan EXCEPT ![c].at = Least(@, call[k].start)]
    <3>1. AckInv'
      BY <1>3, <2>2, <2>3, <2>6, NothingWatched, AckHandler
    <3>2. acked' = Append(acked, s)
      BY <2>3, <2>6, Answer
    <3>3. AckedSet' = AckedSet \cup {s}
      BY <2>4, <3>2, AckedSetIs DEF AckInv
    <3>4. inst # 0 /\ inst \in Clients /\ inst \in Scanners /\ client[inst].st = "running"
      BY <1>0, <2>4, <2>6 DEF Running
    <3> DEFINE x == scan[inst]
               y == scan'[inst]
    <3>5. /\ x \in ScanRec /\ y.at = Least(x.at, call[k].start) /\ y.blk = x.blk /\ y.st = x.st
          /\ \A r \in Scanners : r # inst => scan'[r] = scan[r]
      BY <1>0, <2>4, <2>6, <3>4 DEF ScanRec
    <3> HIDE DEF x, y
    <3>6. x.at \in Int /\ y.at \in Int /\ y.at <= x.at /\ y.at <= watches[s] /\ x.blk \in Int
      BY <2>4, <3>5, AdapterAssumption DEF ScanRec, Least
    <3>7. KyotoLoopInv'
      <4>1. \A d \in Clients : client'[d].st \in {"none", "built"} => scan'[d] = NoScan
        BY <1>0, <2>1, <3>4, <3>5 DEF KyotoLoopInv
      <4>2. \A r \in Scanners : scan'[r].st \in {"off", "on"} => scan'[r].blk = 0
        BY <3>5 DEF KyotoLoopInv, x, y
      <4> QED
        BY <2>1, <2>2, <4>1, <4>2 DEF KyotoLoopInv
    <3>8. ASSUME NEW t \in AckedSet'
          PROVE  Done(outpoints', matches', t, Passed(watches[t], y, missed))
      <4>1. CASE t = s
        <5>1. Passed(watches[s], y, missed) = {}
          BY <2>4, <3>6, PassedNone
        <5>2. Done(outpoints', matches', s, {})
          BY <2>2, <2>4 DEF Done
        <5> QED
          BY <4>1, <5>1, <5>2
      <4>2. CASE t # s
        <5>1. Done(outpoints, matches, t, Passed(watches[t], x, missed))
          BY <3>3, <3>4, <4>2 DEF KyotoServeInv, x
        <5>2. Passed(watches[t], y, missed) \subseteq Passed(watches[t], x, missed)
          BY <3>5, <3>6, PassedSub
        <5> QED
          BY <2>5, <5>1, <5>2, DoneMore
      <4> QED
        BY <4>1, <4>2
    <3>9. y.blk # 0 => y.at <= y.blk + 1
      BY <3>4, <3>5, <3>6 DEF KyotoServeInv, x
    <3>10. KyotoServeInv'
      BY <2>1, <2>2, <3>8, <3>9 DEF KyotoServeInv, y
    <3> QED
      BY <3>1, <3>7, <3>10
  <2>7. CASE Respond(k, FALSE) /\ scan' = scan
    <3>1. acked' = acked
      BY <2>3, <2>7, Answer
    <3>2. AckInv'
      BY <1>3, <2>2, <2>3, <2>7, NothingWatched, AckHandler
    <3>3. KyotoLoopInv'
      BY <2>1, <2>2, <2>7 DEF KyotoLoopInv
    <3> QED
      BY <1>4, <2>1, <2>2, <2>5, <2>7, <3>1, <3>2, <3>3, KyotoSame
  <2> QED
    BY <1>13, <2>6, <2>7 DEF KyotoRescan
<1> QED
  BY <1>8, <1>9, <1>10, <1>11, <1>12, <1>13 DEF KyotoHandler

LEMMA KyotoScanServes ==
  ASSUME AdapterInv, AckInv, KyotoLoopInv, KyotoServeInv, NEW r \in Scanners, KyotoScan(r)
  PROVE  AckInv' /\ KyotoLoopInv' /\ KyotoServeInv'
<1>0. /\ scan \in [Scanners -> ScanRec] /\ scan[r] \in ScanRec
      /\ Clients \subseteq Scanners /\ 0 \notin Clients
      /\ inst # 0 => inst \in Scanners
  BY AdapterAssumption DEF AdapterInv, ClientInv, ScanInv, Scanners, Clients
<1>1. NoScan.st = "off" /\ NoScan.blk = 0 /\ NoScan.at = 0
  BY DEF NoScan
<1> DEFINE x == scan[r]
           y == scan'[r]
<1>2. x.at \in Int /\ x.blk \in Int /\ x.blk \in Nat /\ x.blk <= Tip
  BY <1>0, AdapterAssumption DEF ScanRec
<1>3. ASSUME x.st # "off", y.st \in {"off", "on"} => y.blk = 0, client' = client, inst' = inst,
             \A q \in Scanners : q # r => scan'[q] = scan[q]
      PROVE  KyotoLoopInv'
  <2>1. x # NoScan
    BY <1>1, <1>3
  <2>2. \A c \in Clients : client[c].st \in {"none", "built"} => c # r
    BY <2>1 DEF KyotoLoopInv
  <2>3. \A c \in Clients : client'[c].st \in {"none", "built"} => scan'[c] = NoScan
    BY <1>0, <1>3, <2>2 DEF KyotoLoopInv
  <2> QED
    BY <1>3, <2>3 DEF KyotoLoopInv
<1>4. ASSUME UNCHANGED harnessVars
      PROVE  AckedSet' = AckedSet
  BY <1>4 DEF AckedSet, harnessVars
<1>5. ASSUME NEW s \in AckedSet
      PROVE  s \in DOMAIN watches /\ s \in Scripts
  BY <1>5, AckedIs DEF AckInv
<1>6. ASSUME UNCHANGED <<inst, watches>>, UNCHANGED harnessVars, missed \subseteq missed',
             \A q \in Scanners : q # r => scan'[q] = scan[q], inst # r,
             Grew(outpoints, matches, outpoints', matches')
      PROVE  KyotoServeInv'
  <2>1. inst # 0 => scan'[inst] = scan[inst]
    BY <1>0, <1>6
  <2> QED
    BY <1>4, <1>6, <2>1, KyotoSame
<1>7. CASE KyotoFilter(r)
  <2>1. /\ x.st = "on" /\ UNCHANGED <<inst, watches, outpoints, matches, client, missed>>
        /\ UNCHANGED harnessVars
    BY <1>7 DEF KyotoFilter, stateVars, historyVars
  <2>2. \/ /\ y.at = x.at + 1 /\ y.blk = x.at /\ y.st = "fetch"
           /\ \A q \in Scanners : q # r => scan'[q] = scan[q]
        \/ /\ y.at = x.at + 1 /\ y.blk = x.blk /\ y.st = "on"
           /\ \A q \in Scanners : q # r => scan'[q] = scan[q]
           /\ \A s \in DOMAIN watches : ~ Concerns(x.at, s)
    BY <1>0, <1>7 DEF KyotoFilter, ScanRec
  <2>3. x.blk = 0
    BY <2>1 DEF KyotoLoopInv
  <2> HIDE DEF x, y
  <2>4. Grew(outpoints, matches, outpoints', matches')
    BY <2>1, SameGrew
  <2>5. AckInv'
    BY <2>1, <2>4, AckScan
  <2>6. KyotoLoopInv'
    BY <1>3, <2>1, <2>2, <2>3
  <2>7. KyotoServeInv'
    <3>1. CASE inst # r
      BY <1>6, <2>1, <2>2, <2>4, <3>1
    <3>2. CASE inst = r
      <4>1. ASSUME NEW s \in AckedSet
            PROVE  Done(outpoints', matches', s, Passed(watches[s], y, missed))
        <5>1. Done(outpoints, matches, s, Passed(watches[s], x, missed)) /\ s \in Scripts
          BY <1>0, <1>5, <3>2, AdapterAssumption DEF KyotoServeInv, x, Scanners
        <5>2. \A h \in Passed(watches[s], y, missed) :
                h \in Passed(watches[s], x, missed) \/ ~ Concerns(h, s)
          <6>1. CASE y.blk = x.at
            <7>1. Passed(watches[s], y, missed) \subseteq Passed(watches[s], x, missed)
              BY <1>0, <2>2, <2>3, <6>1, PassedNext DEF x
            <7> QED
              BY <7>1
          <6>2. CASE y.blk # x.at
            <7>1. y.blk = 0 /\ ~ Concerns(x.at, s)
              BY <1>5, <2>2, <2>3, <6>2
            <7>2. ASSUME NEW h \in Passed(watches[s], y, missed), h # x.at
                  PROVE  h \in Passed(watches[s], x, missed)
              <8>1. h \in Heights /\ h \in Int /\ watches[s] <= h /\ h < x.at + 1 /\ h \notin missed /\ h # 0
                BY <2>2, <7>2, AdapterAssumption DEF Passed, Below, Heights
              <8>2. h < x.at
                BY <1>2, <7>2, <8>1
              <8> QED
                BY <2>3, <8>1, <8>2 DEF Passed, Below
            <7> QED
              BY <7>1, <7>2
          <6> QED
            BY <6>1, <6>2
        <5>3. Done(outpoints, matches, s, Passed(watches[s], y, missed))
          BY <5>1, <5>2, DoneSkip
        <5> QED
          BY <2>1, <5>3
      <4>2. y.blk # 0 => y.at <= y.blk + 1
        BY <1>2, <2>2, <2>3
      <4> QED
        BY <1>4, <2>1, <3>2, <4>1, <4>2 DEF KyotoServeInv, y
    <3> QED
      BY <3>1, <3>2
  <2> QED
    BY <2>5, <2>6, <2>7
<1>8. CASE KyotoBlock(r)
  <2>1. /\ x.st = "fetch" /\ UNCHANGED <<inst, watches, outpoints, matches, client>>
        /\ UNCHANGED harnessVars
    BY <1>8 DEF KyotoBlock, stateVars
  <2>2. /\ \/ y.at = x.at /\ y.blk = x.blk /\ y.st = "held" /\ missed' = missed
           \/ y.at = x.at /\ y.blk = 0 /\ y.st = "on" /\ missed' = missed \cup {x.blk}
        /\ \A q \in Scanners : q # r => scan'[q] = scan[q]
    BY <1>0, <1>8 DEF KyotoBlock, ScanRec
  <2> HIDE DEF x, y
  <2>3. missed \subseteq missed' /\ (x.blk = y.blk \/ x.blk \in missed')
    BY <2>2
  <2>4. Grew(outpoints, matches, outpoints', matches')
    BY <2>1, SameGrew
  <2>5. AckInv'
    BY <2>1, <2>4, AckScan
  <2>6. KyotoLoopInv'
    BY <1>3, <2>1, <2>2
  <2>7. KyotoServeInv'
    <3>1. CASE inst # r
      BY <1>6, <2>1, <2>2, <2>3, <2>4, <3>1
    <3>2. CASE inst = r
      <4>1. inst # 0
        BY <3>2, AdapterAssumption DEF Scanners
      <4>2. ASSUME NEW s \in AckedSet
            PROVE  Done(outpoints', matches', s, Passed(watches[s], y, missed'))
        <5>1. Done(outpoints, matches, s, Passed(watches[s], x, missed))
          BY <3>2, <4>1 DEF KyotoServeInv, x
        <5>2. Passed(watches[s], y, missed') \subseteq Passed(watches[s], x, missed)
          BY <1>2, <2>2, <2>3, PassedSub
        <5> QED
          BY <2>4, <5>1, <5>2, DoneMore
      <4>3. y.blk # 0 => y.at <= y.blk + 1
        BY <2>2, <3>2, <4>1 DEF KyotoServeInv, x
      <4> QED
        BY <1>4, <2>1, <3>2, <4>2, <4>3 DEF KyotoServeInv, y
    <3> QED
      BY <3>1, <3>2
  <2> QED
    BY <2>5, <2>6, <2>7
<1>9. CASE KyotoRecord(r)
  <2>1. /\ x.st = "held" /\ UNCHANGED <<inst, watches, client, missed>> /\ UNCHANGED harnessVars
        /\ Record(DOMAIN watches, x.blk)
    BY <1>9 DEF KyotoRecord, historyVars
  <2>2. /\ \/ y.at = x.at /\ y.blk = 0 /\ y.st = "on"
           \/ y = NoScan
        /\ \A q \in Scanners : q # r => scan'[q] = scan[q]
    BY <1>0, <1>9 DEF KyotoRecord, ScanRec
  <2> HIDE DEF x, y
  <2>3. Grew(outpoints, matches, outpoints', matches')
    BY <2>1, RecordGrew
  <2>4. AckInv'
    BY <2>1, <2>3, AckScan
  <2>5. KyotoLoopInv'
    BY <1>1, <1>3, <2>1, <2>2
  <2>6. KyotoServeInv'
    <3>1. CASE inst # r
      BY <1>6, <2>1, <2>2, <2>3, <3>1
    <3>2. CASE inst = r
      <4>1. inst # 0
        BY <3>2, AdapterAssumption DEF Scanners
      <4>2. ASSUME NEW s \in AckedSet
            PROVE  Done(outpoints', matches', s, Passed(watches[s], y, missed))
        <5>1. /\ Done(outpoints, matches, s, Passed(watches[s], x, missed))
              /\ s \in Scripts /\ s \in DOMAIN watches
          BY <1>5, <3>2, <4>1 DEF KyotoServeInv, x
        <5>2. CASE y = NoScan
          <6>1. Passed(watches[s], y, missed) = {}
            BY <1>1, <5>2 DEF Passed, Below, Heights
          <6>2. Passed(watches[s], y, missed) \subseteq Passed(watches[s], x, missed)
            BY <6>1
          <6> QED
            BY <2>3, <5>1, <6>2, DoneMore
        <5>3. CASE y.at = x.at /\ y.blk = 0 /\ x.blk = 0
          <6>1. Passed(watches[s], y, missed) \subseteq Passed(watches[s], x, missed)
            BY <5>3 DEF Passed
          <6> QED
            BY <2>3, <5>1, <6>1, DoneMore
        <5>4. CASE y.at = x.at /\ y.blk = 0 /\ x.blk # 0
          <6>1. x.at <= x.blk + 1
            BY <3>2, <4>1, <5>4 DEF KyotoServeInv, x
          <6>2. \A h \in Passed(watches[s], x, missed) : h \in Nat /\ h <= x.blk
            BY <1>2, <6>1, PassedTill
          <6>3. Passed(watches[s], y, missed) \subseteq Passed(watches[s], x, missed) \cup {x.blk}
            BY <5>4 DEF Passed
          <6> QED
            BY <1>2, <2>1, <5>1, <6>2, <6>3, DoneRecord
        <5> QED
          BY <2>2, <5>2, <5>3, <5>4
      <4>3. y.blk = 0
        BY <1>1, <2>2
      <4> QED
        BY <1>4, <2>1, <3>2, <4>2, <4>3 DEF KyotoServeInv, y
    <3> QED
      BY <3>1, <3>2
  <2> QED
    BY <2>4, <2>5, <2>6
<1> QED
  BY <1>7, <1>8, <1>9 DEF KyotoScan

-----------------------------------------------------------------------------
(* Nakamoto: the rescan of the client serves the last script.               *)

NakamotoScanInv ==
  inst # 0 /\ acked # <<>> =>
    /\ scan[inst].script \in {LastAcked, NoScript}
    /\ Done(outpoints, matches, LastAcked, Passed(watches[LastAcked], scan[inst], missed))
    /\ scan[inst].blk # 0 => \/ scan[inst].at = scan[inst].blk + 1
                             \/ scan[inst].at <= watches[LastAcked]

LEMMA NakamotoSame ==
  ASSUME NakamotoScanInv, inst' = inst, inst # 0 => scan'[inst] = scan[inst], acked' = acked,
         acked # <<>> => watches'[LastAcked] = watches[LastAcked],
         missed \subseteq missed', Grew(outpoints, matches, outpoints', matches')
  PROVE  NakamotoScanInv'
<1> SUFFICES ASSUME inst # 0, acked # <<>>
             PROVE  /\ scan[inst].script \in {LastAcked, NoScript}
                    /\ Done(outpoints', matches', LastAcked,
                            Passed(watches[LastAcked], scan[inst], missed'))
                    /\ scan[inst].blk # 0 => \/ scan[inst].at = scan[inst].blk + 1
                                             \/ scan[inst].at <= watches[LastAcked]
  <2>1. LastAcked' = LastAcked
    BY DEF LastAcked
  <2> QED
    BY <2>1 DEF NakamotoScanInv
<1>1. Done(outpoints, matches, LastAcked, Passed(watches[LastAcked], scan[inst], missed))
  BY DEF NakamotoScanInv
<1>2. Passed(watches[LastAcked], scan[inst], missed')
        \subseteq Passed(watches[LastAcked], scan[inst], missed)
  BY PassedLess
<1>3. Done(outpoints', matches', LastAcked, Passed(watches[LastAcked], scan[inst], missed'))
  BY <1>1, <1>2, DoneMore
<1> QED
  BY <1>3 DEF NakamotoScanInv

Rescanned(c, s, h) == [scan EXCEPT ![c].script = s, ![c].at = h]

LEMMA RescannedIs ==
  ASSUME NEW c \in Scanners, scan \in [Scanners -> ScanRec], NEW s, NEW h, NEW z,
         z = Rescanned(c, s, h)
  PROVE  z[c].script = s /\ z[c].at = h
BY DEF Rescanned, ScanRec

LEMMA NakamotoHandlerServes ==
  ASSUME AdapterInv, AckInv, NakamotoScanInv, givenUp = 0, NEW k \in Calls, NakamotoHandler(k)
  PROVE  AckInv' /\ NakamotoScanInv'
<1>0. scan \in [Scanners -> ScanRec] /\ (inst # 0 => inst \in Scanners)
  BY AdapterAssumption DEF AdapterInv, ClientInv, ScanInv, Scanners, Clients
<1>1. ASSUME NEW op \in Ops, Called(k, op)
      PROVE  call[k] # Idle /\ Fresh(k, op) /\ call[k].op = op
  BY <1>1, CalledIs DEF Fresh
<1>2. ASSUME NEW op \in Ops, NEW pc, pc # "called", At(k, op, pc)
      PROVE  call[k] # Idle /\ ~ Fresh(k, "watch") /\ call[k].op = op
  BY <1>2, AtIs DEF At
<1>3. ASSUME NEW ok \in BOOLEAN, Respond(k, ok)
      PROVE  Goes(k)
  BY <1>3 DEF Goes
<1>4. ASSUME NEW pc, NEW c, pc # "rescan", Proceed(k, pc, c)
      PROVE  Goes(k)
  BY <1>4 DEF Goes
<1>5. ASSUME call[k] # Idle, call[k].op \in {"configure", "start"}, Goes(k)
      PROVE  AckInv' /\ NakamotoScanInv'
  <2>1. acked' = acked
    BY <1>5, Answer DEF Goes, Proceed
  <2>2. acked' = <<>>
    BY <1>5, <2>1 DEF AckInv
  <2>3. AckInv'
    BY <1>5, AckHandler
  <2> QED
    BY <2>2, <2>3 DEF NakamotoScanInv
<1>6. CASE Refuse(k)
  <2>1. Called(k, "configure") /\ Respond(k, FALSE)
    BY <1>6 DEF Refuse
  <2> QED
    BY <1>1, <1>3, <1>5, <2>1 DEF Ops
<1>7. CASE NakamotoConfigure(k)
  <2>1. Called(k, "configure") /\ Respond(k, TRUE)
    BY <1>7 DEF NakamotoConfigure
  <2> QED
    BY <1>1, <1>3, <1>5, <2>1 DEF Ops
<1>8. CASE NakamotoStart(k)
  <2>1. Called(k, "start") /\ (Respond(k, FALSE) \/ Proceed(k, "load", NewClient))
    BY <1>8 DEF NakamotoStart
  <2>2. Goes(k)
    <3>1. "load" # "rescan"
      OBVIOUS
    <3> QED
      BY <1>3, <1>4, <2>1, <3>1
  <2> QED
    BY <1>1, <1>5, <2>1, <2>2 DEF Ops
<1>9. CASE NakamotoLoad(k)
  <2>1. At(k, "start", "load") /\ (Respond(k, FALSE) \/ Proceed(k, "install", call[k].client))
    BY <1>9 DEF NakamotoLoad
  <2>2. Goes(k)
    <3>1. "install" # "rescan"
      OBVIOUS
    <3> QED
      BY <1>3, <1>4, <2>1, <3>1
  <2> QED
    BY <1>2, <1>5, <2>1, <2>2 DEF Ops
<1>10. CASE NakamotoInstall(k)
  <2>1. At(k, "start", "install") /\ Respond(k, TRUE)
    BY <1>10 DEF NakamotoInstall
  <2> QED
    BY <1>2, <1>3, <1>5, <2>1 DEF Ops
<1>11. CASE NakamotoStop(k)
  <2>1. Called(k, "stop") /\ Respond(k, TRUE) /\ inst' = 0 /\ UNCHANGED <<watches, outpoints>>
    BY <1>11 DEF NakamotoStop
  <2>2. call[k] # Idle /\ call[k].op = "stop"
    BY <1>1, <2>1 DEF Ops
  <2>3. Watched(k)
    BY <2>1, <2>2, NothingWatched DEF Fresh
  <2>4. AckInv'
    BY <1>3, <2>1, <2>2, <2>3, AckHandler
  <2> QED
    BY <2>1, <2>4 DEF NakamotoScanInv
<1>12. CASE NakamotoWatch(k)
  <2>1. /\ Called(k, "watch")
        /\ watches' = Put(watches, call[k].script, call[k].start)
        /\ outpoints' = IF call[k].script \in DOMAIN outpoints THEN outpoints
                        ELSE Put(outpoints, call[k].script, {})
        /\ Respond(k, FALSE) \/ Proceed(k, "rescan", inst)
        /\ UNCHANGED <<inst, matches, scan, missed>>
    BY <1>12 DEF NakamotoWatch, historyVars
  <2>2. call[k] # Idle /\ Fresh(k, "watch")
    BY <1>1, <2>1 DEF Ops
  <2>3. Watched(k) /\ \A s \in AckedSet : watches'[s] = watches[s]
    BY <2>1, <2>2, WatchCalled
  <2>4. Goes(k)
    BY <2>1, <2>2 DEF Goes
  <2>5. AckInv'
    BY <2>2, <2>3, <2>4, AckHandler
  <2>6. acked' = acked
    BY <2>1, <2>2, Answer DEF Proceed
  <2>7. acked # <<>> => LastAcked \in AckedSet
    BY AckedIs DEF AckInv, LastAcked
  <2>8. Grew(outpoints, matches, outpoints', matches')
    BY <2>1, EntryGrew
  <2>9. acked # <<>> => watches'[LastAcked] = watches[LastAcked]
    BY <2>3, <2>7
  <2>10. NakamotoScanInv'
    BY <2>1, <2>6, <2>8, <2>9, NakamotoSame
  <2> QED
    BY <2>5, <2>10
<1>13. CASE NakamotoRescan(k)
  <2> DEFINE s == call[k].script
             c == call[k].client
  <2>1. At(k, "watch", "rescan") /\ UNCHANGED stateVars /\ missed' = missed
    BY <1>13 DEF NakamotoRescan, historyVars
  <2>2. UNCHANGED <<inst, watches, outpoints, matches>>
    BY <2>1 DEF stateVars
  <2>3. call[k] # Idle /\ ~ Fresh(k, "watch") /\ call[k].op = "watch" /\ call[k].pc = "rescan"
    BY <1>2, <2>1 DEF Ops, At
  <2>4. /\ s \in Scripts /\ s \in DOMAIN outpoints /\ watches[s] = call[k].start /\ c = inst
        /\ call[k].start \in Int
    <3>1. CallOK(call[k]) /\ call[k] \in CallRec
      BY DEF AdapterInv, CallInv
    <3> QED
      BY <2>3, <3>1 DEF CallOK, CallRec, AckInv
  <2>5. CASE /\ Running(c) /\ Respond(k, TRUE)
             /\ scan' = Rescanned(c, call[k].script, call[k].start)
    <3>1. AckInv'
      BY <1>3, <2>2, <2>3, <2>5, NothingWatched, AckHandler
    <3>2. acked' = Append(acked, s)
      BY <2>3, <2>5, Answer
    <3>3. acked' # <<>> /\ LastAcked' = s
      BY <2>4, <3>2, AckedSetIs DEF AckInv, LastAcked
    <3> DEFINE y == scan'[inst]
    <3>4. inst # 0 /\ y.script = s /\ y.at = call[k].start
      <4>1. inst # 0 /\ inst \in Scanners
        BY <1>0, <2>4, <2>5 DEF Running
      <4> QED
        BY <1>0, <2>4, <2>5, <4>1, RescannedIs
    <3> HIDE DEF y
    <3>5. Passed(watches[s], y, missed) = {}
      BY <2>4, <3>4, PassedNone
    <3>6. Done(outpoints', matches', s, {})
      BY <2>2, <2>4 DEF Done
    <3>7. y.at <= watches[s]
      BY <2>4, <3>4
    <3>8. NakamotoScanInv'
      BY <2>1, <2>2, <3>3, <3>4, <3>5, <3>6, <3>7 DEF NakamotoScanInv, y
    <3> QED
      BY <3>1, <3>8
  <2>6. CASE Respond(k, FALSE) /\ scan' = scan
    <3>1. acked' = acked
      BY <2>3, <2>6, Answer
    <3>2. AckInv'
      BY <1>3, <2>2, <2>3, <2>6, NothingWatched, AckHandler
    <3> QED
      BY <2>1, <2>2, <2>6, <3>1, <3>2, NakamotoSame, SameGrew
  <2> QED
    BY <1>13, <2>5, <2>6 DEF NakamotoRescan, Rescanned
<1> QED
  BY <1>6, <1>7, <1>8, <1>9, <1>10, <1>11, <1>12, <1>13 DEF NakamotoHandler

LEMMA NakamotoScanServes ==
  ASSUME AdapterInv, AckInv, NakamotoScanInv, NEW r \in Scanners, NakamotoScan(r)
  PROVE  AckInv' /\ NakamotoScanInv'
<1>0. /\ scan \in [Scanners -> ScanRec] /\ scan[r] \in ScanRec /\ (inst # 0 => inst \in Scanners)
      /\ 0 \notin Scanners
  BY AdapterAssumption DEF AdapterInv, ClientInv, ScanInv, Scanners, Clients
<1>1. NoScan.blk = 0 /\ NoScan.at = 0 /\ NoScan.script = NoScript
  BY DEF NoScan
<1> DEFINE x == scan[r]
           y == scan'[r]
           s == LastAcked
<1>2. x.at \in Int /\ x.blk \in Int /\ x.blk \in Nat
  BY <1>0, AdapterAssumption DEF ScanRec
<1>3. ASSUME acked # <<>>
      PROVE  s \in Scripts /\ s \in DOMAIN watches /\ watches[s] \in Int /\ s # NoScript
  <2>1. s \in AckedSet /\ s \in Scripts /\ s \in DOMAIN watches
    BY <1>3, AckedIs DEF AckInv, LastAcked
  <2> QED
    BY <2>1, AdapterAssumption DEF AdapterInv, WatchInv
<1>4. ASSUME UNCHANGED <<inst, watches, missed>>, UNCHANGED harnessVars, inst # r,
             \A q \in Scanners : q # r => scan'[q] = scan[q],
             Grew(outpoints, matches, outpoints', matches')
      PROVE  NakamotoScanInv'
  <2>1. inst # 0 => scan'[inst] = scan[inst]
    BY <1>0, <1>4
  <2>2. acked' = acked
    BY <1>4 DEF harnessVars
  <2> QED
    BY <1>4, <2>1, <2>2, NakamotoSame
<1>5. ASSUME UNCHANGED <<inst, watches, missed>>, UNCHANGED harnessVars, inst = r,
             acked # <<>> => /\ y.script \in {s, NoScript}
                             /\ Done(outpoints', matches', s, Passed(watches[s], y, missed))
                             /\ y.blk # 0 => y.at = y.blk + 1 \/ y.at <= watches[s]
      PROVE  NakamotoScanInv'
  <2>1. LastAcked' = LastAcked /\ acked' = acked
    BY <1>5 DEF harnessVars, LastAcked
  <2> HIDE DEF y
  <2> QED
    BY <1>5, <2>1 DEF NakamotoScanInv, y
<1>6. ASSUME inst = r, acked # <<>>
      PROVE  /\ x.script \in {s, NoScript}
             /\ Done(outpoints, matches, s, Passed(watches[s], x, missed))
             /\ x.blk # 0 => x.at = x.blk + 1 \/ x.at <= watches[s]
  BY <1>0, <1>6 DEF NakamotoScanInv
<1>7. CASE NakamotoBlock(r)
  <2>1. /\ x.script # NoScript /\ x.blk = 0 /\ UNCHANGED <<inst, watches, outpoints, matches, missed>>
        /\ UNCHANGED harnessVars
    BY <1>7 DEF NakamotoBlock, stateVars, historyVars
  <2>2. /\ y.at = x.at + 1 /\ y.script = x.script
        /\ y.blk = IF Concerns(x.at, x.script) THEN x.at ELSE 0
        /\ \A q \in Scanners : q # r => scan'[q] = scan[q]
    BY <1>0, <1>7 DEF NakamotoBlock, ScanRec
  <2>3. Grew(outpoints, matches, outpoints', matches')
    BY <2>1, SameGrew
  <2>4. AckInv'
    BY <2>1, <2>3, AckScan
  <2> HIDE DEF x, y, s
  <2>5. CASE inst # r
    BY <1>4, <2>1, <2>2, <2>3, <2>4, <2>5
  <2>6. CASE inst = r
    <3>1. ASSUME acked # <<>>
          PROVE  /\ y.script \in {s, NoScript}
                 /\ Done(outpoints', matches', s, Passed(watches[s], y, missed))
                 /\ y.blk # 0 => y.at = y.blk + 1 \/ y.at <= watches[s]
      <4>1. x.script = s /\ s \in Scripts /\ Done(outpoints, matches, s, Passed(watches[s], x, missed))
        BY <1>3, <1>6, <2>1, <2>6, <3>1
      <4>2. \A h \in Passed(watches[s], y, missed) :
              h \in Passed(watches[s], x, missed) \/ ~ Concerns(h, s)
        <5>1. CASE Concerns(x.at, s)
          <6>1. Passed(watches[s], y, missed) \subseteq Passed(watches[s], x, missed)
            BY <1>0, <2>1, <2>2, <4>1, <5>1, PassedNext DEF x
          <6> QED
            BY <6>1
        <5>2. CASE ~ Concerns(x.at, s)
          <6>1. ASSUME NEW h \in Passed(watches[s], y, missed), h # x.at
                PROVE  h \in Passed(watches[s], x, missed)
            <7>1. h \in Heights /\ h \in Int /\ watches[s] <= h /\ h < x.at + 1 /\ h \notin missed /\ h # 0
              BY <2>2, <6>1, AdapterAssumption DEF Passed, Below, Heights
            <7>2. h < x.at
              BY <1>2, <6>1, <7>1
            <7> QED
              BY <2>1, <7>1, <7>2 DEF Passed, Below
          <6> QED
            BY <5>2, <6>1
        <5> QED
          BY <5>1, <5>2
      <4>3. Done(outpoints, matches, s, Passed(watches[s], y, missed))
        BY <4>1, <4>2, DoneSkip
      <4> QED
        BY <2>1, <2>2, <4>1, <4>3
    <3>2. NakamotoScanInv'
      BY <1>5, <2>1, <2>6, <3>1
    <3> QED
      BY <2>4, <3>2
  <2> QED
    BY <2>5, <2>6
<1>8. CASE NakamotoRecord(r)
  <2>1. /\ x.blk # 0 /\ UNCHANGED <<inst, watches, missed>> /\ UNCHANGED harnessVars
        /\ Record(DOMAIN watches, x.blk)
    BY <1>8 DEF NakamotoRecord, historyVars
  <2>2. /\ \/ y.at = x.at /\ y.blk = 0 /\ y.script = x.script
           \/ y = NoScan
        /\ \A q \in Scanners : q # r => scan'[q] = scan[q]
    BY <1>0, <1>8 DEF NakamotoRecord, ScanRec
  <2>3. Grew(outpoints, matches, outpoints', matches')
    BY <2>1, RecordGrew
  <2>4. AckInv'
    BY <2>1, <2>3, AckScan
  <2> HIDE DEF x, y, s
  <2>5. CASE inst # r
    BY <1>4, <2>1, <2>2, <2>3, <2>4, <2>5
  <2>6. CASE inst = r
    <3>1. ASSUME acked # <<>>
          PROVE  /\ y.script \in {s, NoScript}
                 /\ Done(outpoints', matches', s, Passed(watches[s], y, missed))
                 /\ y.blk # 0 => y.at = y.blk + 1 \/ y.at <= watches[s]
      <4>1. /\ s \in Scripts /\ s \in DOMAIN watches /\ watches[s] \in Int
            /\ Done(outpoints, matches, s, Passed(watches[s], x, missed))
            /\ x.at = x.blk + 1 \/ x.at <= watches[s]
        BY <1>3, <1>6, <2>1, <2>6, <3>1
      <4>2. y.script \in {s, NoScript} /\ y.blk = 0
        BY <1>1, <1>6, <2>2, <2>6, <3>1
      <4>3. CASE y = NoScan \/ x.at <= watches[s]
        <5>1. y.at \in Int /\ y.at <= watches[s]
          <6>1. y = NoScan => y.at = 0 /\ 0 <= watches[s]
            BY <1>1, <4>1, AdapterAssumption DEF AdapterInv, WatchInv
          <6> QED
            BY <1>2, <2>2, <4>1, <4>3, <6>1
        <5>2. Passed(watches[s], y, missed) = {}
          BY <4>1, <5>1, PassedNone
        <5>3. Passed(watches[s], y, missed) \subseteq Passed(watches[s], x, missed)
          BY <5>2
        <5>4. Done(outpoints', matches', s, Passed(watches[s], y, missed))
          BY <2>3, <4>1, <5>3, DoneMore
        <5> QED
          BY <4>2, <5>4
      <4>4. CASE y # NoScan /\ x.at = x.blk + 1
        <5>1. \A h \in Passed(watches[s], x, missed) : h \in Nat /\ h <= x.blk
          BY <1>2, <4>4, PassedTill
        <5>2. Passed(watches[s], y, missed) \subseteq Passed(watches[s], x, missed) \cup {x.blk}
          BY <2>2, <4>4 DEF Passed
        <5>3. Done(outpoints', matches', s, Passed(watches[s], y, missed))
          BY <1>2, <2>1, <4>1, <5>1, <5>2, DoneRecord
        <5> QED
          BY <4>2, <5>3
      <4> QED
        BY <4>1, <4>3, <4>4
    <3>2. NakamotoScanInv'
      BY <1>5, <2>1, <2>6, <3>1
    <3> QED
      BY <2>4, <3>2
  <2> QED
    BY <2>5, <2>6
<1> QED
  BY <1>7, <1>8 DEF NakamotoScan

-----------------------------------------------------------------------------
(* Wasabi: the scanner looks at one watch after the other.                  *)

\* The handler of call k disposes of client c.
Disposes(k, c) == call[k].client = c /\ call[k].pc \in {"dispose", "disposing"}

\* The scanner looks at the filters and blocks of one watch.
Looks(x) == x.st \in {"scan", "fetch", "held"}

\* A watch is of this configuration, and acknowledged once its call is over.
WasabiCallInv ==
  /\ DOMAIN cursor = DOMAIN watches
  /\ turn = "start" => watches = Nothing
  /\ turn = "running" => DOMAIN watches \subseteq AckedSet
  /\ \A k \in Calls :
       /\ call[k].op = "configure" /\ call[k].pc # "called" => watches = Nothing
       /\ call[k].op = "stop" /\ call[k].pc # "called" => client[call[k].client].gen = gen
       /\ call[k].pc = "create" => inst = 0

\* A scanner that has not ended is that of the installed client, or of the one
\* that a handler disposes of.
WasabiLoopInv ==
  \A r \in Scanners :
    /\ scan[r].st \in {"off", "on", "scan"} => scan[r].blk = 0
    /\ scan[r].st # "off" => scan[r].client = r /\ (r = inst \/ \E k \in Calls : Disposes(k, r))
    /\ r = inst /\ Looks(scan[r]) => scan[r].script \in DOMAIN watches

\* The scan of x has done for its script what lies before x.at.
ScanDone(o, m, w, x, ms) ==
  /\ Done(o, m, x.script, Passed(w[x.script], x, ms))
  /\ x.st # "scan" => x.at = x.blk + 1

WasabiServeInv ==
  /\ \A r \in Scanners : Looks(scan[r]) /\ scan[r].script \in DOMAIN watches =>
       ScanDone(outpoints, matches, watches, scan[r], missed)
  /\ \A s \in DOMAIN watches :
       Done(outpoints, matches, s, Below(watches[s], cursor[s]) \ missed)

\* A step of one scanner, or of none.
LEMMA WasabiServeStep ==
  ASSUME WasabiServeInv, watches' = watches, missed \subseteq missed',
         Grew(outpoints, matches, outpoints', matches'),
         \A r \in Scanners : \/ scan'[r] = scan[r]
                             \/ Looks(scan'[r]) /\ scan'[r].script \in DOMAIN watches =>
                                  ScanDone(outpoints', matches', watches, scan'[r], missed'),
         \A s \in DOMAIN watches :
           \/ cursor'[s] = cursor[s]
           \/ Done(outpoints', matches', s, Below(watches[s], cursor'[s]) \ missed')
  PROVE  WasabiServeInv'
<1>1. ASSUME NEW r \in Scanners, Looks(scan'[r]), scan'[r].script \in DOMAIN watches
      PROVE  ScanDone(outpoints', matches', watches, scan'[r], missed')
  <2>1. CASE scan'[r] = scan[r]
    <3> DEFINE x == scan[r]
    <3> HIDE DEF x
    <3>1. ScanDone(outpoints, matches, watches, x, missed)
      BY <1>1, <2>1 DEF WasabiServeInv, x
    <3>2. Passed(watches[x.script], x, missed') \subseteq Passed(watches[x.script], x, missed)
      BY PassedLess
    <3>3. Done(outpoints', matches', x.script, Passed(watches[x.script], x, missed'))
      BY <3>1, <3>2, DoneMore DEF ScanDone
    <3>4. ScanDone(outpoints', matches', watches, x, missed')
      BY <3>1, <3>3 DEF ScanDone
    <3> QED
      BY <2>1, <3>4 DEF x
  <2> QED
    BY <1>1, <2>1
<1>2. ASSUME NEW s \in DOMAIN watches
      PROVE  Done(outpoints', matches', s, Below(watches[s], cursor'[s]) \ missed')
  <2>1. CASE cursor'[s] = cursor[s]
    <3>1. Done(outpoints, matches, s, Below(watches[s], cursor[s]) \ missed)
      BY DEF WasabiServeInv
    <3>2. (Below(watches[s], cursor[s]) \ missed') \subseteq (Below(watches[s], cursor[s]) \ missed)
      OBVIOUS
    <3>3. Done(outpoints', matches', s, Below(watches[s], cursor[s]) \ missed')
      BY <3>1, <3>2, DoneMore
    <3> QED
      BY <2>1, <3>3
  <2> QED
    BY <2>1
<1>3. (\A r \in Scanners : Looks(scan[r]) /\ scan[r].script \in DOMAIN watches =>
         ScanDone(outpoints, matches, watches, scan[r], missed))'
  BY <1>1 DEF Looks, ScanDone
<1>4. (\A s \in DOMAIN watches :
         Done(outpoints, matches, s, Below(watches[s], cursor[s]) \ missed))'
  BY <1>2
<1> QED
  BY <1>3, <1>4 DEF WasabiServeInv

LEMMA WasabiServeNone ==
  ASSUME watches' = Nothing
  PROVE  WasabiServeInv'
BY DEF WasabiServeInv, Nothing

\* The only call that there is.
LEMMA LoopAlone ==
  ASSUME AdapterInv, WasabiLoopInv, givenUp = 0, NEW k \in Calls, call[k] # Idle
  PROVE  /\ \A r \in Scanners : scan[r].st # "off" => r = inst \/ Disposes(k, r)
         /\ \A j \in Calls : j # k => call[j] = Idle
<1>1. \A j \in Calls : j # k => call[j] = Idle
  BY OnlyCall
<1>2. \A j \in Calls : j # k => call[j].pc = "none"
  BY <1>1 DEF Idle
<1> QED
  BY <1>1, <1>2 DEF WasabiLoopInv, Disposes

LEMMA WasabiLoops ==
  ASSUME WasabiLoopInv, scan' = scan,
         \A r \in Scanners : scan[r].st # "off" => r = inst' \/ \E j \in Calls : Disposes(j, r)',
         \A r \in Scanners : r = inst' => r = inst /\ DOMAIN watches \subseteq DOMAIN watches'
  PROVE  WasabiLoopInv'
<1>1. ASSUME NEW r \in Scanners
      PROVE  /\ scan'[r].st \in {"off", "on", "scan"} => scan'[r].blk = 0
             /\ scan'[r].st # "off" =>
                  scan'[r].client = r /\ (r = inst' \/ \E k \in Calls : Disposes(k, r)')
             /\ r = inst' /\ Looks(scan[r]) => scan'[r].script \in DOMAIN watches'
  BY DEF WasabiLoopInv
<1>2. \A r \in Scanners : Looks(scan[r])' <=> Looks(scan[r])
  BY DEF Looks
<1> QED
  BY <1>1, <1>2 DEF WasabiLoopInv

LEMMA WasabiAnswered ==
  ASSUME AdapterInv, AckInv, WasabiCallInv, givenUp = 0, NEW k \in Calls, call[k] # Idle,
         NEW ok \in BOOLEAN, Respond(k, ok), DOMAIN cursor' = DOMAIN watches',
         call[k].op = "configure" => watches' = Nothing \/ ok = FALSE,
         call[k].op = "start" => watches' = watches,
         call[k].op = "watch" => DOMAIN watches' \subseteq DOMAIN watches \cup {call[k].script}
  PROVE  WasabiCallInv'
<1>1. /\ turn' = After(call[k].op, ok)
      /\ acked' = IF call[k].op = "watch" /\ ok THEN Append(acked, call[k].script) ELSE acked
      /\ \A j \in Calls : call'[j] = Idle
  BY Answer
<1>2. call[k].op \in Ops /\ call[k].op \in TurnOps(turn) /\ CallOK(call[k])
  BY OnlyCall DEF AdapterInv, CallInv
<1>3. Idle.op = "none" /\ Idle.pc = "none"
  BY DEF Idle
<1>4. turn' = "start" => watches' = Nothing
  BY <1>1, <1>2 DEF After, Ops
<1>5. turn' = "running" => DOMAIN watches' \subseteq AckedSet'
  <2> SUFFICES ASSUME turn' = "running"
               PROVE  DOMAIN watches' \subseteq AckedSet'
    OBVIOUS
  <2>1. call[k].op \in {"start", "watch"} /\ ok = TRUE
    BY <1>1, <1>2 DEF After, Ops
  <2>2. CASE call[k].op = "start"
    <3>1. turn = "start"
      BY <1>2, <2>2 DEF TurnOps
    <3>2. watches' = Nothing
      BY <2>2, <3>1 DEF WasabiCallInv
    <3> QED
      BY <3>2 DEF Nothing
  <2>3. CASE call[k].op = "watch"
    <3>1. turn = "running" /\ call[k].script \in Scripts
      BY <1>2, <2>3 DEF TurnOps, CallOK
    <3>2. AckedSet' = AckedSet \cup {call[k].script}
      BY <1>1, <2>1, <2>3, <3>1, AckedSetIs DEF AckInv
    <3> QED
      BY <2>3, <3>1, <3>2 DEF WasabiCallInv
  <2> QED
    BY <2>1, <2>2, <2>3
<1> QED
  BY <1>1, <1>3, <1>4, <1>5 DEF WasabiCallInv

LEMMA WasabiProceeds ==
  ASSUME AdapterInv, WasabiCallInv, givenUp = 0, NEW k \in Calls, call[k] # Idle,
         NEW pc, NEW c, Proceed(k, pc, c), DOMAIN cursor' = DOMAIN watches',
         watches' = watches \/ watches' = Nothing,
         call[k].op = "configure" => watches' = Nothing,
         call[k].op = "stop" => client'[c].gen = gen',
         pc = "create" => inst' = 0
  PROVE  WasabiCallInv'
<1>1. /\ turn' = turn /\ acked' = acked
      /\ call' = [call EXCEPT ![k].pc = pc, ![k].client = c]
  BY DEF Proceed
<1>2. /\ call'[k].op = call[k].op /\ call'[k].pc = pc /\ call'[k].client = c
      /\ \A j \in Calls : j # k => call'[j] = call[j]
  BY <1>1 DEF AdapterInv, CallInv, CallRec
<1>3. \A j \in Calls : j # k => call'[j].op = "none" /\ call'[j].pc = "none"
  BY <1>2, OnlyCall DEF Idle
<1>4. AckedSet' = AckedSet
  BY <1>1 DEF AckedSet
<1>5. DOMAIN watches' \subseteq DOMAIN watches
  BY DEF Nothing
<1>6. turn' = "start" => watches' = Nothing
  BY <1>1 DEF WasabiCallInv
<1>7. turn' = "running" => DOMAIN watches' \subseteq AckedSet'
  BY <1>1, <1>4, <1>5 DEF WasabiCallInv
<1>8. ASSUME NEW j \in Calls
      PROVE  /\ call'[j].op = "configure" /\ call'[j].pc # "called" => watches' = Nothing
             /\ call'[j].op = "stop" /\ call'[j].pc # "called" => client'[call'[j].client].gen = gen'
             /\ call'[j].pc = "create" => inst' = 0
  <2>1. CASE j = k
    BY <1>2, <2>1
  <2>2. CASE j # k
    BY <1>3, <2>2
  <2> QED
    BY <2>1, <2>2
<1> QED
  BY <1>6, <1>7, <1>8 DEF WasabiCallInv

WasabiScanInv == WasabiCallInv /\ WasabiLoopInv /\ WasabiServeInv

LEMMA WasabiHarness ==
  ASSUME AdapterInv, AckInv, WasabiScanInv, Harness, givenUp' = 0
  PROVE  WasabiScanInv'
<1>1. UNCHANGED <<impl, alive, stateVars, client, scan, historyVars>>
  BY HarnessCalls DEF AdapterInv
<1>2. UNCHANGED <<gen, inst, watches, outpoints, matches, cursor, client, scan, missed>>
  BY <1>1 DEF stateVars, historyVars
<1>3. turn' = turn /\ (acked' = acked \/ (acked' = <<>> /\ turn = "configure"))
  BY AckHarness
<1>4. PICK k \in Calls : /\ call[k] = Idle /\ call'[k].pc = "called"
                         /\ \A j \in Calls : j # k => call'[j] = call[j]
  BY AckHarness
<1>5. WasabiCallInv'
  <2>1. turn' = "running" => DOMAIN watches' \subseteq AckedSet'
    <3>1. turn' = "running" => acked' = acked
      BY <1>3
    <3>2. acked' = acked => AckedSet' = AckedSet
      BY DEF AckedSet
    <3> QED
      BY <1>2, <1>3, <3>1, <3>2 DEF WasabiScanInv, WasabiCallInv
  <2>2. \A j \in Calls :
          /\ call'[j].op = "configure" /\ call'[j].pc # "called" => watches' = Nothing
          /\ call'[j].op = "stop" /\ call'[j].pc # "called" => client'[call'[j].client].gen = gen'
          /\ call'[j].pc = "create" => inst' = 0
    BY <1>2, <1>4 DEF WasabiScanInv, WasabiCallInv
  <2> QED
    BY <1>2, <1>3, <2>1, <2>2 DEF WasabiScanInv, WasabiCallInv
<1>6. WasabiLoopInv'
  <2>1. \A r : \A j \in Calls : Disposes(j, r) => Disposes(j, r)'
    BY <1>4 DEF Disposes, Idle
  <2> QED
    BY <1>2, <2>1, WasabiLoops DEF WasabiScanInv, WasabiLoopInv
<1>7. WasabiServeInv'
  BY <1>2, WasabiServeStep, SameGrew DEF WasabiScanInv
<1> QED
  BY <1>5, <1>6, <1>7 DEF WasabiScanInv

\* A handler that takes a client out of the state, in /configure or /stop.
LEMMA WasabiTakes ==
  ASSUME AdapterInv, WasabiScanInv, givenUp = 0, NEW k \in Calls, call[k] # Idle, call[k].pc = "called",
         TakeClient(k), scan' = scan
  PROVE  WasabiLoopInv'
<1>1. /\ \A r \in Scanners : scan[r].st # "off" => r = inst \/ Disposes(k, r)
      /\ ~ \E r \in Scanners : Disposes(k, r)
  BY LoopAlone DEF WasabiScanInv, Disposes
<1>2. inst' = 0 /\ 0 \notin Scanners
  BY DEF TakeClient, Scanners
<1>3. ASSUME NEW r \in Scanners, scan[r].st # "off"
      PROVE  \E j \in Calls : Disposes(j, r)'
  <2>1. r = inst
    BY <1>1, <1>3
  <2>2. Proceed(k, "dispose", inst)
    BY <1>2, <2>1 DEF TakeClient
  <2>3. call'[k].pc = "dispose" /\ call'[k].client = inst
    BY <2>2, ProceedIs
  <2> QED
    BY <2>1, <2>3 DEF Disposes
<1> QED
  BY <1>2, <1>3, WasabiLoops DEF WasabiScanInv

LEMMA WasabiHandlerServes ==
  ASSUME AdapterInv, AckInv, WasabiScanInv, SlotInv, impl = "wasabi", givenUp = 0, ~ straggler',
         NEW k \in Calls, WasabiHandler(k)
  PROVE  AckInv' /\ WasabiScanInv'
<1>0. /\ scan \in [Scanners -> ScanRec] /\ Clients \subseteq Scanners /\ 0 \notin Scanners
      /\ WasabiCallInv /\ WasabiLoopInv /\ WasabiServeInv
  BY AdapterAssumption DEF AdapterInv, ScanInv, Scanners, Clients, WasabiScanInv
<1>1. ASSUME NEW op \in Ops, Called(k, op)
      PROVE  call[k] # Idle /\ Fresh(k, op) /\ call[k].op = op /\ call[k].pc = "called"
  BY <1>1, CalledIs DEF Fresh
<1>2. ASSUME NEW op \in Ops, NEW pc, pc # "called", At(k, op, pc)
      PROVE  call[k] # Idle /\ ~ Fresh(k, "watch") /\ call[k].op = op /\ call[k].pc = pc
  BY <1>2, AtIs DEF At
<1>3. ASSUME NEW ok \in BOOLEAN, Respond(k, ok)
      PROVE  Goes(k)
  BY <1>3 DEF Goes
<1>4. ASSUME NEW pc, NEW c, pc # "rescan", Proceed(k, pc, c)
      PROVE  Goes(k)
  BY <1>4 DEF Goes
<1>5. ASSUME call[k] # Idle
      PROVE  /\ \A r \in Scanners : scan[r].st # "off" => r = inst \/ Disposes(k, r)
             /\ \A j \in Calls : j # k => call[j] = Idle
  BY <1>0, <1>5, LoopAlone
<1>6. ASSUME UNCHANGED <<watches, outpoints, matches, cursor, missed>>,
             \A r \in Scanners : scan'[r] = scan[r] \/ ~ Looks(scan'[r])
      PROVE  WasabiServeInv'
  BY <1>0, <1>6, SameGrew, WasabiServeStep
<1>7. CASE Refuse(k)
  <2>1. /\ Called(k, "configure") /\ Respond(k, FALSE)
        /\ UNCHANGED <<inst, scan, watches, outpoints, matches, cursor, missed>>
    BY <1>7 DEF Refuse, stateVars, historyVars
  <2>2. call[k] # Idle /\ call[k].op = "configure" /\ call[k].pc = "called"
    BY <1>1, <2>1 DEF Ops
  <2>3. AckInv'
    BY <1>3, <2>1, <2>2, AckHandler
  <2>4. WasabiCallInv'
    BY <1>0, <2>1, <2>2, WasabiAnswered DEF WasabiCallInv
  <2>5. WasabiLoopInv'
    <3>1. ~ \E r \in Scanners : Disposes(k, r)
      BY <2>2 DEF Disposes
    <3> QED
      BY <1>0, <1>5, <2>1, <2>2, <3>1, WasabiLoops
  <2> QED
    BY <1>6, <2>1, <2>3, <2>4, <2>5 DEF WasabiScanInv
<1>8. CASE WasabiConfigure(k)
  <2>1. /\ Called(k, "configure") /\ TakeClient(k) /\ scan' = scan
        /\ watches' = Nothing /\ cursor' = Nothing
    BY <1>8 DEF WasabiConfigure, Clear
  <2>2. call[k] # Idle /\ call[k].op = "configure" /\ call[k].pc = "called"
    BY <1>1, <2>1 DEF Ops
  <2>3. Respond(k, TRUE) \/ Proceed(k, "dispose", inst)
    BY <2>1 DEF TakeClient
  <2>4. Goes(k)
    <3>1. "dispose" # "rescan"
      OBVIOUS
    <3> QED
      BY <1>3, <1>4, <2>3, <3>1
  <2>5. AckInv'
    BY <2>2, <2>4, AckHandler
  <2>6. WasabiCallInv'
    <3>1. CASE Respond(k, TRUE)
      BY <1>0, <2>1, <2>2, <3>1, WasabiAnswered
    <3>2. CASE Proceed(k, "dispose", inst)
      BY <1>0, <2>1, <2>2, <3>2, WasabiProceeds
    <3> QED
      BY <2>3, <3>1, <3>2
  <2>7. WasabiLoopInv'
    BY <2>1, <2>2, WasabiTakes
  <2>8. WasabiServeInv'
    BY <2>1, WasabiServeNone
  <2> QED
    BY <2>5, <2>6, <2>7, <2>8 DEF WasabiScanInv
<1>9. CASE WasabiStop(k)
  <2>1. /\ Called(k, "stop") /\ TakeClient(k)
        /\ UNCHANGED <<gen, client, scan, watches, outpoints, matches, cursor, missed>>
    BY <1>9 DEF WasabiStop, historyVars
  <2>2. call[k] # Idle /\ call[k].op = "stop" /\ call[k].pc = "called"
    BY <1>1, <2>1 DEF Ops
  <2>3. Respond(k, TRUE) \/ (inst # 0 /\ Proceed(k, "dispose", inst))
    BY <2>1 DEF TakeClient
  <2>4. Goes(k)
    <3>1. "dispose" # "rescan"
      OBVIOUS
    <3> QED
      BY <1>3, <1>4, <2>3, <3>1
  <2>5. AckInv'
    BY <2>1, <2>2, <2>4, AckHandler, NothingWatched DEF Fresh
  <2>6. WasabiCallInv'
    <3>1. CASE Respond(k, TRUE)
      BY <1>0, <2>1, <2>2, <3>1, WasabiAnswered DEF WasabiCallInv
    <3>2. CASE inst # 0 /\ Proceed(k, "dispose", inst)
      <4>1. client'[inst].gen = gen'
        BY <2>1, <3>2 DEF SlotInv
      <4> QED
        BY <1>0, <2>1, <2>2, <3>2, <4>1, WasabiProceeds DEF WasabiCallInv
    <3> QED
      BY <2>3, <3>1, <3>2
  <2>7. WasabiLoopInv'
    BY <2>1, <2>2, WasabiTakes
  <2> QED
    BY <1>6, <2>1, <2>5, <2>6, <2>7 DEF WasabiScanInv
<1>10. CASE WasabiCancel(k)
  <2> DEFINE c == call[k].client
  <2>1. /\ call[k].pc = "dispose" /\ client' = WithState(c, "stopped") /\ Proceed(k, "disposing", c)
        /\ UNCHANGED <<gen, inst, scan, watches, outpoints, matches, cursor, missed>>
    BY <1>10 DEF WasabiCancel, stateVars, historyVars, WithState
  <2>2. call[k] # Idle
    BY <2>1 DEF Idle
  <2>3. call[k].op \in {"configure", "stop"} /\ call[k].client \in Used /\ call[k].pc # "called"
    <3>1. call[k].op \in Ops /\ call[k].pc \in Places(call[k].op) /\ call[k].client \in Used
      BY <2>1, <2>2, OnlyCall
    <3> QED
      BY <2>1, <3>1 DEF Places
  <2>4. Goes(k)
    <3>1. "disposing" # "rescan"
      OBVIOUS
    <3> QED
      BY <1>4, <2>1, <3>1
  <2>5. Watched(k)
    BY <2>1, <2>3, NothingWatched DEF Fresh
  <2>6. AckInv'
    BY <2>2, <2>4, <2>5, AckHandler
  <2>7. WasabiCallInv'
    <3>1. call[k].op = "stop" => client'[c].gen = gen'
      <4>1. client'[c].gen = client[c].gen
        <5> HIDE DEF c
        <5> QED
          BY <2>1, <2>3, ClientBecomes DEF AdapterInv, Used, c
      <4> QED
        BY <1>0, <2>1, <2>3, <4>1 DEF WasabiCallInv
    <3>2. call[k].op = "configure" => watches = Nothing
      BY <1>0, <2>3 DEF WasabiCallInv
    <3> HIDE DEF c
    <3> QED
      BY <1>0, <2>1, <2>2, <3>1, <3>2, WasabiProceeds DEF WasabiCallInv
  <2>8. WasabiLoopInv'
    <3>1. call'[k].pc = "disposing" /\ call'[k].client = c
      BY <2>1, ProceedIs
    <3>2. \A r \in Scanners : Disposes(k, r) => Disposes(k, r)'
      BY <3>1 DEF Disposes
    <3> QED
      BY <1>0, <1>5, <2>1, <2>2, <3>2, WasabiLoops
  <2> QED
    BY <1>6, <2>1, <2>6, <2>7, <2>8 DEF WasabiScanInv
<1>11. CASE WasabiDisposed(k)
  <2>1. /\ call[k].pc = "disposing" /\ Respond(k, TRUE)
        /\ straggler' = (straggler \/ scan[call[k].client].st # "off")
        /\ UNCHANGED <<inst, scan, watches, outpoints, matches, cursor, missed>>
    BY <1>11 DEF WasabiDisposed, stateVars
  <2>2. call[k] # Idle
    BY <2>1 DEF Idle
  <2>3. call[k].op \in {"configure", "stop"} /\ call[k].pc # "called"
    <3>1. call[k].op \in Ops /\ call[k].pc \in Places(call[k].op)
      BY <2>2, OnlyCall
    <3> QED
      BY <2>1, <3>1 DEF Places
  <2>4. Watched(k)
    BY <2>1, <2>3, NothingWatched DEF Fresh
  <2>5. AckInv'
    BY <1>3, <2>1, <2>2, <2>4, AckHandler
  <2>6. WasabiCallInv'
    <3>1. call[k].op = "configure" => watches' = Nothing
      BY <1>0, <2>1, <2>3 DEF WasabiCallInv
    <3> QED
      BY <1>0, <2>1, <2>2, <2>3, <3>1, WasabiAnswered DEF WasabiCallInv
  <2>7. WasabiLoopInv'
    <3>1. \A r \in Scanners : scan[r].st # "off" => r = inst
      BY <1>5, <2>1, <2>2 DEF Disposes
    <3> QED
      BY <1>0, <2>1, <3>1, WasabiLoops
  <2> QED
    BY <1>6, <2>1, <2>5, <2>6, <2>7 DEF WasabiScanInv
<1>12. CASE WasabiStart(k)
  <2>1. /\ Called(k, "start")
        /\ UNCHANGED <<inst, scan, watches, outpoints, matches, cursor, missed>>
        /\ \/ Respond(k, gen # 0)
           \/ inst = 0 /\ Proceed(k, "create", NewClient)
    BY <1>12 DEF WasabiStart, stateVars, historyVars
  <2>2. call[k] # Idle /\ call[k].op = "start" /\ call[k].pc = "called"
    BY <1>1, <2>1 DEF Ops
  <2>3. Goes(k)
    <3>1. "create" # "rescan"
      OBVIOUS
    <3> QED
      BY <1>3, <1>4, <2>1, <3>1
  <2>4. AckInv'
    BY <2>2, <2>3, AckHandler
  <2>5. WasabiCallInv'
    <3>1. CASE Respond(k, gen # 0)
      BY <1>0, <2>1, <2>2, <3>1, WasabiAnswered DEF WasabiCallInv
    <3>2. CASE inst = 0 /\ Proceed(k, "create", NewClient)
      BY <1>0, <2>1, <2>2, <3>2, WasabiProceeds DEF WasabiCallInv
    <3> QED
      BY <2>1, <3>1, <3>2
  <2>6. WasabiLoopInv'
    <3>1. ~ \E r \in Scanners : Disposes(k, r)
      BY <2>2 DEF Disposes
    <3> QED
      BY <1>0, <1>5, <2>1, <2>2, <3>1, WasabiLoops
  <2> QED
    BY <1>6, <2>1, <2>4, <2>5, <2>6 DEF WasabiScanInv
<1>13. CASE WasabiCreate(k)
  <2> DEFINE c == call[k].client
  <2>1. At(k, "start", "create") /\ UNCHANGED <<watches, outpoints, matches, cursor, missed>>
    BY <1>13 DEF WasabiCreate, historyVars
  <2>2. call[k] # Idle /\ call[k].op = "start" /\ call[k].pc = "create"
    BY <1>2, <2>1 DEF Ops
  <2>3. inst = 0 /\ c \in Clients
    <3>1. c \in Used
      BY <2>2, OnlyCall
    <3> QED
      BY <1>0, <2>2, <3>1 DEF WasabiCallInv, Used
  <2>4. \A r \in Scanners : scan[r].st = "off"
    BY <1>0, <1>5, <2>2, <2>3 DEF Disposes
  <2>5. PICK ok \in BOOLEAN :
          /\ Respond(k, ok)
          /\ \/ /\ inst' = c
                /\ scan' = [scan EXCEPT ![c] = [NoScan EXCEPT !.client = c, !.st = "on"]]
             \/ UNCHANGED <<inst, scan>>
    BY <1>13 DEF WasabiCreate
  <2>6. AckInv'
    BY <1>3, <2>2, <2>5, AckHandler
  <2>7. WasabiCallInv'
    BY <1>0, <2>1, <2>2, <2>5, WasabiAnswered DEF WasabiCallInv
  <2>8. CASE UNCHANGED <<inst, scan>>
    <3>1. WasabiLoopInv'
      BY <1>0, <2>1, <2>4, <2>8, WasabiLoops
    <3> QED
      BY <1>6, <2>1, <2>6, <2>7, <2>8, <3>1 DEF WasabiScanInv
  <2>9. CASE /\ inst' = c
             /\ scan' = [scan EXCEPT ![c] = [NoScan EXCEPT !.client = c, !.st = "on"]]
    <3> DEFINE x == [NoScan EXCEPT !.client = c, !.st = "on"]
    <3>1. x = ScanAt(c, NoScript, 0)
      BY ScanFromNone
    <3> HIDE DEF x
    <3>2. x.blk = 0 /\ x.st = "on" /\ x.client = c
      BY <3>1 DEF ScanAt
    <3> HIDE DEF c
    <3>3. scan'[c] = x /\ \A r \in Scanners : r # c => scan'[r] = scan[r]
      BY <1>0, <2>3, <2>9 DEF x
    <3>4. WasabiLoopInv'
      <4>1. ASSUME NEW r \in Scanners
            PROVE  /\ scan'[r].st \in {"off", "on", "scan"} => scan'[r].blk = 0
                   /\ scan'[r].st # "off" => scan'[r].client = r /\ r = inst'
                   /\ ~ Looks(scan'[r])
        <5>1. CASE r = c
          BY <2>9, <3>2, <3>3, <5>1 DEF Looks
        <5>2. CASE r # c
          BY <1>0, <2>4, <3>3, <5>2 DEF Looks, WasabiLoopInv
        <5> QED
          BY <5>1, <5>2
      <4>2. \A r \in Scanners : Looks(scan[r])' <=> Looks(scan'[r])
        BY DEF Looks
      <4> QED
        BY <4>1, <4>2 DEF WasabiLoopInv
    <3>5. \A r \in Scanners : scan'[r] = scan[r] \/ ~ Looks(scan'[r])
      BY <3>2, <3>3 DEF Looks
    <3> QED
      BY <1>6, <2>1, <2>6, <2>7, <3>4, <3>5 DEF WasabiScanInv
  <2> QED
    BY <2>5, <2>8, <2>9
<1>14. CASE WasabiWatch(k)
  <2> DEFINE s == call[k].script
             h == call[k].start
  <2>1. /\ Called(k, "watch") /\ Respond(k, TRUE)
        /\ watches' = Put(watches, s, h) /\ cursor' = Put(cursor, s, h)
        /\ outpoints' = IF s \in DOMAIN outpoints THEN outpoints ELSE Put(outpoints, s, {})
        /\ UNCHANGED <<inst, matches, scan, missed>>
    BY <1>14 DEF WasabiWatch, historyVars
  <2>2. call[k] # Idle /\ Fresh(k, "watch") /\ call[k].op = "watch" /\ call[k].pc = "called"
    BY <1>1, <2>1 DEF Ops
  <2>3. Watched(k)
    BY <2>1, <2>2, WatchCalled
  <2>4. AckInv'
    BY <1>3, <2>1, <2>2, <2>3, AckHandler
  <2>5. /\ DOMAIN watches' = DOMAIN watches \cup {s} /\ DOMAIN cursor' = DOMAIN cursor \cup {s}
        /\ watches'[s] = h /\ cursor'[s] = h
        /\ \A t \in DOMAIN watches : t # s => watches'[t] = watches[t]
        /\ \A t \in DOMAIN cursor : t # s => cursor'[t] = cursor[t]
    <3> HIDE DEF s, h
    <3> QED
      BY <2>1 DEF Put
  <2>6. WasabiCallInv'
    <3>1. DOMAIN cursor' = DOMAIN watches'
      BY <1>0, <2>5 DEF WasabiCallInv
    <3> QED
      BY <1>0, <2>1, <2>2, <2>5, <3>1, WasabiAnswered
  <2>7. WasabiLoopInv'
    <3>1. \A r \in Scanners : scan[r].st # "off" => r = inst
      BY <1>5, <2>2 DEF Disposes
    <3> QED
      BY <1>0, <2>1, <2>5, <3>1, WasabiLoops
  <2>8. s \notin DOMAIN watches /\ h \in Int
    <3>1. turn = "running"
      BY <2>2, OnlyCall DEF TurnOps
    <3>2. s \notin AckedSet
      BY <2>2 DEF AckInv
    <3>3. h \in Int
      BY AdapterAssumption DEF AdapterInv, CallInv, CallRec
    <3> QED
      BY <1>0, <3>1, <3>2, <3>3 DEF WasabiCallInv
  <2>9. Grew(outpoints, matches, outpoints', matches') /\ s \in DOMAIN outpoints'
    BY <2>1, EntryGrew
  <2> HIDE DEF s, h
  <2>10. ASSUME NEW r \in Scanners, Looks(scan[r]), scan[r].script \in DOMAIN watches'
         PROVE  ScanDone(outpoints', matches', watches', scan[r], missed)
    <3> DEFINE x == scan[r]
    <3>1. x.st # "off"
      BY <2>10 DEF Looks
    <3>2. r = inst
      BY <1>5, <2>2, <3>1 DEF Disposes
    <3>3. x.script \in DOMAIN watches
      BY <1>0, <2>10, <3>2 DEF WasabiLoopInv
    <3>4. ScanDone(outpoints, matches, watches, x, missed)
      BY <1>0, <2>10, <3>3 DEF WasabiServeInv
    <3>5. watches'[x.script] = watches[x.script]
      BY <2>5, <2>8, <3>3
    <3> HIDE DEF x
    <3>6. Passed(watches[x.script], x, missed) \subseteq Passed(watches[x.script], x, missed)
      OBVIOUS
    <3>7. Done(outpoints', matches', x.script, Passed(watches[x.script], x, missed))
      BY <2>9, <3>4, <3>6, DoneMore DEF ScanDone
    <3>8. ScanDone(outpoints', matches', watches', x, missed)
      BY <3>4, <3>5, <3>7 DEF ScanDone
    <3> QED
      BY <3>8 DEF x
  <2>11. ASSUME NEW t \in DOMAIN watches'
         PROVE  Done(outpoints', matches', t, Below(watches'[t], cursor'[t]) \ missed)
    <3>1. CASE t = s
      <4>1. Below(h, h) = {}
        BY <2>8, AdapterAssumption DEF Below, Heights
      <4>2. Below(h, h) \ missed = {}
        BY <4>1
      <4>3. Done(outpoints', matches', s, {})
        BY <2>9 DEF Done
      <4> QED
        BY <2>5, <3>1, <4>2, <4>3
    <3>2. CASE t # s
      <4>1. t \in DOMAIN watches /\ watches'[t] = watches[t] /\ cursor'[t] = cursor[t]
        BY <1>0, <2>5, <3>2 DEF WasabiCallInv
      <4>2. Done(outpoints, matches, t, Below(watches[t], cursor[t]) \ missed)
        BY <1>0, <4>1 DEF WasabiServeInv
      <4>3. (Below(watches[t], cursor[t]) \ missed) \subseteq (Below(watches[t], cursor[t]) \ missed)
        OBVIOUS
      <4>4. Done(outpoints', matches', t, Below(watches[t], cursor[t]) \ missed)
        BY <2>9, <4>2, <4>3, DoneMore
      <4> QED
        BY <4>1, <4>4
    <3> QED
      BY <3>1, <3>2
  <2>12. WasabiServeInv'
    <3>1. \A r \in Scanners : Looks(scan[r])' <=> Looks(scan[r])
      BY <2>1 DEF Looks
    <3> QED
      BY <2>1, <2>10, <2>11, <3>1 DEF WasabiServeInv
  <2> QED
    BY <2>4, <2>6, <2>7, <2>12 DEF WasabiScanInv
<1> QED
  BY <1>7, <1>8, <1>9, <1>10, <1>11, <1>12, <1>13, <1>14 DEF WasabiHandler

\* A step of scanner r.
LEMMA WasabiLoopStep ==
  ASSUME WasabiLoopInv, NEW r \in Scanners, scan[r].st # "off", inst' = inst, call' = call,
         watches' = watches, \A q \in Scanners : q # r => scan'[q] = scan[q],
         scan'[r].st \in {"off", "on", "scan"} => scan'[r].blk = 0,
         scan'[r].st # "off" => scan'[r].client = scan[r].client,
         Looks(scan'[r]) /\ r = inst => scan'[r].script \in DOMAIN watches
  PROVE  WasabiLoopInv'
<1>1. \A k \in Calls, q \in Scanners : Disposes(k, q)' <=> Disposes(k, q)
  BY DEF Disposes
<1>2. \A q \in Scanners : Looks(scan[q])' <=> Looks(scan'[q])
  BY DEF Looks
<1>3. ASSUME NEW q \in Scanners
      PROVE  /\ scan'[q].st \in {"off", "on", "scan"} => scan'[q].blk = 0
             /\ scan'[q].st # "off" =>
                  scan'[q].client = q /\ (q = inst \/ \E k \in Calls : Disposes(k, q))
             /\ q = inst /\ Looks(scan'[q]) => scan'[q].script \in DOMAIN watches
  <2>1. CASE q = r
    BY <2>1 DEF WasabiLoopInv
  <2>2. CASE q # r
    BY <2>2 DEF WasabiLoopInv
  <2> QED
    BY <2>1, <2>2
<1> QED
  BY <1>1, <1>2, <1>3 DEF WasabiLoopInv

\* The scan that looks at a watch is of this configuration.
LEMMA WasabiScanIsOurs ==
  ASSUME AdapterInv, SlotInv, WasabiCallInv, WasabiLoopInv, NEW r \in Scanners, scan[r].st # "off",
         scan[r].script \in DOMAIN watches
  PROVE  client[scan[r].client].gen = gen
<1>1. scan[r].client = r
  BY DEF WasabiLoopInv
<1>2. CASE r = inst
  BY <1>1, <1>2 DEF SlotInv, Scanners
<1>3. CASE r # inst
  <2>1. PICK k \in Calls : Disposes(k, r)
    BY <1>3 DEF WasabiLoopInv
  <2>2. call[k].pc # "called" /\ call[k] # Idle
    BY <2>1 DEF Disposes, Idle
  <2>3. call[k].op \in {"configure", "stop"}
    <3>1. call[k].op \in Ops /\ call[k].pc \in Places(call[k].op)
      BY <2>2 DEF AdapterInv, CallInv, CallOK
    <3> QED
      BY <2>1, <3>1 DEF Disposes, Places
  <2>4. watches # Nothing
    BY DEF Nothing
  <2> QED
    BY <1>1, <2>1, <2>2, <2>3, <2>4 DEF WasabiCallInv, Disposes
<1> QED
  BY <1>2, <1>3

LEMMA WasabiCallSame ==
  ASSUME WasabiCallInv, DOMAIN cursor' = DOMAIN cursor,
         UNCHANGED <<gen, client, inst, watches>>, UNCHANGED harnessVars
  PROVE  WasabiCallInv'
<1>1. UNCHANGED <<turn, call, acked>>
  BY DEF harnessVars
<1>2. AckedSet' = AckedSet
  BY <1>1 DEF AckedSet
<1> QED
  BY <1>1, <1>2 DEF WasabiCallInv

\* The hits of a filter are the blocks of the batch that concern the script.
LEMMA BeforeHits ==
  ASSUME NEW r \in Scanners, scan[r].at \in Int, scan[r].at \in Nat, NEW to \in Int,
         scan[r].blk = 0, to <= Tip + 1, \A i \in Hits(r) : i >= to,
         NEW from, NEW H, \A h \in H : h \in Below(from, to) \ missed
  PROVE  \A h \in H : h \in Passed(from, scan[r], missed) \/ ~ Concerns(h, scan[r].script)
<1> SUFFICES ASSUME NEW h \in H, Concerns(h, scan[r].script)
             PROVE  h \in Passed(from, scan[r], missed)
  OBVIOUS
<1>1. h \in Heights /\ h \in Int /\ h # 0 /\ from <= h /\ h < to /\ h \notin missed /\ h <= Tip
  BY AdapterAssumption DEF Below, Heights
<1>2. h < scan[r].at
  <2> SUFFICES ASSUME ~ h < scan[r].at
               PROVE  FALSE
    OBVIOUS
  <2>1. h \in Hits(r)
    BY <1>1, AdapterAssumption DEF Hits
  <2>2. h >= to
    BY <2>1
  <2> QED
    BY <1>1, <2>2
<1> QED
  BY <1>1, <1>2 DEF Passed, Below

LEMMA WasabiScanServes ==
  ASSUME AdapterInv, AckInv, WasabiScanInv, SlotInv, impl = "wasabi", NEW r \in Scanners, WasabiScan(r)
  PROVE  AckInv' /\ WasabiScanInv'
<1>0. /\ scan \in [Scanners -> ScanRec] /\ scan[r] \in ScanRec /\ ScanOK(scan[r]) /\ Tip \in Nat
      /\ WasabiCallInv /\ WasabiLoopInv /\ WasabiServeInv /\ WatchInv
  BY AdapterAssumption DEF AdapterInv, ScanInv, WasabiScanInv
<1> DEFINE x == scan[r]
           y == scan'[r]
           s == x.script
<1>1. x.at \in Nat /\ x.blk \in Nat /\ x.at \in Int /\ x.blk \in Int
  BY <1>0 DEF ScanRec
<1>2. Looks(x) => s \in Scripts
  BY <1>0 DEF ScanOK, Looks
<1>3. ASSUME x.st # "off", UNCHANGED <<gen, client, inst, watches>>, UNCHANGED harnessVars,
             DOMAIN cursor' = DOMAIN cursor, missed \subseteq missed',
             Grew(outpoints, matches, outpoints', matches'),
             \A q \in Scanners : q # r => scan'[q] = scan[q],
             y.st \in {"off", "on", "scan"} => y.blk = 0,
             y.st # "off" => y.client = x.client,
             Looks(y) => (y.script = s /\ Looks(x)) \/ y.script \in DOMAIN watches,
             Looks(y) /\ y.script \in DOMAIN watches =>
               ScanDone(outpoints', matches', watches, y, missed'),
             \A t \in DOMAIN watches :
               \/ cursor'[t] = cursor[t]
               \/ Done(outpoints', matches', t, Below(watches[t], cursor'[t]) \ missed')
      PROVE  AckInv' /\ WasabiScanInv'
  <2>1. AckInv'
    BY <1>3, AckScan
  <2>2. WasabiCallInv'
    BY <1>0, <1>3, WasabiCallSame
  <2>3. WasabiLoopInv'
    <3>1. inst' = inst /\ call' = call /\ watches' = watches
      BY <1>3 DEF harnessVars
    <3>2. Looks(y) /\ r = inst => y.script \in DOMAIN watches
      BY <1>0, <1>3 DEF WasabiLoopInv
    <3> QED
      BY <1>0, <1>3, <3>1, <3>2, WasabiLoopStep
  <2>4. WasabiServeInv'
    <3>1. \A q \in Scanners : \/ scan'[q] = scan[q]
                              \/ Looks(scan'[q]) /\ scan'[q].script \in DOMAIN watches =>
                                   ScanDone(outpoints', matches', watches, scan'[q], missed')
      BY <1>3
    <3>2. watches' = watches
      BY <1>3
    <3> QED
      BY <1>0, <1>3, <3>1, <3>2, WasabiServeStep
  <2> QED
    BY <2>1, <2>2, <2>3, <2>4 DEF WasabiScanInv
<1>4. ASSUME Looks(x), s \in DOMAIN watches
      PROVE  ScanDone(outpoints, matches, watches, x, missed)
  BY <1>0, <1>4 DEF WasabiServeInv
<1>5. CASE WasabiBatch(r)
  <2>1. /\ x.st = "on" /\ UNCHANGED <<gen, client, inst, watches, outpoints, matches, cursor, missed>>
        /\ UNCHANGED harnessVars
    BY <1>5 DEF WasabiBatch, stateVars, historyVars
  <2>2. PICK t \in DOMAIN cursor :
          scan' = [scan EXCEPT ![r] = [@ EXCEPT !.script = t, !.at = cursor[t], !.st = "scan"]]
    BY <1>5 DEF WasabiBatch
  <2>3. /\ y.script = t /\ y.at = cursor[t] /\ y.st = "scan" /\ y.blk = x.blk /\ y.client = x.client
        /\ \A q \in Scanners : q # r => scan'[q] = scan[q]
    BY <1>0, <2>2 DEF ScanRec
  <2>4. x.blk = 0
    BY <1>0, <2>1 DEF WasabiLoopInv
  <2>5. t \in DOMAIN watches
    BY <1>0 DEF WatchInv
  <2>6. Grew(outpoints, matches, outpoints', matches')
    BY <2>1, SameGrew
  <2> HIDE DEF x, y, s
  <2>7. ScanDone(outpoints', matches', watches, y, missed')
    <3>1. Done(outpoints, matches, t, Below(watches[t], cursor[t]) \ missed)
      BY <1>0, <2>5 DEF WasabiServeInv
    <3>2. Passed(watches[t], y, missed) \subseteq (Below(watches[t], cursor[t]) \ missed)
      BY <2>3 DEF Passed
    <3>3. Done(outpoints', matches', t, Passed(watches[t], y, missed))
      BY <2>6, <3>1, <3>2, DoneMore
    <3> QED
      BY <2>1, <2>3, <3>3 DEF ScanDone
  <2> QED
    BY <1>3, <2>1, <2>3, <2>4, <2>5, <2>6, <2>7
<1>6. CASE WasabiFilter(r)
  <2>1. /\ x.st = "scan" /\ UNCHANGED <<gen, client, inst, watches, outpoints, matches, cursor, missed>>
        /\ UNCHANGED harnessVars
    BY <1>6 DEF WasabiFilter, stateVars, historyVars
  <2>2. PICK h \in Hits(r) :
          /\ \A i \in Hits(r) : h <= i
          /\ scan' = [scan EXCEPT ![r] = [@ EXCEPT !.at = h + 1, !.blk = h, !.st = "fetch"]]
    BY <1>6 DEF WasabiFilter
  <2>3. /\ y.script = s /\ y.at = h + 1 /\ y.st = "fetch" /\ y.blk = h /\ y.client = x.client
        /\ \A q \in Scanners : q # r => scan'[q] = scan[q]
    BY <1>0, <2>2 DEF ScanRec
  <2>4. x.blk = 0 /\ Looks(x)
    BY <1>0, <2>1 DEF WasabiLoopInv, Looks
  <2>5. h \in Int /\ h <= Tip
    BY <1>0, <1>1 DEF Hits
  <2>6. Grew(outpoints, matches, outpoints', matches')
    BY <2>1, SameGrew
  <2>7. ASSUME s \in DOMAIN watches
        PROVE  ScanDone(outpoints', matches', watches, y, missed')
    <3>1. Done(outpoints, matches, s, Passed(watches[s], x, missed))
      BY <1>4, <2>4, <2>7 DEF ScanDone
    <3> DEFINE H == Passed(watches[s], y, missed)
    <3>2. \A i \in H : i \in Below(watches[s], h) \ missed
      <4> HIDE DEF x, y, s
      <4> SUFFICES ASSUME NEW i \in H
                   PROVE  i \in Below(watches[s], h) \ missed
        OBVIOUS
      <4>1. i \in Heights /\ i \in Int /\ watches[s] <= i /\ i < h + 1 /\ i # h /\ i \notin missed
        BY <2>3 DEF Passed, Below, Heights
      <4>2. i < h
        BY <2>5, <4>1
      <4> QED
        BY <4>1, <4>2 DEF Below
    <3> HIDE DEF H
    <3>3. \A i \in H : i \in Passed(watches[s], x, missed) \/ ~ Concerns(i, s)
      <4>1. h <= Tip + 1 /\ \A i \in Hits(r) : i >= h
        <5>1. \A i \in Hits(r) : i \in Int /\ h <= i
          BY <1>1, <2>2 DEF Hits
        <5> QED
          BY <1>0, <2>5, <5>1
      <4> QED
        BY <1>1, <2>4, <2>5, <3>2, <4>1, BeforeHits
    <3>4. Done(outpoints, matches, s, H)
      BY <1>2, <2>4, <3>1, <3>3, DoneSkip
    <3>5. H \subseteq H
      OBVIOUS
    <3>6. Done(outpoints', matches', s, H)
      BY <2>6, <3>4, <3>5, DoneMore
    <3> HIDE DEF x, y, s
    <3> QED
      BY <2>1, <2>3, <3>6 DEF ScanDone, H
  <2> HIDE DEF x, y, s
  <2> QED
    BY <1>3, <2>1, <2>3, <2>4, <2>6, <2>7
<1>7. CASE WasabiBlock(r)
  <2>1. /\ x.st = "fetch" /\ UNCHANGED <<gen, client, inst, watches, outpoints, matches, cursor>>
        /\ UNCHANGED harnessVars
    BY <1>7 DEF WasabiBlock, stateVars
  <2>2. Grew(outpoints, matches, outpoints', matches')
    BY <2>1, SameGrew
  <2>3. Looks(x)
    BY <2>1 DEF Looks
  <2>4. CASE scan' = [scan EXCEPT ![r].st = "held"] /\ missed' = missed
    <3>1. /\ y.script = s /\ y.at = x.at /\ y.st = "held" /\ y.blk = x.blk /\ y.client = x.client
          /\ \A q \in Scanners : q # r => scan'[q] = scan[q]
      BY <1>0, <2>4 DEF ScanRec
    <3>2. ASSUME s \in DOMAIN watches
          PROVE  ScanDone(outpoints', matches', watches, y, missed')
      <4>1. ScanDone(outpoints, matches, watches, x, missed)
        BY <1>4, <2>3, <3>2
      <4> HIDE DEF x, y, s
      <4>2. Passed(watches[s], y, missed) \subseteq Passed(watches[s], x, missed)
        BY <3>1 DEF Passed
      <4>3. Done(outpoints, matches, s, Passed(watches[s], x, missed)) /\ x.at = x.blk + 1
        BY <2>1, <4>1 DEF ScanDone, s
      <4>4. Done(outpoints', matches', s, Passed(watches[s], y, missed))
        BY <2>2, <4>2, <4>3, DoneMore
      <4> QED
        BY <2>4, <3>1, <4>3, <4>4 DEF ScanDone
    <3> HIDE DEF x, y, s
    <3> QED
      BY <1>3, <2>1, <2>2, <2>3, <2>4, <3>1, <3>2
  <2>5. CASE /\ scan' = [scan EXCEPT ![r].blk = 0, ![r].st = "scan"]
             /\ missed' = missed \cup {h \in {x.blk} : client[x.client].gen = gen}
    <3> DEFINE z == [scan[r] EXCEPT !.blk = 0, !.st = "scan"]
    <3>1. scan' = [scan EXCEPT ![r] = z]
      BY <1>0, <2>5
    <3>2. z.script = s /\ z.at = x.at /\ z.st = "scan" /\ z.blk = 0 /\ z.client = x.client
      BY <1>0 DEF ScanRec
    <3> HIDE DEF z
    <3>3. y = z /\ \A q \in Scanners : q # r => scan'[q] = scan[q]
      BY <1>0, <3>1
    <3>4. ASSUME s \in DOMAIN watches
          PROVE  ScanDone(outpoints', matches', watches, y, missed')
      <4>1. ScanDone(outpoints, matches, watches, x, missed)
        BY <1>4, <2>3, <3>4
      <4>2. client[x.client].gen = gen
        BY <1>0, <2>1, <3>4, WasabiScanIsOurs
      <4>3. missed' = missed \cup {x.blk}
        BY <2>5, <4>2
      <4> HIDE DEF x, y, s
      <4>4. Passed(watches[s], y, missed') \subseteq Passed(watches[s], x, missed)
        BY <3>2, <3>3, <4>3 DEF Passed
      <4>5. Done(outpoints, matches, s, Passed(watches[s], x, missed))
        BY <4>1 DEF ScanDone, s
      <4>6. Done(outpoints', matches', s, Passed(watches[s], y, missed'))
        BY <2>2, <4>4, <4>5, DoneMore
      <4> QED
        BY <3>2, <3>3, <4>6 DEF ScanDone
    <3>5. missed \subseteq missed'
      BY <2>5
    <3> HIDE DEF x, y, s
    <3> QED
      BY <1>3, <2>1, <2>2, <2>3, <3>2, <3>3, <3>4, <3>5
  <2> QED
    BY <1>7, <2>4, <2>5 DEF WasabiBlock
<1>8. CASE WasabiRecord(r)
  <2>1. /\ x.st = "held" /\ UNCHANGED <<gen, client, inst, watches, cursor, missed>>
        /\ UNCHANGED harnessVars
        /\ Record({s}, x.blk)
        /\ scan' = [scan EXCEPT ![r].blk = 0, ![r].st = "scan"]
    BY <1>8 DEF WasabiRecord, historyVars
  <2>2. Grew(outpoints, matches, outpoints', matches')
    BY <2>1, RecordGrew
  <2>3. Looks(x)
    BY <2>1 DEF Looks
  <2> DEFINE z == [scan[r] EXCEPT !.blk = 0, !.st = "scan"]
  <2>4. scan' = [scan EXCEPT ![r] = z]
    BY <1>0, <2>1
  <2>5. z.script = s /\ z.at = x.at /\ z.st = "scan" /\ z.blk = 0 /\ z.client = x.client
    BY <1>0 DEF ScanRec
  <2> HIDE DEF z
  <2>6. y = z /\ \A q \in Scanners : q # r => scan'[q] = scan[q]
    BY <1>0, <2>4
  <2>7. ASSUME s \in DOMAIN watches
        PROVE  ScanDone(outpoints', matches', watches, y, missed')
    <3>1. ScanDone(outpoints, matches, watches, x, missed)
      BY <1>4, <2>3, <2>7
    <3> HIDE DEF x, y, s
    <3>2. Done(outpoints, matches, s, Passed(watches[s], x, missed)) /\ x.at = x.blk + 1
      BY <2>1, <3>1 DEF ScanDone, s
    <3>3. \A h \in Passed(watches[s], x, missed) : h \in Nat /\ h <= x.blk
      BY <1>1, <3>2, PassedTill
    <3>4. Passed(watches[s], y, missed) \subseteq Passed(watches[s], x, missed) \cup {x.blk}
      BY <2>5, <2>6 DEF Passed
    <3>5. s \in Scripts /\ s \in {s}
      BY <1>2, <2>3
    <3> DEFINE S == {s}
               H == Passed(watches[s], x, missed)
               H2 == Passed(watches[s], y, missed)
    <3>6. Done(outpoints', matches', s, H2)
      <4>1. Record(S, x.blk) /\ s \in S
        BY <2>1, <3>5
      <4> HIDE DEF S, H, H2
      <4>2. Done(outpoints, matches, s, H) /\ (\A h \in H : h \in Nat /\ h <= x.blk) /\ H2 \subseteq H \cup {x.blk}
        BY <3>2, <3>3, <3>4 DEF H, H2
      <4> QED
        BY <1>1, <3>5, <4>1, <4>2, DoneRecord
    <3> QED
      BY <2>1, <2>5, <2>6, <3>6 DEF ScanDone
  <2> HIDE DEF x, y, s
  <2> QED
    BY <1>3, <2>1, <2>2, <2>3, <2>5, <2>6, <2>7
<1>9. CASE WasabiMark(r)
  <2>1. /\ x.st = "scan" /\ Hits(r) = {}
        /\ UNCHANGED <<gen, client, inst, watches, outpoints, matches, missed>>
        /\ UNCHANGED harnessVars
        /\ cursor' = [t \in DOMAIN cursor |-> IF t = s THEN Most(cursor[t], Tip + 1) ELSE cursor[t]]
        /\ scan' = [scan EXCEPT ![r] = [@ EXCEPT !.script = NoScript, !.at = 0, !.st = "on"]]
    BY <1>9 DEF WasabiMark, historyVars
  <2>2. Grew(outpoints, matches, outpoints', matches')
    BY <2>1, SameGrew
  <2>3. Looks(x) /\ x.blk = 0
    BY <1>0, <2>1 DEF Looks, WasabiLoopInv
  <2>4. /\ y.st = "on" /\ y.blk = x.blk /\ y.client = x.client
        /\ \A q \in Scanners : q # r => scan'[q] = scan[q]
    BY <1>0, <2>1 DEF ScanRec
  <2>5. DOMAIN cursor' = DOMAIN cursor /\ DOMAIN cursor = DOMAIN watches
    BY <1>0, <2>1 DEF WasabiCallInv
  <2>6. ~ Looks(y)
    BY <2>4 DEF Looks
  <2>7. ASSUME NEW t \in DOMAIN watches, cursor'[t] # cursor[t]
        PROVE  Done(outpoints', matches', t, Below(watches[t], cursor'[t]) \ missed')
    <3>1. t = s /\ cursor'[t] = Tip + 1
      <4>1. cursor[t] \in Int /\ cursor[t] <= Tip + 1
        BY <1>0, <2>5, <2>7 DEF WatchInv
      <4> QED
        BY <1>0, <2>1, <2>5, <2>7, <4>1 DEF Most
    <3>2. Done(outpoints, matches, s, Passed(watches[s], x, missed))
      BY <1>4, <2>3, <2>7, <3>1 DEF ScanDone
    <3> DEFINE H == Below(watches[s], Tip + 1) \ missed
    <3>3. \A h \in H : h \in Below(watches[s], Tip + 1) \ missed
      OBVIOUS
    <3> HIDE DEF H
    <3>4. \A h \in H : h \in Passed(watches[s], x, missed) \/ ~ Concerns(h, s)
      <4>1. Tip + 1 \in Int /\ Tip + 1 <= Tip + 1 /\ \A i \in Hits(r) : i >= Tip + 1
        BY <1>0, <2>1
      <4> QED
        BY <1>1, <2>3, <3>3, <4>1, BeforeHits
    <3>5. Done(outpoints, matches, s, H)
      BY <1>2, <2>3, <3>2, <3>4, DoneSkip
    <3> HIDE DEF x, y, s
    <3> QED
      BY <2>1, <3>1, <3>5 DEF H
  <2>8. y.blk = 0 /\ Looks(y) = FALSE
    BY <2>3, <2>4, <2>6 DEF Looks
  <2> HIDE DEF x, y, s
  <2> QED
    BY <1>3, <2>1, <2>2, <2>4, <2>5, <2>6, <2>7, <2>8
<1>10. CASE WasabiEnd(r)
  <2>1. /\ x.st \in {"on", "fetch"} /\ scan' = [scan EXCEPT ![r] = NoScan]
        /\ UNCHANGED <<gen, client, inst, watches, outpoints, matches, cursor, missed>>
        /\ UNCHANGED harnessVars
    BY <1>10 DEF WasabiEnd, stateVars, historyVars
  <2>2. Grew(outpoints, matches, outpoints', matches')
    BY <2>1, SameGrew
  <2>3. y.st = "off" /\ y.blk = 0 /\ \A q \in Scanners : q # r => scan'[q] = scan[q]
    BY <1>0, <2>1 DEF NoScan
  <2>4. ~ Looks(y) /\ x.st # "off"
    BY <2>1, <2>3 DEF Looks
  <2> HIDE DEF x, y, s
  <2> QED
    BY <1>3, <2>1, <2>2, <2>3, <2>4
<1> QED
  BY <1>5, <1>6, <1>7, <1>8, <1>9, <1>10 DEF WasabiScan

-----------------------------------------------------------------------------
(* All the adapters. *)

Serves ==
  /\ impl # "fake" => AckInv
  /\ impl = "neutrino" => NeutrinoScanInv
  /\ impl = "kyoto" => KyotoLoopInv /\ KyotoServeInv
  /\ impl = "nakamoto" => NakamotoScanInv
  /\ impl = "wasabi" => WasabiScanInv

ServeInv == Smooth => Serves

LEMMA ServeInit == ProtocolInit => ServeInv
<1> SUFFICES ASSUME ProtocolInit
             PROVE  Serves
  BY DEF ServeInv
<1>1. AckInv /\ acked = <<>> /\ AckedSet = {}
  BY AckInit DEF ProtocolInit, AckedSet
<1>2. /\ inst = 0 /\ rescanQuit = 0 /\ (\A r \in Scanners : scan[r] = NoScan)
      /\ (\A k \in Calls : call[k] = Idle) /\ turn = "configure"
      /\ watches = Nothing /\ cursor = Nothing
  BY DEF ProtocolInit
<1>3. NoScan.st = "off" /\ NoScan.blk = 0 /\ Idle.op = "none" /\ Idle.pc = "none"
  BY DEF NoScan, Idle
<1>4. NeutrinoScanInv
  BY <1>2 DEF NeutrinoScanInv
<1>5. KyotoLoopInv /\ KyotoServeInv
  <2>1. Clients \subseteq Scanners
    BY AdapterAssumption DEF Clients, Scanners
  <2> QED
    BY <1>2, <1>3, <2>1 DEF KyotoLoopInv, KyotoServeInv
<1>6. NakamotoScanInv
  BY <1>2 DEF NakamotoScanInv
<1>7. WasabiCallInv
  BY <1>2, <1>3 DEF WasabiCallInv
<1>8. WasabiLoopInv
  BY <1>2, <1>3 DEF WasabiLoopInv, Looks
<1>9. WasabiServeInv
  BY <1>2 DEF WasabiServeInv, Nothing
<1> QED
  BY <1>1, <1>4, <1>5, <1>6, <1>7, <1>8, <1>9 DEF Serves, WasabiScanInv

\* What makes a run Smooth only ever ends.
LEMMA HandlerWasSmooth ==
  ASSUME AdapterInv, NEW k \in Calls, Handler(k), Smooth'
  PROVE  Smooth
<1>1. givenUp' = givenUp
  <2>1. HandlerOK(k)
    BY NeutrinoHandlerOK, KyotoHandlerOK, NakamotoHandlerOK, WasabiHandlerOK, FakeHandlerOK
       DEF Handler
  <2> QED
    BY <2>1 DEF HandlerOK, Handled, Respond, Proceed
<1>2. alive
  <2>1. Refuse(k) => alive
    BY DEF Refuse, Called
  <2>2. NeutrinoHandler(k) => alive
    BY <2>1 DEF NeutrinoHandler, NeutrinoConfigure, NeutrinoStart, NeutrinoStarted, NeutrinoStop,
                NeutrinoWatch, NeutrinoRescan, Called, At
  <2>3. KyotoHandler(k) => alive
    BY <2>1 DEF KyotoHandler, KyotoConfigure, KyotoStart, KyotoStop, KyotoWatch, KyotoRescan, Called, At
  <2>4. NakamotoHandler(k) => alive
    BY <2>1 DEF NakamotoHandler, NakamotoConfigure, NakamotoStart, NakamotoLoad, NakamotoInstall,
                NakamotoStop, NakamotoWatch, NakamotoRescan, Called, At
  <2>5. WasabiHandler(k) => alive
    BY <2>1 DEF WasabiHandler, WasabiConfigure, WasabiStop, WasabiCancel, WasabiDisposed,
                WasabiStart, WasabiCreate, WasabiWatch, Called, At
  <2>6. FakeHandler(k) => alive
    BY <2>1 DEF FakeHandler, FakeConfigure, FakeStart, FakeStop, FakeWatch, Called
  <2> QED
    BY <2>2, <2>3, <2>4, <2>5, <2>6 DEF Handler
<1>3. straggler => straggler'
  <2>1. Refuse(k) => straggler' = straggler
    BY DEF Refuse, historyVars
  <2>2. NeutrinoHandler(k) => straggler' = straggler
    BY <2>1 DEF NeutrinoHandler, NeutrinoConfigure, NeutrinoStart, NeutrinoStarted, NeutrinoStop,
                NeutrinoWatch, NeutrinoRescan, historyVars
  <2>3. KyotoHandler(k) => straggler' = straggler
    BY <2>1 DEF KyotoHandler, KyotoConfigure, KyotoStart, KyotoStop, KyotoWatch, KyotoRescan,
                historyVars
  <2>4. FakeHandler(k) => straggler' = straggler
    BY <2>1 DEF FakeHandler, FakeConfigure, FakeStart, FakeStop, FakeWatch, historyVars
  <2>5. impl \in {"nakamoto", "wasabi"} => (straggler => straggler')
    BY StragglerStays
  <2> QED
    BY <2>2, <2>3, <2>4, <2>5 DEF Handler
<1> QED
  BY <1>1, <1>2, <1>3 DEF Smooth

LEMMA ScanWasSmooth ==
  ASSUME AdapterInv, NEW r \in Scanners, Scan(r), Smooth'
  PROVE  Smooth /\ impl' = impl
<1>1. Looked
  BY NeutrinoScanLooks, KyotoScanLooks, NakamotoScanLooks, WasabiScanLooks DEF Scan
<1>2. givenUp' = givenUp /\ impl' = impl
  BY <1>1 DEF Looked, harnessVars
<1>3. straggler' = straggler
  BY ScanStraggles
<1>4. alive
  <2>1. NeutrinoScan(r) => alive
    BY DEF NeutrinoScan, NeutrinoBlock, NeutrinoRecord
  <2>2. KyotoScan(r) => alive
    BY DEF KyotoScan, KyotoFilter, KyotoBlock, KyotoRecord
  <2>3. NakamotoScan(r) => alive
    BY DEF NakamotoScan, NakamotoBlock, NakamotoRecord
  <2>4. WasabiScan(r) => alive
    BY DEF WasabiScan, WasabiBatch, WasabiFilter, WasabiBlock, WasabiRecord, WasabiMark, WasabiEnd
  <2> QED
    BY <2>1, <2>2, <2>3, <2>4 DEF Scan
<1> QED
  BY <1>2, <1>3, <1>4 DEF Smooth

LEMMA HarnessWasSmooth ==
  ASSUME AdapterInv, Harness, Smooth'
  PROVE  Smooth /\ impl' = impl
<1>1. UNCHANGED <<impl, alive, stateVars, client, scan, historyVars>> /\ givenUp \in Nat
  BY HarnessCalls DEF AdapterInv, CallInv
<1>2. givenUp' = givenUp
  <2>1. GiveUp => givenUp' = givenUp + 1
    BY DEF GiveUp
  <2>2. ~ GiveUp
    BY <1>1, <2>1 DEF Smooth
  <2> QED
    BY <2>2 DEF Harness, PostConfigure, PostStart, PostWatch, PostStop, Post
<1> QED
  BY <1>1, <1>2 DEF Smooth, historyVars

LEMMA HarnessServes ==
  ASSUME AdapterInv, Serves, Harness, Smooth'
  PROVE  Serves'
<1>1. UNCHANGED <<impl, alive, stateVars, client, scan, historyVars>>
  BY HarnessCalls DEF AdapterInv
<1>2. UNCHANGED <<inst, watches, outpoints, matches, cursor, rescanQuit, client, scan, missed, impl>>
  BY <1>1 DEF stateVars, historyVars
<1>3. givenUp' = 0
  BY DEF Smooth
<1>4. Grew(outpoints, matches, outpoints', matches')
  BY <1>2, SameGrew
<1>5. ASSUME AckInv
      PROVE  AckInv' /\ (acked' = acked \/ acked' = <<>>)
  BY <1>3, <1>5, AckHarness
<1>6. ASSUME AckInv, NeutrinoScanInv
      PROVE  NeutrinoScanInv'
  BY <1>2, <1>4, <1>5, <1>6, NeutrinoSame
<1>7. ASSUME AckInv, KyotoLoopInv, KyotoServeInv
      PROVE  KyotoLoopInv' /\ KyotoServeInv'
  <2>1. KyotoLoopInv'
    BY <1>2, <1>7 DEF KyotoLoopInv
  <2>2. AckedSet' \subseteq AckedSet
    <3>1. CASE acked' = acked
      BY <3>1 DEF AckedSet
    <3>2. CASE acked' = <<>>
      BY <3>2 DEF AckedSet
    <3> QED
      BY <1>5, <1>7, <3>1, <3>2
  <2> QED
    BY <1>2, <1>4, <1>7, <2>1, <2>2, KyotoSame
<1>8. ASSUME AckInv, NakamotoScanInv
      PROVE  NakamotoScanInv'
  <2>1. CASE acked' = acked
    BY <1>2, <1>4, <1>8, <2>1, NakamotoSame
  <2>2. CASE acked' = <<>>
    BY <2>2 DEF NakamotoScanInv
  <2> QED
    BY <1>5, <1>8, <2>1, <2>2
<1>9. ASSUME AckInv, WasabiScanInv
      PROVE  WasabiScanInv'
  BY <1>3, <1>9, WasabiHarness
<1> QED
  BY <1>2, <1>5, <1>6, <1>7, <1>8, <1>9 DEF Serves

LEMMA HandlerServes ==
  ASSUME AdapterInv, OneInv, Smooth, Serves, NEW k \in Calls, Handler(k), Smooth'
  PROVE  Serves'
<1>1. impl' = impl
  <2>1. HandlerOK(k)
    BY NeutrinoHandlerOK, KyotoHandlerOK, NakamotoHandlerOK, WasabiHandlerOK, FakeHandlerOK
       DEF Handler
  <2> QED
    BY <2>1 DEF HandlerOK
<1>2. givenUp = 0 /\ ~ straggler /\ ~ straggler'
  BY DEF Smooth
<1>3. CASE impl = "neutrino" /\ NeutrinoHandler(k)
  BY <1>1, <1>2, <1>3, NeutrinoHandlerServes DEF Serves
<1>4. CASE impl = "kyoto" /\ KyotoHandler(k)
  BY <1>1, <1>2, <1>4, KyotoHandlerServes DEF Serves
<1>5. CASE impl = "nakamoto" /\ NakamotoHandler(k)
  BY <1>1, <1>2, <1>5, NakamotoHandlerServes DEF Serves
<1>6. CASE impl = "wasabi" /\ WasabiHandler(k)
  <2>1. SlotInv
    BY <1>2, <1>6 DEF OneInv
  <2> QED
    BY <1>1, <1>2, <1>6, <2>1, WasabiHandlerServes DEF Serves
<1>7. CASE impl = "fake"
  BY <1>1, <1>7 DEF Serves
<1> QED
  BY <1>3, <1>4, <1>5, <1>6, <1>7 DEF Handler

LEMMA ScanServes ==
  ASSUME AdapterInv, OneInv, Smooth, Serves, NEW r \in Scanners, Scan(r), Smooth'
  PROVE  Serves'
<1>1. impl' = impl
  BY ScanWasSmooth
<1>2. givenUp = 0 /\ ~ straggler /\ alive'
  BY DEF Smooth
<1>3. CASE impl = "neutrino" /\ NeutrinoScan(r)
  BY <1>1, <1>2, <1>3, NeutrinoScanServes DEF Serves
<1>4. CASE impl = "kyoto" /\ KyotoScan(r)
  BY <1>1, <1>4, KyotoScanServes DEF Serves
<1>5. CASE impl = "nakamoto" /\ NakamotoScan(r)
  BY <1>1, <1>5, NakamotoScanServes DEF Serves
<1>6. CASE impl = "wasabi" /\ WasabiScan(r)
  <2>1. SlotInv
    BY <1>2, <1>6 DEF OneInv
  <2> QED
    BY <1>1, <1>6, <2>1, WasabiScanServes DEF Serves
<1> QED
  BY <1>3, <1>4, <1>5, <1>6 DEF Scan

LEMMA ServeStep == AdapterInv /\ OneInv /\ ServeInv /\ [Next]_adapterVars => ServeInv'
<1> SUFFICES ASSUME AdapterInv, OneInv, ServeInv, [Next]_adapterVars, Smooth'
             PROVE  Serves'
  BY DEF ServeInv
<1>1. CASE Harness
  BY <1>1, HarnessWasSmooth, HarnessServes DEF ServeInv
<1>2. ASSUME NEW k \in Calls, Handler(k)
      PROVE  Serves'
  BY <1>2, HandlerWasSmooth, HandlerServes DEF ServeInv
<1>3. ASSUME NEW r \in Scanners, Scan(r)
      PROVE  Serves'
  BY <1>3, ScanWasSmooth, ScanServes DEF ServeInv
<1>4. CASE UNCHANGED adapterVars
  <2>1. UNCHANGED <<impl, alive, gen, inst, watches, outpoints, matches, cursor, rescanQuit, client,
                    scan, turn, waiting, call, acked, givenUp, missed, straggler>>
    BY <1>4 DEF adapterVars, stateVars, harnessVars, historyVars
  <2>2. Serves
    BY <2>1 DEF ServeInv, Smooth
  <2>3. AckInv => AckInv'
    BY <2>1 DEF AckInv, AckedSet
  <2>4. NeutrinoScanInv => NeutrinoScanInv'
    BY <2>1 DEF NeutrinoScanInv, LastAcked
  <2>5. KyotoLoopInv /\ KyotoServeInv => KyotoLoopInv' /\ KyotoServeInv'
    BY <2>1 DEF KyotoLoopInv, KyotoServeInv, AckedSet
  <2>6. NakamotoScanInv => NakamotoScanInv'
    BY <2>1 DEF NakamotoScanInv, LastAcked
  <2>7. WasabiScanInv => WasabiScanInv'
    BY <2>1 DEF WasabiScanInv, WasabiCallInv, WasabiLoopInv, WasabiServeInv, ScanDone, Disposes,
                Looks, AckedSet
  <2> QED
    BY <2>1, <2>2, <2>3, <2>4, <2>5, <2>6, <2>7 DEF Serves
<1> QED
  BY <1>1, <1>2, <1>3, <1>4 DEF Next

\* What is done with is reported.
LEMMA DoneReports ==
  ASSUME SpendsInv, impl # "fake", NEW s \in Scripts, NEW H, Done(outpoints, matches, s, H)
  PROVE  Expected(s, H) \subseteq Reported(s)
<1>1. ASSUME NEW h, NEW o, Reports(matches, s, h, o)
      PROVE  <<h, o>> \in Reported(s)
  BY <1>1 DEF Reports, Reported
<1>2. ASSUME NEW h \in Pays[s] \cap H
      PROVE  <<h, h>> \in Reported(s)
  <2>1. HasOutput(s, h)
    BY <1>2 DEF Done, SpendsInv, OutpointsAreMatches
  <2> QED
    BY <1>1, <2>1 DEF HasOutput, Reports
<1>3. ASSUME NEW p \in Spends[s], p[1] \in H, p[2] \in H
      PROVE  p \in Reported(s)
  <2>1. Reports(matches, s, p[1], p[2]) /\ p = <<p[1], p[2]>>
    BY <1>3, SpendIs DEF Done
  <2> QED
    BY <1>1, <2>1
<1> QED
  BY <1>2, <1>3 DEF Expected

LEMMA FakeReports ==
  ASSUME impl = "fake", NEW s \in Scripts, s \in DOMAIN watches
  PROVE  Expected(s, Scanned(s)) \subseteq Reported(s)
<1>1. Reported(s) = FakeMatches(s)
  BY DEF Reported
<1>2. CASE gen \in BadBlockRuns
  <2>1. Scanned(s) = {}
    BY <1>2 DEF Scanned
  <2> QED
    BY <2>1 DEF Expected
<1>3. CASE gen \notin BadBlockRuns
  <2>1. \A h \in Scanned(s) : h \in Int /\ h >= watches[s]
    <3>1. Scanned(s) = {h \in Heights : watches[s] <= h /\ h < Tip + 1}
      BY <1>3 DEF Scanned
    <3> QED
      BY <3>1 DEF Heights
  <2>2. FakeMatches(s) = {m \in {<<h, h>> : h \in Pays[s]} \cup Spends[s] : m[1] >= watches[s]}
    BY <1>3 DEF FakeMatches
  <2>3. ASSUME NEW p \in Expected(s, Scanned(s))
        PROVE  p \in {<<h, h>> : h \in Pays[s]} \cup Spends[s] /\ p[1] \in Scanned(s)
    BY <2>3 DEF Expected
  <2> QED
    BY <1>1, <2>1, <2>2, <2>3
<1> QED
  BY <1>2, <1>3

LEMMA ServeShows ==
  AdapterInv /\ SpendsInv /\ ServeInv => ScannedIsReported
<1> SUFFICES ASSUME AdapterInv, SpendsInv, ServeInv, givenUp = 0, ~ straggler,
                    NEW s \in Served, s \in DOMAIN watches
             PROVE  Expected(s, Scanned(s)) \subseteq Reported(s)
  BY DEF ScannedIsReported, NothingPassedOver
<1>1. acked # <<>> /\ alive
  BY DEF Served
<1>2. Serves
  BY <1>1 DEF ServeInv, Smooth
<1>3. s \in Scripts
  BY DEF AdapterInv, WatchInv
<1>4. impl \in {"neutrino", "kyoto", "nakamoto", "wasabi", "fake"}
  BY AdapterAssumption DEF AdapterInv, FlagInv
<1>5. ASSUME impl # "fake", Done(outpoints, matches, s, Scanned(s))
      PROVE  Expected(s, Scanned(s)) \subseteq Reported(s)
  BY <1>3, <1>5, DoneReports
<1>6. impl \in {"neutrino", "nakamoto"} => s = LastAcked
  BY <1>1 DEF Served, LastAcked
<1>7. impl # "fake" => s \in AckedSet /\ s \in DOMAIN outpoints
  <2> SUFFICES ASSUME impl # "fake"
               PROVE  s \in AckedSet /\ s \in DOMAIN outpoints
    OBVIOUS
  <2>1. AckInv
    BY <1>2 DEF Serves
  <2>2. s \in AckedSet
    <3>1. CASE impl \in {"neutrino", "nakamoto"}
      BY <1>1, <1>6, <2>1, <3>1, AckedIs DEF AckInv, LastAcked
    <3>2. CASE impl \notin {"neutrino", "nakamoto"}
      BY <1>1, <3>2 DEF Served, AckedSet
    <3> QED
      BY <3>1, <3>2
  <2> QED
    BY <2>1, <2>2 DEF AckInv
<1>8. impl # "fake" => Done(outpoints, matches, s, {})
  BY <1>7 DEF Done
<1>9. ASSUME impl \in {"neutrino", "kyoto", "nakamoto"}
      PROVE  Scanned(s) = IF Scanner = 0 THEN {} ELSE Passed(watches[s], scan[Scanner], missed)
  BY <1>9 DEF Scanned, Passed, Below
<1>10. CASE impl = "neutrino"
  <2>1. Scanner = rescanQuit
    BY <1>10 DEF Scanner
  <2>2. rescanQuit # 0 => Done(outpoints, matches, s, Passed(watches[s], scan[rescanQuit], missed))
    BY <1>1, <1>2, <1>6, <1>10 DEF Serves, NeutrinoScanInv
  <2> QED
    BY <1>5, <1>8, <1>9, <1>10, <2>1, <2>2
<1>11. CASE impl = "kyoto"
  <2>1. Scanner = inst
    BY <1>11 DEF Scanner
  <2>2. inst # 0 => Done(outpoints, matches, s, Passed(watches[s], scan[inst], missed))
    BY <1>2, <1>7, <1>11 DEF Serves, KyotoServeInv
  <2> QED
    BY <1>5, <1>8, <1>9, <1>11, <2>1, <2>2
<1>12. CASE impl = "nakamoto"
  <2>1. Scanner = inst
    BY <1>12 DEF Scanner
  <2>2. inst # 0 => Done(outpoints, matches, s, Passed(watches[s], scan[inst], missed))
    BY <1>1, <1>2, <1>6, <1>12 DEF Serves, NakamotoScanInv
  <2> QED
    BY <1>5, <1>8, <1>9, <1>12, <2>1, <2>2
<1>13. CASE impl = "wasabi"
  <2>1. Scanned(s) = Below(watches[s], cursor[s]) \ missed
    BY <1>13 DEF Scanned, Below
  <2>2. Done(outpoints, matches, s, Below(watches[s], cursor[s]) \ missed)
    BY <1>2, <1>13 DEF Serves, WasabiScanInv, WasabiServeInv
  <2> QED
    BY <1>5, <1>13, <2>1, <2>2
<1>14. CASE impl = "fake"
  BY <1>3, <1>14, FakeReports
<1> QED
  BY <1>4, <1>10, <1>11, <1>12, <1>13, <1>14

\* The heights that an adapter is done with hold no match that it has not
\* reported, whichever adapter it is and however a /watch-script, a rescan, a
\* block that comes late, a download that fails and a new configuration
\* interleave, while no call was given up and no scan has outlived its client.
THEOREM ScannedAlwaysReported == Spec => []ScannedIsReported
<1> QED
  BY InvInit, AdapterStep, OneInvInit, OneStep, SpendsInit, SpendsStep, ServeInit, ServeStep,
     ServeShows, PTL DEF Spec
=============================================================================
