------------------------------ MODULE PeerLab ------------------------------
(***************************************************************************)
(* The simulated peers of peerlab/server.go: a listener with its accept    *)
(* loop, one handler goroutine for each connection, the delays and faults  *)
(* of the Behavior, and the transcript that scenarios read their evidence  *)
(* from.  The light client on the other end of a connection may dial, send *)
(* requests and hang up whenever it likes.                                 *)
(*                                                                         *)
(* A handler works in steps other goroutines interleave with: it reads a   *)
(* message, and for each reply asks for the delay, sleeps, records the     *)
(* reply in the transcript and only then writes it to the connection.      *)
(***************************************************************************)
EXTENDS ChainServer, SequencesExt

CONSTANTS
  Servers,       \* the peers of a scenario
  Conns,         \* connections the light client may open to each of them
  Requests,      \* the messages a light client may send
  MaxRequests    \* bound on the messages sent to one peer, over all connections

ASSUME PeerLabAssumption == MaxRequests \in Nat /\ Requests \subseteq Request

VARIABLES
  behavior,      \* behavior[s]: the faults s injects (fixed at NewServer)
  listener,      \* listener[s]: "new", "open" or "closed"
  onceLeft,      \* onceLeft[s]: commands whose one-shot delay is still due
  transcript,    \* transcript[s]: what s recorded, oldest first
  link,          \* link[s][c]: state of the TCP connection, see PeerTypeOK
  inbox,         \* inbox[s][c]: messages sent by the client, not yet read
  phase,         \* phase[s][c]: what the handler goroutine is about to do
  todo,          \* todo[s][c]: the replies it has still to write
  sent,          \* sent[s][c]: every message the client sent (history)
  got,           \* got[s][c]: every reply that reached the client (history)
  slept          \* slept[s]: the one-shot delays taken so far (history)

serverVars == <<listener, onceLeft, transcript>>
connVars   == <<link, inbox, phase, todo>>
peerVars   == <<behavior, serverVars, connVars, sent, got, slept>>

-----------------------------------------------------------------------------

\* A reply as the transcript and the client see it: its command and whether
\* the behavior altered it.  The transcript of the code has the command only;
\* the second field is there for the properties and no action reads it.
Abstracted(s, req) ==
  LET r == Replies(behavior[s], req)
  IN  [i \in DOMAIN r |-> [cmd |-> r[i].cmd, alt |-> Altered(behavior[s], req, i)]]

Entry(c, dir, cmd, alt) == [conn |-> c, dir |-> dir, cmd |-> cmd, alt |-> alt]

PeerInit ==
  /\ listener   = [s \in Servers |-> "new"]
  /\ onceLeft   = [s \in Servers |-> behavior[s].delayOnce]
  /\ transcript = [s \in Servers |-> <<>>]
  /\ link       = [s \in Servers |-> [c \in Conns |-> "none"]]
  /\ inbox      = [s \in Servers |-> [c \in Conns |-> <<>>]]
  /\ phase      = [s \in Servers |-> [c \in Conns |-> "none"]]
  /\ todo       = [s \in Servers |-> [c \in Conns |-> <<>>]]
  /\ sent       = [s \in Servers |-> [c \in Conns |-> <<>>]]
  /\ got        = [s \in Servers |-> [c \in Conns |-> <<>>]]
  /\ slept      = [s \in Servers |-> {}]

\* Start: listen, and run the accept loop.
StartServer(s) ==
  /\ listener[s] = "new"
  /\ listener' = [listener EXCEPT ![s] = "open"]
  /\ UNCHANGED <<behavior, onceLeft, transcript, connVars, sent, got, slept>>

\* Stop closes the listener, which resets the connections the accept loop has
\* not taken yet.  The accepted ones live on until their handler sees an error.
StopServer(s) ==
  /\ listener[s] = "open"
  /\ listener' = [listener EXCEPT ![s] = "closed"]
  /\ link' = [link EXCEPT ![s] = [c \in Conns |->
                IF link[s][c] = "queued" THEN "closed" ELSE link[s][c]]]
  /\ UNCHANGED <<behavior, onceLeft, transcript, inbox, phase, todo, sent, got, slept>>

-----------------------------------------------------------------------------
(* The light client's end of a connection. *)

Dial(s, c) ==
  /\ link[s][c] = "none"
  /\ listener[s] = "open"
  /\ link' = [link EXCEPT ![s][c] = "queued"]
  /\ UNCHANGED <<behavior, serverVars, inbox, phase, todo, sent, got, slept>>

Send(s, c, req) ==
  /\ link[s][c] \in {"queued", "open"}
  /\ MapThenSumSet(LAMBDA d : Len(sent[s][d]), Conns) < MaxRequests
  /\ inbox' = [inbox EXCEPT ![s][c] = Append(@, req)]
  /\ sent'  = [sent EXCEPT ![s][c] = Append(@, req)]
  /\ UNCHANGED <<behavior, serverVars, link, phase, todo, got, slept>>

\* Of a connection that is still queued, a hangup shows when it is accepted.
Hangup(s, c) ==
  /\ link[s][c] = "open"
  /\ link' = [link EXCEPT ![s][c] = "hungup"]
  /\ UNCHANGED <<behavior, serverVars, inbox, phase, todo, sent, got, slept>>

-----------------------------------------------------------------------------
(* The goroutines of the server. *)

Accept(s, c) ==
  /\ listener[s] = "open"
  /\ link[s][c] = "queued"
  /\ link'  = [link EXCEPT ![s][c] = "open"]
  /\ phase' = [phase EXCEPT ![s][c] = "read"]
  /\ UNCHANGED <<behavior, serverVars, inbox, todo, sent, got, slept>>

\* Seeded fault for AnswersInOrder: the latest message is answered first.
ReadLatest(s, c) ==
  /\ phase[s][c] = "read"
  /\ inbox[s][c] # <<>>
  /\ LET req == Last(inbox[s][c])
     IN  /\ inbox' = [inbox EXCEPT ![s][c] = Front(@)]
         /\ transcript' = [transcript EXCEPT ![s] = Append(@, Entry(c, "in", req.cmd, FALSE))]
         /\ IF Fails(req)
            THEN /\ phase' = [phase EXCEPT ![s][c] = "gone"]
                 /\ link'  = [link EXCEPT ![s][c] = "closed"]
                 /\ UNCHANGED todo
            ELSE /\ todo'  = [todo EXCEPT ![s][c] = Abstracted(s, req)]
                 /\ phase' = [phase EXCEPT ![s][c] =
                                IF Abstracted(s, req) = <<>> THEN "read" ELSE "write"]
                 /\ UNCHANGED link
  /\ UNCHANGED <<behavior, listener, onceLeft, sent, got, slept>>

\* ReadMessage returns the next message: it is recorded and handleMessage
\* computes its replies.  A request that fails is recorded as an outbound
\* "error" and ends the handler, whose deferred Close ends the connection.
\* Replies depend on the fixture and the behavior only, which never change.
\* Messages that ReadMessage cannot decode are left out.
Read(s, c) ==
  /\ phase[s][c] = "read"
  /\ inbox[s][c] # <<>>
  /\ LET req     == Head(inbox[s][c])
         replies == Abstracted(s, req)
         in      == Entry(c, "in", req.cmd, FALSE)
     IN  /\ inbox' = [inbox EXCEPT ![s][c] = Tail(@)]
         /\ IF Fails(req)
            THEN /\ transcript' = [transcript EXCEPT ![s] =
                                     @ \o <<in, Entry(c, "out", "error", FALSE)>>]
                 /\ phase' = [phase EXCEPT ![s][c] = "gone"]
                 /\ link'  = [link EXCEPT ![s][c] = "closed"]
                 /\ UNCHANGED todo
            ELSE /\ transcript' = [transcript EXCEPT ![s] = Append(@, in)]
                 /\ todo'  = [todo EXCEPT ![s][c] = replies]
                 /\ phase' = [phase EXCEPT ![s][c] =
                                IF replies = <<>> THEN "read" ELSE "write"]
                 /\ UNCHANGED link
  /\ UNCHANGED <<behavior, listener, onceLeft, sent, got, slept>>

\* The client hung up and everything it sent has been read.
ReadEOF(s, c) ==
  /\ phase[s][c] = "read"
  /\ inbox[s][c] = <<>>
  /\ link[s][c] = "hungup"
  /\ transcript' = [transcript EXCEPT ![s] = Append(@, Entry(c, "in", "disconnect", FALSE))]
  /\ phase' = [phase EXCEPT ![s][c] = "gone"]
  /\ link'  = [link EXCEPT ![s][c] = "closed"]
  /\ UNCHANGED <<behavior, listener, onceLeft, inbox, todo, sent, got, slept>>

\* Seeded fault for OneShotDelaysFirstReply: the entry is not deleted.
TakeDelayKept(s, c) ==
  /\ phase[s][c] = "write"
  /\ LET cmd == Head(todo[s][c]).cmd
     IN  /\ slept' = IF cmd \in onceLeft[s]
                     THEN [slept EXCEPT ![s] =
                             @ \cup {[conn |-> c, cmd |-> cmd, after |-> Len(transcript[s])]}]
                     ELSE slept
         /\ phase' = [phase EXCEPT ![s][c] =
                        IF cmd \in onceLeft[s] \cup behavior[s].delay
                        THEN "asleep" ELSE "record"]
  /\ UNCHANGED <<behavior, serverVars, link, inbox, todo, sent, got>>

\* delayFor, under the server's mutex: the one-shot delay is used up by the
\* first connection that asks for it.
TakeDelay(s, c) ==
  /\ phase[s][c] = "write"
  /\ LET cmd == Head(todo[s][c]).cmd
     IN  /\ IF cmd \in onceLeft[s]
            THEN /\ onceLeft' = [onceLeft EXCEPT ![s] = @ \ {cmd}]
                 /\ slept' = [slept EXCEPT ![s] =
                               @ \cup {[conn |-> c, cmd |-> cmd, after |-> Len(transcript[s])]}]
            ELSE UNCHANGED <<onceLeft, slept>>
         /\ phase' = [phase EXCEPT ![s][c] =
                        IF cmd \in onceLeft[s] \cup behavior[s].delay
                        THEN "asleep" ELSE "record"]
  /\ UNCHANGED <<behavior, listener, transcript, link, inbox, todo, sent, got>>

\* Seeded fault for RequestsAreServed: a sleep only ends while the server runs.
WakeWhileOpen(s, c) ==
  /\ phase[s][c] = "asleep"
  /\ listener[s] = "open"
  /\ phase' = [phase EXCEPT ![s][c] = "record"]
  /\ UNCHANGED <<behavior, serverVars, link, inbox, todo, sent, got, slept>>

\* time.Sleep returns.  Nothing interrupts it, not even Stop.
Wake(s, c) ==
  /\ phase[s][c] = "asleep"
  /\ phase' = [phase EXCEPT ![s][c] = "record"]
  /\ UNCHANGED <<behavior, serverVars, link, inbox, todo, sent, got, slept>>

\* Seeded fault for DeliveredIsRecorded: the reply is written before it is
\* recorded, and recorded only if the server is still running.
RecordReplyLate(s, c) ==
  /\ phase[s][c] = "record"
  /\ got' = [got EXCEPT ![s][c] = Append(@, Head(todo[s][c]))]
  /\ todo' = [todo EXCEPT ![s][c] = Tail(@)]
  /\ phase' = [phase EXCEPT ![s][c] = IF Tail(todo[s][c]) = <<>> THEN "read" ELSE "write"]
  /\ transcript' = IF listener[s] = "open"
                   THEN [transcript EXCEPT ![s] = Append(@,
                           Entry(c, "out", Head(todo[s][c]).cmd, Head(todo[s][c]).alt))]
                   ELSE transcript
  /\ UNCHANGED <<behavior, listener, onceLeft, link, inbox, sent, slept>>

RecordReply(s, c) ==
  /\ phase[s][c] = "record"
  /\ transcript' = [transcript EXCEPT ![s] =
                      Append(@, Entry(c, "out", Head(todo[s][c]).cmd, Head(todo[s][c]).alt))]
  /\ phase' = [phase EXCEPT ![s][c] = "send"]
  /\ UNCHANGED <<behavior, listener, onceLeft, link, inbox, todo, sent, got, slept>>

\* Seeded fault for PeerTypeOK: the loop over the replies does not end.
WriteReplyOnceMore(s, c) ==
  /\ phase[s][c] = "send"
  /\ got' = IF link[s][c] = "open"
            THEN [got EXCEPT ![s][c] = Append(@, Head(todo[s][c]))] ELSE got
  /\ todo'  = [todo EXCEPT ![s][c] = Tail(@)]
  /\ phase' = [phase EXCEPT ![s][c] = "write"]
  /\ UNCHANGED <<behavior, serverVars, link, inbox, sent, slept>>

\* WriteMessage succeeds.  After the client hung up the bytes may still be
\* accepted by the kernel, and then reach nobody.  A client that leaves its
\* connection open reads: that a full buffer blocks the handler is left out.
WriteReply(s, c) ==
  /\ phase[s][c] = "send"
  /\ got' = IF link[s][c] = "open"
            THEN [got EXCEPT ![s][c] = Append(@, Head(todo[s][c]))] ELSE got
  /\ todo'  = [todo EXCEPT ![s][c] = Tail(@)]
  /\ phase' = [phase EXCEPT ![s][c] = IF Tail(todo[s][c]) = <<>> THEN "read" ELSE "write"]
  /\ UNCHANGED <<behavior, serverVars, link, inbox, sent, slept>>

\* WriteMessage fails: the error is recorded and the handler returns.
WriteFails(s, c) ==
  /\ phase[s][c] = "send"
  /\ link[s][c] = "hungup"
  /\ transcript' = [transcript EXCEPT ![s] = Append(@, Entry(c, "out", "error", FALSE))]
  /\ phase' = [phase EXCEPT ![s][c] = "gone"]
  /\ link'  = [link EXCEPT ![s][c] = "closed"]
  /\ UNCHANGED <<behavior, listener, onceLeft, inbox, todo, sent, got, slept>>

-----------------------------------------------------------------------------

ClientStep(s, c) ==
  \/ Dial(s, c)
  \/ \E req \in Requests : Send(s, c, req)
  \/ Hangup(s, c)

HandlerStep(s, c) ==
  \/ Accept(s, c)
  \/ Read(s, c)
  \/ ReadEOF(s, c)
  \/ TakeDelay(s, c)
  \/ Wake(s, c)
  \/ RecordReply(s, c)
  \/ WriteReply(s, c)
  \/ WriteFails(s, c)

PeerNext ==
  \/ \E s \in Servers : StartServer(s) \/ StopServer(s)
  \/ \E s \in Servers, c \in Conns : ClientStep(s, c) \/ HandlerStep(s, c)

\* The scheduler runs every goroutine that can run, and every sleep is finite.
PeerFairness == \A s \in Servers, c \in Conns : WF_peerVars(HandlerStep(s, c))

PeerSpec == PeerInit /\ [][PeerNext]_peerVars

-----------------------------------------------------------------------------
(* Properties. *)

EntryType ==
  [conn : Conns, dir : {"in", "out"}, alt : BOOLEAN,
   cmd : {req.cmd : req \in Requests} \cup ReplyCommands \cup {"error", "disconnect"}]

\* A connection is "queued" until the accept loop takes it, "hungup" once the
\* client closed it, and "closed" when the server closed its end as well.
PeerTypeOK ==
  /\ listener \in [Servers -> {"new", "open", "closed"}]
  /\ \A s \in Servers : onceLeft[s] \subseteq behavior[s].delayOnce
  /\ transcript \in [Servers -> Seq(EntryType)]
  /\ link  \in [Servers -> [Conns -> {"none", "queued", "open", "hungup", "closed"}]]
  /\ inbox \in [Servers -> [Conns -> Seq(Requests)]]
  /\ phase \in [Servers -> [Conns -> {"none", "read", "write", "asleep", "record", "send", "gone"}]]
  /\ todo  \in [Servers -> [Conns -> Seq([cmd : ReplyCommands, alt : BOOLEAN])]]
  /\ \A s \in Servers, c \in Conns :
       /\ phase[s][c] \in {"write", "asleep", "record", "send"} => todo[s][c] # <<>>
       /\ phase[s][c] \in {"none", "read"} => todo[s][c] = <<>>
       /\ phase[s][c] = "gone" => link[s][c] = "closed"

\* Where s recorded the replies over connection c, the closing "error" left out.
OutAt(s, c) ==
  {i \in DOMAIN transcript[s] :
     /\ transcript[s][i].conn = c
     /\ transcript[s][i].dir = "out"
     /\ transcript[s][i].cmd # "error"}

\* Every reply of the requests sent over connection c, up to the first failure.
ExpectedOut(s, c) ==
  LET reqs   == sent[s][c]
      failed == {i \in DOMAIN reqs : Fails(reqs[i])}
      last   == IF failed = {} THEN Len(reqs)
                ELSE (CHOOSE i \in failed : \A j \in failed : i <= j) - 1
  IN  FlattenSeq([i \in 1 .. last |-> Abstracted(s, reqs[i])])

\* Scenarios take the transcript as their evidence of what a client was served
\* (write records before it writes): whatever reached the client is in the
\* transcript already, in the same order, with no reply left out between: the
\* k-th reply delivered over a connection is the k-th recorded for it.
DeliveredIsRecorded ==
  \A s \in Servers, c \in Conns : \A k \in DOMAIN got[s][c] : \E i \in OutAt(s, c) :
    /\ Cardinality({j \in OutAt(s, c) : j <= i}) = k
    /\ transcript[s][i].cmd = got[s][c][k].cmd
    /\ transcript[s][i].alt = got[s][c][k].alt

\* One handler serves a connection (handleConn): however connections, sleeps
\* and Stop interleave, its client receives the replies to its own requests,
\* in the order it sent them, and never one of another connection.
AnswersInOrder ==
  \A s \in Servers, c \in Conns : IsPrefix(got[s][c], ExpectedOut(s, c))

\* A DelayOnceByCommand entry (delayFor) delays one reply over all connections,
\* and that reply is the first of its command: none was recorded before it.
OneShotDelaysFirstReply ==
  \A s \in Servers : \A d, e \in slept[s] :
    /\ d.cmd = e.cmd => d = e
    /\ \A i \in 1 .. d.after : ~(transcript[s][i].dir = "out" /\ transcript[s][i].cmd = d.cmd)

\* A handler never blocks for good on a delay, on the transcript's mutex or on
\* a stopped server: it gets through what its client sent, or closes the
\* connection.  A connection waiting in an open listener is taken.
RequestsAreServed ==
  \A s \in Servers, c \in Conns :
    /\ phase[s][c] # "none" ~>
         \/ phase[s][c] = "gone"
         \/ phase[s][c] = "read" /\ inbox[s][c] = <<>>
    /\ link[s][c] = "queued" ~> link[s][c] # "queued"
=============================================================================
