------------------------- MODULE PeerAnswersProofs -------------------------
(***************************************************************************)
(* A connection of a simulated peer is answered in order: for every number *)
(* of peers, connections and requests, and every behavior, what a client   *)
(* receives is the beginning of the replies to what it sent.               *)
(*                                                                         *)
(* The replies of several requests are put in a row by FlattenSeq, whose   *)
(* definition is a recursive function: the first lemmas say what it is.    *)
(***************************************************************************)
EXTENDS PeerLabProofs, WellFoundedInduction

-----------------------------------------------------------------------------
(* Sequences in a row. *)

LEMMA LeastExists ==
  ASSUME NEW S, S \subseteq Nat, S # {}
  PROVE  \E k \in S : \A j \in S : k <= j
<1>1. PICK k \in S : \A j \in S : <<j, k>> \notin OpToRel(<, Nat)
  BY WFMin, NatLessThanWellFounded, Zenon
<1>2. \A j \in S : ~(j < k)
  BY <1>1, Zenon DEF OpToRel
<1>3. \A j \in S : j \in Nat
  OBVIOUS
<1> QED
  BY <1>2, <1>3

\* g[i] is what the first i sequences of r make in a row.
IsFlat(r, n, g) ==
  \A i \in 1 .. n : g[i] = IF i = 1 THEN r[1] ELSE g[i - 1] \o r[i]

LEMMA FlatExists ==
  ASSUME NEW T, NEW n \in Nat, NEW r \in [1 .. n -> Seq(T)]
  PROVE  \E g \in [1 .. n -> Seq(T)] : IsFlat(r, n, g)
<1> DEFINE Made(m) == \E g \in [1 .. m -> Seq(T)] : IsFlat(r, m, g)
           Bad == {m \in 0 .. n : ~ Made(m)}
<1>1. ASSUME Bad # {} PROVE FALSE
  <2>0. Bad \subseteq Nat
    OBVIOUS
  <2>1. PICK m \in Bad : \A k \in Bad : m <= k
    <3> HIDE DEF Bad
    <3> QED BY <1>1, <2>0, LeastExists
  <2>2. m \in 0 .. n /\ ~ Made(m)
    OBVIOUS
  <2>3. CASE m = 0
    <3> DEFINE g == [i \in 1 .. 0 |-> <<>>]
    <3>1. g \in [1 .. m -> Seq(T)]
      BY <2>3
    <3>2. IsFlat(r, m, g)
      BY <2>3 DEF IsFlat
    <3> QED
      BY <2>2, <3>1, <3>2
  <2>4. CASE m # 0
    <3>1. m - 1 \in 0 .. n /\ m - 1 \notin Bad
      <4>1. ~(m <= m - 1)
        BY <2>2
      <4>2. m - 1 \in 0 .. n
        BY <2>2, <2>4
      <4> QED
        BY <2>1, <4>1, <4>2
    <3>2. PICK g \in [1 .. m - 1 -> Seq(T)] : IsFlat(r, m - 1, g)
      BY <3>1
    <3> DEFINE x == IF m = 1 THEN r[1] ELSE g[m - 1] \o r[m]
    <3>3. x \in Seq(T)
      <4>1. m \in 1 .. n /\ r[m] \in Seq(T)
        BY <2>2, <2>4
      <4>2. m # 1 => m - 1 \in 1 .. m - 1
        BY <2>2, <2>4
      <4>3. m # 1 => g[m - 1] \in Seq(T)
        BY <4>2
      <4> QED
        BY <4>1, <4>3
    <3> HIDE DEF x
    <3> DEFINE h == [i \in 1 .. m |-> IF i = m THEN x ELSE g[i]]
    <3>4. h \in [1 .. m -> Seq(T)]
      <4>1. \A i \in 1 .. m : i # m => i \in 1 .. m - 1
        BY <2>2
      <4> QED
        BY <3>3, <4>1
    <3>5. IsFlat(r, m, h)
      <4> SUFFICES ASSUME NEW i \in 1 .. m
                   PROVE  h[i] = IF i = 1 THEN r[1] ELSE h[i - 1] \o r[i]
        BY DEF IsFlat
      <4>1. i # 1 => i - 1 \in 1 .. m /\ h[i - 1] = g[i - 1]
        BY <2>2
      <4>2. CASE i = m
        BY <4>1, <4>2 DEF x
      <4>3. CASE i # m
        <5>1. i \in 1 .. m - 1
          BY <4>3, <2>2
        <5>2. g[i] = IF i = 1 THEN r[1] ELSE g[i - 1] \o r[i]
          BY <3>2, <5>1 DEF IsFlat
        <5> QED
          BY <4>1, <4>3, <5>2
      <4> QED
        BY <4>2, <4>3
    <3> QED
      BY <2>2, <3>4, <3>5
  <2> QED
    BY <2>3, <2>4
<1>2. n \notin Bad
  BY <1>1
<1> QED
  BY <1>2

\* The first n elements of r and q are the same.
Agree(r, q, n) == \A i \in 1 .. n : r[i] = q[i]

LEMMA FlatUnique ==
  ASSUME NEW n \in Nat, NEW r, NEW g, NEW h, IsFlat(r, n, g), IsFlat(r, n, h)
  PROVE  Agree(g, h, n)
<1> DEFINE Bad == {i \in 1 .. n : g[i] # h[i]}
<1>1. ASSUME Bad # {} PROVE FALSE
  <2>1. Bad \subseteq Nat
    OBVIOUS
  <2>2. PICK m \in Bad : \A k \in Bad : m <= k
    <3> HIDE DEF Bad
    <3> QED BY <1>1, <2>1, LeastExists
  <2>3. m \in 1 .. n /\ g[m] # h[m]
    OBVIOUS
  <2>4. m # 1
    BY <2>3 DEF IsFlat
  <2>5. m - 1 \in 1 .. n /\ ~(m <= m - 1)
    BY <2>3, <2>4
  <2>6. g[m - 1] = h[m - 1]
    BY <2>2, <2>5
  <2> QED
    BY <2>3, <2>4, <2>6 DEF IsFlat
<1> QED
  BY <1>1 DEF Agree

LEMMA FlattenIs ==
  ASSUME NEW T, NEW n \in Nat \ {0}, NEW r \in [1 .. n -> Seq(T)]
  PROVE  \E g \in [1 .. n -> Seq(T)] : IsFlat(r, n, g) /\ FlattenSeq(r) = g[n]
<1>1. Len(r) = n /\ DOMAIN r = 1 .. n
  OBVIOUS
<1> DEFINE Eq(f) == f = [i \in 1 .. Len(r) |-> IF i = 1 THEN r[i] ELSE f[i - 1] \o r[i]]
           h == CHOOSE f : Eq(f)
<1>2. FlattenSeq(r) = h[n]
  BY <1>1 DEF FlattenSeq
<1>3. PICK g \in [1 .. n -> Seq(T)] : IsFlat(r, n, g)
  BY FlatExists
<1>4. Eq(g)
  BY <1>1, <1>3 DEF IsFlat
<1>5. Eq(h)
  <2> HIDE DEF Eq
  <2> QED BY <1>4
<1> HIDE DEF h
<1>6. IsFlat(r, n, h)
  BY <1>1, <1>5 DEF IsFlat
<1>7. h[n] = g[n]
  BY <1>3, <1>6, FlatUnique DEF Agree
<1> QED
  BY <1>2, <1>3, <1>7

\* q is the n sequences r and one more.
OneMore(T, r, q, n, m) ==
  /\ n \in Nat /\ m \in Nat /\ n < m /\ m <= n + 1
  /\ r \in [1 .. n -> Seq(T)] /\ q \in [1 .. m -> Seq(T)]
  /\ Agree(r, q, n)

\* One sequence more is appended to what the others make.
LEMMA FlattenGrows ==
  ASSUME NEW T, NEW r, NEW q, NEW n, NEW m, OneMore(T, r, q, n, m)
  PROVE  FlattenSeq(r) \in Seq(T) /\ FlattenSeq(q) = FlattenSeq(r) \o q[m]
<1> SUFFICES ASSUME n \in Nat, m \in Nat, n < m, m <= n + 1,
                    r \in [1 .. n -> Seq(T)], q \in [1 .. m -> Seq(T)], Agree(r, q, n)
             PROVE  FlattenSeq(r) \in Seq(T) /\ FlattenSeq(q) = FlattenSeq(r) \o q[m]
  BY DEF OneMore
<1>1. m \in Nat \ {0} /\ m \in 1 .. m
  OBVIOUS
<1>2. PICK g \in [1 .. m -> Seq(T)] : IsFlat(q, m, g) /\ FlattenSeq(q) = g[m]
  BY <1>1, FlattenIs
<1>3. /\ m = 1 => g[m] = q[m]
      /\ m # 1 => g[m] = g[m - 1] \o q[m]
  <2>1. \A i \in 1 .. m : g[i] = IF i = 1 THEN q[1] ELSE g[i - 1] \o q[i]
    BY <1>2 DEF IsFlat
  <2>2. g[m] = IF m = 1 THEN q[1] ELSE g[m - 1] \o q[m]
    BY <1>1, <2>1
  <2> QED
    BY <2>2
<1>4. CASE n = 0
  <2>1. FlattenSeq(r) = <<>>
    <3>1. Len(r) = 0 /\ r = <<>>
      BY <1>4
    <3> QED
      BY <3>1 DEF FlattenSeq
  <2>2. g[m] = q[m] /\ q[m] \in Seq(T)
    BY <1>1, <1>3, <1>4
  <2> QED
    BY <1>2, <2>1, <2>2
<1>5. CASE n # 0
  <2>1. PICK f \in [1 .. n -> Seq(T)] : IsFlat(r, n, f) /\ FlattenSeq(r) = f[n]
    <3>1. n \in Nat \ {0}
      BY <1>5
    <3> QED
      BY <3>1, FlattenIs
  <2>2. IsFlat(r, n, g)
    <3>1. \A i \in 1 .. n : i \in 1 .. m
      OBVIOUS
    <3>2. 1 \in 1 .. n
      BY <1>5
    <3> QED
      BY <1>2, <3>1, <3>2 DEF IsFlat, Agree
  <2>3. n \in 1 .. n
    BY <1>5
  <2>4. Agree(f, g, n)
    BY <2>1, <2>2, FlatUnique
  <2>5. m # 1 /\ m - 1 = n
    BY <1>5
  <2>6. f[n] \in Seq(T) /\ f[n] = g[n]
    BY <2>1, <2>3, <2>4 DEF Agree
  <2> QED
    BY <1>2, <1>3, <2>1, <2>5, <2>6
<1> QED
  BY <1>4, <1>5

LEMMA PrefixIff ==
  ASSUME NEW T, NEW p \in Seq(T), NEW t \in Seq(T)
  PROVE  IsPrefix(p, t) <=> Len(p) <= Len(t) /\ \A i \in 1 .. Len(p) : p[i] = t[i]
<1>1. CASE Len(p) <= Len(t)
  <2>1. SubSeq(p, 1, Len(p)) = p
    OBVIOUS
  <2>2. /\ SubSeq(t, 1, Len(p)) \in Seq(T)
        /\ Len(SubSeq(t, 1, Len(p))) = Len(p)
        /\ \A i \in 1 .. Len(p) : SubSeq(t, 1, Len(p))[i] = t[i]
    BY <1>1
  <2>3. p = SubSeq(t, 1, Len(p)) <=> \A i \in 1 .. Len(p) : p[i] = SubSeq(t, 1, Len(p))[i]
    BY <2>2, SeqEqual
  <2> QED
    BY <1>1, <2>1, <2>2, <2>3 DEF IsPrefix
<1>2. CASE ~(Len(p) <= Len(t))
  BY <1>2 DEF IsPrefix
<1> QED
  BY <1>1, <1>2

LEMMA PrefixOfConcat ==
  ASSUME NEW T, NEW p \in Seq(T), NEW t \in Seq(T), NEW x \in Seq(T)
  PROVE  /\ IsPrefix(p, p)
         /\ IsPrefix(p, t) => IsPrefix(p, t \o x)
<1>1. IsPrefix(p, p)
  BY PrefixIff
<1>2. ASSUME IsPrefix(p, t) PROVE IsPrefix(p, t \o x)
  <2>1. t \o x \in Seq(T) /\ Len(t \o x) = Len(t) + Len(x)
    OBVIOUS
  <2>2. \A i \in 1 .. Len(t) : (t \o x)[i] = t[i]
    OBVIOUS
  <2>3. Len(p) <= Len(t) /\ \A i \in 1 .. Len(p) : p[i] = t[i]
    BY <1>2, PrefixIff
  <2>4. Len(p) <= Len(t \o x) /\ \A i \in 1 .. Len(p) : p[i] = (t \o x)[i]
    BY <2>1, <2>2, <2>3
  <2> QED
    BY <2>1, <2>4, PrefixIff
<1> QED
  BY <1>1, <1>2

LEMMA PrefixTrans ==
  ASSUME NEW T, NEW p \in Seq(T), NEW t \in Seq(T), NEW u \in Seq(T),
         IsPrefix(p, t), IsPrefix(t, u)
  PROVE  IsPrefix(p, u)
<1>1. Len(p) <= Len(t) /\ \A i \in 1 .. Len(p) : p[i] = t[i]
  BY PrefixIff
<1>2. Len(t) <= Len(u) /\ \A i \in 1 .. Len(t) : t[i] = u[i]
  BY PrefixIff
<1>3. Len(p) <= Len(u) /\ \A i \in 1 .. Len(p) : p[i] = u[i]
  BY <1>1, <1>2
<1> QED
  BY <1>3, PrefixIff

-----------------------------------------------------------------------------
(* The replies to several requests. *)

Reply == [cmd : ReplyCommands, alt : BOOLEAN]

\* What a peer with behavior b replies to req.
AnswerOf(b, req) ==
  [i \in DOMAIN Replies(b, req) |->
     [cmd |-> Replies(b, req)[i].cmd, alt |-> Altered(b, req, i)]]

\* What it replies to the first j of the requests.
AnswersTo(b, reqs, j) == FlattenSeq([i \in 1 .. j |-> AnswerOf(b, reqs[i])])

LEMMA AnswerType ==
  ASSUME NEW b, NEW req \in Requests
  PROVE  AnswerOf(b, req) \in Seq(Reply)
<1>1. req \in Request
  BY PeerLabAssumption
<1>2. RepliesShape(b, req)
  <2>1. req.cmd = "getcfilters" => req.start \in Int /\ req.stop \in Int
    BY <1>1 DEF Request
  <2>2. req.cmd = "getdata" => req.invs \in Seq(Int)
    BY <1>1 DEF Request
  <2> QED
    BY <2>1, <2>2, HeadersShape, CFHeadersShape, CFCheckptShape, CFiltersShape, BlocksShape, OtherShape
<1>3. PICK n \in Nat : /\ DOMAIN Replies(b, req) = 1 .. n
                       /\ \A i \in 1 .. n : Replies(b, req)[i].cmd \in ReplyCommands
  BY <1>2 DEF RepliesShape
<1>4. AnswerOf(b, req) \in [1 .. n -> Reply]
  BY <1>3 DEF AnswerOf, Reply, Altered
<1> QED
  BY <1>4, FunctionIsSeq

LEMMA AbstractedIsAnswer ==
  ASSUME NEW s, NEW req
  PROVE  Abstracted(s, req) = AnswerOf(behavior[s], req)
BY DEF Abstracted, AnswerOf

LEMMA AnswersGrow ==
  ASSUME NEW b, NEW reqs \in Seq(Requests), NEW j \in 0 .. Len(reqs)
  PROVE  /\ AnswersTo(b, reqs, 0) = <<>>
         /\ AnswersTo(b, reqs, j) \in Seq(Reply)
         /\ j < Len(reqs) =>
              AnswersTo(b, reqs, j + 1) = AnswersTo(b, reqs, j) \o AnswerOf(b, reqs[j + 1])
<1> DEFINE All(k) == [i \in 1 .. k |-> AnswerOf(b, reqs[i])]
<1>1. \A k \in 0 .. Len(reqs) : All(k) \in [1 .. k -> Seq(Reply)]
  BY AnswerType
<1>2. AnswersTo(b, reqs, 0) = <<>>
  <2>1. Len(All(0)) = 0 /\ All(0) = <<>>
    OBVIOUS
  <2> QED
    BY <2>1 DEF AnswersTo, FlattenSeq
<1>3. ASSUME NEW k \in 0 .. Len(reqs), k < Len(reqs)
      PROVE  /\ AnswersTo(b, reqs, k) \in Seq(Reply)
             /\ AnswersTo(b, reqs, k + 1) = AnswersTo(b, reqs, k) \o AnswerOf(b, reqs[k + 1])
  <2> DEFINE m  == k + 1
             lo == All(k)
             hi == All(m)
  <2>1. k \in Nat /\ m \in Nat /\ m \in 0 .. Len(reqs) /\ k < m /\ m <= k + 1
    BY <1>3
  <2>2. lo \in [1 .. k -> Seq(Reply)] /\ hi \in [1 .. m -> Seq(Reply)]
    BY <1>1, <2>1
  <2>3. Agree(lo, hi, k)
    BY <2>1 DEF Agree
  <2>4. hi[m] = AnswerOf(b, reqs[m])
    BY <2>1
  <2>5. AnswersTo(b, reqs, k) = FlattenSeq(lo) /\ AnswersTo(b, reqs, m) = FlattenSeq(hi)
    BY DEF AnswersTo
  <2>6. FlattenSeq(lo) \in Seq(Reply) /\ FlattenSeq(hi) = FlattenSeq(lo) \o hi[m]
    <3> HIDE DEF m, lo, hi
    <3>1. OneMore(Reply, lo, hi, k, m)
      BY <2>1, <2>2, <2>3 DEF OneMore
    <3> QED
      BY <3>1, FlattenGrows
  <2> QED
    BY <2>4, <2>5, <2>6
<1>4. AnswersTo(b, reqs, j) \in Seq(Reply)
  <2>1. CASE j = 0
    <3>1. AnswersTo(b, reqs, j) = <<>>
      BY <1>2, <2>1
    <3> QED
      BY <3>1
  <2>2. CASE j # 0
    <3>1. j - 1 \in 0 .. Len(reqs) /\ j - 1 < Len(reqs) /\ j - 1 + 1 = j /\ j \in 1 .. Len(reqs)
      BY <2>2
    <3>2. /\ AnswersTo(b, reqs, j - 1) \in Seq(Reply)
          /\ AnswersTo(b, reqs, j) = AnswersTo(b, reqs, j - 1) \o AnswerOf(b, reqs[j])
      BY <1>3, <3>1
    <3>3. AnswerOf(b, reqs[j]) \in Seq(Reply)
      BY <3>1, AnswerType
    <3> QED
      BY <3>2, <3>3
  <2> QED
    BY <2>1, <2>2
<1> QED
  BY <1>2, <1>3, <1>4

LEMMA AnswersPrefix ==
  ASSUME NEW b, NEW reqs \in Seq(Requests), NEW k \in 0 .. Len(reqs), NEW n \in k .. Len(reqs)
  PROVE  IsPrefix(AnswersTo(b, reqs, k), AnswersTo(b, reqs, n))
<1> DEFINE P(j) == IsPrefix(AnswersTo(b, reqs, k), AnswersTo(b, reqs, j))
           Bad  == {j \in k .. Len(reqs) : ~ P(j)}
<1>1. ASSUME Bad # {} PROVE FALSE
  <2>1. Bad \subseteq Nat
    OBVIOUS
  <2>2. PICK m \in Bad : \A j \in Bad : m <= j
    <3> HIDE DEF Bad
    <3> QED
      BY <1>1, <2>1, LeastExists
  <2>3. m \in k .. Len(reqs) /\ ~ P(m)
    OBVIOUS
  <2>4. P(k)
    BY AnswersGrow, PrefixOfConcat
  <2>5. m # k
    BY <2>3, <2>4
  <2>6. m - 1 \in k .. Len(reqs) /\ ~(m <= m - 1)
    BY <2>3, <2>5
  <2>7. P(m - 1)
    BY <2>2, <2>6
  <2>8. m - 1 \in 0 .. Len(reqs) /\ m - 1 < Len(reqs) /\ m - 1 + 1 = m /\ m \in 1 .. Len(reqs)
    BY <2>3, <2>6
  <2>9. /\ AnswersTo(b, reqs, m) = AnswersTo(b, reqs, m - 1) \o AnswerOf(b, reqs[m])
        /\ AnswersTo(b, reqs, m - 1) \in Seq(Reply)
        /\ AnswersTo(b, reqs, k) \in Seq(Reply)
    BY <2>8, AnswersGrow
  <2>10. AnswerOf(b, reqs[m]) \in Seq(Reply)
    BY <2>8, AnswerType
  <2> QED
    BY <2>3, <2>7, <2>9, <2>10, PrefixOfConcat
<1> QED
  BY <1>1

LEMMA AnswersOfMore ==
  ASSUME NEW b, NEW reqs \in Seq(Requests), NEW req \in Requests, NEW k \in 0 .. Len(reqs)
  PROVE  AnswersTo(b, Append(reqs, req), k) = AnswersTo(b, reqs, k)
<1>1. \A i \in 1 .. k : Append(reqs, req)[i] = reqs[i]
  OBVIOUS
<1>2. [i \in 1 .. k |-> AnswerOf(b, Append(reqs, req)[i])] = [i \in 1 .. k |-> AnswerOf(b, reqs[i])]
  BY <1>1
<1> QED
  BY <1>2 DEF AnswersTo

-----------------------------------------------------------------------------
(* The inductive invariant. *)

\* The messages of a connection that its handler has read.
ReadCount(s, c) == Len(sent[s][c]) - Len(inbox[s][c])

\* None of the first k messages failed.
Succeeded(reqs, k) == \A i \in 1 .. k : ~ Fails(reqs[i])

\* Unread messages are the last that were sent.
InboxInv(s, c) ==
  /\ sent[s][c] \in Seq(Requests)
  /\ Len(inbox[s][c]) <= Len(sent[s][c])
  /\ \A i \in 1 .. Len(inbox[s][c]) : inbox[s][c][i] = sent[s][c][ReadCount(s, c) + i]
  /\ link[s][c] \in {"none", "queued"} => Len(inbox[s][c]) = Len(sent[s][c])
  /\ phase[s][c] # "gone" => Succeeded(sent[s][c], ReadCount(s, c))

\* As long as the connection is open, what the client got and what the handler
\* has still to write are the replies to what was read.
OpenInv(s, c) ==
  link[s][c] = "open" =>
    got[s][c] \o todo[s][c] = AnswersTo(behavior[s], sent[s][c], ReadCount(s, c))

\* What the client got is the beginning of the replies to some requests, none
\* of which failed.
GotInv(s, c) ==
  \E m \in 0 .. ReadCount(s, c) :
    /\ Succeeded(sent[s][c], m)
    /\ IsPrefix(got[s][c], AnswersTo(behavior[s], sent[s][c], m))

SentTypeOK == sent \in [Servers -> [Conns -> Seq(Requests)]]

AnswerInv ==
  /\ SentTypeOK
  /\ \A s \in Servers, c \in Conns : InboxInv(s, c) /\ OpenInv(s, c) /\ GotInv(s, c)

ConnAnswers(s, c) == InboxInv(s, c) /\ OpenInv(s, c) /\ GotInv(s, c)

LEMMA ConnTypes ==
  ASSUME PeerInv, AnswerInv, NEW s \in Servers, NEW c \in Conns
  PROVE  /\ sent[s][c] \in Seq(Requests) /\ inbox[s][c] \in Seq(Requests)
         /\ got[s][c] \in Seq(Reply) /\ todo[s][c] \in Seq(Reply)
         /\ ConnAnswers(s, c)
         /\ ReadCount(s, c) \in 0 .. Len(sent[s][c])
         /\ link[s][c] = "open" => phase[s][c] # "gone"
<1>1. sent[s][c] \in Seq(Requests) /\ inbox[s][c] \in Seq(Requests)
  BY DEF AnswerInv, SentTypeOK, PeerInv, PeerTypeOK
<1>2. got[s][c] \in Seq(Reply) /\ todo[s][c] \in Seq(Reply)
  <2>1. got \in [Servers -> [Conns -> Seq(Reply)]] /\ todo \in [Servers -> [Conns -> Seq(Reply)]]
    BY DEF PeerInv, PeerTypeOK, HistoryTypeOK, Reply
  <2> QED
    BY <2>1
<1>3. ConnAnswers(s, c)
  BY DEF AnswerInv, ConnAnswers
<1>4. ReadCount(s, c) \in 0 .. Len(sent[s][c])
  <2>1. Len(inbox[s][c]) \in Nat /\ Len(sent[s][c]) \in Nat
    BY <1>1
  <2>2. Len(inbox[s][c]) <= Len(sent[s][c])
    BY <1>3 DEF ConnAnswers, InboxInv
  <2>3. \A i, j \in Nat : i <= j => j - i \in 0 .. j
    OBVIOUS
  <2> QED
    BY <2>1, <2>2, <2>3 DEF ReadCount
<1>5. link[s][c] = "open" => phase[s][c] # "gone"
  BY DEF PeerInv, PeerTypeOK
<1> QED
  BY <1>1, <1>2, <1>3, <1>4, <1>5

\* The state of a connection may change, and that of its handler.
SameData(s, c) ==
  /\ sent'[s][c] = sent[s][c] /\ inbox'[s][c] = inbox[s][c]
  /\ got'[s][c] = got[s][c] /\ todo'[s][c] = todo[s][c]
  /\ \/ link'[s][c] = link[s][c]
     \/ link'[s][c] \in {"hungup", "closed"}
     \/ link[s][c] = "none" /\ link'[s][c] = "queued"
  /\ phase[s][c] = "gone" => phase'[s][c] = "gone"

LEMMA SameDataKeeps ==
  ASSUME AnswerInv, behavior' = behavior, NEW s \in Servers, NEW c \in Conns, SameData(s, c)
  PROVE  ConnAnswers(s, c)'
<1>1. InboxInv(s, c) /\ OpenInv(s, c) /\ GotInv(s, c)
  BY DEF AnswerInv
<1>2. ReadCount(s, c)' = ReadCount(s, c)
  BY DEF SameData, ReadCount
<1>3. InboxInv(s, c)'
  BY <1>1, <1>2 DEF SameData, InboxInv
<1>4. OpenInv(s, c)'
  BY <1>1, <1>2 DEF SameData, OpenInv
<1>5. GotInv(s, c)'
  BY <1>1, <1>2 DEF SameData, GotInv
<1> QED
  BY <1>3, <1>4, <1>5 DEF ConnAnswers

LEMMA AppendIs ==
  ASSUME NEW S, NEW q \in Seq(S), NEW e \in S
  PROVE  /\ Append(q, e) \in Seq(S) /\ Len(Append(q, e)) = Len(q) + 1
         /\ \A i \in 1 .. Len(q) : Append(q, e)[i] = q[i]
         /\ Append(q, e)[Len(q) + 1] = e
OBVIOUS

LEMMA SendAnswers ==
  ASSUME PeerInv, AnswerInv, NEW s \in Servers, NEW c \in Conns, NEW req \in Requests,
         Send(s, c, req)
  PROVE  ConnAnswers(s, c)'
<1> DEFINE reqs  == sent[s][c]
           unread == inbox[s][c]
           k     == ReadCount(s, c)
<1>1. /\ reqs \in Seq(Requests) /\ unread \in Seq(Requests) /\ k \in 0 .. Len(reqs)
      /\ InboxInv(s, c) /\ OpenInv(s, c) /\ GotInv(s, c)
  BY ConnTypes DEF ConnAnswers
<1>2. /\ behavior' = behavior /\ link' = link /\ phase' = phase /\ todo' = todo /\ got' = got
  BY DEF Send
<1>3. sent'[s][c] = Append(reqs, req) /\ inbox'[s][c] = Append(unread, req)
  BY DEF Send, AnswerInv, SentTypeOK, PeerInv, PeerTypeOK
<1>4. /\ Append(reqs, req) \in Seq(Requests) /\ Len(Append(reqs, req)) = Len(reqs) + 1
      /\ \A i \in 1 .. Len(reqs) : Append(reqs, req)[i] = reqs[i]
      /\ Append(reqs, req)[Len(reqs) + 1] = req
      /\ Len(Append(unread, req)) = Len(unread) + 1
      /\ \A i \in 1 .. Len(unread) : Append(unread, req)[i] = unread[i]
      /\ Append(unread, req)[Len(unread) + 1] = req
  <2> HIDE DEF reqs, unread, k
  <2> QED
    BY <1>1, AppendIs
<1>5. ReadCount(s, c)' = k /\ k = Len(reqs) - Len(unread)
  <2>1. Len(unread) \in Nat /\ Len(reqs) \in Nat
    BY <1>1
  <2>2. Len(sent'[s][c]) = Len(reqs) + 1 /\ Len(inbox'[s][c]) = Len(unread) + 1
    BY <1>3, <1>4
  <2> QED
    BY <2>1, <2>2 DEF ReadCount
<1>6. Len(unread) \in Nat /\ Len(reqs) \in Nat /\ Len(unread) <= Len(reqs)
  BY <1>1 DEF InboxInv
<1>7. InboxInv(s, c)'
  <2> HIDE DEF reqs, unread, k
  <2>1. \A i \in 1 .. Len(unread) : unread[i] = reqs[k + i]
    BY <1>1 DEF InboxInv, reqs, unread, k
  <2>2. \A i \in 1 .. Len(unread) + 1 : Append(unread, req)[i] = Append(reqs, req)[k + i]
    <3> SUFFICES ASSUME NEW i \in 1 .. Len(unread) + 1
                 PROVE  Append(unread, req)[i] = Append(reqs, req)[k + i]
      OBVIOUS
    <3>1. CASE i = Len(unread) + 1
      <4>1. k + i = Len(reqs) + 1
        BY <1>5, <1>6, <3>1
      <4> QED
        BY <1>4, <3>1, <4>1
    <3>2. CASE i # Len(unread) + 1
      <4>1. i \in 1 .. Len(unread) /\ k + i \in 1 .. Len(reqs)
        BY <1>5, <1>6, <1>1, <3>2
      <4> QED
        BY <1>4, <2>1, <4>1
    <3> QED
      BY <3>1, <3>2
  <2>3. Succeeded(reqs, k) => Succeeded(Append(reqs, req), k)
    BY <1>1, <1>4 DEF Succeeded
  <2> QED
    <3>1. sent'[s][c] \in Seq(Requests) /\ Len(inbox'[s][c]) <= Len(sent'[s][c])
      BY <1>3, <1>4, <1>6
    <3>2. \A i \in 1 .. Len(inbox'[s][c]) : inbox'[s][c][i] = sent'[s][c][ReadCount(s, c)' + i]
      BY <1>3, <1>4, <1>5, <2>2
    <3>3. link'[s][c] \in {"none", "queued"} => Len(inbox'[s][c]) = Len(sent'[s][c])
      BY <1>1, <1>2, <1>3, <1>4 DEF InboxInv, reqs, unread
    <3>4. phase'[s][c] # "gone" => Succeeded(sent'[s][c], ReadCount(s, c)')
      BY <1>1, <1>2, <1>3, <1>5, <2>3 DEF InboxInv, reqs, k
    <3> QED
      BY <3>1, <3>2, <3>3, <3>4 DEF InboxInv
<1>8. \A m \in 0 .. k : AnswersTo(behavior[s], Append(reqs, req), m) = AnswersTo(behavior[s], reqs, m)
  BY <1>1, AnswersOfMore
<1>9. OpenInv(s, c)'
  <2>1. AnswersTo(behavior[s], Append(reqs, req), k) = AnswersTo(behavior[s], reqs, k)
    BY <1>1, <1>8
  <2> QED
    BY <1>1, <1>2, <1>3, <1>5, <2>1 DEF OpenInv
<1>10. GotInv(s, c)'
  <2>1. PICK m \in 0 .. k : Succeeded(reqs, m) /\ IsPrefix(got[s][c], AnswersTo(behavior[s], reqs, m))
    BY <1>1 DEF GotInv
  <2>2. Succeeded(Append(reqs, req), m)
    BY <1>1, <1>4, <2>1 DEF Succeeded
  <2> QED
    BY <1>2, <1>3, <1>5, <1>8, <2>1, <2>2 DEF GotInv
<1> QED
  BY <1>7, <1>9, <1>10 DEF ConnAnswers

LEMMA AcceptAnswers ==
  ASSUME PeerInv, AnswerInv, NEW s \in Servers, NEW c \in Conns, Accept(s, c)
  PROVE  ConnAnswers(s, c)'
<1>1. /\ behavior' = behavior /\ sent' = sent /\ inbox' = inbox /\ todo' = todo /\ got' = got
      /\ link[s][c] = "queued"
  BY DEF Accept
<1>2. link'[s][c] = "open" /\ phase'[s][c] = "read"
  BY DEF Accept, PeerInv, PeerTypeOK
<1>3. /\ sent[s][c] \in Seq(Requests) /\ inbox[s][c] \in Seq(Requests)
      /\ InboxInv(s, c) /\ GotInv(s, c)
  BY ConnTypes DEF ConnAnswers
<1>4. ReadCount(s, c) = 0 /\ ReadCount(s, c)' = 0
  BY <1>1, <1>3 DEF InboxInv, ReadCount
<1>5. got[s][c] = <<>> /\ todo[s][c] = <<>>
  BY <1>1 DEF PeerInv, ConnInv, PeerTypeOK
<1>6. InboxInv(s, c)'
  BY <1>1, <1>2, <1>3, <1>4 DEF InboxInv, Succeeded
<1>7. OpenInv(s, c)'
  <2>1. AnswersTo(behavior[s], sent[s][c], 0) = <<>>
    BY <1>3, AnswersGrow
  <2> QED
    BY <1>1, <1>4, <1>5, <2>1 DEF OpenInv
<1>8. GotInv(s, c)'
  BY <1>1, <1>3, <1>4 DEF GotInv
<1> QED
  BY <1>6, <1>7, <1>8 DEF ConnAnswers

LEMMA ReadAnswers ==
  ASSUME PeerInv, AnswerInv, NEW s \in Servers, NEW c \in Conns, Read(s, c)
  PROVE  ConnAnswers(s, c)'
<1> DEFINE reqs   == sent[s][c]
           unread == inbox[s][c]
           k      == ReadCount(s, c)
           b      == behavior[s]
<1>1. /\ reqs \in Seq(Requests) /\ unread \in Seq(Requests) /\ k \in 0 .. Len(reqs)
      /\ got[s][c] \in Seq(Reply)
      /\ InboxInv(s, c) /\ OpenInv(s, c) /\ GotInv(s, c)
  BY ConnTypes DEF ConnAnswers
<1>2. /\ behavior' = behavior /\ sent' = sent /\ got' = got
      /\ phase[s][c] = "read" /\ unread # <<>>
  BY DEF Read
<1>3. inbox'[s][c] = Tail(unread)
  BY DEF Read, PeerInv, PeerTypeOK
<1>4. todo[s][c] = <<>> /\ link[s][c] \notin {"none", "queued"}
  BY <1>2 DEF PeerInv, ConnInv, PeerTypeOK
<1>5. /\ Len(unread) \in Nat \ {0} /\ Len(reqs) \in Nat /\ Len(unread) <= Len(reqs)
      /\ k = Len(reqs) - Len(unread)
  BY <1>1, <1>2 DEF InboxInv, ReadCount
<1>6. /\ Len(Tail(unread)) = Len(unread) - 1
      /\ \A i \in 1 .. Len(unread) - 1 : Tail(unread)[i] = unread[i + 1]
      /\ Head(unread) = unread[1] /\ Head(unread) \in Requests
  BY <1>1, <1>2
<1>7. ReadCount(s, c)' = k + 1
  <2>1. ReadCount(s, c)' = Len(reqs) - Len(Tail(unread))
    BY <1>2, <1>3 DEF ReadCount
  <2> HIDE DEF reqs, unread, k
  <2> QED
    BY <1>5, <1>6, <2>1
<1>8. k \in 0 .. Len(reqs) /\ k < Len(reqs) /\ k + 1 \in 0 .. Len(reqs) /\ k + 1 \in 1 .. Len(reqs)
  <2> HIDE DEF reqs, unread, k
  <2> QED
    BY <1>5
<1>9. Succeeded(reqs, k)
  BY <1>1, <1>2 DEF InboxInv
<1>10. reqs[k + 1] = Head(unread)
  <2>1. \A i \in 1 .. Len(unread) : unread[i] = reqs[k + i]
    BY <1>1 DEF InboxInv
  <2> HIDE DEF reqs, unread, k
  <2> QED
    BY <1>5, <1>6, <2>1
<1>11. ~ Fails(Head(unread)) => Succeeded(reqs, k + 1)
  <2> HIDE DEF reqs, unread, k
  <2>1. \A i \in 1 .. k + 1 : i \in 1 .. k \/ i = k + 1
    BY <1>8
  <2> QED
    BY <1>9, <1>10, <2>1 DEF Succeeded
<1>12. \/ /\ Fails(Head(unread))
          /\ link'[s][c] = "closed" /\ phase'[s][c] = "gone"
       \/ /\ ~ Fails(Head(unread))
          /\ link' = link /\ todo'[s][c] = AnswerOf(b, Head(unread))
          /\ phase'[s][c] # "gone"
  <2>1. link \in [Servers -> [Conns -> {"none", "queued", "open", "hungup", "closed"}]]
    BY DEF PeerInv, PeerTypeOK
  <2>2. /\ DOMAIN todo = Servers /\ DOMAIN todo[s] = Conns
        /\ DOMAIN phase = Servers /\ DOMAIN phase[s] = Conns
    BY DEF PeerInv, PeerTypeOK
  <2>3. CASE Fails(Head(unread))
    BY <2>1, <2>2, <2>3 DEF Read
  <2>4. CASE ~ Fails(Head(unread))
    <3>1. /\ link' = link
          /\ todo' = [todo EXCEPT ![s][c] = Abstracted(s, Head(unread))]
          /\ phase' = [phase EXCEPT ![s][c] =
                         IF Abstracted(s, Head(unread)) = <<>> THEN "read" ELSE "write"]
      BY <2>4 DEF Read
    <3>2. phase'[s][c] \in {"read", "write"}
      BY <2>2, <3>1
    <3>3. todo'[s][c] = Abstracted(s, Head(unread))
      BY <2>2, <3>1
    <3> QED
      BY <2>4, <3>1, <3>2, <3>3, AbstractedIsAnswer
  <2> QED
    BY <2>3, <2>4
<1>13. InboxInv(s, c)'
  <2>1. /\ sent'[s][c] = reqs /\ sent'[s][c] \in Seq(Requests)
        /\ Len(inbox'[s][c]) = Len(unread) - 1
    BY <1>1, <1>2, <1>3, <1>6
  <2>2. \A i \in 1 .. Len(unread) - 1 : Tail(unread)[i] = reqs[k + 1 + i]
    <3>1. \A i \in 1 .. Len(unread) : unread[i] = reqs[k + i]
      BY <1>1 DEF InboxInv
    <3> HIDE DEF reqs, unread, k
    <3>2. \A i \in 1 .. Len(unread) - 1 : i + 1 \in 1 .. Len(unread) /\ k + (i + 1) = k + 1 + i
      BY <1>5
    <3> QED
      BY <1>6, <3>1, <3>2
  <2>3. \A i \in 1 .. Len(inbox'[s][c]) : inbox'[s][c][i] = sent'[s][c][ReadCount(s, c)' + i]
    BY <1>3, <1>7, <2>1, <2>2
  <2>4. Len(inbox'[s][c]) <= Len(sent'[s][c])
    BY <1>5, <2>1
  <2>5. link'[s][c] \notin {"none", "queued"}
    BY <1>4, <1>12
  <2>6. phase'[s][c] # "gone" => Succeeded(sent'[s][c], ReadCount(s, c)')
    BY <1>7, <1>11, <1>12, <2>1
  <2> QED
    BY <2>1, <2>3, <2>4, <2>5, <2>6 DEF InboxInv
<1>14. /\ AnswersTo(b, reqs, k) \in Seq(Reply)
       /\ AnswersTo(b, reqs, k + 1) = AnswersTo(b, reqs, k) \o AnswerOf(b, Head(unread))
  BY <1>1, <1>8, <1>10, AnswersGrow
<1>15. OpenInv(s, c)'
  <2> SUFFICES ASSUME link'[s][c] = "open"
               PROVE  got'[s][c] \o todo'[s][c] = AnswersTo(behavior'[s], sent'[s][c], ReadCount(s, c)')
    BY DEF OpenInv
  <2>1. link[s][c] = "open" /\ todo'[s][c] = AnswerOf(b, Head(unread))
    BY <1>12
  <2>2. got[s][c] \o <<>> = AnswersTo(b, reqs, k)
    BY <1>1, <1>4, <2>1 DEF OpenInv
  <2>3. got[s][c] = AnswersTo(b, reqs, k)
    BY <1>1, <2>2
  <2> QED
    BY <1>2, <1>7, <1>14, <2>1, <2>3
<1>16. GotInv(s, c)'
  <2>1. PICK m \in 0 .. k : Succeeded(reqs, m) /\ IsPrefix(got[s][c], AnswersTo(b, reqs, m))
    BY <1>1 DEF GotInv
  <2>2. m \in 0 .. k + 1
    <3> HIDE DEF reqs, unread, k
    <3> QED
      BY <1>8
  <2> QED
    BY <1>2, <1>7, <2>1, <2>2 DEF GotInv
<1> QED
  BY <1>13, <1>15, <1>16 DEF ConnAnswers

LEMMA WriteReplyAnswers ==
  ASSUME PeerInv, AnswerInv, NEW s \in Servers, NEW c \in Conns, WriteReply(s, c)
  PROVE  ConnAnswers(s, c)'
<1> DEFINE reqs == sent[s][c]
           k    == ReadCount(s, c)
           out  == got[s][c]
           rest == todo[s][c]
<1>1. /\ reqs \in Seq(Requests) /\ k \in 0 .. Len(reqs)
      /\ out \in Seq(Reply) /\ rest \in Seq(Reply) /\ rest # <<>>
      /\ InboxInv(s, c) /\ OpenInv(s, c) /\ GotInv(s, c)
  BY ConnTypes DEF ConnAnswers, WriteReply, PeerInv, PeerTypeOK
<1>2. /\ behavior' = behavior /\ sent' = sent /\ inbox' = inbox /\ link' = link
      /\ phase[s][c] = "send"
  BY DEF WriteReply
<1>3. todo'[s][c] = Tail(rest) /\ phase'[s][c] # "gone"
  BY DEF WriteReply, PeerInv, PeerTypeOK
<1>4. /\ link[s][c] = "open" => got'[s][c] = Append(out, Head(rest))
      /\ link[s][c] # "open" => got'[s][c] = out
  BY DEF WriteReply, PeerInv, HistoryTypeOK
<1>5. ReadCount(s, c)' = k
  BY <1>2 DEF ReadCount
<1>6. InboxInv(s, c)'
  BY <1>1, <1>2, <1>5 DEF InboxInv
<1>7. CASE link[s][c] = "open"
  <2>1. out \o rest = AnswersTo(behavior[s], reqs, k)
    BY <1>1, <1>7 DEF OpenInv
  <2>2. /\ Append(out, Head(rest)) \o Tail(rest) = out \o rest
        /\ Append(out, Head(rest)) \in Seq(Reply) /\ Tail(rest) \in Seq(Reply)
    <3> HIDE DEF out, rest
    <3> QED
      BY <1>1
  <2>3. OpenInv(s, c)'
    BY <1>2, <1>3, <1>4, <1>5, <1>7, <2>1, <2>2 DEF OpenInv
  <2>4. IsPrefix(got'[s][c], AnswersTo(behavior[s], reqs, k))
    <3> HIDE DEF out, rest
    <3>1. IsPrefix(Append(out, Head(rest)), Append(out, Head(rest)) \o Tail(rest))
      BY <2>2, PrefixOfConcat
    <3> QED
      BY <1>4, <1>7, <2>1, <2>2, <3>1
  <2>5. Succeeded(reqs, k)
    BY <1>1, <1>2 DEF InboxInv
  <2>6. GotInv(s, c)'
    BY <1>1, <1>2, <1>5, <2>4, <2>5 DEF GotInv
  <2> QED
    BY <1>6, <2>3, <2>6 DEF ConnAnswers
<1>8. CASE link[s][c] # "open"
  <2>1. OpenInv(s, c)'
    BY <1>2, <1>8 DEF OpenInv
  <2>2. GotInv(s, c)'
    BY <1>1, <1>2, <1>4, <1>5, <1>8 DEF GotInv
  <2> QED
    BY <1>6, <2>1, <2>2 DEF ConnAnswers
<1> QED
  BY <1>7, <1>8

-----------------------------------------------------------------------------
(* The invariant, and what it says. *)

LEMMA AnswerInitInv == PeerInit => AnswerInv
<1> SUFFICES ASSUME PeerInit PROVE AnswerInv
  OBVIOUS
<1>1. SentTypeOK
  BY DEF PeerInit, SentTypeOK
<1>2. ASSUME NEW s \in Servers, NEW c \in Conns
      PROVE  InboxInv(s, c) /\ OpenInv(s, c) /\ GotInv(s, c)
  <2>1. /\ sent[s][c] = <<>> /\ inbox[s][c] = <<>> /\ got[s][c] = <<>>
        /\ link[s][c] = "none"
    BY DEF PeerInit
  <2>2. sent[s][c] \in Seq(Requests) /\ ReadCount(s, c) = 0
    BY <2>1 DEF ReadCount
  <2>3. InboxInv(s, c)
    BY <2>1, <2>2 DEF InboxInv, Succeeded
  <2>4. IsPrefix(got[s][c], AnswersTo(behavior[s], sent[s][c], 0))
    <3>1. AnswersTo(behavior[s], sent[s][c], 0) = <<>>
      <4>1. 0 \in 0 .. Len(sent[s][c])
        BY <2>2
      <4> QED
        BY <2>2, <4>1, AnswersGrow
    <3>2. IsPrefix(<<>>, <<>>)
      <4>1. <<>> \in Seq(Reply)
        OBVIOUS
      <4> QED
        BY <4>1, PrefixOfConcat
    <3> QED
      BY <2>1, <3>1, <3>2
  <2> QED
    BY <2>1, <2>2, <2>3, <2>4 DEF OpenInv, GotInv, Succeeded
<1> QED
  BY <1>1, <1>2 DEF AnswerInv

LEMMA SentTyped ==
  ASSUME AnswerInv, [PeerNext]_peerVars
  PROVE  SentTypeOK' /\ behavior' = behavior
<1>1. sent' = sent => SentTypeOK'
  BY DEF AnswerInv, SentTypeOK
<1>2. ASSUME NEW s \in Servers, StartServer(s) \/ StopServer(s)
      PROVE  sent' = sent /\ behavior' = behavior
  BY <1>2 DEF StartServer, StopServer
<1>3. ASSUME NEW s \in Servers, NEW c \in Conns, Dial(s, c) \/ Hangup(s, c)
      PROVE  sent' = sent /\ behavior' = behavior
  BY <1>3 DEF Dial, Hangup
<1>4. ASSUME NEW s \in Servers, NEW c \in Conns, HandlerStep(s, c)
      PROVE  sent' = sent /\ behavior' = behavior
  BY <1>4 DEF HandlerStep, Accept, Read, ReadEOF, TakeDelay, Wake, RecordReply, WriteReply, WriteFails
<1>5. ASSUME NEW s \in Servers, NEW c \in Conns, NEW req \in Requests, Send(s, c, req)
      PROVE  SentTypeOK' /\ behavior' = behavior
  <2>1. sent' = [sent EXCEPT ![s][c] = Append(@, req)] /\ behavior' = behavior
    BY <1>5 DEF Send
  <2>2. sent \in [Servers -> [Conns -> Seq(Requests)]]
    BY DEF AnswerInv, SentTypeOK
  <2>3. Append(sent[s][c], req) \in Seq(Requests)
    BY <2>2
  <2> QED
    BY <2>1, <2>2, <2>3 DEF SentTypeOK
<1>6. CASE UNCHANGED peerVars
  BY <1>1, <1>6 DEF peerVars
<1> QED
  BY <1>1, <1>2, <1>3, <1>4, <1>5, <1>6 DEF PeerNext, ClientStep

\* A variable with a value for each connection, and one that a step changes for
\* connection c of s at most.
Table(f) == DOMAIN f = Servers /\ \A s \in Servers : DOMAIN f[s] = Conns

SetAt(f, g, s, c, v) == g = [f EXCEPT ![s][c] = v]

Tables == Table(sent) /\ Table(inbox) /\ Table(got) /\ Table(todo) /\ Table(link) /\ Table(phase)

LEMMA SetThere ==
  ASSUME NEW f, NEW g, Table(f), NEW s \in Servers, NEW c \in Conns, NEW v, SetAt(f, g, s, c, v)
  PROVE  g[s][c] = v
BY DEF Table, SetAt

LEMMA SetElsewhere ==
  ASSUME NEW f, NEW g, Table(f), NEW s \in Servers, NEW c \in Conns, NEW v, SetAt(f, g, s, c, v),
         NEW r \in Servers, NEW d \in Conns, ~(r = s /\ d = c)
  PROVE  g[r][d] = f[r][d]
BY DEF Table, SetAt

LEMMA TablesHold ==
  ASSUME PeerInv, AnswerInv
  PROVE  Tables
<1>1. Table(sent)
  BY DEF AnswerInv, SentTypeOK, Table
<1>2. Table(inbox) /\ Table(todo)
  BY DEF PeerInv, PeerTypeOK, Table
<1>3. Table(link) /\ Table(phase)
  BY DEF PeerInv, PeerTypeOK, Table
<1>4. Table(got)
  BY DEF PeerInv, HistoryTypeOK, Table
<1> QED
  BY <1>1, <1>2, <1>3, <1>4 DEF Tables

\* A step of one connection leaves what another one sent and got alone.
LEMMA HandlerLocal ==
  ASSUME Tables, NEW s \in Servers, NEW c \in Conns, HandlerStep(s, c),
         NEW r \in Servers, NEW d \in Conns, ~(r = s /\ d = c)
  PROVE  SameData(r, d)
<1>1. CASE Accept(s, c)
  <2>1. sent' = sent /\ inbox' = inbox /\ got' = got /\ todo' = todo
    BY <1>1 DEF Accept
  <2>2. link'[r][d] = link[r][d]
    <3>1. SetAt(link, link', s, c, "open")
      BY <1>1 DEF Accept, SetAt
    <3> QED
      BY <3>1, SetElsewhere DEF Tables
  <2>3. phase'[r][d] = phase[r][d]
    <3>1. SetAt(phase, phase', s, c, "read")
      BY <1>1 DEF Accept, SetAt
    <3> QED
      BY <3>1, SetElsewhere DEF Tables
  <2> QED
    BY <2>1, <2>2, <2>3 DEF SameData
<1>2. CASE Read(s, c)
  <2>1. sent' = sent /\ got' = got
    BY <1>2 DEF Read
  <2>2. inbox'[r][d] = inbox[r][d]
    <3>1. SetAt(inbox, inbox', s, c, Tail(inbox[s][c]))
      BY <1>2 DEF Read, SetAt
    <3> QED
      BY <3>1, SetElsewhere DEF Tables
  <2>3. todo'[r][d] = todo[r][d]
    <3>1. todo' = todo \/ SetAt(todo, todo', s, c, Abstracted(s, Head(inbox[s][c])))
      BY <1>2 DEF Read, SetAt
    <3> QED
      BY <3>1, SetElsewhere DEF Tables
  <2>4. link'[r][d] = link[r][d]
    <3>1. link' = link \/ SetAt(link, link', s, c, "closed")
      BY <1>2 DEF Read, SetAt
    <3> QED
      BY <3>1, SetElsewhere DEF Tables
  <2>5. phase'[r][d] = phase[r][d]
    <3>1. \/ SetAt(phase, phase', s, c, "gone")
          \/ SetAt(phase, phase', s, c, "read")
          \/ SetAt(phase, phase', s, c, "write")
      BY <1>2 DEF Read, SetAt
    <3> QED
      BY <3>1, SetElsewhere DEF Tables
  <2> QED
    BY <2>1, <2>2, <2>3, <2>4, <2>5 DEF SameData
<1>3. CASE ReadEOF(s, c)
  <2>1. sent' = sent /\ inbox' = inbox /\ got' = got /\ todo' = todo
    BY <1>3 DEF ReadEOF
  <2>2. link'[r][d] = link[r][d]
    <3>1. SetAt(link, link', s, c, "closed")
      BY <1>3 DEF ReadEOF, SetAt
    <3> QED
      BY <3>1, SetElsewhere DEF Tables
  <2>3. phase'[r][d] = phase[r][d]
    <3>1. SetAt(phase, phase', s, c, "gone")
      BY <1>3 DEF ReadEOF, SetAt
    <3> QED
      BY <3>1, SetElsewhere DEF Tables
  <2> QED
    BY <2>1, <2>2, <2>3 DEF SameData
<1>4. CASE TakeDelay(s, c)
  <2>1. sent' = sent /\ inbox' = inbox /\ got' = got /\ todo' = todo /\ link' = link
    BY <1>4 DEF TakeDelay
  <2>2. phase'[r][d] = phase[r][d]
    <3>1. SetAt(phase, phase', s, c, "asleep") \/ SetAt(phase, phase', s, c, "record")
      BY <1>4 DEF TakeDelay, SetAt
    <3> QED
      BY <3>1, SetElsewhere DEF Tables
  <2> QED
    BY <2>1, <2>2 DEF SameData
<1>5. CASE Wake(s, c)
  <2>1. sent' = sent /\ inbox' = inbox /\ got' = got /\ todo' = todo /\ link' = link
    BY <1>5 DEF Wake
  <2>2. phase'[r][d] = phase[r][d]
    <3>1. SetAt(phase, phase', s, c, "record")
      BY <1>5 DEF Wake, SetAt
    <3> QED
      BY <3>1, SetElsewhere DEF Tables
  <2> QED
    BY <2>1, <2>2 DEF SameData
<1>6. CASE RecordReply(s, c)
  <2>1. sent' = sent /\ inbox' = inbox /\ got' = got /\ todo' = todo /\ link' = link
    BY <1>6 DEF RecordReply
  <2>2. phase'[r][d] = phase[r][d]
    <3>1. SetAt(phase, phase', s, c, "send")
      BY <1>6 DEF RecordReply, SetAt
    <3> QED
      BY <3>1, SetElsewhere DEF Tables
  <2> QED
    BY <2>1, <2>2 DEF SameData
<1>7. CASE WriteReply(s, c)
  <2>1. sent' = sent /\ inbox' = inbox /\ link' = link
    BY <1>7 DEF WriteReply
  <2>2. got'[r][d] = got[r][d]
    <3>1. got' = got \/ SetAt(got, got', s, c, Append(got[s][c], Head(todo[s][c])))
      BY <1>7 DEF WriteReply, SetAt
    <3> QED
      BY <3>1, SetElsewhere DEF Tables
  <2>3. todo'[r][d] = todo[r][d]
    <3>1. SetAt(todo, todo', s, c, Tail(todo[s][c]))
      BY <1>7 DEF WriteReply, SetAt
    <3> QED
      BY <3>1, SetElsewhere DEF Tables
  <2>4. phase'[r][d] = phase[r][d]
    <3>1. SetAt(phase, phase', s, c, "read") \/ SetAt(phase, phase', s, c, "write")
      BY <1>7 DEF WriteReply, SetAt
    <3> QED
      BY <3>1, SetElsewhere DEF Tables
  <2> QED
    BY <2>1, <2>2, <2>3, <2>4 DEF SameData
<1>8. CASE WriteFails(s, c)
  <2>1. sent' = sent /\ inbox' = inbox /\ got' = got /\ todo' = todo
    BY <1>8 DEF WriteFails
  <2>2. link'[r][d] = link[r][d]
    <3>1. SetAt(link, link', s, c, "closed")
      BY <1>8 DEF WriteFails, SetAt
    <3> QED
      BY <3>1, SetElsewhere DEF Tables
  <2>3. phase'[r][d] = phase[r][d]
    <3>1. SetAt(phase, phase', s, c, "gone")
      BY <1>8 DEF WriteFails, SetAt
    <3> QED
      BY <3>1, SetElsewhere DEF Tables
  <2> QED
    BY <2>1, <2>2, <2>3 DEF SameData
<1> QED
  BY <1>1, <1>2, <1>3, <1>4, <1>5, <1>6, <1>7, <1>8 DEF HandlerStep

LEMMA DialLocal ==
  ASSUME Tables, NEW s \in Servers, NEW c \in Conns, Dial(s, c) \/ Hangup(s, c),
         NEW r \in Servers, NEW e \in Conns
PROVE  SameData(r, e)
<1>1. /\ sent' = sent /\ inbox' = inbox /\ got' = got /\ todo' = todo /\ phase' = phase
  BY DEF Dial, Hangup
<1>2. \/ link[s][c] = "none" /\ SetAt(link, link', s, c, "queued")
      \/ SetAt(link, link', s, c, "hungup")
  BY DEF Dial, Hangup, SetAt
<1>3. CASE r = s /\ e = c
  <2>1. \/ link[s][c] = "none" /\ link'[s][c] = "queued"
        \/ link'[s][c] = "hungup"
    BY <1>2, SetThere DEF Tables
  <2> QED
    BY <1>1, <1>3, <2>1 DEF SameData
<1>4. CASE ~(r = s /\ e = c)
  <2>1. link'[r][e] = link[r][e]
    BY <1>2, <1>4, SetElsewhere DEF Tables
  <2> QED
    BY <1>1, <2>1 DEF SameData
<1> QED
  BY <1>3, <1>4

LEMMA SendLocal ==
  ASSUME Tables, NEW s \in Servers, NEW c \in Conns, NEW req \in Requests, Send(s, c, req),
         NEW r \in Servers, NEW e \in Conns, ~(r = s /\ e = c)
  PROVE  SameData(r, e)
<1>1. got' = got /\ todo' = todo /\ phase' = phase /\ link' = link
  BY DEF Send
<1>2. /\ SetAt(sent, sent', s, c, Append(sent[s][c], req))
      /\ SetAt(inbox, inbox', s, c, Append(inbox[s][c], req))
  BY DEF Send, SetAt
<1>3. sent'[r][e] = sent[r][e] /\ inbox'[r][e] = inbox[r][e]
  BY <1>2, SetElsewhere DEF Tables
<1> QED
  BY <1>1, <1>3 DEF SameData

LEMMA AnswerStep == PeerInv /\ AnswerInv /\ [PeerNext]_peerVars => AnswerInv'
<1> SUFFICES ASSUME PeerInv, AnswerInv, [PeerNext]_peerVars PROVE AnswerInv'
  OBVIOUS
<1>1. SentTypeOK' /\ behavior' = behavior
  BY SentTyped
<1>t. Tables
  BY TablesHold
<1>2. SUFFICES ASSUME NEW r \in Servers, NEW d \in Conns
               PROVE  ConnAnswers(r, d)'
  BY <1>1 DEF AnswerInv, ConnAnswers
<1>3. SameData(r, d) => ConnAnswers(r, d)'
  BY <1>1, SameDataKeeps
<1>4. ASSUME NEW s \in Servers, StartServer(s) \/ StopServer(s)
      PROVE  ConnAnswers(r, d)'
  <2> DEFINE stopped == [c \in Conns |-> IF link[s][c] = "queued" THEN "closed" ELSE link[s][c]]
  <2>1. link' = link \/ link' = [link EXCEPT ![s] = stopped]
    BY <1>4 DEF StartServer, StopServer, connVars
  <2>2. stopped[d] = link[s][d] \/ stopped[d] = "closed"
    OBVIOUS
  <2>3. link'[r][d] = link[r][d] \/ link'[r][d] = "closed"
    <3> HIDE DEF stopped
    <3> QED
      BY <2>1, <2>2, <1>t DEF Tables, Table
  <2>4. /\ sent' = sent /\ inbox' = inbox /\ got' = got /\ todo' = todo /\ phase' = phase
    BY <1>4 DEF StartServer, StopServer, connVars
  <2>5. SameData(r, d)
    BY <2>3, <2>4 DEF SameData
  <2> QED
    BY <1>3, <2>5
<1>5. ASSUME NEW s \in Servers, NEW c \in Conns, ClientStep(s, c)
      PROVE  ConnAnswers(r, d)'
  <2>1. CASE Dial(s, c) \/ Hangup(s, c)
    BY <1>3, <1>t, <2>1, DialLocal
  <2>2. ASSUME NEW req \in Requests, Send(s, c, req)
        PROVE  ConnAnswers(r, d)'
    <3>1. CASE r = s /\ d = c
      BY <2>2, <3>1, SendAnswers
    <3>2. CASE ~(r = s /\ d = c)
      BY <1>3, <1>t, <2>2, <3>2, SendLocal
    <3> QED
      BY <3>1, <3>2
  <2> QED
    BY <1>5, <2>1, <2>2 DEF ClientStep
<1>6. ASSUME NEW s \in Servers, NEW c \in Conns, HandlerStep(s, c)
      PROVE  ConnAnswers(r, d)'
  <2>1. CASE ~(r = s /\ d = c)
    BY <1>3, <1>t, <1>6, <2>1, HandlerLocal
  <2>2. CASE r = s /\ d = c
    <3>1. CASE Accept(s, c)
      BY <2>2, <3>1, AcceptAnswers
    <3>2. CASE Read(s, c)
      BY <2>2, <3>2, ReadAnswers
    <3>3. CASE WriteReply(s, c)
      BY <2>2, <3>3, WriteReplyAnswers
    <3>4. CASE ReadEOF(s, c) \/ WriteFails(s, c)
      <4>1. link'[s][c] = "closed" /\ phase'[s][c] = "gone"
        <5>1. SetAt(link, link', s, c, "closed") /\ SetAt(phase, phase', s, c, "gone")
          BY <3>4 DEF ReadEOF, WriteFails, SetAt
        <5> QED
          BY <1>t, <5>1, SetThere DEF Tables
      <4>2. sent' = sent /\ inbox' = inbox /\ got' = got /\ todo' = todo
        BY <3>4 DEF ReadEOF, WriteFails
      <4>3. SameData(s, c)
        BY <4>1, <4>2 DEF SameData
      <4> QED
        BY <1>3, <2>2, <4>3
    <3>5. CASE TakeDelay(s, c) \/ Wake(s, c) \/ RecordReply(s, c)
      <4>1. phase[s][c] # "gone"
        BY <3>5 DEF TakeDelay, Wake, RecordReply
      <4>2. /\ sent' = sent /\ inbox' = inbox /\ got' = got /\ todo' = todo /\ link' = link
        BY <3>5 DEF TakeDelay, Wake, RecordReply
      <4>3. SameData(s, c)
        BY <4>1, <4>2 DEF SameData
      <4> QED
        BY <1>3, <2>2, <4>3
    <3> QED
      BY <1>6, <3>1, <3>2, <3>3, <3>4, <3>5 DEF HandlerStep
  <2> QED
    BY <2>1, <2>2
<1>7. CASE UNCHANGED peerVars
  <2>1. SameData(r, d)
    BY <1>7 DEF peerVars, connVars, SameData
  <2> QED
    BY <1>3, <2>1
<1> QED
  BY <1>4, <1>5, <1>6, <1>7 DEF PeerNext

\* The requests up to the first that fails, by the words of ExpectedOut.
LastServed(reqs) ==
  LET failed == {i \in DOMAIN reqs : Fails(reqs[i])}
  IN  IF failed = {} THEN Len(reqs)
      ELSE (CHOOSE i \in failed : \A j \in failed : i <= j) - 1

LEMMA LastServedLast ==
  ASSUME NEW reqs \in Seq(Requests), NEW m \in 0 .. Len(reqs), Succeeded(reqs, m)
  PROVE  LastServed(reqs) \in m .. Len(reqs)
<1> DEFINE failed == {i \in DOMAIN reqs : Fails(reqs[i])}
<1>1. Len(reqs) \in Nat /\ DOMAIN reqs = 1 .. Len(reqs) /\ m \in Nat /\ m <= Len(reqs)
  OBVIOUS
<1>2. CASE failed = {}
  <2>1. LastServed(reqs) = Len(reqs)
    BY <1>2 DEF LastServed
  <2> QED
    BY <1>1, <2>1
<1>3. CASE failed # {}
  <2> DEFINE first == CHOOSE i \in failed : \A j \in failed : i <= j
  <2>1. failed \subseteq Nat /\ failed \subseteq 1 .. Len(reqs)
    BY <1>1
  <2>2. \E i \in failed : \A j \in failed : i <= j
    <3> HIDE DEF failed
    <3> QED
      BY <1>3, <2>1, LeastExists
  <2>3. first \in failed
    <3> HIDE DEF failed
    <3> QED
      BY <2>2
  <2>4. LastServed(reqs) = first - 1
    BY <1>3 DEF LastServed
  <2>5. first \in 1 .. Len(reqs) /\ ~(first \in 1 .. m)
    <3>1. first \in 1 .. Len(reqs) /\ Fails(reqs[first])
      <4> HIDE DEF first
      <4> QED
        BY <1>1, <2>3
    <3> HIDE DEF first
    <3> QED
      BY <3>1 DEF Succeeded
  <2> HIDE DEF first
  <2> QED
    BY <1>1, <2>4, <2>5
<1> QED
  BY <1>2, <1>3

LEMMA InvAnswers == PeerInv /\ AnswerInv => AnswersInOrder
<1> SUFFICES ASSUME PeerInv, AnswerInv, NEW s \in Servers, NEW c \in Conns
             PROVE  IsPrefix(got[s][c], ExpectedOut(s, c))
  BY DEF AnswersInOrder
<1> DEFINE reqs == sent[s][c]
           b    == behavior[s]
           last == LastServed(reqs)
<1>1. /\ reqs \in Seq(Requests) /\ got[s][c] \in Seq(Reply)
      /\ ReadCount(s, c) \in 0 .. Len(reqs) /\ GotInv(s, c)
  BY ConnTypes DEF ConnAnswers
<1>2. PICK m \in 0 .. ReadCount(s, c) : Succeeded(reqs, m) /\ IsPrefix(got[s][c], AnswersTo(b, reqs, m))
  BY <1>1 DEF GotInv
<1>3. Len(reqs) \in Nat /\ m \in 0 .. Len(reqs)
  BY <1>1, <1>2
<1>4. last \in m .. Len(reqs)
  BY <1>1, <1>2, <1>3, LastServedLast
<1>5. ExpectedOut(s, c) = AnswersTo(b, reqs, last)
  <2>1. ExpectedOut(s, c) = FlattenSeq([i \in 1 .. last |-> Abstracted(s, reqs[i])])
    BY DEF ExpectedOut, LastServed
  <2>2. \A i \in 1 .. last : Abstracted(s, reqs[i]) = AnswerOf(b, reqs[i])
    BY DEF Abstracted, AnswerOf
  <2>3. [i \in 1 .. last |-> Abstracted(s, reqs[i])] = [i \in 1 .. last |-> AnswerOf(b, reqs[i])]
    <3> HIDE DEF last
    <3> QED
      BY <2>2
  <2> QED
    BY <2>1, <2>3 DEF AnswersTo
<1>6. /\ AnswersTo(b, reqs, m) \in Seq(Reply) /\ AnswersTo(b, reqs, last) \in Seq(Reply)
      /\ IsPrefix(AnswersTo(b, reqs, m), AnswersTo(b, reqs, last))
  <2> HIDE DEF last, reqs, b
  <2>1. last \in 0 .. Len(reqs)
    BY <1>3, <1>4
  <2>2. AnswersTo(b, reqs, m) \in Seq(Reply) /\ AnswersTo(b, reqs, last) \in Seq(Reply)
    BY <1>1, <1>3, <2>1, AnswersGrow
  <2> QED
    BY <1>1, <1>3, <1>4, <2>2, AnswersPrefix
<1> QED
  BY <1>1, <1>2, <1>5, <1>6, PrefixTrans

\* AnswerInv holds with PeerInv in every reachable state: unread messages are the
\* last that were sent, what the client got and what the handler has still to
\* write are the replies to the messages read (handleConn, handleMessage, write).
THEOREM AnswerInvariance == PeerSpec => []AnswerInv
BY AnswerInitInv, AnswerStep, PeerInvariance, PTL DEF PeerSpec

\* However connections, sleeps, failures and Stop interleave, a client receives
\* the replies to its own requests, in the order it sent them, up to the first
\* request that fails: one handler serves a connection (handleConn).
THEOREM AnswersStayInOrder == PeerSpec => []AnswersInOrder
BY InvAnswers, AnswerInvariance, PeerInvariance, PTL
=============================================================================
