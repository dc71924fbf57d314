-------------------------- MODULE ChainClientProofs --------------------------
(***************************************************************************)
(* What is proved of the answers of a simulated peer, for every chain, all  *)
(* message limits, every behavior and every request.                        *)
(***************************************************************************)
EXTENDS ChainClient, FiniteSetTheorems, WellFoundedInduction, TLAPS

-----------------------------------------------------------------------------
(* Pages. *)

LEMMA SpanIs ==
  ASSUME NEW lo \in Int, NEW hi \in Int
  PROVE  /\ Span(lo, hi) \in Seq(Int)
         /\ Len(Span(lo, hi)) = IF lo > hi THEN 0 ELSE hi - lo + 1
         /\ \A i \in 1 .. Len(Span(lo, hi)) : Span(lo, hi)[i] = lo + i - 1
<1> DEFINE n == IF lo > hi THEN 0 ELSE hi - lo + 1
<1>1. n \in Nat
  OBVIOUS
<1> HIDE DEF n
<1>2. Span(lo, hi) = [i \in 1 .. n |-> lo + i - 1]
  BY DEF Span, n
<1>3. Span(lo, hi) \in Seq(Int) /\ Len(Span(lo, hi)) = n
  BY <1>1, <1>2
<1>4. \A i \in 1 .. Len(Span(lo, hi)) : Span(lo, hi)[i] = lo + i - 1
  BY <1>2, <1>3
<1> QED
  BY <1>3, <1>4 DEF n

\* At most n heights, from lo on and not past hi.
PageOf(lo, hi, n) == FirstN(Span(lo, hi), n)

\* p is the heights from lo on, up to hi or to the n-th of them.
IsPage(p, lo, hi, n) ==
  /\ p \in Seq(Int)
  /\ \A i \in 1 .. Len(p) : p[i] = lo + i - 1
  /\ lo > hi => Len(p) = 0
  /\ lo <= hi => /\ Len(p) \in 1 .. n
                 /\ lo + Len(p) - 1 <= hi
                 /\ Len(p) # n => lo + Len(p) - 1 = hi

LEMMA PageIs ==
  ASSUME NEW lo \in Int, NEW hi \in Int, NEW n \in Nat \ {0}
  PROVE  IsPage(PageOf(lo, hi, n), lo, hi, n)
<1> DEFINE s == Span(lo, hi)
<1>1. s \in Seq(Int) /\ Len(s) = (IF lo > hi THEN 0 ELSE hi - lo + 1)
      /\ \A i \in 1 .. Len(s) : s[i] = lo + i - 1
  BY SpanIs
<1>2. CASE Len(s) <= n
  <2>1. PageOf(lo, hi, n) = s
    BY <1>2 DEF PageOf, FirstN
  <2> HIDE DEF s
  <2> QED
    BY <1>1, <1>2, <2>1 DEF IsPage
<1>3. CASE ~(Len(s) <= n)
  <2>1. PageOf(lo, hi, n) = SubSeq(s, 1, n)
    BY <1>3 DEF PageOf, FirstN
  <2> HIDE DEF s
  <2>2. n \in 1 .. Len(s)
    BY <1>1, <1>3
  <2>3. /\ SubSeq(s, 1, n) \in Seq(Int) /\ Len(SubSeq(s, 1, n)) = n
        /\ \A i \in 1 .. n : SubSeq(s, 1, n)[i] = s[i]
    BY <1>1, <2>2
  <2> QED
    BY <1>1, <1>3, <2>1, <2>2, <2>3 DEF IsPage
<1> QED
  BY <1>2, <1>3

LEMMA PageHeights ==
  ASSUME NEW lo \in Int, NEW hi \in Int, NEW n \in Nat \ {0}, NEW h \in Int
  PROVE  (\E i \in DOMAIN PageOf(lo, hi, n) : PageOf(lo, hi, n)[i] = h)
           <=> h \in lo .. hi /\ h < lo + n
<1> DEFINE p == PageOf(lo, hi, n)
           m == Len(p)
<1>1. /\ p \in Seq(Int)
      /\ \A i \in 1 .. m : p[i] = lo + i - 1
      /\ lo > hi => m = 0
      /\ lo <= hi => m \in 1 .. n /\ lo + m - 1 <= hi /\ (m # n => lo + m - 1 = hi)
  <2>1. IsPage(p, lo, hi, n)
    BY PageIs, Zenon
  <2> HIDE DEF p
  <2> QED
    BY <2>1 DEF IsPage
<1>2. DOMAIN p = 1 .. m /\ m \in Nat
  BY <1>1
<1> HIDE DEF m, p
<1>3. (\E i \in DOMAIN p : p[i] = h) <=> \E i \in 1 .. m : lo + i - 1 = h
  BY <1>1, <1>2
<1>4. ASSUME NEW i \in 1 .. m
      PROVE  lo + i - 1 \in lo .. hi /\ lo + i - 1 < lo + n
  BY <1>1, <1>2
<1>5. ASSUME h \in lo .. hi, h < lo + n
      PROVE  \E i \in 1 .. m : lo + i - 1 = h
  <2>1. lo <= hi
    BY <1>5
  <2>2. m = n \/ lo + m - 1 = hi
    BY <1>1, <2>1
  <2>3. h - lo + 1 \in 1 .. m /\ lo + (h - lo + 1) - 1 = h
    BY <1>2, <1>5, <2>2
  <2> QED
    BY <2>3
<1> QED
  BY <1>3, <1>4, <1>5 DEF p

\* The data of the heights p, those in S altered.
Row(p, S) == [i \in DOMAIN p |-> Datum(p[i], p[i] \notin S)]

LEMMA DatumDiffers ==
  ASSUME NEW h, NEW S
  PROVE  Datum(h, h \notin S) # Datum(h, h \notin {}) <=> h \in S
<1>1. (h \notin {}) = TRUE
  OBVIOUS
<1>2. CASE h \in S
  <2>1. (h \notin S) = FALSE
    BY <1>2
  <2>2. Datum(h, FALSE) # Datum(h, TRUE)
    BY DEF Datum
  <2> QED
    BY <1>1, <1>2, <2>1, <2>2
<1>3. CASE h \notin S
  <2>1. (h \notin S) = TRUE
    BY <1>3
  <2> QED
    BY <1>1, <1>3, <2>1
<1> QED
  BY <1>2, <1>3

LEMMA RowDiffers ==
  ASSUME NEW p, NEW S
  PROVE  Row(p, S) # Row(p, {}) <=> \E i \in DOMAIN p : p[i] \in S
<1>1. ASSUME NEW i \in DOMAIN p, p[i] \in S
      PROVE  Row(p, S) # Row(p, {})
  <2>1. Row(p, S)[i] = Datum(p[i], p[i] \notin S) /\ Row(p, {})[i] = Datum(p[i], p[i] \notin {})
    BY DEF Row
  <2> QED
    BY <1>1, <2>1, DatumDiffers
<1>2. ASSUME \A i \in DOMAIN p : p[i] \notin S
      PROVE  Row(p, S) = Row(p, {})
  <2>1. \A i \in DOMAIN p : Datum(p[i], p[i] \notin S) = Datum(p[i], p[i] \notin {})
    BY <1>2, DatumDiffers
  <2> QED
    BY <2>1 DEF Row
<1> QED
  BY <1>1, <1>2

-----------------------------------------------------------------------------
(* The start of a page of headers. *)

LEMMA LeastExists ==
  ASSUME NEW S, S \subseteq Nat, S # {}
  PROVE  \E k \in S : \A j \in S : k <= j
<1>1. PICK k \in S : \A j \in S : <<j, k>> \notin OpToRel(<, Nat)
  BY WFMin, NatLessThanWellFounded, Zenon
<1>2. \A j \in S : ~(j < k)
  BY <1>1, Zenon DEF OpToRel
<1>3. \A j \in S : j \in Nat
  OBVIOUS
<1> QED
  BY <1>2, <1>3

LEMMA LocatorStartIs ==
  ASSUME NEW locators \in Seq(Int)
  PROVE  /\ LocatorStart(locators) \in 0 .. Tip + 1
         /\ \A n : StartsAt(locators, n) <=> n = LocatorStart(locators)
<1> DEFINE known == {i \in DOMAIN locators : Known(locators[i])}
           first == CHOOSE i \in known : \A j \in known : i <= j
<1>t. Tip \in Nat
  BY ChainAssumption
<1>d. DOMAIN locators = 1 .. Len(locators) /\ Len(locators) \in Nat
  OBVIOUS
<1>1. CASE known = {}
  <2>1. LocatorStart(locators) = 0
    BY <1>1 DEF LocatorStart
  <2>2. \A i \in DOMAIN locators : ~Known(locators[i])
    BY <1>1
  <2> QED
    BY <1>t, <2>1, <2>2 DEF StartsAt
<1>2. CASE known # {}
  <2>1. known \subseteq Nat
    BY <1>d
  <2>2. \E i \in known : \A j \in known : i <= j
    <3> HIDE DEF known
    <3> QED
      BY <1>2, <2>1, LeastExists
  <2>3. first \in known /\ \A j \in known : first <= j
    <3> HIDE DEF known
    <3> QED
      BY <2>2
  <2>4. LocatorStart(locators) = locators[first] + 1
    BY <1>2 DEF LocatorStart
  <2> HIDE DEF first
  <2>5. /\ first \in DOMAIN locators /\ Known(locators[first])
        /\ \A j \in DOMAIN locators : Known(locators[j]) => first <= j
    BY <2>3
  <2>6. first \in 1 .. Len(locators) /\ locators[first] \in 0 .. Tip
    BY <1>d, <2>5 DEF Known, Heights
  <2>7. LocatorStart(locators) \in 0 .. Tip + 1
    BY <1>t, <2>4, <2>6
  <2>8. StartsAt(locators, locators[first] + 1)
    <3>1. \A j \in 1 .. first - 1 : ~Known(locators[j])
      BY <1>d, <2>5, <2>6
    <3> QED
      BY <2>5, <3>1 DEF StartsAt
  <2>9. ASSUME NEW n, StartsAt(locators, n)
        PROVE  n = locators[first] + 1
    <3>1. PICK i \in DOMAIN locators : /\ Known(locators[i]) /\ n = locators[i] + 1
                                       /\ \A j \in 1 .. i - 1 : ~Known(locators[j])
      BY <2>5, <2>9 DEF StartsAt
    <3>2. first <= i /\ i \in 1 .. Len(locators)
      BY <1>d, <2>5, <3>1
    <3>3. ~(first \in 1 .. i - 1)
      BY <2>5, <3>1
    <3>4. first = i
      BY <2>6, <3>2, <3>3
    <3> QED
      BY <3>1, <3>4
  <2> QED
    BY <2>4, <2>7, <2>8, <2>9
<1> QED
  BY <1>1, <1>2

-----------------------------------------------------------------------------
(* The heights of a page of headers, and the faults in it. *)

\* The height at which a page of headers that begins at n ends at the latest.
PageEnd(r, n) == IF r.stop \in n .. Tip THEN r.stop ELSE Tip

HeadersPage(r) ==
  PageOf(LocatorStart(r.locators), PageEnd(r, LocatorStart(r.locators)), MaxHeaders)

CFHeadersPage(beh, r) ==
  IF r.start \in beh.emptyCF THEN <<>> ELSE PageOf(r.start, r.stop, MaxCFHashes)

LEMMA HeadersReplies ==
  ASSUME NEW beh, NEW r, r.cmd = "getheaders"
  PROVE  /\ Replies(beh, r) = <<HeadersResponse(beh, r)>>
         /\ HeadersResponse(beh, r) = [cmd |-> "headers", hdrs |-> Row(HeadersPage(r), beh.headers)]
BY DEF Replies, HeadersResponse, Row, HeadersPage, PageOf, PageEnd

LEMMA CFHeadersReplies ==
  ASSUME NEW beh, NEW r, r.cmd = "getcfheaders"
  PROVE  /\ Replies(beh, r) = <<CFHeadersResponse(beh, r)>>
         /\ CFHeadersResponse(beh, r) =
              [cmd |-> "cfheaders", type |-> FilterType(beh, "cfheaders"), stop |-> r.stop,
               prev |-> Datum(r.start - 1, r.start \notin beh.prevHeader),
               hashes |-> Row(CFHeadersPage(beh, r), beh.cfHeaders)]
BY DEF Replies, CFHeadersResponse, Row, CFHeadersPage, PageOf

LEMMA HeadersFaults ==
  ASSUME NEW beh, NEW r \in Request, r.cmd = "getheaders"
  PROVE  Replies(beh, r) # Replies(HonestBehavior, r) <=> FaultReached(beh, r)
<1> DEFINE n == LocatorStart(r.locators)
           e == PageEnd(r, n)
           p == HeadersPage(r)
<1>1. r.locators \in Seq(Int) /\ r.stop \in Int
  BY DEF Request
<1>2. n \in 0 .. Tip + 1 /\ Tip \in Nat /\ MaxHeaders \in Nat \ {0}
  BY <1>1, LocatorStartIs, ChainAssumption
<1>3. Replies(beh, r) # Replies(HonestBehavior, r) <=> Row(p, beh.headers) # Row(p, {})
  <2>1. HonestBehavior.headers = {}
    BY DEF HonestBehavior
  <2> HIDE DEF p
  <2>2. /\ Replies(beh, r) = << [cmd |-> "headers", hdrs |-> Row(p, beh.headers)] >>
        /\ Replies(HonestBehavior, r) = << [cmd |-> "headers", hdrs |-> Row(p, {})] >>
    BY <2>1, HeadersReplies DEF p
  <2> QED
    BY <2>2
<1>4. Row(p, beh.headers) # Row(p, {}) <=> \E i \in DOMAIN p : p[i] \in beh.headers
  BY RowDiffers
<1>5. e \in Int /\ e <= Tip
  BY <1>1, <1>2 DEF PageEnd
<1>6. \A h \in Int : (\E i \in DOMAIN p : p[i] = h) <=> h \in n .. e /\ h < n + MaxHeaders
  BY <1>2, <1>5, PageHeights DEF HeadersPage
<1>7. \A i \in DOMAIN p : p[i] \in Int
  <2>1. p \in Seq(Int)
    BY <1>2, <1>5, PageIs DEF HeadersPage, IsPage
  <2> HIDE DEF p
  <2> QED
    BY <2>1
<1>8. \A h : h \in Reach(r) <=>
        h \in Heights /\ h \in n .. n + MaxHeaders - 1 /\ (r.stop < n \/ h <= r.stop)
  BY <1>1, <1>2, LocatorStartIs DEF Reach
<1>9. \A h \in Int : h \in n .. e /\ h < n + MaxHeaders <=>
        h \in Heights /\ h \in n .. n + MaxHeaders - 1 /\ (r.stop < n \/ h <= r.stop)
  <2> HIDE DEF n
  <2> QED
    BY <1>1, <1>2 DEF PageEnd, Heights
<1>10. (\E i \in DOMAIN p : p[i] \in beh.headers) <=> beh.headers \cap Reach(r) # {}
  <2>1. \A h \in Int : (\E i \in DOMAIN p : p[i] = h) <=> h \in Reach(r)
    BY <1>6, <1>8, <1>9
  <2>2. \A h \in Reach(r) : h \in Int
    BY <1>8 DEF Heights
  <2> HIDE DEF p
  <2> QED
    BY <1>7, <2>1, <2>2
<1>11. FaultReached(beh, r) <=> beh.headers \cap Reach(r) # {}
  BY DEF FaultReached
<1> QED
  BY <1>3, <1>4, <1>10, <1>11

-----------------------------------------------------------------------------
(* The faults in the other replies. *)

LEMMA CFHeadersFaults ==
  ASSUME NEW beh, NEW r \in Request, r.cmd = "getcfheaders", ~Fails(r)
  PROVE  Replies(beh, r) # Replies(HonestBehavior, r) <=> FaultReached(beh, r)
<1> DEFINE p == PageOf(r.start, r.stop, MaxCFHashes)
           q == CFHeadersPage(beh, r)
<1>1. r.start \in Nat /\ r.stop \in Int /\ r.start <= r.stop /\ MaxCFHashes \in Nat \ {0}
  BY ChainAssumption DEF Request, Fails, CFHeadersFails
<1>2. Len(p) \in Nat \ {0} /\ p \in Seq(Int)
  <2>0. r.start \in Int /\ r.stop \in Int /\ MaxCFHashes \in Nat \ {0}
    BY <1>1
  <2>1. IsPage(p, r.start, r.stop, MaxCFHashes)
    BY <2>0, PageIs, Zenon
  <2> HIDE DEF p
  <2>2. Len(p) \in 1 .. MaxCFHashes /\ p \in Seq(Int)
    BY <1>1, <2>1 DEF IsPage
  <2> QED
    BY <1>1, <2>2
<1>3. CFHeadersPage(HonestBehavior, r) = p
  BY DEF CFHeadersPage, HonestBehavior
<1>4. Row(q, beh.cfHeaders) # Row(p, {})
        <=> r.start \in beh.emptyCF \/ \E i \in DOMAIN p : p[i] \in beh.cfHeaders
  <2>1. CASE r.start \in beh.emptyCF
    <3>1. q = <<>>
      BY <2>1 DEF CFHeadersPage
    <3>2. DOMAIN Row(q, beh.cfHeaders) # DOMAIN Row(p, {})
      <4> HIDE DEF p, q
      <4> QED
        BY <1>2, <3>1 DEF Row
    <3> QED
      BY <2>1, <3>2
  <2>2. CASE r.start \notin beh.emptyCF
    <3>1. q = p
      BY <2>2 DEF CFHeadersPage
    <3> QED
      BY <2>2, <3>1, RowDiffers
  <2> QED
    BY <2>1, <2>2
<1>5. (\E i \in DOMAIN p : p[i] \in beh.cfHeaders) <=> beh.cfHeaders \cap Reach(r) # {}
  <2>1. \A h \in Int : (\E i \in DOMAIN p : p[i] = h)
                         <=> h \in r.start .. r.stop /\ h < r.start + MaxCFHashes
    BY <1>1, PageHeights
  <2>2. \A h : h \in Reach(r) <=> h \in r.start .. r.stop /\ h < r.start + MaxCFHashes
    BY DEF Reach
  <2>3. \A i \in DOMAIN p : p[i] \in Int
    <3> HIDE DEF p
    <3> QED
      BY <1>2
  <2>4. \A h \in Reach(r) : h \in Int
    BY <1>1, <2>2
  <2> HIDE DEF p
  <2> QED
    BY <2>1, <2>2, <2>3, <2>4
<1>6. Datum(r.start - 1, r.start \notin beh.prevHeader) # Datum(r.start - 1, r.start \notin {})
        <=> r.start \in beh.prevHeader
  <2>1. CASE r.start \in beh.prevHeader
    <3>1. (r.start \notin beh.prevHeader) = FALSE /\ (r.start \notin {}) = TRUE
      BY <2>1
    <3>2. Datum(r.start - 1, FALSE) # Datum(r.start - 1, TRUE)
      BY DEF Datum
    <3> QED
      BY <2>1, <3>1, <3>2
  <2>2. CASE r.start \notin beh.prevHeader
    <3>1. (r.start \notin beh.prevHeader) = TRUE /\ (r.start \notin {}) = TRUE
      BY <2>2
    <3> QED
      BY <2>2, <3>1
  <2> QED
    BY <2>1, <2>2
<1>7. FilterType(beh, "cfheaders") # FilterType(HonestBehavior, "cfheaders")
        <=> "cfheaders" \in beh.wrongType
  BY DEF FilterType, HonestBehavior
<1>8. Replies(beh, r) # Replies(HonestBehavior, r)
        <=> \/ FilterType(beh, "cfheaders") # FilterType(HonestBehavior, "cfheaders")
            \/ Datum(r.start - 1, r.start \notin beh.prevHeader)
                 # Datum(r.start - 1, r.start \notin {})
            \/ Row(q, beh.cfHeaders) # Row(p, {})
  <2> DEFINE M(a, d, w) == [cmd |-> "cfheaders", type |-> a, stop |-> r.stop, prev |-> d, hashes |-> w]
             a1 == FilterType(beh, "cfheaders")
             a2 == FilterType(HonestBehavior, "cfheaders")
             d1 == Datum(r.start - 1, r.start \notin beh.prevHeader)
             d2 == Datum(r.start - 1, r.start \notin {})
             w1 == Row(q, beh.cfHeaders)
             w2 == Row(p, {})
  <2>1. Replies(beh, r) = << M(a1, d1, w1) >>
    BY CFHeadersReplies
  <2>2. Replies(HonestBehavior, r) = << M(a2, d2, w2) >>
    <3>1. HonestBehavior.cfHeaders = {} /\ HonestBehavior.prevHeader = {}
      BY DEF HonestBehavior
    <3> QED
      BY <1>3, <3>1, CFHeadersReplies
  <2> HIDE DEF a1, a2, d1, d2, w1, w2
  <2>3. M(a1, d1, w1) = M(a2, d2, w2) <=> a1 = a2 /\ d1 = d2 /\ w1 = w2
    OBVIOUS
  <2>4. << M(a1, d1, w1) >> = << M(a2, d2, w2) >> <=> M(a1, d1, w1) = M(a2, d2, w2)
    OBVIOUS
  <2> QED
    BY <2>1, <2>2, <2>3, <2>4 DEF a1, a2, d1, d2, w1, w2
<1>9. FaultReached(beh, r) <=> \/ r.start \in beh.prevHeader \cup beh.emptyCF
                               \/ beh.cfHeaders \cap Reach(r) # {}
                               \/ "cfheaders" \in beh.wrongType
  BY DEF FaultReached
<1> QED
  BY <1>4, <1>5, <1>6, <1>7, <1>8, <1>9

LEMMA CFiltersFaults ==
  ASSUME NEW beh, NEW r \in Request, r.cmd = "getcfilters", ~Fails(r)
  PROVE  Replies(beh, r) # Replies(HonestBehavior, r) <=> FaultReached(beh, r)
<1> DEFINE s == Span(r.start, r.stop)
           F(bb, h) == [cmd   |-> "cfilter",
                        type  |-> FilterType(bb, "cfilter"),
                        block |-> Datum(h, h \notin bb.blockHash),
                        data  |-> Datum(h, h \notin bb.cFilters)]
<1>1. r.start \in Nat /\ r.stop \in Int
  BY DEF Request
<1>2. \A bb : Replies(bb, r) = [i \in DOMAIN s |-> F(bb, s[i])]
  BY DEF Replies, CFiltersResponse
<1>3. \A h : F(beh, h) # F(HonestBehavior, h)
        <=> h \in beh.blockHash \/ h \in beh.cFilters \/ "cfilter" \in beh.wrongType
  <2> SUFFICES ASSUME NEW h
               PROVE  F(beh, h) # F(HonestBehavior, h)
                 <=> h \in beh.blockHash \/ h \in beh.cFilters \/ "cfilter" \in beh.wrongType
    OBVIOUS
  <2> DEFINE M(a, d, w) == [cmd |-> "cfilter", type |-> a, block |-> d, data |-> w]
             a1 == FilterType(beh, "cfilter")
             a2 == FilterType(HonestBehavior, "cfilter")
             d1 == Datum(h, h \notin beh.blockHash)
             d2 == Datum(h, h \notin {})
             w1 == Datum(h, h \notin beh.cFilters)
  <2>1. F(beh, h) = M(a1, d1, w1)
    OBVIOUS
  <2>2. F(HonestBehavior, h) = M(a2, d2, d2)
    <3>1. HonestBehavior.blockHash = {} /\ HonestBehavior.cFilters = {}
      BY DEF HonestBehavior
    <3> QED
      BY <3>1
  <2>3. a1 # a2 <=> "cfilter" \in beh.wrongType
    BY DEF FilterType, HonestBehavior
  <2>4. d1 # d2 <=> h \in beh.blockHash
    BY DatumDiffers
  <2>5. w1 # d2 <=> h \in beh.cFilters
    BY DatumDiffers
  <2> HIDE DEF a1, a2, d1, d2, w1
  <2>6. M(a1, d1, w1) = M(a2, d2, d2) <=> a1 = a2 /\ d1 = d2 /\ w1 = d2
    OBVIOUS
  <2> HIDE DEF F, M
  <2> QED
    BY <2>1, <2>2, <2>3, <2>4, <2>5, <2>6
<1>4. Replies(beh, r) # Replies(HonestBehavior, r)
        <=> \E i \in DOMAIN s : F(beh, s[i]) # F(HonestBehavior, s[i])
  <2> HIDE DEF s, F
  <2> QED
    BY <1>2
<1>5. \A h : h \in Reach(r) <=> h \in r.start .. r.stop
  BY DEF Reach
<1>6. /\ \A i \in DOMAIN s : s[i] \in r.start .. r.stop
      /\ \A h \in r.start .. r.stop : \E i \in DOMAIN s : s[i] = h
  <2> DEFINE m == Len(s)
  <2>1. /\ m = (IF r.start > r.stop THEN 0 ELSE r.stop - r.start + 1)
        /\ DOMAIN s = 1 .. m
        /\ \A i \in 1 .. m : s[i] = r.start + i - 1
    <3>1. r.stop \in Int /\ r.start \in Int
      BY <1>1
    <3>2. s \in Seq(Int)
      BY <3>1, SpanIs
    <3>3. m = (IF r.start > r.stop THEN 0 ELSE r.stop - r.start + 1)
      BY <3>1, SpanIs
    <3>4. \A i \in 1 .. m : s[i] = r.start + i - 1
      BY <3>1, SpanIs
    <3>5. DOMAIN s = 1 .. m
      BY <3>2
    <3> QED
      BY <3>3, <3>4, <3>5
  <2> HIDE DEF m, s
  <2>2. \A i \in 1 .. m : s[i] \in r.start .. r.stop
    BY <1>1, <2>1
  <2>3. \A h \in r.start .. r.stop : h - r.start + 1 \in 1 .. m /\ r.start + (h - r.start + 1) - 1 = h
    BY <1>1, <2>1
  <2> QED
    BY <2>1, <2>2, <2>3
<1>7. FaultReached(beh, r) <=> \/ (beh.cFilters \cup beh.blockHash) \cap Reach(r) # {}
                               \/ "cfilter" \in beh.wrongType /\ Reach(r) # {}
  BY DEF FaultReached
<1> HIDE DEF s, F
<1> QED
  BY <1>3, <1>4, <1>5, <1>6, <1>7

LEMMA Multiples ==
  ASSUME NEW c \in Nat \ {0}, NEW n \in Nat
  PROVE  /\ n \div c \in Nat
         /\ \A i \in 1 .. n \div c : i * c \in 1 .. n /\ (i * c) % c = 0
         /\ \A h \in 1 .. n : h % c = 0 => h \div c \in 1 .. n \div c /\ (h \div c) * c = h
<1>1. n \div c \in Nat /\ (n \div c) * c <= n /\ n < (n \div c) * c + c
  <2>1. n \div c \in Nat
    OBVIOUS
  <2>2. n = (n \div c) * c + (n % c)
    BY SMT
  <2>3. n % c \in 0 .. c - 1
    OBVIOUS
  <2> DEFINE q == n \div c
             w == n % c
  <2> HIDE DEF q, w
  <2>4. n = q * c + w /\ w \in 0 .. c - 1 /\ q \in Nat
    BY <2>1, <2>2, <2>3 DEF q, w
  <2>5. q * c <= n /\ n < q * c + c
    BY <2>4
  <2> QED
    BY <2>1, <2>5 DEF q
<1> DEFINE q == n \div c
<1>2. q \in Nat /\ q * c <= n /\ n < q * c + c
  BY <1>1
<1> HIDE DEF q
<1>3. \A i, k \in Nat : i <= k => i * c <= k * c
  OBVIOUS
<1>4. \A i \in 1 .. q : i * c \in 1 .. n /\ (i * c) % c = 0
  <2> SUFFICES ASSUME NEW i \in 1 .. q
               PROVE  i * c \in 1 .. n /\ (i * c) % c = 0
    OBVIOUS
  <2>1. i * c <= q * c /\ 1 * c <= i * c
    BY <1>2, <1>3
  <2>2. i \in Nat /\ i * c \in Nat
    BY <1>2
  <2>3. i * c \in 1 .. n
    BY <1>2, <2>1, <2>2
  <2>4. (i * c) % c = 0
    BY <2>2
  <2> QED
    BY <2>3, <2>4
<1>5. ASSUME NEW h \in 1 .. n, h % c = 0
      PROVE  h \div c \in 1 .. q /\ (h \div c) * c = h
  <2>1. h \div c \in Nat
    OBVIOUS
  <2>2. (h \div c) * c = h
    <3>1. h = (h \div c) * c + (h % c)
      BY SMT
    <3>2. (h \div c) * c \in Nat
      BY <2>1
    <3> QED
      BY <1>5, <3>1, <3>2
  <2> DEFINE k == h \div c
  <2> HIDE DEF k
  <2>3. k \in Nat /\ k * c = h
    BY <2>1, <2>2 DEF k
  <2>4. k # 0
    BY <2>3
  <2>5. k <= q
    <3> SUFFICES ASSUME q + 1 <= k
                 PROVE  FALSE
      BY <1>2, <2>3
    <3>1. (q + 1) * c <= k * c
      BY <1>2, <1>3, <2>3
    <3>2. (q + 1) * c = q * c + c
      BY <1>2
    <3> QED
      BY <1>2, <2>3, <3>1, <3>2
  <2> QED
    BY <1>2, <2>2, <2>3, <2>4, <2>5 DEF k
<1> QED
  BY <1>1, <1>4, <1>5 DEF q

LEMMA CFCheckptFaults ==
  ASSUME NEW beh, NEW r \in Request, r.cmd = "getcfcheckpt"
  PROVE  Replies(beh, r) # Replies(HonestBehavior, r) <=> FaultReached(beh, r)
<1> DEFINE count == IF Known(r.stop) THEN r.stop \div CheckptInterval ELSE 0
           p     == [i \in 1 .. count |-> i * CheckptInterval]
           M(a, w) == [cmd |-> "cfcheckpt", type |-> a, stop |-> r.stop, hdrs |-> w]
           a1 == FilterType(beh, "cfcheckpt")
           a2 == FilterType(HonestBehavior, "cfcheckpt")
<1>1. r.stop \in Int /\ CheckptInterval \in Nat \ {0} /\ Tip \in Nat
  BY ChainAssumption DEF Request
<1>2. \A bb : Replies(bb, r) = << M(FilterType(bb, "cfcheckpt"), Row(p, bb.cfCheckpts)) >>
  <2> SUFFICES ASSUME NEW bb
               PROVE  Replies(bb, r) = << M(FilterType(bb, "cfcheckpt"), Row(p, bb.cfCheckpts)) >>
    OBVIOUS
  <2>1. Replies(bb, r) = <<CFCheckptResponse(bb, r)>>
    BY DEF Replies
  <2>2. Row(p, bb.cfCheckpts) =
          [i \in 1 .. count |->
             Datum(i * CheckptInterval, i * CheckptInterval \notin bb.cfCheckpts)]
    <3> HIDE DEF count
    <3> QED
      BY DEF Row
  <2>3. CFCheckptResponse(bb, r) = M(FilterType(bb, "cfcheckpt"), Row(p, bb.cfCheckpts))
    BY <2>2 DEF CFCheckptResponse
  <2> QED
    BY <2>1, <2>3
<1>3. HonestBehavior.cfCheckpts = {}
  BY DEF HonestBehavior
<1>4. a1 # a2 <=> "cfcheckpt" \in beh.wrongType
  BY DEF FilterType, HonestBehavior
<1>5. Row(p, beh.cfCheckpts) # Row(p, {}) <=> \E i \in DOMAIN p : p[i] \in beh.cfCheckpts
  BY RowDiffers
<1>6. \A h : (\E i \in DOMAIN p : p[i] = h) <=> h \in Reach(r)
  <2>1. \A h : h \in Reach(r) <=> h \in 1 .. r.stop /\ r.stop <= Tip /\ h % CheckptInterval = 0
    BY DEF Reach
  <2>2. CASE Known(r.stop)
    <3>1. r.stop \in Nat /\ r.stop <= Tip /\ count = r.stop \div CheckptInterval
      BY <1>1, <2>2 DEF Known, Heights
    <3>2. /\ \A i \in 1 .. count : i * CheckptInterval \in 1 .. r.stop
                                   /\ (i * CheckptInterval) % CheckptInterval = 0
          /\ \A h \in 1 .. r.stop : h % CheckptInterval = 0 =>
               h \div CheckptInterval \in 1 .. count /\ (h \div CheckptInterval) * CheckptInterval = h
      BY <1>1, <3>1, Multiples
    <3> HIDE DEF count
    <3>3. DOMAIN p = 1 .. count /\ \A i \in 1 .. count : p[i] = i * CheckptInterval
      OBVIOUS
    <3> HIDE DEF p
    <3> QED
      BY <2>1, <3>1, <3>2, <3>3
  <2>3. CASE ~Known(r.stop)
    <3>1. r.stop < 0 \/ r.stop > Tip
      BY <1>1, <2>3 DEF Known, Heights
    <3>2. \A h : h \notin Reach(r)
      BY <1>1, <2>1, <3>1
    <3>3. DOMAIN p = {}
      BY <2>3
    <3> QED
      BY <3>2, <3>3
  <2> QED
    BY <2>2, <2>3
<1>7. FaultReached(beh, r) <=>
        beh.cfCheckpts \cap Reach(r) # {} \/ "cfcheckpt" \in beh.wrongType
  BY DEF FaultReached
<1> HIDE DEF p, a1, a2
<1>8. \A x, y, u, w : << M(x, u) >> = << M(y, w) >> <=> x = y /\ u = w
  OBVIOUS
<1> HIDE DEF M
<1>9. /\ Replies(beh, r) = << M(a1, Row(p, beh.cfCheckpts)) >>
      /\ Replies(HonestBehavior, r) = << M(a2, Row(p, {})) >>
  BY <1>2, <1>3 DEF a1, a2
<1>10. Replies(beh, r) # Replies(HonestBehavior, r) <=> a1 # a2 \/ Row(p, beh.cfCheckpts) # Row(p, {})
  BY <1>8, <1>9
<1>11. (\E i \in DOMAIN p : p[i] \in beh.cfCheckpts) <=> beh.cfCheckpts \cap Reach(r) # {}
  BY <1>6
<1> QED
  BY <1>4, <1>5, <1>7, <1>10, <1>11

-----------------------------------------------------------------------------
(* The k-th element of a set of positions. *)

LEMMA GreatestExists ==
  ASSUME NEW S, NEW n \in Nat, S \subseteq 1 .. n, S # {}
  PROVE  \E k \in S : \A j \in S : j <= k
<1> DEFINE T == {m \in Nat : n - m \in S}
<1>1. T # {}
  <2>1. PICK k \in S : TRUE
    OBVIOUS
  <2>2. k \in 1 .. n /\ n - k \in Nat /\ n - (n - k) = k
    BY <2>1
  <2> QED
    BY <2>1, <2>2
<1>2. PICK m \in T : \A j \in T : m <= j
  <2>1. T \subseteq Nat
    OBVIOUS
  <2> HIDE DEF T
  <2> QED
    BY <1>1, <2>1, LeastExists
<1>3. m \in Nat /\ n - m \in S
  OBVIOUS
<1>4. ASSUME NEW j \in S
      PROVE  j <= n - m
  <2>1. j \in 1 .. n /\ n - j \in Nat /\ n - (n - j) = j
    OBVIOUS
  <2>2. m <= n - j
    BY <1>2, <2>1
  <2> QED
    BY <1>3, <2>1, <2>2
<1> QED
  BY <1>3, <1>4

\* How many elements of S are not greater than i.
UpTo(S, i) == {j \in S : j <= i}

LEMMA RankIs ==
  ASSUME NEW S, NEW n \in Nat, S \subseteq 1 .. n
  PROVE  /\ Cardinality(S) \in Nat
         /\ \A i \in S : Cardinality(UpTo(S, i)) \in 1 .. Cardinality(S)
         /\ \A i, j \in S : i < j => Cardinality(UpTo(S, i)) < Cardinality(UpTo(S, j))
         /\ \A k \in 1 .. Cardinality(S) : \E i \in S : Cardinality(UpTo(S, i)) = k
<1>1. IsFiniteSet(S) /\ Cardinality(S) \in Nat
  <2>1. IsFiniteSet(1 .. n)
    BY FS_Interval
  <2>2. S \in SUBSET (1 .. n)
    OBVIOUS
  <2> QED
    BY <2>1, <2>2, FS_Subset, FS_CardinalityType
<1>2. \A i : /\ IsFiniteSet(UpTo(S, i)) /\ Cardinality(UpTo(S, i)) \in Nat
             /\ Cardinality(UpTo(S, i)) <= Cardinality(S)
  <2> SUFFICES ASSUME NEW i
               PROVE  /\ IsFiniteSet(UpTo(S, i)) /\ Cardinality(UpTo(S, i)) \in Nat
                      /\ Cardinality(UpTo(S, i)) <= Cardinality(S)
    OBVIOUS
  <2>1. UpTo(S, i) \in SUBSET S
    BY DEF UpTo
  <2> QED
    BY <1>1, <2>1, FS_Subset, FS_CardinalityType
<1>3. ASSUME NEW i \in S
      PROVE  Cardinality(UpTo(S, i)) \in 1 .. Cardinality(S)
  <2>1. i \in UpTo(S, i)
    BY DEF UpTo
  <2>2. Cardinality(UpTo(S, i)) # 0
    BY <1>2, <2>1, FS_EmptySet
  <2> QED
    BY <1>1, <1>2, <2>2
<1>4. ASSUME NEW i \in S, NEW j \in S, i < j
      PROVE  Cardinality(UpTo(S, i)) < Cardinality(UpTo(S, j))
  <2>1. \A a \in S : a \in Nat
    OBVIOUS
  <2>2. UpTo(S, i) \in SUBSET UpTo(S, j)
    <3>1. \A a \in S : a <= i => a <= j
      <4>1. \A x, y, z \in Nat : x <= y /\ y < z => x <= z
        OBVIOUS
      <4> QED
        BY <1>4, <2>1, <4>1
    <3> QED
      BY <3>1 DEF UpTo
  <2>3. j \in UpTo(S, j) /\ j \notin UpTo(S, i)
    BY <1>4, <2>1 DEF UpTo
  <2>4. /\ Cardinality(UpTo(S, i)) <= Cardinality(UpTo(S, j))
        /\ Cardinality(UpTo(S, j)) # Cardinality(UpTo(S, i))
    BY <1>2, <2>2, <2>3, FS_Subset
  <2> QED
    BY <1>2, <2>4
<1>5. ASSUME NEW k \in 1 .. Cardinality(S)
      PROVE  \E i \in S : Cardinality(UpTo(S, i)) = k
  <2> DEFINE T == {i \in S : k <= Cardinality(UpTo(S, i))}
  <2>1. S # {}
    BY <1>1, FS_EmptySet
  <2>2. PICK g \in S : \A j \in S : j <= g
    BY <2>1, GreatestExists
  <2>3. UpTo(S, g) = S
    BY <2>2 DEF UpTo
  <2>4. T # {} /\ T \subseteq Nat
    <3>1. k <= Cardinality(UpTo(S, g))
      BY <1>1, <2>3
    <3>2. g \in T
      BY <2>2, <3>1
    <3>3. \A a \in S : a \in Nat
      OBVIOUS
    <3> QED
      BY <3>2, <3>3
  <2>5. PICK i \in T : \A j \in T : i <= j
    <3> HIDE DEF T
    <3> QED
      BY <2>4, LeastExists
  <2>6. i \in S /\ i \in 1 .. n /\ k <= Cardinality(UpTo(S, i))
    OBVIOUS
  <2> DEFINE P == UpTo(S, i) \ {i}
  <2>7. Cardinality(P) = Cardinality(UpTo(S, i)) - 1
    <3>1. i \in UpTo(S, i)
      BY <2>6 DEF UpTo
    <3> QED
      BY <1>2, <3>1, FS_RemoveElement
  <2>8. CASE P = {}
    <3>1. Cardinality(UpTo(S, i)) = 1
      BY <1>2, <2>7, <2>8, FS_EmptySet
    <3> QED
      BY <2>6, <3>1
  <2>9. CASE P # {}
    <3>1. P \subseteq 1 .. n
      BY DEF UpTo
    <3>2. PICK m \in P : \A j \in P : j <= m
      <4> HIDE DEF P
      <4> QED
        BY <2>9, <3>1, GreatestExists
    <3>3. m \in S /\ m <= i /\ m # i
      BY DEF UpTo
    <3>4. m \in Nat /\ i \in Nat /\ ~(i <= m)
      BY <2>6, <3>1, <3>3
    <3>5. UpTo(S, m) = P
      <4>1. \A j \in S : j \in Nat
        OBVIOUS
      <4>2. \A j \in P : j \in S /\ j <= m
        BY <3>2 DEF UpTo
      <4>3. \A j \in S : j <= m => j \in P
        BY <3>3, <3>4, <4>1 DEF UpTo
      <4> HIDE DEF P
      <4> QED
        BY <4>2, <4>3 DEF UpTo
    <3>6. m \notin T
      BY <2>5, <3>4
    <3>7. ~(k <= Cardinality(UpTo(S, i)) - 1)
      BY <2>7, <3>3, <3>5, <3>6
    <3> QED
      BY <1>2, <2>6, <3>7
  <2> QED
    BY <2>8, <2>9
<1> QED
  BY <1>1, <1>3, <1>4, <1>5

LEMMA BlocksFaults ==
  ASSUME NEW beh, NEW r \in Request, r.cmd = "getdata"
  PROVE  Replies(beh, r) # Replies(HonestBehavior, r) <=> FaultReached(beh, r)
<1> DEFINE known    == {i \in DOMAIN r.invs : Known(r.invs[i])}
           count    == Cardinality(known)
           found(k) == r.invs[CHOOSE i \in known : Cardinality({j \in known : j <= i}) = k]
           B(S, h)  == [cmd |-> "block", block |-> Datum(h, h \notin S)]
<1>1. r.invs \in Seq(Int) /\ DOMAIN r.invs = 1 .. Len(r.invs) /\ Len(r.invs) \in Nat
  BY DEF Request
<1>2. /\ count \in Nat
      /\ \A i \in known : Cardinality(UpTo(known, i)) \in 1 .. count
      /\ \A i, j \in known : i < j => Cardinality(UpTo(known, i)) < Cardinality(UpTo(known, j))
      /\ \A k \in 1 .. count : \E i \in known : Cardinality(UpTo(known, i)) = k
  <2>1. known \subseteq 1 .. Len(r.invs)
    BY <1>1
  <2> HIDE DEF known
  <2> QED
    BY <1>1, <2>1, RankIs
<1>3. \A bb : Replies(bb, r) = [k \in 1 .. count |-> B(bb.blocks, found(k))]
  BY DEF Replies, BlocksResponse
<1>4. HonestBehavior.blocks = {}
  BY DEF HonestBehavior
<1>5. \A S, h : B(S, h) # B({}, h) <=> h \in S
  <2> SUFFICES ASSUME NEW S, NEW h
               PROVE  B(S, h) # B({}, h) <=> h \in S
    OBVIOUS
  <2>1. Datum(h, h \notin S) # Datum(h, h \notin {}) <=> h \in S
    BY DatumDiffers
  <2> DEFINE d1 == Datum(h, h \notin S)
             d2 == Datum(h, h \notin {})
  <2>2. B(S, h) = [cmd |-> "block", block |-> d1] /\ B({}, h) = [cmd |-> "block", block |-> d2]
    OBVIOUS
  <2> HIDE DEF d1, d2, B
  <2>3. [cmd |-> "block", block |-> d1] = [cmd |-> "block", block |-> d2] <=> d1 = d2
    OBVIOUS
  <2> QED
    BY <2>1, <2>2, <2>3 DEF d1, d2
<1>6. \A k \in 1 .. count : \E i \in known : found(k) = r.invs[i]
  <2> SUFFICES ASSUME NEW k \in 1 .. count
               PROVE  \E i \in known : found(k) = r.invs[i]
    OBVIOUS
  <2>1. \E i \in known : Cardinality({j \in known : j <= i}) = k
    BY <1>2 DEF UpTo
  <2> HIDE DEF known
  <2>2. (CHOOSE i \in known : Cardinality({j \in known : j <= i}) = k) \in known
    BY <2>1
  <2> QED
    BY <2>2
<1>7. \A i \in known : \E k \in 1 .. count : found(k) = r.invs[i]
  <2> SUFFICES ASSUME NEW i \in known
               PROVE  \E k \in 1 .. count : found(k) = r.invs[i]
    OBVIOUS
  <2> DEFINE k == Cardinality(UpTo(known, i))
             f == CHOOSE a \in known : Cardinality({j \in known : j <= a}) = k
  <2>1. k \in 1 .. count
    BY <1>2
  <2>2. Cardinality({j \in known : j <= i}) = k
    BY DEF UpTo
  <2>3. f \in known /\ Cardinality(UpTo(known, f)) = k
    <3> HIDE DEF known, k
    <3> QED
      BY <2>2 DEF UpTo
  <2>4. i \in Nat /\ f \in Nat
    BY <1>1, <2>3
  <2> HIDE DEF f
  <2>5. f = i
    <3>1. ~(f < i) /\ ~(i < f)
      <4>1. k \in Nat
        BY <1>2, <2>1
      <4> HIDE DEF known
      <4> QED
        BY <1>2, <2>3, <4>1
    <3> QED
      BY <2>4, <3>1
  <2>6. found(k) = r.invs[f]
    BY DEF f
  <2> QED
    BY <2>1, <2>5, <2>6
<1>8. \A h : h \in Reach(r) <=> \E i \in known : r.invs[i] = h
  BY DEF Reach, Known
<1>9. FaultReached(beh, r) <=> beh.blocks \cap Reach(r) # {}
  BY DEF FaultReached
<1> HIDE DEF known, count, found, B
<1>10. Replies(beh, r) # Replies(HonestBehavior, r)
         <=> \E k \in 1 .. count : B(beh.blocks, found(k)) # B({}, found(k))
  <2>1. /\ Replies(beh, r) = [k \in 1 .. count |-> B(beh.blocks, found(k))]
        /\ Replies(HonestBehavior, r) = [k \in 1 .. count |-> B({}, found(k))]
    <3>1. /\ Replies(beh, r) = [k \in 1 .. count |-> B(beh.blocks, found(k))]
          /\ Replies(HonestBehavior, r) = [k \in 1 .. count |-> B(HonestBehavior.blocks, found(k))]
      BY <1>3, Zenon
    <3> QED
      BY <1>4, <3>1, Zenon
  <2>2. ASSUME NEW k \in 1 .. count, B(beh.blocks, found(k)) # B({}, found(k))
        PROVE  Replies(beh, r) # Replies(HonestBehavior, r)
    <3>1. /\ Replies(beh, r)[k] = B(beh.blocks, found(k))
          /\ Replies(HonestBehavior, r)[k] = B({}, found(k))
      BY <2>1
    <3> QED
      BY <2>2, <3>1
  <2>3. ASSUME \A k \in 1 .. count : B(beh.blocks, found(k)) = B({}, found(k))
        PROVE  Replies(beh, r) = Replies(HonestBehavior, r)
    BY <2>1, <2>3
  <2> QED
    BY <2>2, <2>3, Zenon
<1> QED
  BY <1>5, <1>6, <1>7, <1>8, <1>9, <1>10

\* Every answer differs from the honest one exactly where a fault is reached.
LEMMA FaultsShow ==
  ASSUME NEW beh, NEW r \in Request, ~Fails(r)
  PROVE  Answer(beh, r) # Replies(HonestBehavior, r) <=> FaultReached(beh, r)
<1>1. Answer(beh, r) = Replies(beh, r)
  BY DEF Answer
<1>2. CASE r.cmd \notin {"getheaders", "getcfheaders", "getcfilters", "getcfcheckpt", "getdata"}
  <2>1. Replies(beh, r) = Replies(HonestBehavior, r)
    BY <1>2 DEF Replies
  <2>2. ~FaultReached(beh, r)
    BY <1>2 DEF FaultReached
  <2> QED
    BY <1>1, <2>1, <2>2
<1> QED
  BY <1>1, <1>2, HeadersFaults, CFHeadersFaults, CFiltersFaults, CFCheckptFaults, BlocksFaults

-----------------------------------------------------------------------------
(* The pages that a client gets. *)

Data == [h : Int, ok : BOOLEAN]

LEMMA RowIs ==
  ASSUME NEW p \in Seq(Int), NEW S
  PROVE  /\ Row(p, S) \in Seq(Data)
         /\ Len(Row(p, S)) = Len(p)
         /\ \A i \in 1 .. Len(p) : Row(p, S)[i].h = p[i]
<1>1. DOMAIN p = 1 .. Len(p) /\ Len(p) \in Nat
  OBVIOUS
<1>2. \A i \in 1 .. Len(p) : Datum(p[i], p[i] \notin S) \in Data /\ Datum(p[i], p[i] \notin S).h = p[i]
  <2> SUFFICES ASSUME NEW i \in 1 .. Len(p)
               PROVE  Datum(p[i], p[i] \notin S) \in Data /\ Datum(p[i], p[i] \notin S).h = p[i]
    OBVIOUS
  <2>1. p[i] \in Int
    OBVIOUS
  <2>2. (p[i] \notin S) \in BOOLEAN
    OBVIOUS
  <2> DEFINE ok == p[i] \notin S
  <2> HIDE DEF ok
  <2>3. Datum(p[i], ok) \in Data /\ Datum(p[i], ok).h = p[i]
    BY <2>1, <2>2 DEF Datum, Data, ok
  <2> QED
    BY <2>3 DEF ok
<1> DEFINE d(i) == Datum(p[i], p[i] \notin S)
<1>3. Row(p, S) = [i \in 1 .. Len(p) |-> d(i)]
  BY <1>1 DEF Row
<1> HIDE DEF d
<1>4. Row(p, S) \in Seq(Data) /\ Len(Row(p, S)) = Len(p)
  BY <1>1, <1>2, <1>3 DEF d
<1>5. \A i \in 1 .. Len(p) : Row(p, S)[i].h = p[i]
  BY <1>2, <1>3 DEF d
<1> QED
  BY <1>4, <1>5

LEMMA HeadersPageIs ==
  ASSUME NEW beh, NEW r \in Request, r.cmd = "getheaders", NEW n, n = LocatorStart(r.locators)
  PROVE  /\ Page(r, Answer(beh, r)) \in Seq(Data)
         /\ \A i \in 1 .. Len(Page(r, Answer(beh, r))) : Page(r, Answer(beh, r))[i].h = n + i - 1
         /\ n > PageEnd(r, n) => Len(Page(r, Answer(beh, r))) = 0
         /\ n <= PageEnd(r, n) => /\ Len(Page(r, Answer(beh, r))) > 0
                                  /\ n + Len(Page(r, Answer(beh, r))) - 1 <= PageEnd(r, n)
<1> DEFINE p == PageOf(n, PageEnd(r, n), MaxHeaders)
<1>1. r.locators \in Seq(Int) /\ r.stop \in Int
  BY DEF Request
<1>2. n \in 0 .. Tip + 1 /\ Tip \in Nat /\ MaxHeaders \in Nat \ {0}
  BY <1>1, LocatorStartIs, ChainAssumption
<1>3. PageEnd(r, n) \in Int
  BY <1>1, <1>2 DEF PageEnd
<1>4. Page(r, Answer(beh, r)) = Row(p, beh.headers)
  <2>1. ~Fails(r)
    BY DEF Fails
  <2>2. Answer(beh, r) = << [cmd |-> "headers", hdrs |-> Row(p, beh.headers)] >>
    BY <2>1, HeadersReplies DEF Answer, HeadersPage
  <2> HIDE DEF p
  <2> QED
    BY <2>2 DEF Page
<1>5. /\ p \in Seq(Int)
      /\ \A i \in 1 .. Len(p) : p[i] = n + i - 1
      /\ n > PageEnd(r, n) => Len(p) = 0
      /\ n <= PageEnd(r, n) => Len(p) \in 1 .. MaxHeaders /\ n + Len(p) - 1 <= PageEnd(r, n)
  <2>1. n \in Int /\ MaxHeaders \in Nat \ {0}
    BY <1>2
  <2>2. IsPage(p, n, PageEnd(r, n), MaxHeaders)
    BY <1>3, <2>1, PageIs, Zenon
  <2> HIDE DEF p
  <2> QED
    BY <2>2 DEF IsPage
<1> HIDE DEF p
<1>6. /\ Row(p, beh.headers) \in Seq(Data)
      /\ Len(Row(p, beh.headers)) = Len(p)
      /\ \A i \in 1 .. Len(p) : Row(p, beh.headers)[i].h = p[i]
  BY <1>5, RowIs
<1>7. n <= PageEnd(r, n) => Len(p) > 0
  BY <1>2, <1>5
<1> QED
  BY <1>4, <1>5, <1>6, <1>7

LEMMA CFHeadersPageIs ==
  ASSUME NEW beh, NEW r \in Request, r.cmd = "getcfheaders", ~Fails(r)
  PROVE  /\ Page(r, Answer(beh, r)) \in Seq(Data)
         /\ \A i \in 1 .. Len(Page(r, Answer(beh, r))) :
              Page(r, Answer(beh, r))[i].h = r.start + i - 1
         /\ r.start + Len(Page(r, Answer(beh, r))) - 1 <= r.stop
         /\ Len(Page(r, Answer(beh, r))) = 0 => r.start \in beh.emptyCF
<1> DEFINE p == CFHeadersPage(beh, r)
<1>1. r.start \in Int /\ r.stop \in Int /\ r.start <= r.stop /\ MaxCFHashes \in Nat \ {0}
  BY ChainAssumption DEF Request, Fails, CFHeadersFails
<1>2. Page(r, Answer(beh, r)) = Row(p, beh.cfHeaders)
  <2> DEFINE rest == CFHeadersResponse(beh, r)
  <2>1. Answer(beh, r) = << rest >>
    BY CFHeadersReplies DEF Answer
  <2>2. rest.hashes = Row(p, beh.cfHeaders)
    BY CFHeadersReplies
  <2> HIDE DEF p, rest
  <2> QED
    BY <2>1, <2>2 DEF Page
<1>3. CASE r.start \in beh.emptyCF
  <2>1. p = <<>> /\ p \in Seq(Int) /\ Len(p) = 0
    BY <1>3 DEF CFHeadersPage
  <2> HIDE DEF p
  <2>2. Row(p, beh.cfHeaders) \in Seq(Data) /\ Len(Row(p, beh.cfHeaders)) = 0
    BY <2>1, RowIs
  <2> QED
    BY <1>1, <1>2, <1>3, <2>2
<1>4. CASE r.start \notin beh.emptyCF
  <2>1. p = PageOf(r.start, r.stop, MaxCFHashes)
    BY <1>4 DEF CFHeadersPage
  <2>2. /\ p \in Seq(Int)
        /\ \A i \in 1 .. Len(p) : p[i] = r.start + i - 1
        /\ r.start <= r.stop => Len(p) \in 1 .. MaxCFHashes /\ r.start + Len(p) - 1 <= r.stop
    <3>1. r.start \in Int /\ r.stop \in Int /\ MaxCFHashes \in Nat \ {0}
      BY <1>1
    <3>2. IsPage(p, r.start, r.stop, MaxCFHashes)
      BY <2>1, <3>1, PageIs, Zenon
    <3> HIDE DEF p
    <3> QED
      BY <3>2 DEF IsPage
  <2> HIDE DEF p
  <2>3. /\ Row(p, beh.cfHeaders) \in Seq(Data)
        /\ Len(Row(p, beh.cfHeaders)) = Len(p)
        /\ \A i \in 1 .. Len(p) : Row(p, beh.cfHeaders)[i].h = p[i]
    BY <2>2, RowIs
  <2>4. Len(p) # 0
    BY <1>1, <2>2
  <2> QED
    BY <1>1, <1>2, <2>2, <2>3, <2>4
<1> QED
  BY <1>3, <1>4

LEMMA OtherPageIs ==
  ASSUME NEW r, NEW a, r.cmd # "getheaders", r.cmd = "getcfheaders" => Fails(r)
  PROVE  Page(r, a) = <<>>
BY DEF Page

-----------------------------------------------------------------------------
(* The inductive invariant. *)

ClientTypeInv ==
  /\ origin \in Request /\ req \in Request
  /\ answered \in BOOLEAN
  /\ answered => answer = Answer(b, req)
  /\ walk \in Seq(Data)

\* The height of the first header asked for.
From == origin.locators[1] + 1

\* Before a request the walk ends where the request begins and has not come to
\* the stop hash; after it, the walk ends with the page, and at its end when the
\* page is empty.
HeadersWalkInv ==
  Located(origin) =>
    /\ Located(req) /\ req.stop = origin.stop
    /\ \A i \in 1 .. Len(walk) : walk[i].h = From + i - 1
    /\ From + Len(walk) - 1 <= PageEnd(origin, From)
    /\ ~answered => /\ req.locators[1] + 1 = From + Len(walk)
                    /\ origin.stop \in From .. Tip => From + Len(walk) <= origin.stop
    /\ answered =>
         IF Page(req, answer) = <<>> THEN From + Len(walk) - 1 = PageEnd(origin, From)
         ELSE walk # <<>> /\ Last(Page(req, answer)).h = From + Len(walk) - 1

CFHeadersWalkInv ==
  origin.cmd = "getcfheaders" /\ ~Fails(origin) =>
    /\ origin.start \in Nat
    /\ req.cmd = "getcfheaders" /\ ~Fails(req) /\ req.stop = origin.stop
    /\ \A i \in 1 .. Len(walk) : walk[i].h = origin.start + i - 1
    /\ origin.start + Len(walk) - 1 <= origin.stop
    /\ ~answered => req.start = origin.start + Len(walk)
    /\ answered =>
         IF Page(req, answer) = <<>> THEN origin.start + Len(walk) \in b.emptyCF
         ELSE Last(Page(req, answer)).h = origin.start + Len(walk) - 1

ClientInv == ClientTypeInv /\ HeadersWalkInv /\ CFHeadersWalkInv

\* The data of w are those of the heights f, f + 1, ...
Runs(w, f) == \A i \in 1 .. Len(w) : w[i].h = f + i - 1

LEMMA RunsOn ==
  ASSUME NEW f \in Int, NEW w \in Seq(Data), NEW pg \in Seq(Data),
         Runs(w, f), Runs(pg, f + Len(w))
  PROVE  /\ w \o pg \in Seq(Data)
         /\ Len(w \o pg) = Len(w) + Len(pg)
         /\ Runs(w \o pg, f)
         /\ pg # <<>> => Last(pg).h = f + Len(w \o pg) - 1
<1>1. w \o pg \in Seq(Data) /\ Len(w \o pg) = Len(w) + Len(pg) /\ Len(w) \in Nat /\ Len(pg) \in Nat
  OBVIOUS
<1>2. Runs(w \o pg, f)
  <2> SUFFICES ASSUME NEW i \in 1 .. Len(w) + Len(pg)
               PROVE  (w \o pg)[i].h = f + i - 1
    BY <1>1 DEF Runs
  <2>1. CASE i <= Len(w)
    <3>1. (w \o pg)[i] = w[i] /\ i \in 1 .. Len(w)
      BY <1>1, <2>1
    <3> QED
      BY <3>1 DEF Runs
  <2>2. CASE ~(i <= Len(w))
    <3>1. (w \o pg)[i] = pg[i - Len(w)] /\ i - Len(w) \in 1 .. Len(pg)
      BY <1>1, <2>2
    <3>2. pg[i - Len(w)].h = f + Len(w) + (i - Len(w)) - 1
      BY <3>1 DEF Runs
    <3> QED
      BY <1>1, <3>1, <3>2
  <2> QED
    BY <2>1, <2>2
<1>3. ASSUME pg # <<>>
      PROVE  Last(pg).h = f + Len(w \o pg) - 1
  <2>1. Len(pg) \in 1 .. Len(pg) /\ Last(pg) = pg[Len(pg)]
    BY <1>1, <1>3 DEF Last
  <2>2. pg[Len(pg)].h = f + Len(w) + Len(pg) - 1
    BY <2>1 DEF Runs
  <2> QED
    BY <1>1, <2>1, <2>2
<1> QED
  BY <1>1, <1>2, <1>3

LEMMA LocatedStart ==
  ASSUME NEW r \in Request, Located(r)
  PROVE  LocatorStart(r.locators) = r.locators[1] + 1 /\ r.locators[1] \in 0 .. Tip
<1>1. r.locators \in Seq(Int) /\ r.locators # <<>> /\ Known(r.locators[1])
  BY DEF Request, Located
<1>2. 1 \in DOMAIN r.locators
  BY <1>1
<1>3. StartsAt(r.locators, r.locators[1] + 1)
  BY <1>1, <1>2 DEF StartsAt
<1> QED
  BY <1>1, <1>3, LocatorStartIs DEF Known, Heights

LEMMA ClientInit == Init => ClientInv
<1> SUFFICES ASSUME Init
             PROVE  ClientInv
  OBVIOUS
<1>1. req \in Request /\ origin \in Request /\ origin = req /\ ~answered /\ answered \in BOOLEAN /\ walk = <<>>
  BY ChainClientAssumption DEF Init
<1>2. walk \in Seq(Data) /\ Len(walk) = 0
  BY <1>1
<1>3. ClientTypeInv
  BY <1>1, <1>2 DEF ClientTypeInv
<1>4. HeadersWalkInv
  <2> SUFFICES ASSUME Located(origin)
               PROVE  /\ From - 1 <= PageEnd(origin, From)
                      /\ origin.stop \in From .. Tip => From <= origin.stop
                      /\ From = From + 0 /\ From + 0 - 1 = From - 1
    BY <1>1, <1>2 DEF HeadersWalkInv, From
  <2>1. origin.locators[1] \in 0 .. Tip /\ origin.stop \in Int /\ Tip \in Nat
    BY <1>1, LocatedStart, ChainAssumption DEF Located, Request
  <2> QED
    BY <2>1 DEF From, PageEnd
<1>5. CFHeadersWalkInv
  <2> SUFFICES ASSUME origin.cmd = "getcfheaders", ~Fails(origin)
               PROVE  /\ origin.start \in Nat
                      /\ origin.start - 1 <= origin.stop
    BY <1>1, <1>2 DEF CFHeadersWalkInv
  <2>1. origin.start \in Nat /\ origin.stop \in Int /\ origin.start <= origin.stop
    BY <1>1 DEF Request, Fails, CFHeadersFails
  <2> QED
    BY <2>1
<1> QED
  BY <1>3, <1>4, <1>5 DEF ClientInv

LEMMA ServeKeeps ==
  ASSUME ClientInv, Serve
  PROVE  ClientInv'
<1> DEFINE pg == Page(req, Answer(b, req))
<1>1. /\ req \in Request /\ origin \in Request /\ ~answered /\ walk \in Seq(Data)
      /\ answered' = TRUE /\ answer' = Answer(b, req) /\ walk' = walk \o pg
      /\ b' = b /\ origin' = origin /\ req' = req
  BY DEF ClientInv, ClientTypeInv, Serve
<1>2. pg \in Seq(Data)
  <2>1. CASE req.cmd = "getheaders"
    BY <1>1, <2>1, HeadersPageIs
  <2>2. CASE req.cmd = "getcfheaders" /\ ~Fails(req)
    BY <1>1, <2>2, CFHeadersPageIs
  <2>3. CASE req.cmd # "getheaders" /\ ~(req.cmd = "getcfheaders" /\ ~Fails(req))
    <3>1. pg = <<>>
      BY <2>3, OtherPageIs
    <3> QED
      BY <3>1
  <2> QED
    BY <2>1, <2>2, <2>3
<1>3. walk \o pg \in Seq(Data) /\ Len(walk \o pg) = Len(walk) + Len(pg) /\ Len(walk) \in Nat
      /\ Len(pg) \in Nat /\ (pg = <<>> <=> Len(pg) = 0)
  BY <1>1, <1>2
<1>4. ClientTypeInv'
  BY <1>1, <1>3 DEF ClientTypeInv
<1>5. HeadersWalkInv'
  <2> SUFFICES ASSUME Located(origin)
               PROVE  /\ Located(req) /\ req.stop = origin.stop
                      /\ Runs(walk \o pg, From)
                      /\ From + Len(walk \o pg) - 1 <= PageEnd(origin, From)
                      /\ IF pg = <<>> THEN From + Len(walk \o pg) - 1 = PageEnd(origin, From)
                         ELSE walk \o pg # <<>> /\ Last(pg).h = From + Len(walk \o pg) - 1
    BY <1>1 DEF HeadersWalkInv, Runs, From
  <2>1. /\ Located(req) /\ req.stop = origin.stop /\ Runs(walk, From)
        /\ From + Len(walk) - 1 <= PageEnd(origin, From)
        /\ req.locators[1] + 1 = From + Len(walk)
        /\ origin.stop \in From .. Tip => From + Len(walk) <= origin.stop
    BY <1>1 DEF ClientInv, HeadersWalkInv, Runs
  <2> DEFINE n == LocatorStart(req.locators)
             e == PageEnd(origin, From)
  <2>2. n = From + Len(walk) /\ n \in 1 .. Tip + 1 /\ req.stop \in Int /\ Tip \in Nat /\ From \in Int
    <3>1. n = req.locators[1] + 1 /\ req.locators[1] \in 0 .. Tip
      BY <1>1, <2>1, LocatedStart
    <3>2. req.stop \in Int /\ Tip \in Nat
      BY <1>1, <2>1, ChainAssumption DEF Request, Located
    <3> HIDE DEF n
    <3>3. From \in Int
      BY <1>1, LocatedStart DEF From
    <3> QED
      BY <1>3, <2>1, <3>1, <3>2, <3>3
  <2>3. PageEnd(req, n) = e /\ e \in Int
    <3> HIDE DEF n
    <3> QED
      BY <1>3, <2>1, <2>2 DEF PageEnd
  <2>4. /\ Runs(pg, n)
        /\ n > e => Len(pg) = 0
        /\ n <= e => Len(pg) > 0 /\ n + Len(pg) - 1 <= e
    <3>1. req.cmd = "getheaders"
      BY <2>1 DEF Located
    <3> HIDE DEF e
    <3> QED
      BY <1>1, <2>3, <3>1, HeadersPageIs DEF Runs
  <2> HIDE DEF n, e, pg
  <2>5. /\ Runs(walk \o pg, From)
        /\ pg # <<>> => Last(pg).h = From + Len(walk \o pg) - 1
    BY <1>1, <1>2, <2>1, <2>2, <2>4, RunsOn
  <2>6. pg # <<>> => walk \o pg # <<>>
    BY <1>3
  <2>7. From + Len(walk \o pg) - 1 <= e
    <3>1. CASE n > e
      BY <1>3, <2>1, <2>2, <2>3, <2>4, <3>1 DEF e
    <3>2. CASE n <= e
      BY <1>3, <2>2, <2>3, <2>4, <3>2
    <3> QED
      BY <2>2, <2>3, <3>1, <3>2
  <2>8. pg = <<>> => From + Len(walk \o pg) - 1 = e
    <3>1. ASSUME Len(pg) = 0
          PROVE  From + Len(walk \o pg) - 1 = e
      <4>1. n > e
        BY <2>2, <2>3, <2>4, <3>1
      <4>2. From + Len(walk) - 1 <= e
        BY <2>1 DEF e
      <4> QED
        BY <1>3, <2>2, <2>3, <3>1, <4>1, <4>2
    <3> QED
      BY <1>3, <3>1
  <2>9. Located(req) /\ req.stop = origin.stop
    BY <2>1
  <2> QED
    BY <2>5, <2>6, <2>7, <2>8, <2>9 DEF e
<1>6. CFHeadersWalkInv'
  <2> SUFFICES ASSUME origin.cmd = "getcfheaders", ~Fails(origin)
               PROVE  /\ origin.start \in Nat
                      /\ req.cmd = "getcfheaders" /\ ~Fails(req) /\ req.stop = origin.stop
                      /\ Runs(walk \o pg, origin.start)
                      /\ origin.start + Len(walk \o pg) - 1 <= origin.stop
                      /\ IF pg = <<>> THEN origin.start + Len(walk \o pg) \in b.emptyCF
                         ELSE Last(pg).h = origin.start + Len(walk \o pg) - 1
    BY <1>1 DEF CFHeadersWalkInv, Runs
  <2>1. /\ origin.start \in Nat
        /\ req.cmd = "getcfheaders" /\ ~Fails(req) /\ req.stop = origin.stop
        /\ Runs(walk, origin.start)
        /\ origin.start + Len(walk) - 1 <= origin.stop
        /\ req.start = origin.start + Len(walk)
    BY <1>1 DEF ClientInv, CFHeadersWalkInv, Runs
  <2>2. /\ Runs(pg, req.start)
        /\ req.start + Len(pg) - 1 <= req.stop
        /\ Len(pg) = 0 => req.start \in b.emptyCF
    BY <1>1, <2>1, CFHeadersPageIs DEF Runs
  <2> HIDE DEF pg
  <2>3. /\ Runs(walk \o pg, origin.start)
        /\ pg # <<>> => Last(pg).h = origin.start + Len(walk \o pg) - 1
    <3>1. origin.start \in Int /\ Runs(walk, origin.start)
      BY <2>1
    <3>2. Runs(pg, origin.start + Len(walk))
      BY <2>1, <2>2
    <3> QED
      BY <1>1, <1>2, <3>1, <3>2, RunsOn
  <2>4. origin.start + Len(walk \o pg) = req.start + Len(pg)
    BY <1>3, <2>1
  <2>5. origin.start + Len(walk \o pg) - 1 <= origin.stop
    BY <2>1, <2>2, <2>4
  <2>6. pg = <<>> => origin.start + Len(walk \o pg) \in b.emptyCF
    <3>1. pg = <<>> => req.start + Len(pg) = req.start
      BY <1>3, <2>1
    <3> QED
      BY <1>3, <2>2, <2>4, <3>1
  <2> QED
    BY <2>1, <2>3, <2>5, <2>6
<1> QED
  BY <1>4, <1>5, <1>6 DEF ClientInv

LEMMA AskOnKeeps ==
  ASSUME ClientInv, AskOn
  PROVE  ClientInv'
<1> DEFINE pg == Page(req, Answer(b, req))
           h  == Last(pg).h
<1>1. /\ req \in Request /\ origin \in Request /\ walk \in Seq(Data)
      /\ answered /\ answer = Answer(b, req)
      /\ answered' = FALSE /\ req' = Following(req, h)
      /\ b' = b /\ origin' = origin /\ walk' = walk
      /\ pg # <<>> /\ h # req.stop
  BY DEF ClientInv, ClientTypeInv, AskOn, Finished
<1>2. CASE req.cmd = "getheaders"
  <2>1. pg \in Seq(Data)
    BY <1>1, <1>2, HeadersPageIs
  <2>2. h \in Int
    <3> HIDE DEF pg
    <3>1. pg[Len(pg)] \in Data
      BY <1>1, <2>1
    <3> QED
      BY <3>1 DEF Last, Data
  <2> HIDE DEF h, pg
  <2>3. req' = [req EXCEPT !.locators = <<h>>]
    BY <1>1, <1>2 DEF Following
  <2>4. req \in [cmd : {"getheaders"}, locators : Seq(Int), stop : Int]
    BY <1>1, <1>2 DEF Request
  <2>5. /\ req' \in [cmd : {"getheaders"}, locators : Seq(Int), stop : Int]
        /\ req'.cmd = "getheaders" /\ req'.locators = <<h>> /\ req'.stop = req.stop
    <3>1. <<h>> \in Seq(Int)
      BY <2>2
    <3> QED
      BY <2>3, <2>4, <3>1
  <2>6. ClientTypeInv'
    <3>1. req' \in Request
      BY <2>5 DEF Request
    <3> QED
      BY <1>1, <3>1 DEF ClientTypeInv
  <2>7. HeadersWalkInv'
    <3> SUFFICES ASSUME Located(origin)
                 PROVE  /\ Located(req)' /\ req'.stop = origin.stop
                        /\ \A i \in 1 .. Len(walk) : walk[i].h = From + i - 1
                        /\ From + Len(walk) - 1 <= PageEnd(origin, From)
                        /\ req'.locators[1] + 1 = From + Len(walk)
                        /\ origin.stop \in From .. Tip => From + Len(walk) <= origin.stop
      BY <1>1 DEF HeadersWalkInv, From
    <3>1. /\ Located(req) /\ req.stop = origin.stop
          /\ \A i \in 1 .. Len(walk) : walk[i].h = From + i - 1
          /\ From + Len(walk) - 1 <= PageEnd(origin, From)
          /\ h = From + Len(walk) - 1
      BY <1>1 DEF ClientInv, HeadersWalkInv, h, pg
    <3>2. origin.locators[1] \in 0 .. Tip /\ origin.stop \in Int /\ Tip \in Nat /\ Len(walk) \in Nat
      BY <1>1, LocatedStart, ChainAssumption DEF Located, Request
    <3>3. From \in 1 .. Tip + 1
      BY <3>2 DEF From
    <3>4. PageEnd(origin, From) = (IF origin.stop \in From .. Tip THEN origin.stop ELSE Tip)
      BY DEF PageEnd
    <3>5. h \in 0 .. Tip /\ h + 1 = From + Len(walk)
      BY <2>2, <3>1, <3>2, <3>3, <3>4
    <3>6. origin.stop \in From .. Tip => From + Len(walk) <= origin.stop
      BY <1>1, <2>2, <3>1, <3>2, <3>3, <3>4
    <3>7. Located(req)'
      BY <2>5, <3>5 DEF Located, Known, Heights
    <3> QED
      BY <2>5, <3>1, <3>5, <3>6, <3>7
  <2>8. CFHeadersWalkInv'
    BY <1>1, <1>2 DEF ClientInv, CFHeadersWalkInv
  <2> QED
    BY <2>6, <2>7, <2>8 DEF ClientInv
<1>3. CASE req.cmd # "getheaders"
  <2>1. req.cmd = "getcfheaders" /\ ~Fails(req)
    BY <1>1, <1>3, OtherPageIs
  <2>2. pg \in Seq(Data) /\ Runs(pg, req.start) /\ req.start + Len(pg) - 1 <= req.stop
    BY <1>1, <2>1, CFHeadersPageIs DEF Runs
  <2>3. req \in [cmd : {"getcfheaders", "getcfilters"}, start : Nat, stop : Int]
    BY <1>1, <2>1 DEF Request
  <2>4. req.start \in Nat /\ req.stop \in 0 .. Tip /\ Tip \in Nat
    BY <2>1, <2>3, ChainAssumption DEF Fails, CFHeadersFails, Known, Heights
  <2>5. h = req.start + Len(pg) - 1 /\ Len(pg) \in Nat \ {0}
    <3> HIDE DEF pg
    <3>1. Len(pg) \in 1 .. Len(pg) /\ Len(pg) \in Nat \ {0}
      BY <1>1, <2>2
    <3> QED
      BY <3>1, <2>2 DEF Last, Runs
  <2> HIDE DEF h, pg
  <2>6. h + 1 \in Nat /\ h + 1 <= req.stop
    BY <1>1, <2>2, <2>4, <2>5
  <2>7. req' = [req EXCEPT !.start = h + 1]
    BY <1>1, <1>3 DEF Following
  <2>8. /\ req' \in [cmd : {"getcfheaders", "getcfilters"}, start : Nat, stop : Int]
        /\ req'.cmd = "getcfheaders" /\ req'.start = h + 1 /\ req'.stop = req.stop
    BY <2>1, <2>3, <2>6, <2>7
  <2>9. ClientTypeInv'
    <3>1. req' \in Request
      BY <2>8 DEF Request
    <3> QED
      BY <1>1, <3>1 DEF ClientTypeInv
  <2>10. HeadersWalkInv'
    BY <1>1, <1>3 DEF ClientInv, HeadersWalkInv, Located
  <2>11. CFHeadersWalkInv'
    <3> SUFFICES ASSUME origin.cmd = "getcfheaders", ~Fails(origin)
                 PROVE  /\ origin.start \in Nat
                        /\ req'.cmd = "getcfheaders" /\ ~Fails(req)' /\ req'.stop = origin.stop
                        /\ \A i \in 1 .. Len(walk) : walk[i].h = origin.start + i - 1
                        /\ origin.start + Len(walk) - 1 <= origin.stop
                        /\ req'.start = origin.start + Len(walk)
      BY <1>1 DEF CFHeadersWalkInv
    <3>1. /\ origin.start \in Nat /\ req.stop = origin.stop
          /\ \A i \in 1 .. Len(walk) : walk[i].h = origin.start + i - 1
          /\ origin.start + Len(walk) - 1 <= origin.stop
          /\ h = origin.start + Len(walk) - 1
      BY <1>1 DEF ClientInv, CFHeadersWalkInv, h, pg
    <3>2. Len(walk) \in Nat
      BY <1>1
    <3>3. h + 1 = origin.start + Len(walk)
      BY <3>1, <3>2
    <3>4. ~Fails(req)'
      BY <2>4, <2>6, <2>8 DEF Fails, CFHeadersFails, Known, Heights
    <3> QED
      BY <2>8, <3>1, <3>3, <3>4
  <2> QED
    BY <2>9, <2>10, <2>11 DEF ClientInv
<1> QED
  BY <1>2, <1>3

LEMMA ClientStep == ClientInv /\ [Next]_clientVars => ClientInv'
<1> SUFFICES ASSUME ClientInv, [Next]_clientVars
             PROVE  ClientInv'
  OBVIOUS
<1>1. CASE UNCHANGED clientVars
  BY <1>1 DEF clientVars, ClientInv, ClientTypeInv, HeadersWalkInv, CFHeadersWalkInv, From
<1> QED
  BY <1>1, ServeKeeps, AskOnKeeps DEF Next

\* For every chain, every message limit and every question, the walk of a client
\* is where its requests and the pages of the server say.
THEOREM ClientInvariance == Spec => []ClientInv
BY ClientInit, ClientStep, PTL DEF Spec

LEMMA InvFaults == ClientInv => FaultShowsWhereConfigured
BY FaultsShow DEF ClientInv, ClientTypeInv, FaultShowsWhereConfigured

\* A client is answered honestly unless a fault of the Behavior lies on a height
\* that its request reaches, whatever the request, the chain and the limits.
THEOREM FaultsShowWhereConfigured == Spec => []FaultShowsWhereConfigured
BY InvFaults, ClientInvariance, PTL

LEMMA InvWalk == ClientInv => WalkCoversChain
<1> SUFFICES ASSUME ClientInv
             PROVE  WalkCoversChain
  OBVIOUS
<1>1. walk \in Seq(Data) /\ DOMAIN walk = 1 .. Len(walk) /\ Len(walk) \in Nat /\ origin \in Request
  BY DEF ClientInv, ClientTypeInv
<1>2. ASSUME Located(origin)
      PROVE  /\ \A i \in DOMAIN walk : walk[i].h = From + i - 1
             /\ Finished => Len(walk) = PageEnd(origin, From) - From + 1
  <2>1. /\ req.stop = origin.stop
        /\ \A i \in 1 .. Len(walk) : walk[i].h = From + i - 1
        /\ From + Len(walk) - 1 <= PageEnd(origin, From)
        /\ answered =>
             IF Page(req, answer) = <<>> THEN From + Len(walk) - 1 = PageEnd(origin, From)
             ELSE walk # <<>> /\ Last(Page(req, answer)).h = From + Len(walk) - 1
    BY <1>2 DEF ClientInv, HeadersWalkInv
  <2>2. origin.locators[1] \in 0 .. Tip /\ origin.stop \in Int /\ Tip \in Nat
    BY <1>1, <1>2, LocatedStart, ChainAssumption DEF Located, Request
  <2>3. From \in 1 .. Tip + 1
    BY <2>2 DEF From
  <2>4. PageEnd(origin, From) = (IF origin.stop \in From .. Tip THEN origin.stop ELSE Tip)
    BY DEF PageEnd
  <2>5. ASSUME Finished
        PROVE  Len(walk) = PageEnd(origin, From) - From + 1
    <3>1. CASE Page(req, answer) = <<>>
      <4>1. From + Len(walk) - 1 = PageEnd(origin, From)
        BY <2>1, <2>5, <3>1 DEF Finished
      <4> QED
        BY <1>1, <2>2, <2>3, <2>4, <4>1
    <3>2. CASE Page(req, answer) # <<>>
      <4>1. From + Len(walk) - 1 = origin.stop /\ walk # <<>>
        BY <2>1, <2>5, <3>2 DEF Finished
      <4>2. Len(walk) # 0
        BY <1>1, <4>1
      <4> QED
        BY <1>1, <2>1, <2>2, <2>3, <2>4, <4>1, <4>2
    <3> QED
      BY <3>1, <3>2
  <2> QED
    BY <1>1, <2>1, <2>5
<1>3. ASSUME origin.cmd = "getcfheaders", ~Fails(origin)
      PROVE  /\ \A i \in DOMAIN walk : walk[i].h = origin.start + i - 1
             /\ Finished => \/ origin.start + Len(walk) - 1 = origin.stop
                            \/ origin.start + Len(walk) - 1 + 1 \in b.emptyCF
  <2>1. /\ origin.start \in Nat /\ req.stop = origin.stop
        /\ \A i \in 1 .. Len(walk) : walk[i].h = origin.start + i - 1
        /\ answered =>
             IF Page(req, answer) = <<>> THEN origin.start + Len(walk) \in b.emptyCF
             ELSE Last(Page(req, answer)).h = origin.start + Len(walk) - 1
    BY <1>3 DEF ClientInv, CFHeadersWalkInv
  <2>2. origin.start + Len(walk) - 1 + 1 = origin.start + Len(walk)
    <3>1. origin.start \in Int
      BY <2>1
    <3>2. Len(walk) \in Int
      BY <1>1
    <3> QED
      BY <3>1, <3>2
  <2>3. Finished => \/ origin.start + Len(walk) - 1 = origin.stop
                    \/ origin.start + Len(walk) \in b.emptyCF
    <3>1. CASE Page(req, answer) = <<>>
      BY <2>1, <3>1 DEF Finished
    <3>2. CASE Page(req, answer) # <<>>
      <4>1. ASSUME Finished
            PROVE  origin.start + Len(walk) - 1 = origin.stop
        <5>1. answered /\ Last(Page(req, answer)).h = req.stop
          BY <3>2, <4>1 DEF Finished
        <5> QED
          BY <2>1, <3>2, <5>1
      <4> QED
        BY <4>1
    <3> QED
      BY <3>1, <3>2
  <2>4. \A i \in DOMAIN walk : walk[i].h = origin.start + i - 1
    BY <1>1, <2>1
  <2> QED
    BY <2>2, <2>3, <2>4
<1> QED
  BY <1>2, <1>3 DEF WalkCoversChain, From, PageEnd

\* However its requests fall on the message limits, a client that asks page by
\* page gets every header, or filter hash, up to its stop hash or the tip once,
\* in order, and meets an empty page only where EmptyCFHeaders put it.
THEOREM WalksCoverChain == Spec => []WalkCoversChain
BY InvWalk, ClientInvariance, PTL
=============================================================================
