--------------------------- MODULE BillPagesProofs --------------------------
(***************************************************************************)
(* Proofs about BillPages, for any number of bills and clients and any     *)
(* limits.                                                                 *)
(***************************************************************************)
EXTENDS BillPages, TLAPS, FiniteSetTheorems, SequenceTheorems

(***************************************************************************)
(* Texts.                                                                  *)
(***************************************************************************)

\* A set of naturals has a least element, and a bounded one a greatest.
LEMMA LeastNatural ==
    ASSUME NEW T, T \subseteq Nat, T # {}
    PROVE  Min(T) \in T /\ \A y \in T : Min(T) <= y
<1> DEFINE I == {0..x : x \in T}
<1>1. I \subseteq FiniteSubsetsOf(Nat) /\ I # {}
  <2>1. ASSUME NEW x \in T PROVE 0..x \in FiniteSubsetsOf(Nat)
    <3>1. x \in Nat /\ IsFiniteSet(0..x)
        BY FS_Interval
    <3> QED
        BY <3>1 DEF FiniteSubsetsOf
  <2> QED
      BY <2>1
<1>2. PICK i \in I : \A j \in I : <<j, i>> \notin StrictSubsetOrdering(Nat)
    BY <1>1, FS_StrictSubsetOrderingWellFounded, WFMin
<1>3. PICK x \in T : i = 0..x
    OBVIOUS
<1>4. ASSUME NEW y \in T, y < x PROVE FALSE
  <2>1. x \in Nat /\ y \in Nat
      OBVIOUS
  <2>2. 0..y \subseteq 0..x /\ x \in 0..x /\ x \notin 0..y
      BY <1>4, <2>1
  <2>3. 0..y \in SUBSET Nat /\ 0..x \in SUBSET Nat /\ 0..y # 0..x
      BY <2>1, <2>2
  <2>4. <<0..y, 0..x>> \in StrictSubsetOrdering(Nat)
      BY <2>2, <2>3 DEF StrictSubsetOrdering
  <2> QED
      BY <1>2, <1>3, <2>4
<1>5. \A y \in T : x <= y
    BY <1>4
<1> QED
    BY <1>5 DEF Min

LEMMA GreatestNatural ==
    ASSUME NEW n \in Nat, NEW T, T \subseteq 0..n, T # {}
    PROVE  Max(T) \in T /\ \A y \in T : Max(T) >= y
<1> DEFINE U == {n - x : x \in T}
<1>1. U \subseteq Nat /\ U # {}
  <2>1. \A x \in T : n - x \in Nat
      OBVIOUS
  <2> QED
      BY <2>1
<1>2. PICK u \in U : \A y \in U : u <= y
    BY <1>1, LeastNatural
<1>3. PICK x \in T : u = n - x
    OBVIOUS
<1>4. ASSUME NEW y \in T PROVE x >= y
  <2>1. n - y \in U /\ x \in 0..n /\ y \in 0..n
      OBVIOUS
  <2>2. u <= n - y
      BY <1>2, <2>1
  <2> HIDE DEF U
  <2> QED
      BY <1>3, <2>1, <2>2
<1> QED
    BY <1>4 DEF Max

\* Trimming leaves a text that begins and ends with something else than white
\* space, if it leaves any.
LEMMA Trimmed ==
    ASSUME NEW text \in Text
    PROVE  /\ TrimSpace(text) \in Text
           /\ TrimSpace(text) # <<>> =>
                 /\ TrimSpace(text)[1] # Blank
                 /\ TrimSpace(text)[Len(TrimSpace(text))] # Blank
<1> DEFINE solid == {i \in DOMAIN text : text[i] # Blank}
<1>1. CASE solid = {}
    BY <1>1 DEF TrimSpace, Text
<1>2. CASE solid # {}
  <2> DEFINE lo == Min(solid)
             hi == Max(solid)
             trim == SubSeq(text, lo, hi)
  <2>1. Len(text) \in Nat /\ solid \subseteq Nat /\ solid \subseteq 0..Len(text)
      BY DEF Text
  <2>2. lo \in solid /\ hi \in solid /\ lo <= hi
      BY <1>2, <2>1, LeastNatural, GreatestNatural
  <2>3. lo \in 1..Len(text) /\ hi \in 1..Len(text) /\ text[lo] # Blank /\ text[hi] # Blank
      BY <2>2 DEF Text
  <2>4. /\ trim \in Seq(STRING) /\ Len(trim) = hi - lo + 1
        /\ trim[1] = text[lo] /\ trim[hi - lo + 1] = text[hi]
    <3> HIDE DEF lo, hi, solid
    <3> QED
        BY <2>2, <2>3 DEF Text
  <2>5. TrimSpace(text) = trim
      BY <1>2 DEF TrimSpace
  <2> HIDE DEF lo, hi, solid, trim
  <2> QED
      BY <2>3, <2>4, <2>5 DEF Text
<1> QED
    BY <1>1, <1>2

\* Trimming a second time changes nothing.
LEMMA TrimOnce ==
    ASSUME NEW text \in Text
    PROVE  TrimSpace(TrimSpace(text)) = TrimSpace(text)
<1> DEFINE trim == TrimSpace(text)
           solid == {i \in DOMAIN trim : trim[i] # Blank}
<1>1. trim \in Seq(STRING) /\ (trim # <<>> => trim[1] # Blank /\ trim[Len(trim)] # Blank)
    BY Trimmed DEF Text
<1> HIDE DEF trim
<1>2. CASE trim = <<>>
  <2>1. solid = {}
      BY <1>2
  <2> QED
      BY <1>2, <2>1 DEF TrimSpace, trim
<1>3. CASE trim # <<>>
  <2>1. Len(trim) \in Nat /\ solid \subseteq 1..Len(trim) /\ {1, Len(trim)} \subseteq solid
      BY <1>1, <1>3
  <2>2. Min(solid) = 1 /\ Max(solid) = Len(trim)
    <3> HIDE DEF solid
    <3>1. solid # {} /\ solid \subseteq Nat /\ solid \subseteq 0..Len(trim)
        BY <2>1
    <3>2. Min(solid) \in solid /\ \A y \in solid : Min(solid) <= y
        BY <3>1, LeastNatural
    <3>3. Max(solid) \in solid /\ \A y \in solid : Max(solid) >= y
        BY <2>1, <3>1, GreatestNatural
    <3>4. /\ Min(solid) \in 1..Len(trim) /\ Min(solid) <= 1
          /\ Max(solid) \in 1..Len(trim) /\ Max(solid) >= Len(trim)
        BY <2>1, <3>2, <3>3
    <3> HIDE DEF solid
    <3> QED
        BY <2>1, <3>4
  <2>3. TrimSpace(trim) = SubSeq(trim, 1, Len(trim))
      BY <2>1, <2>2 DEF TrimSpace
  <2> QED
      BY <1>1, <2>3, SubSeqFull DEF trim
<1> QED
    BY <1>2, <1>3

(***************************************************************************)
(* The pages of one request.                                               *)
(***************************************************************************)

LEMMA RequestType ==
    ASSUME NEW req \in Requests
    PROVE  /\ req \in [status: Text, account_id: Text, limit: Int, offset: Int]
           /\ OffsetOf(req) \in Nat
           /\ LimitOf(req) \in Nat \ {0} /\ LimitOf(req) <= MaxLimit
<1>1. PICK first \in ListRequests, n \in {r.offset : r \in ListRequests}
                                          \cup 0..(Cardinality(Bills) + MaxLimit) :
         req = [first EXCEPT !.offset = n]
    BY DEF Requests
<1>2. \A r \in ListRequests : r \in [status: Text, account_id: Text, limit: Int, offset: Int]
    BY RequestsAssumption
<1>3. Cardinality(Bills) \in Nat /\ MaxLimit \in Nat \ {0} /\ DefaultLimit \in Nat \ {0}
    BY BillsAssumption, LimitAssumption, FS_CardinalityType
<1>4. n \in Int
    BY <1>1, <1>2, <1>3
<1>5. req \in [status: Text, account_id: Text, limit: Int, offset: Int]
    BY <1>1, <1>2, <1>4
<1> QED
    BY <1>3, <1>5 DEF OffsetOf, LimitOf

\* The bills a page query finds before b.
Newer(req, b) == {d \in Matching(req) : bill[d].created > bill[b].created}

InOrder(s) == \A i, j \in DOMAIN s : i < j => bill[s[i]].created >= bill[s[j]].created

LEMMA StoredType ==
    ASSUME TypeOK
    PROVE  /\ Stored \subseteq Bills
           /\ \A b \in Stored : bill[b] \in Row /\ bill[b].created \in Nat
    BY TimesAssumption DEF TypeOK, Stored, Row

LEMMA MatchingType ==
    ASSUME TypeOK, NEW req
    PROVE  /\ Matching(req) \subseteq Stored
           /\ IsFiniteSet(Matching(req)) /\ Cardinality(Matching(req)) \in Nat
           /\ Cardinality(Matching(req)) <= Cardinality(Bills)
           /\ \A b : /\ IsFiniteSet(Newer(req, b)) /\ Cardinality(Newer(req, b)) \in Nat
<1>1. Matching(req) \in SUBSET Bills /\ Matching(req) \subseteq Stored
    BY StoredType DEF Matching
<1>2. IsFiniteSet(Matching(req)) /\ Cardinality(Matching(req)) <= Cardinality(Bills)
    BY <1>1, BillsAssumption, FS_Subset
<1>3. ASSUME NEW b
      PROVE  IsFiniteSet(Newer(req, b)) /\ Cardinality(Newer(req, b)) \in Nat
  <2>1. Newer(req, b) \in SUBSET Matching(req)
      BY DEF Newer
  <2> QED
      BY <1>2, <2>1, FS_Subset, FS_CardinalityType
<1> QED
    BY <1>1, <1>2, <1>3, FS_CardinalityType

\* In any order the query may return, the bills before b are the newer ones.
LEMMA PlaceInOrder ==
    ASSUME TypeOK, NEW req, NEW s \in SetToSeqs(Matching(req)), InOrder(s),
           NEW b \in Matching(req), Alone(b)
    PROVE  \E k \in 1..Len(s) : s[k] = b /\ Cardinality(Newer(req, b)) = k - 1
<1> DEFINE M == Matching(req)
           n == Cardinality(M)
<1>1. IsFiniteSet(M) /\ n \in Nat /\ M \subseteq Stored
    BY MatchingType
<1>2. s \in [1..n -> M] /\ \A i, j \in 1..n : i # j => s[i] # s[j]
    BY DEF SetToSeqs
<1>3. Len(s) = n
    BY <1>1, <1>2
<1>4. \A t \in M : \E i \in 1..n : s[i] = t
  <2>1. s \in Injection(1..n, M)
      BY <1>2 DEF Injection, IsInjective
  <2>2. Cardinality(1..n) = n
      BY <1>1, FS_Interval
  <2>3. s \in Surjection(1..n, M)
      BY <1>1, <2>1, <2>2, FS_Injection
  <2> QED
      BY <2>3 DEF Surjection
<1>5. PICK k \in 1..n : s[k] = b
    BY <1>4
<1> DEFINE f == [i \in 1..(k - 1) |-> s[i]]
<1>6. \A d \in M : bill[d].created \in Nat /\ (d # b => bill[d].created # bill[b].created)
    BY <1>1, StoredType DEF Alone
<1>7. ASSUME NEW i \in 1..(k - 1) PROVE s[i] \in Newer(req, b)
  <2>1. i \in 1..n /\ i < k /\ s[i] \in M /\ s[i] # b
      BY <1>1, <1>2, <1>5
  <2>2. bill[s[i]].created >= bill[b].created
      BY <1>2, <1>5, <2>1 DEF InOrder
  <2> QED
      BY <1>6, <2>1, <2>2 DEF Newer
<1>8. ASSUME NEW d \in Newer(req, b) PROVE \E i \in 1..(k - 1) : s[i] = d
  <2>1. d \in M /\ bill[d].created > bill[b].created
      BY DEF Newer
  <2>2. PICK i \in 1..n : s[i] = d
      BY <1>4, <2>1
  <2>3. k < i => bill[b].created >= bill[d].created
      BY <1>2, <1>5, <2>2 DEF InOrder
  <2>4. i # k
      BY <1>5, <1>6, <2>1, <2>2
  <2>5. i < k
      BY <1>1, <1>5, <1>6, <2>1, <2>3, <2>4
  <2> QED
      BY <1>1, <2>2, <2>5
<1>9. f \in Bijection(1..(k - 1), Newer(req, b))
  <2>1. f \in [1..(k - 1) -> Newer(req, b)]
      BY <1>7
  <2>2. \A i, j \in 1..(k - 1) : f[i] = f[j] => i = j
      BY <1>1, <1>2
  <2>3. \A d \in Newer(req, b) : \E i \in 1..(k - 1) : f[i] = d
      BY <1>8
  <2> QED
      BY <2>1, <2>2, <2>3 DEF Bijection, Injection, Surjection, IsInjective
<1>10. Cardinality(Newer(req, b)) = k - 1
  <2>1. k - 1 \in Nat
      BY <1>1
  <2>2. ExistsBijection(1..(k - 1), Newer(req, b))
      BY <1>9 DEF ExistsBijection
  <2> QED
      BY <2>1, <2>2, FS_CountingElements
<1> QED
    BY <1>3, <1>5, <1>10

\* A page holds what the query finds from its offset on, as far as its limit.
LEMMA PageHolds ==
    ASSUME TypeOK, NEW req \in Requests, NEW page \in Pages(req)
    PROVE  LET total == Cardinality(Matching(req))
               first == OffsetOf(req)
               limit == LimitOf(req)
           IN  /\ page \in Seq(Matching(req))
               /\ Len(page) < limit => total <= first + Len(page)
               /\ Len(page) >= limit => Len(page) = limit /\ first + limit <= total
               /\ \A b \in Matching(req) :
                     LET newer == Cardinality(Newer(req, b))
                     IN  Alone(b) /\ first <= newer =>
                            \/ b \in ToSet(page)
                            \/ Len(page) >= limit /\ first + limit <= newer
<1> DEFINE M == Matching(req)
           total == Cardinality(M)
           first == OffsetOf(req)
           limit == LimitOf(req)
<1>1. total \in Nat /\ first \in Nat /\ limit \in Nat \ {0}
    BY MatchingType, RequestType
<1>2. PICK s \in SetToSeqs(M) :
         /\ InOrder(s)
         /\ page = SubSeq(s, first + 1, Min({first + limit, Len(s)}))
    BY DEF Pages, InOrder
<1>3. s \in [1..total -> M] /\ Len(s) = total
    BY <1>1, <1>2 DEF SetToSeqs
<1> DEFINE last == Min({first + limit, total})
<1>4. last = IF first + limit <= total THEN first + limit ELSE total
  <2>1. {first + limit, total} \subseteq Nat
      BY <1>1
  <2>2. last \in {first + limit, total} /\ last <= first + limit /\ last <= total
      BY <2>1, LeastNatural
  <2> HIDE DEF last
  <2> QED
      BY <1>1, <2>2
<1> HIDE DEF last
<1>5. /\ page \in Seq(M)
      /\ Len(page) = IF first < last THEN last - first ELSE 0
      /\ \A i \in 1..(last - first) : page[i] = s[first + i]
  <2>1. page = SubSeq(s, first + 1, last)
      BY <1>2, <1>3 DEF last
  <2>2. first + 1 \in Int /\ last \in Int
      BY <1>1, <1>4
  <2>3. \A i \in (first + 1)..last : s[i] \in M
      BY <1>1, <1>3, <1>4
  <2>4. /\ page \in Seq(M)
        /\ Len(page) = IF first + 1 <= last THEN last - (first + 1) + 1 ELSE 0
        /\ \A i \in 1..(last - (first + 1) + 1) : page[i] = s[first + 1 + i - 1]
      BY <2>1, <2>2, <2>3, SubSeqProperties
  <2>5. first \in Nat /\ last \in Nat
      BY <1>1, <1>4
  <2>6. /\ first + 1 <= last <=> first < last
        /\ last - (first + 1) + 1 = last - first
        /\ \A i \in 1..(last - first) : first + 1 + i - 1 = first + i
      BY <2>5
  <2> QED
      BY <2>4, <2>6
<1>6. Len(page) < limit => total <= first + Len(page)
    BY <1>1, <1>4, <1>5
<1>7. Len(page) >= limit => Len(page) = limit /\ first + limit <= total
    BY <1>1, <1>4, <1>5
<1>8. ASSUME NEW b \in M, Alone(b), first <= Cardinality(Newer(req, b)),
             b \notin ToSet(page)
      PROVE  Len(page) >= limit /\ first + limit <= Cardinality(Newer(req, b))
  <2>1. PICK k \in 1..total : s[k] = b /\ Cardinality(Newer(req, b)) = k - 1
      BY <1>2, <1>3, <1>8, PlaceInOrder
  <2>2. ASSUME k <= last PROVE FALSE
    <3>1. k - first \in 1..(last - first) /\ first + (k - first) = k
        BY <1>1, <1>4, <1>8, <2>1, <2>2
    <3>2. page[k - first] = b
        BY <1>5, <2>1, <3>1
    <3>3. k - first \in DOMAIN page
      <4>1. Len(page) = last - first
          BY <1>1, <1>4, <1>5, <3>1
      <4> QED
          BY <1>5, <3>1, <4>1
    <3> QED
        BY <1>8, <3>2, <3>3 DEF ToSet
  <2> QED
      BY <1>1, <1>4, <1>5, <2>1, <2>2
<1> QED
    BY <1>5, <1>6, <1>7, <1>8

(***************************************************************************)
(* Type correctness.                                                       *)
(***************************************************************************)

LEMMA FirstRequest ==
    ASSUME NEW req \in ListRequests
    PROVE  req \in Requests /\ OffsetOf(req) = 0
<1>1. req \in [status: Text, account_id: Text, limit: Int, offset: Int] /\ req.offset <= 0
    BY RequestsAssumption
<1>2. req = [req EXCEPT !.offset = req.offset]
    BY <1>1
<1> QED
    BY <1>1, <1>2 DEF Requests, OffsetOf

LEMMA NextRequest ==
    ASSUME NEW req \in Requests, NEW n \in 0..(Cardinality(Bills) + MaxLimit)
    PROVE  /\ [req EXCEPT !.offset = n] \in Requests
           /\ OffsetOf([req EXCEPT !.offset = n]) = n
           /\ LimitOf([req EXCEPT !.offset = n]) = LimitOf(req)
           /\ StatusesOf([req EXCEPT !.offset = n]) = StatusesOf(req)
           /\ [req EXCEPT !.offset = n].account_id = req.account_id
<1>1. PICK first \in ListRequests, m \in {r.offset : r \in ListRequests}
                                          \cup 0..(Cardinality(Bills) + MaxLimit) :
         req = [first EXCEPT !.offset = m]
    BY DEF Requests
<1>2. req \in [status: Text, account_id: Text, limit: Int, offset: Int]
    BY RequestType
<1>3. first \in [status: Text, account_id: Text, limit: Int, offset: Int]
    BY RequestsAssumption
<1> DEFINE next == [req EXCEPT !.offset = n]
<1>4. next = [first EXCEPT !.offset = n]
    BY <1>1, <1>2, <1>3
<1>5. next \in Requests
    BY <1>4 DEF Requests
<1>6. Cardinality(Bills) \in Nat /\ MaxLimit \in Nat
    BY BillsAssumption, LimitAssumption, FS_CardinalityType
<1>7. /\ next.status = req.status /\ next.account_id = req.account_id
      /\ next.limit = req.limit /\ next.offset = n /\ n \in Nat
    BY <1>2, <1>6
<1> HIDE DEF next
<1>8. OffsetOf(next) = n /\ LimitOf(next) = LimitOf(req) /\ StatusesOf(next) = StatusesOf(req)
    BY <1>7 DEF OffsetOf, LimitOf, StatusesOf
<1> QED
    BY <1>5, <1>7, <1>8 DEF next

\* What a client makes of its last page, and of any other.
Ended(w, seen, end) == [[w EXCEPT !.seen = seen] EXCEPT !.pc = "done", !.end = end]
Moved(w, seen, req) ==
    [[w EXCEPT !.seen = seen] EXCEPT !.pc = "count", !.total = 0, !.req = req]

LEMMA EndedEffect ==
    ASSUME NEW w \in Walk, NEW seen \in SUBSET Bills, NEW end \in Nat
    PROVE  LET new == Ended(w, seen, end)
           IN  /\ new \in Walk /\ new.due = w.due /\ new.seen = seen /\ new.pc = "done"
               /\ new.req = w.req /\ new.total = w.total /\ new.end = end
<1> DEFINE next == [w EXCEPT !.seen = seen]
<1>1. /\ next \in Walk /\ next.due = w.due /\ next.seen = seen
      /\ next.req = w.req /\ next.total = w.total
    BY DEF Walk
<1>2. Ended(w, seen, end) = [next EXCEPT !.pc = "done", !.end = end]
    BY DEF Ended
<1> HIDE DEF next
<1> QED
    BY <1>1, <1>2 DEF Walk

LEMMA MovedEffect ==
    ASSUME NEW w \in Walk, NEW seen \in SUBSET Bills, NEW req \in Requests
    PROVE  LET new == Moved(w, seen, req)
           IN  /\ new \in Walk /\ new.due = w.due /\ new.seen = seen /\ new.pc = "count"
               /\ new.req = req /\ new.total = 0 /\ new.end = w.end
<1> DEFINE next == [w EXCEPT !.seen = seen]
<1>1. /\ next \in Walk /\ next.due = w.due /\ next.seen = seen /\ next.end = w.end
    BY DEF Walk
<1>2. Moved(w, seen, req) = [next EXCEPT !.pc = "count", !.total = 0, !.req = req]
    BY DEF Moved
<1>3. 0 \in 0..Cardinality(Bills)
    BY BillsAssumption, FS_CardinalityType
<1> HIDE DEF next
<1> QED
    BY <1>1, <1>2, <1>3 DEF Walk

LEMMA FetchEffect ==
    ASSUME TypeOK, NEW c \in Clients, FetchPage(c), walk[c].req \in Requests
    PROVE  \E page \in Pages(walk[c].req) :
              LET old == walk[c]
                  new == walk'[c]
                  first == OffsetOf(old.req)
                  limit == LimitOf(old.req)
              IN  /\ new.due = old.due /\ new.seen = old.seen \cup ToSet(page)
                  /\ Len(page) < limit =>
                        /\ new.pc = "done" /\ new.req = old.req
                        /\ new.total = old.total /\ new.end = first + Len(page)
                  /\ Len(page) >= limit =>
                        /\ new.pc = "count" /\ new.req = [old.req EXCEPT !.offset = first + limit]
                        /\ new.total = 0 /\ new.end = old.end
                  /\ new \in Walk
                  /\ walk' = [walk EXCEPT ![c] = new]
<1> DEFINE old == walk[c]
           first == OffsetOf(old.req)
           limit == LimitOf(old.req)
<1>1. PICK page \in Pages(old.req) : Take(c, Answer(c, page))
    BY DEF FetchPage
<1>2. /\ old \in Walk /\ old.req \in Requests
      /\ first \in Nat /\ limit \in Nat \ {0} /\ limit <= MaxLimit /\ MaxLimit \in Nat
    BY RequestType, LimitAssumption DEF TypeOK
<1> DEFINE seen == old.seen \cup ToSet(page)
           next == [old.req EXCEPT !.offset = first + limit]
<1>3. /\ page \in Seq(Matching(old.req)) /\ Matching(old.req) \subseteq Bills
      /\ Cardinality(Matching(old.req)) <= Cardinality(Bills)
      /\ Cardinality(Matching(old.req)) \in Nat /\ Cardinality(Bills) \in Nat
      /\ Len(page) >= limit => first + limit <= Cardinality(Matching(old.req))
    BY <1>1, <1>2, PageHolds, MatchingType, StoredType, BillsAssumption, FS_CardinalityType
<1>4. ToSet(page) \subseteq Bills /\ first + Len(page) \in Nat
    BY <1>2, <1>3 DEF ToSet
<1>5. seen \in SUBSET Bills
    BY <1>2, <1>4 DEF Walk
<1>6. Len(page) >= limit => next \in Requests
  <2>1. Len(page) >= limit => first + limit \in 0..(Cardinality(Bills) + MaxLimit)
      BY <1>2, <1>3
  <2> QED
      BY <1>2, <2>1, NextRequest
<1>7. walk' = [walk EXCEPT ![c] = IF Len(page) < limit
                                  THEN Ended(old, seen, first + Len(page))
                                  ELSE Moved(old, seen, next)]
    BY <1>1 DEF Take, Answer, Ended, Moved
<1>8. walk'[c] = IF Len(page) < limit
                 THEN Ended(old, seen, first + Len(page))
                 ELSE Moved(old, seen, next)
    BY <1>7 DEF TypeOK
<1>9. walk' = [walk EXCEPT ![c] = walk'[c]]
    BY <1>7, <1>8
<1>10. /\ walk'[c] \in Walk /\ walk'[c].due = old.due /\ walk'[c].seen = seen
       /\ Len(page) < limit =>
             /\ walk'[c].pc = "done" /\ walk'[c].req = old.req
             /\ walk'[c].total = old.total /\ walk'[c].end = first + Len(page)
       /\ Len(page) >= limit =>
             /\ walk'[c].pc = "count" /\ walk'[c].req = next
             /\ walk'[c].total = 0 /\ walk'[c].end = old.end
  <2>1. Len(page) < limit \/ Len(page) >= limit
      BY <1>2, <1>3
  <2> HIDE DEF old, first, limit, seen, next
  <2> QED
      BY <1>2, <1>4, <1>5, <1>6, <1>8, <2>1, EndedEffect, MovedEffect
<1> QED
    BY <1>1, <1>9, <1>10

(***************************************************************************)
(* The inductive invariant.  It speaks of the table as a value, so that    *)
(* what it says before and after a step can be compared.                   *)
(***************************************************************************)

StoredIn(t) == {b \in Bills : t[b] # None}

MatchingIn(t, req) ==
    LET account == TrimSpace(req.account_id)
    IN  {b \in StoredIn(t) : /\ t[b].status \in StatusesOf(req)
                             /\ account = <<>> \/ t[b].account = account}

NewerIn(t, req, b) == {d \in MatchingIn(t, req) : t[d].created > t[b].created}
AloneIn(t, b) == \A d \in StoredIn(t) \ {b} : t[d].created # t[b].created

\* Bill b is on a page still to come: no fewer bills than the walk has passed are
\* newer than b.
Ahead(t, w, b) ==
    /\ b \in MatchingIn(t, w.req)
    /\ OffsetOf(w.req) <= Cardinality(NewerIn(t, w.req, b))

WalkOk(t, w) ==
    /\ w.pc # "idle" => w.req \in Requests
    /\ w.due \subseteq StoredIn(t)
    /\ w.pc # "idle" /\ Settled(w.req) =>
          /\ \A b \in w.due : AloneIn(t, b) =>
                b \in w.seen \/ (w.pc # "done" /\ Ahead(t, w, b))
          /\ w.pc = "page" => w.total <= Cardinality(MatchingIn(t, w.req))
          /\ w.pc = "done" => w.total <= w.end

Table == [Bills -> Row \cup {None}]

WalkInv == TypeOK /\ \A c \in Clients : WalkOk(bill, walk[c])

LEMMA TableIsBill ==
    ASSUME NEW req
    PROVE  /\ Stored = StoredIn(bill) /\ Matching(req) = MatchingIn(bill, req)
           /\ \A b : /\ Newer(req, b) = NewerIn(bill, req, b)
                     /\ Alone(b) <=> AloneIn(bill, b)
<1>1. Stored = StoredIn(bill)
    BY DEF Stored, StoredIn
<1>2. Matching(req) = MatchingIn(bill, req)
    BY <1>1 DEF Matching, MatchingIn
<1> QED
    BY <1>1, <1>2 DEF Newer, NewerIn, Alone, AloneIn

\* What a step may do to the table: bills appear, and leave OPEN.
Grows(t, u) ==
    \A b \in StoredIn(t) :
        /\ b \in StoredIn(u)
        /\ u[b].created = t[b].created /\ u[b].account = t[b].account
        /\ u[b].status = t[b].status \/ t[b].status = "OPEN"

\* A filter that is settled lets the bills that have left OPEN through, or none
\* that is OPEN.
LEMMA SettledFilter ==
    ASSUME NEW req, Settled(req)
    PROVE  StatusesOf(req) = Statuses \/ "OPEN" \notin StatusesOf(req)
<1> DEFINE text == ToUpper(TrimSpace(req.status))
<1>1. CASE TrimSpace(req.status) = <<>>
    BY <1>1 DEF StatusesOf
<1>2. CASE TrimSpace(req.status) # <<>>
  <2>1. StatusesOf(req) = {s \in {"OPEN", "CLOSED", "CANCELLED"} : <<s>> = text}
      BY <1>2 DEF StatusesOf, parseBillStatusFilter
  <2> HIDE DEF text
  <2>2. ASSUME "OPEN" \in StatusesOf(req) PROVE StatusesOf(req) = {"OPEN"}
      BY <2>1, <2>2
  <2> QED
      BY <2>2 DEF Settled
<1> QED
    BY <1>1, <1>2

LEMMA TableFacts ==
    ASSUME NEW t \in Table, NEW req
    PROVE  /\ IsFiniteSet(MatchingIn(t, req)) /\ Cardinality(MatchingIn(t, req)) \in Nat
           /\ \A b : /\ IsFiniteSet(NewerIn(t, req, b))
                     /\ Cardinality(NewerIn(t, req, b)) \in Nat
<1>1. MatchingIn(t, req) \in SUBSET Bills
    BY DEF MatchingIn, StoredIn
<1>2. IsFiniteSet(MatchingIn(t, req))
    BY <1>1, BillsAssumption, FS_Subset
<1>3. \A b : NewerIn(t, req, b) \in SUBSET MatchingIn(t, req)
    BY DEF NewerIn
<1>4. \A b : IsFiniteSet(NewerIn(t, req, b))
    BY <1>2, <1>3, FS_Subset
<1> QED
    BY <1>2, <1>4, FS_CardinalityType

\* Bills that appear or leave OPEN push the others to later pages only.
LEMMA GrowthKeepsAhead ==
    ASSUME NEW t \in Table, NEW u \in Table, Grows(t, u), NEW req, Settled(req)
    PROVE  /\ Cardinality(MatchingIn(t, req)) <= Cardinality(MatchingIn(u, req))
           /\ \A b \in MatchingIn(t, req) :
                 /\ b \in MatchingIn(u, req)
                 /\ Cardinality(NewerIn(t, req, b)) <= Cardinality(NewerIn(u, req, b))
           /\ \A b \in StoredIn(t) : AloneIn(u, b) => AloneIn(t, b)
<1>1. \A b \in StoredIn(u) : u[b].status \in Statuses
    BY DEF Table, StoredIn, Row
<1>2. MatchingIn(t, req) \subseteq MatchingIn(u, req)
    BY <1>1, SettledFilter DEF Grows, MatchingIn
<1>3. \A b \in MatchingIn(t, req) : b \in StoredIn(t)
    BY DEF MatchingIn
<1>4. \A b \in MatchingIn(t, req) : NewerIn(t, req, b) \subseteq NewerIn(u, req, b)
    BY <1>2, <1>3 DEF Grows, NewerIn
<1>5. Cardinality(MatchingIn(t, req)) <= Cardinality(MatchingIn(u, req))
    BY <1>2, TableFacts, FS_Subset
<1>6. \A b \in MatchingIn(t, req) :
          Cardinality(NewerIn(t, req, b)) <= Cardinality(NewerIn(u, req, b))
    BY <1>4, TableFacts, FS_Subset
<1>7. \A b \in StoredIn(t) : AloneIn(u, b) => AloneIn(t, b)
    BY DEF Grows, AloneIn
<1> QED
    BY <1>2, <1>5, <1>6, <1>7

LEMMA GrowthKeepsWalk ==
    ASSUME NEW t \in Table, NEW u \in Table, Grows(t, u), NEW w \in Walk, WalkOk(t, w)
    PROVE  WalkOk(u, w)
<1>1. w.due \subseteq StoredIn(t) /\ w.due \subseteq StoredIn(u)
    BY DEF WalkOk, Grows
<1>2. ASSUME w.pc # "idle", Settled(w.req)
      PROVE  /\ \A b \in w.due : AloneIn(u, b) =>
                   b \in w.seen \/ (w.pc # "done" /\ Ahead(u, w, b))
             /\ w.pc = "page" => w.total <= Cardinality(MatchingIn(u, w.req))
             /\ w.pc = "done" => w.total <= w.end
  <2>1. OffsetOf(w.req) \in Nat /\ w.total \in Nat
    <3>1. w.req \in Requests
        BY <1>2 DEF WalkOk
    <3>2. Cardinality(Bills) \in Nat
        BY BillsAssumption, FS_CardinalityType
    <3> QED
        BY <3>1, <3>2, RequestType DEF Walk
  <2>2. ASSUME NEW b \in w.due
        PROVE  AloneIn(u, b) => b \in w.seen \/ (w.pc # "done" /\ Ahead(u, w, b))
    <3> SUFFICES ASSUME AloneIn(u, b), b \notin w.seen
                 PROVE  w.pc # "done" /\ Ahead(u, w, b)
        OBVIOUS
    <3>1. w.pc # "done" /\ Ahead(t, w, b)
        BY <1>1, <1>2, GrowthKeepsAhead DEF WalkOk
    <3> QED
        BY <1>2, <2>1, <3>1, GrowthKeepsAhead, TableFacts DEF Ahead
  <2>3. w.pc = "page" => w.total <= Cardinality(MatchingIn(u, w.req))
      BY <1>2, <2>1, GrowthKeepsAhead, TableFacts DEF WalkOk
  <2>4. \A b \in w.due : AloneIn(u, b) =>
           b \in w.seen \/ (w.pc # "done" /\ Ahead(u, w, b))
      BY <2>2
  <2>5. w.pc = "done" => w.total <= w.end
      BY <1>2 DEF WalkOk
  <2> QED
      BY <2>3, <2>4, <2>5
<1> QED
    BY <1>1, <1>2 DEF WalkOk

(***************************************************************************)
(* The steps.                                                              *)
(***************************************************************************)

LEMMA TableStep ==
    ASSUME TypeOK, NEW b \in Bills,
           \/ \E req \in CreateRequests : CreateBill(b, req)
           \/ \E status \in {"CLOSED", "CANCELLED"} : LeaveOpen(b, status)
    PROVE  bill' \in Table /\ Grows(bill, bill') /\ walk' = walk
<1>1. bill \in Table
    BY DEF TypeOK, Table
<1>2. CASE \E req \in CreateRequests : CreateBill(b, req)
  <2>1. PICK req \in CreateRequests : CreateBill(b, req)
      BY <1>2
  <2>2. PICK t \in Times :
           bill' = [bill EXCEPT ![b] = [status |-> "OPEN", created |-> t,
                        account |-> parseCreateBillRequest(req).account_id]]
      BY <2>1 DEF CreateBill
  <2>3. req \in [account_id: Text, currency: STRING, period: Int]
      BY RequestsAssumption
  <2>4. parseCreateBillRequest(req).account_id = TrimSpace(req.account_id)
      BY <2>3 DEF parseCreateBillRequest
  <2>5. TrimSpace(req.account_id) \in Accounts
    <3>1. TrimSpace(req.account_id) \in Seq(STRING)
        BY <2>3, Trimmed DEF Text
    <3>2. TrimSpace(req.account_id) # <<>> /\ Len(TrimSpace(req.account_id)) <= MaxLength
        BY <2>1 DEF CreateBill, AcceptsBill
    <3>3. 0 < Len(TrimSpace(req.account_id))
        BY <3>1, <3>2
    <3> QED
        BY <3>2, <3>3 DEF Accounts
  <2> DEFINE row == [status |-> "OPEN", created |-> t,
                     account |-> parseCreateBillRequest(req).account_id]
  <2>6. row \in Row
      BY <2>4, <2>5 DEF Row, Statuses
  <2>7. bill[b] = None /\ walk' = walk
      BY <2>1 DEF CreateBill
  <2> HIDE DEF row
  <2>8. bill' = [bill EXCEPT ![b] = row]
      BY <2>2 DEF row
  <2>9. bill' \in Table
      BY <1>1, <2>6, <2>8 DEF Table
  <2>10. \A d \in StoredIn(bill) : d # b /\ bill'[d] = bill[d]
      BY <1>1, <2>7, <2>8 DEF Table, StoredIn
  <2> QED
      BY <2>7, <2>9, <2>10 DEF Grows, StoredIn
<1>3. CASE \E status \in {"CLOSED", "CANCELLED"} : LeaveOpen(b, status)
  <2>1. PICK status \in {"CLOSED", "CANCELLED"} : LeaveOpen(b, status)
      BY <1>3
  <2> DEFINE row == [bill[b] EXCEPT !.status = status]
  <2>2. bill[b] \in Row /\ bill[b].status = "OPEN" /\ walk' = walk
      BY <1>1, <2>1 DEF LeaveOpen, Table
  <2>3. row \in Row /\ row.created = bill[b].created /\ row.account = bill[b].account
      BY <2>2 DEF Row, Statuses
  <2>4. bill' = [bill EXCEPT ![b] = row]
      BY <2>1 DEF LeaveOpen
  <2> HIDE DEF row
  <2>5. bill' \in Table
      BY <1>1, <2>3, <2>4 DEF Table
  <2>6. row # None
      BY <2>3, NoneAssumption
  <2>7. \A d \in Bills : bill'[d] = IF d = b THEN row ELSE bill[d]
      BY <1>1, <2>4 DEF Table
  <2> QED
      BY <2>2, <2>3, <2>5, <2>6, <2>7 DEF Grows, StoredIn
<1> QED
    BY <1>2, <1>3

\* The bills a request means are those its statements look for: accounts are stored
\* trimmed.
LEMMA MeantMatches ==
    ASSUME TypeOK, NEW req \in Requests
    PROVE  Meant(req) \subseteq Matching(req)
<1>1. ASSUME NEW b \in Stored PROVE TrimSpace(bill[b].account) = bill[b].account
  <2>1. bill[b].account \in Accounts
      BY StoredType DEF Row
  <2>2. PICK first \in CreateRequests : bill[b].account = TrimSpace(first.account_id)
      BY <2>1 DEF Accounts
  <2>3. first.account_id \in Text
      BY RequestsAssumption
  <2> QED
      BY <2>2, <2>3, TrimOnce
<1> QED
    BY <1>1 DEF Meant, Matching

\* A step of one client leaves the others alone.
LEMMA OneWalk ==
    ASSUME WalkInv, NEW c \in Clients, NEW w \in Walk, WalkOk(bill, w),
           walk' = [walk EXCEPT ![c] = w], bill' = bill
    PROVE  WalkInv'
<1>1. walk' \in [Clients -> Walk] /\ \A d \in Clients : WalkOk(bill, walk'[d])
    BY DEF WalkInv, TypeOK
<1>2. TypeOK'
    BY <1>1 DEF WalkInv, TypeOK
<1>3. \A d \in Clients : WalkOk(bill', walk'[d])
    BY <1>1
<1> QED
    BY <1>2, <1>3 DEF WalkInv

LEMMA BeginStep ==
    ASSUME WalkInv, NEW c \in Clients, NEW req \in ListRequests, Begin(c, req)
    PROVE  WalkInv'
<1> DEFINE w == [pc |-> "count", req |-> req, total |-> 0, end |-> 0,
                 due |-> Meant(req), seen |-> {}]
<1>1. TypeOK /\ bill \in Table /\ req \in Requests /\ OffsetOf(req) = 0
    BY FirstRequest DEF WalkInv, TypeOK, Table
<1>2. Meant(req) \subseteq MatchingIn(bill, req) /\ Meant(req) \subseteq StoredIn(bill)
    BY <1>1, MeantMatches, TableIsBill DEF MatchingIn
<1>3. StoredIn(bill) \subseteq Bills /\ 0 \in 0..Cardinality(Bills)
    BY BillsAssumption, FS_CardinalityType DEF StoredIn
<1>4. w \in Walk
    BY <1>1, <1>2, <1>3 DEF Walk
<1>5. /\ w.pc = "count" /\ w.req = req /\ w.due = Meant(req)
    OBVIOUS
<1>6. walk' = [walk EXCEPT ![c] = w] /\ bill' = bill
    BY DEF Begin
<1> HIDE DEF w
<1>7. \A b \in w.due : Ahead(bill, w, b)
    BY <1>1, <1>2, <1>5, TableFacts DEF Ahead
<1>8. WalkOk(bill, w)
    BY <1>1, <1>2, <1>5, <1>7 DEF WalkOk
<1> QED
    BY <1>4, <1>6, <1>8, OneWalk

LEMMA CountStep ==
    ASSUME WalkInv, NEW c \in Clients, CountBills(c) \/ QueryFails(c)
    PROVE  WalkInv'
<1>1. TypeOK /\ bill \in Table /\ walk[c] \in Walk /\ WalkOk(bill, walk[c])
      /\ walk[c].pc \in {"count", "page"} /\ bill' = bill
    BY DEF WalkInv, TypeOK, Table, CountBills, QueryFails
<1>2. PICK pc \in {"count", "page"}, total \in 0..Cardinality(Bills) :
         /\ walk' = [walk EXCEPT ![c] = [walk[c] EXCEPT !.pc = pc, !.total = total]]
         /\ pc = "page" => total = Cardinality(MatchingIn(bill, walk[c].req))
  <2>1. CASE CountBills(c)
    <3>1. Count(walk[c].req) \in 0..Cardinality(Bills)
        BY <1>1, MatchingType, BillsAssumption, FS_CardinalityType DEF Count
    <3>2. Count(walk[c].req) = Cardinality(MatchingIn(bill, walk[c].req))
        BY TableIsBill DEF Count
    <3> QED
        BY <2>1, <3>1, <3>2 DEF CountBills
  <2>2. CASE QueryFails(c)
    <3>1. 0 \in 0..Cardinality(Bills)
        BY BillsAssumption, FS_CardinalityType
    <3> QED
        BY <2>2, <3>1 DEF QueryFails
  <2> QED
      BY <2>1, <2>2
<1> DEFINE w == [walk[c] EXCEPT !.pc = pc, !.total = total]
<1>3. /\ w \in Walk /\ w.pc = pc /\ w.total = total /\ w.req = walk[c].req
      /\ w.due = walk[c].due /\ w.seen = walk[c].seen
    BY <1>1 DEF Walk
<1>4. walk' = [walk EXCEPT ![c] = w]
    BY <1>2
<1> HIDE DEF w
<1>5. Cardinality(MatchingIn(bill, w.req)) \in Nat
    BY <1>1, TableFacts
<1>6. WalkOk(bill, w)
    BY <1>1, <1>2, <1>3, <1>5 DEF WalkOk, Ahead
<1> QED
    BY <1>1, <1>3, <1>4, <1>6, OneWalk

LEMMA FetchStep ==
    ASSUME WalkInv, NEW c \in Clients, FetchPage(c)
    PROVE  WalkInv'
<1> DEFINE old == walk[c]
           first == OffsetOf(old.req)
           limit == LimitOf(old.req)
           total == Cardinality(MatchingIn(bill, old.req))
<1>1. /\ TypeOK /\ bill \in Table /\ old \in Walk /\ WalkOk(bill, old)
      /\ old.pc = "page" /\ bill' = bill
    BY DEF WalkInv, TypeOK, Table, FetchPage
<1>2. old.req \in Requests /\ old.due \subseteq StoredIn(bill)
    BY <1>1 DEF WalkOk
<1>3. PICK page \in Pages(old.req) :
         LET new == walk'[c]
         IN  /\ new.due = old.due /\ new.seen = old.seen \cup ToSet(page)
             /\ Len(page) < limit =>
                   /\ new.pc = "done" /\ new.req = old.req
                   /\ new.total = old.total /\ new.end = first + Len(page)
             /\ Len(page) >= limit =>
                   /\ new.pc = "count" /\ new.req = [old.req EXCEPT !.offset = first + limit]
                   /\ new.total = 0 /\ new.end = old.end
             /\ new \in Walk
             /\ walk' = [walk EXCEPT ![c] = new]
    BY <1>1, <1>2, FetchEffect
<1>4. PICK w : w = walk'[c]
    OBVIOUS
<1>5. /\ Len(page) \in Nat
      /\ first \in Nat /\ limit \in Nat \ {0} /\ total \in Nat /\ old.total \in Nat
      /\ limit <= MaxLimit /\ MaxLimit \in Nat
      /\ total <= Cardinality(Bills) /\ Cardinality(Bills) \in Nat
  <2>1. Len(page) \in Nat
      BY <1>1, <1>2, PageHolds
  <2>2. total \in Nat /\ total <= Cardinality(Bills)
      BY <1>1, MatchingType, TableIsBill
  <2>3. Cardinality(Bills) \in Nat
      BY BillsAssumption, FS_CardinalityType
  <2>4. old.total \in Nat
      BY <1>1, <2>3 DEF Walk
  <2> QED
      BY <1>2, <2>1, <2>2, <2>3, <2>4, RequestType, LimitAssumption
<1>6. /\ Len(page) < limit => total <= first + Len(page)
      /\ Len(page) >= limit => first + limit <= total
      /\ \A b \in MatchingIn(bill, old.req) :
            AloneIn(bill, b) /\ first <= Cardinality(NewerIn(bill, old.req, b)) =>
               \/ b \in ToSet(page)
               \/ Len(page) >= limit
                  /\ first + limit <= Cardinality(NewerIn(bill, old.req, b))
    BY <1>1, <1>2, PageHolds, TableIsBill
<1>7. CASE Len(page) < limit
  <2>1. /\ w.pc = "done" /\ w.req = old.req /\ w.due = old.due
        /\ w.seen = old.seen \cup ToSet(page)
        /\ w.total = old.total /\ w.end = first + Len(page)
      BY <1>3, <1>4, <1>7
  <2>2. ASSUME Settled(old.req)
        PROVE  /\ old.total <= total
               /\ \A b \in old.due : AloneIn(bill, b) =>
                     b \in old.seen \/ b \in ToSet(page)
    <3> HIDE DEF old, limit
    <3> QED
        BY <1>1, <1>5, <1>6, <1>7, <2>2 DEF WalkOk, Ahead
  <2>3. WalkOk(bill, w)
    <3>1. w.req \in Requests /\ w.due \subseteq StoredIn(bill)
        BY <1>2, <2>1
    <3>2. ASSUME Settled(w.req)
          PROVE  /\ \A b \in w.due : AloneIn(bill, b) => b \in w.seen
                 /\ w.total <= w.end
      <4> HIDE DEF old, limit, first, total
      <4>1. \A b \in w.due : AloneIn(bill, b) => b \in w.seen
          BY <2>1, <2>2, <3>2
      <4>2. w.total <= w.end
          BY <1>5, <1>6, <1>7, <2>1, <2>2, <3>2
      <4> QED
          BY <4>1, <4>2
    <3> QED
        BY <2>1, <3>1, <3>2 DEF WalkOk
  <2> QED
      BY <1>1, <1>3, <1>4, <2>3, OneWalk
<1>8. CASE Len(page) >= limit
  <2> DEFINE next == [old.req EXCEPT !.offset = first + limit]
  <2>1. /\ w.pc = "count" /\ w.req = next /\ w.due = old.due
        /\ w.seen = old.seen \cup ToSet(page)
      BY <1>3, <1>4, <1>8
  <2>2. first + limit \in 0..(Cardinality(Bills) + MaxLimit)
      BY <1>5, <1>6, <1>8
  <2>3. /\ next \in Requests /\ OffsetOf(next) = first + limit
        /\ StatusesOf(next) = StatusesOf(old.req) /\ next.account_id = old.req.account_id
      BY <1>2, <2>2, NextRequest
  <2> HIDE DEF next
  <2>4. /\ MatchingIn(bill, next) = MatchingIn(bill, old.req)
        /\ Settled(next) = Settled(old.req)
      BY <2>3 DEF MatchingIn, Settled
  <2>5. \A b : NewerIn(bill, next, b) = NewerIn(bill, old.req, b)
      BY <2>4 DEF NewerIn
  <2>6. ASSUME Settled(next), NEW b \in old.due
        PROVE  AloneIn(bill, b) => b \in w.seen \/ Ahead(bill, w, b)
    <3> SUFFICES ASSUME AloneIn(bill, b), b \notin w.seen PROVE Ahead(bill, w, b)
        OBVIOUS
    <3>1. b \in MatchingIn(bill, old.req) /\ first <= Cardinality(NewerIn(bill, old.req, b))
      <4> HIDE DEF old
      <4> QED
          BY <1>1, <2>1, <2>4, <2>6 DEF WalkOk, Ahead
    <3>2. first + limit <= Cardinality(NewerIn(bill, old.req, b))
        BY <1>6, <2>1, <2>6, <3>1
    <3> QED
        BY <2>1, <2>3, <2>4, <2>5, <3>1, <3>2 DEF Ahead
  <2>7. WalkOk(bill, w)
    <3>1. w.req \in Requests /\ w.due \subseteq StoredIn(bill)
        BY <1>2, <2>1, <2>3
    <3>2. Settled(w.req) => \A b \in w.due : AloneIn(bill, b) =>
             b \in w.seen \/ (w.pc # "done" /\ Ahead(bill, w, b))
        BY <2>1, <2>6
    <3> QED
        BY <2>1, <3>1, <3>2 DEF WalkOk
  <2> QED
      BY <1>1, <1>3, <1>4, <2>7, OneWalk
<1> QED
    BY <1>5, <1>7, <1>8

LEMMA InvInit == Init => WalkInv
<1> SUFFICES ASSUME Init PROVE WalkInv
    OBVIOUS
<1>1. 0 \in 0..Cardinality(Bills)
    BY BillsAssumption, FS_CardinalityType
<1>2. TypeOK
    BY <1>1 DEF Init, TypeOK, Walk
<1>3. ASSUME NEW c \in Clients PROVE WalkOk(bill, walk[c])
    BY DEF Init, WalkOk
<1> QED
    BY <1>2, <1>3 DEF WalkInv

LEMMA InvStep == WalkInv /\ [Next]_vars => WalkInv'
<1> SUFFICES ASSUME WalkInv, [Next]_vars PROVE WalkInv'
    OBVIOUS
<1>1. ASSUME NEW b \in Bills,
             \/ \E req \in CreateRequests : CreateBill(b, req)
             \/ \E status \in {"CLOSED", "CANCELLED"} : LeaveOpen(b, status)
      PROVE  WalkInv'
  <2>1. bill \in Table /\ bill' \in Table /\ Grows(bill, bill') /\ walk' = walk
      BY <1>1, TableStep DEF WalkInv, TypeOK, Table
  <2>2. TypeOK'
      BY <2>1 DEF WalkInv, TypeOK, Table
  <2>3. ASSUME NEW c \in Clients PROVE WalkOk(bill', walk'[c])
    <3>1. walk[c] \in Walk /\ WalkOk(bill, walk[c])
        BY DEF WalkInv, TypeOK
    <3>2. WalkOk(bill', walk[c])
        BY <2>1, <3>1, GrowthKeepsWalk
    <3> QED
        BY <2>1, <3>2
  <2> QED
      BY <2>2, <2>3 DEF WalkInv
<1>2. ASSUME NEW c \in Clients, ListBills(c) \/ \E req \in ListRequests : Begin(c, req)
      PROVE  WalkInv'
    BY <1>2, BeginStep, CountStep, FetchStep DEF ListBills
<1>3. CASE UNCHANGED vars
  <2>1. bill' = bill /\ walk' = walk
      BY <1>3 DEF vars
  <2>2. TypeOK'
      BY <2>1 DEF WalkInv, TypeOK
  <2>3. \A c \in Clients : WalkOk(bill', walk'[c])
      BY <2>1 DEF WalkInv
  <2> QED
      BY <2>2, <2>3 DEF WalkInv
<1> QED
    BY <1>1, <1>2, <1>3 DEF Next

LEMMA InvHolds == Spec => []WalkInv
    BY InvInit, InvStep, PTL DEF Spec

(***************************************************************************)
(* The theorems.                                                           *)
(***************************************************************************)

\* Every variable has its type in every reachable state: stored accounts are
\* trimmed, not empty and not too long, and no walk passes the end by more than one
\* page.
THEOREM TypeCorrect == Spec => []TypeOK
<1>1. WalkInv => TypeOK
    BY DEF WalkInv
<1> QED
    BY <1>1, InvHolds, PTL

\* Whatever number of bills is created or closed during a walk, and whatever calls of
\* it fail: it has seen every bill that was there when it began, but for those whose
\* created_at another bill shares, and but for a walk through the open bills.
THEOREM WalksMissNone == Spec => []WalkMissesNone
<1>1. WalkInv => WalkMissesNone
    BY TableIsBill DEF WalkInv, WalkOk, WalkMissesNone
<1> QED
    BY <1>1, InvHolds, PTL

\* The short page that ends a walk reaches the total its answer reports, though the
\* total was counted by an earlier statement.
THEOREM ShortPagesReachTotal == Spec => []ShortPageReachesTotal
<1>1. WalkInv => ShortPageReachesTotal
    BY DEF WalkInv, WalkOk, ShortPageReachesTotal
<1> QED
    BY <1>1, InvHolds, PTL

=============================================================================
