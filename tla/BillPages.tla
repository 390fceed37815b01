------------------------------ MODULE BillPages -----------------------------
(***************************************************************************)
(* ListBills, and clients that walk through its pages while bills are      *)
(* created and closed.                                                     *)
(*                                                                         *)
(* A call counts the bills and then reads the page, with two statements    *)
(* and no transaction; nothing at all holds the pages of a walk together.  *)
(* A client asks for the first page, goes on at the offset plus the limit  *)
(* of the answer, repeats a call that failed, and stops at a page that is  *)
(* shorter than that limit.                                                *)
(***************************************************************************)
EXTENDS BillRequests, SequencesExt

CONSTANTS
    Bills,           \* bill ids
    Clients,         \* clients that walk
    Times,           \* values of created_at
    CreateRequests,  \* the requests of CreateBill
    ListRequests,    \* the requests of ListBills a walk begins with
    DefaultLimit,    \* the limit without one, 50
    MaxLimit,        \* the largest limit, 200
    None             \* no row yet, no call yet

ASSUME BillsAssumption == IsFiniteSet(Bills)
ASSUME LimitAssumption == {DefaultLimit, MaxLimit} \subseteq Nat \ {0}
ASSUME TimesAssumption == Times \subseteq Nat
\* A walk begins at the first page.
ASSUME RequestsAssumption ==
    /\ CreateRequests \subseteq [account_id: Text, currency: STRING, period: Int]
    /\ ListRequests \subseteq [status: Text, account_id: Text, limit: Int, offset: Int]
    /\ \A req \in ListRequests : req.offset <= 0

VARIABLES
    bill,  \* the table bills, with the columns that matter here
    walk   \* each client's call of ListBills and what it has seen before

vars == <<bill, walk>>

-----------------------------------------------------------------------------
(***************************************************************************)
(* The request of ListBills.                                               *)
(***************************************************************************)

Statuses == {"OPEN", "CLOSED", "CANCELLED"}

\* The statuses asked for, all of them without a filter; none is an error.
StatusesOf(req) ==
    IF TrimSpace(req.status) = <<>> THEN Statuses ELSE parseBillStatusFilter(req.status)

LimitOf(req) ==
    LET limit == IF req.limit > 0 THEN req.limit ELSE DefaultLimit
    IN  IF limit > MaxLimit THEN MaxLimit ELSE limit

OffsetOf(req) == IF req.offset > 0 THEN req.offset ELSE 0

-----------------------------------------------------------------------------
(***************************************************************************)
(* The state.                                                              *)
(***************************************************************************)

\* Account ids as they are stored: no white space around, not empty, not long.
Accounts ==
    {a \in {TrimSpace(req.account_id) : req \in CreateRequests} :
        0 < Len(a) /\ Len(a) <= MaxLength}

Row == [status: Statuses, account: Accounts, created: Times]

ASSUME NoneAssumption == None \notin Row

\* The requests of a walk differ in the offset only.
Requests == {[req EXCEPT !.offset = n] : req \in ListRequests,
                n \in {r.offset : r \in ListRequests} \cup 0..(Cardinality(Bills) + MaxLimit)}

\* A walk: the statement its call comes to next, the request of that call, the
\* total the call has counted, where the last page ended, the bills that were
\* there when it began and that it asks for, and those it has seen.
Walk == [pc: {"idle", "count", "page", "done"}, req: Requests \cup {None},
         total: 0..Cardinality(Bills), end: Nat,
         due: SUBSET Bills, seen: SUBSET Bills]

TypeOK ==
    /\ bill \in [Bills -> Row \cup {None}]
    /\ walk \in [Clients -> Walk]

Init ==
    /\ bill = [b \in Bills |-> None]
    /\ walk = [c \in Clients |->
                 [pc |-> "idle", req |-> None, total |-> 0, end |-> 0,
                  due |-> {}, seen |-> {}]]

Stored == {b \in Bills : bill[b] # None}

-----------------------------------------------------------------------------
(***************************************************************************)
(* The bills.                                                              *)
(***************************************************************************)

\* createBill.  created_at is when the statement began, so rows need not appear
\* in its order, and two may have the same.
CreateBill(b, req) ==
    /\ bill[b] = None
    /\ AcceptsBill(req)
    /\ \E t \in Times :
          bill' = [bill EXCEPT ![b] = [status |-> "OPEN", created |-> t,
                       account |-> parseCreateBillRequest(req).account_id]]
    /\ UNCHANGED walk

\* CloseBillByID and cancelBill.
LeaveOpen(b, status) ==
    /\ bill[b] # None /\ bill[b].status = "OPEN"
    /\ bill' = [bill EXCEPT ![b].status = status]
    /\ UNCHANGED walk

-----------------------------------------------------------------------------
(***************************************************************************)
(* The statements of listBills.                                            *)
(***************************************************************************)

\* The WHERE clause.
Matching(req) ==
    LET account == TrimSpace(req.account_id)
    IN  {b \in Stored : /\ bill[b].status \in StatusesOf(req)
                        /\ account = <<>> \/ bill[b].account = account}

\* Mutant: the count has no WHERE clause.
CountAll(req) == Cardinality(Stored)

\* SELECT COUNT(*).
Count(req) == Cardinality(Matching(req))

\* What the page query may return: ORDER BY created_at DESC says nothing of rows
\* that have the same.
Pages(req) ==
    LET orders == {s \in SetToSeqs(Matching(req)) :
                      \A i, j \in DOMAIN s :
                          i < j => bill[s[i]].created >= bill[s[j]].created}
        first == OffsetOf(req) + 1
    IN  {SubSeq(s, first, Min({OffsetOf(req) + LimitOf(req), Len(s)})) : s \in orders}

\* Mutant: the answer repeats the limit of the request.
AnswerAskedLimit(c, page) ==
    LET req == walk[c].req
    IN  [bills |-> page, total |-> walk[c].total, offset |-> OffsetOf(req),
         limit |-> IF req.limit > 0 THEN req.limit ELSE DefaultLimit]

\* ListBillsResponse.
Answer(c, page) ==
    LET req == walk[c].req
    IN  [bills |-> page, total |-> walk[c].total, offset |-> OffsetOf(req),
         limit |-> LimitOf(req)]

-----------------------------------------------------------------------------
(***************************************************************************)
(* The walk.                                                               *)
(***************************************************************************)

\* The bills of the accounts and statuses a request means.
Meant(req) ==
    {b \in Stored : /\ bill[b].status \in StatusesOf(req)
                    /\ TrimSpace(req.account_id) \in {<<>>, TrimSpace(bill[b].account)}}

\* A client asks for its first page.
Begin(c, req) ==
    /\ walk[c].pc \in {"idle", "done"}
    /\ StatusesOf(req) # {}
    /\ walk' = [walk EXCEPT ![c] =
                  [pc |-> "count", req |-> req, total |-> 0, end |-> 0,
                   due |-> Meant(req), seen |-> {}]]
    /\ UNCHANGED bill

CountBills(c) ==
    /\ walk[c].pc = "count"
    /\ walk' = [walk EXCEPT ![c].pc = "page", ![c].total = Count(walk[c].req)]
    /\ UNCHANGED bill

\* What the client does with an answer.
Take(c, answer) ==
    LET next == [walk[c] EXCEPT !.seen = @ \cup ToSet(answer.bills)]
    IN  walk' = [walk EXCEPT ![c] =
                   IF Len(answer.bills) < answer.limit
                   THEN [next EXCEPT !.pc = "done",
                                     !.end = answer.offset + Len(answer.bills)]
                   ELSE [next EXCEPT !.pc = "count", !.total = 0,
                                     !.req = [@ EXCEPT !.offset = answer.offset + answer.limit]]]

FetchPage(c) ==
    /\ walk[c].pc = "page"
    /\ \E page \in Pages(walk[c].req) : Take(c, Answer(c, page))
    /\ UNCHANGED bill

\* One of the statements fails, and with it the call; the client calls again.
QueryFails(c) ==
    /\ walk[c].pc = "page"
    /\ walk' = [walk EXCEPT ![c].pc = "count", ![c].total = 0]
    /\ UNCHANGED bill

ListBills(c) == CountBills(c) \/ FetchPage(c) \/ QueryFails(c)

-----------------------------------------------------------------------------

Next ==
    \/ \E b \in Bills :
          \/ \E req \in CreateRequests : CreateBill(b, req)
          \/ \E status \in {"CLOSED", "CANCELLED"} : LeaveOpen(b, status)
    \/ \E c \in Clients : ListBills(c) \/ \E req \in ListRequests : Begin(c, req)

Spec == Init /\ [][Next]_vars

-----------------------------------------------------------------------------
(***************************************************************************)
(* Properties.                                                             *)
(***************************************************************************)

\* The bills a request asks for never become others: only its own transitions take
\* a bill out of OPEN, so a walk through the open bills loses some.
Settled(req) == StatusesOf(req) # {"OPEN"}

\* Two stored bills of the same created_at may change places between two pages.
Alone(b) == \A d \in Stored \ {b} : bill[d].created # bill[b].created

\* A walk misses no bill that was there when it began, whatever is created or
\* closed meanwhile: new bills push the others to later pages only.  It is not so
\* for a walk through the open bills, nor for two bills of the same created_at.
WalkMissesNone ==
    \A c \in Clients :
        walk[c].pc = "done" /\ Settled(walk[c].req) =>
            \A b \in walk[c].due : Alone(b) => b \in walk[c].seen

\* A short page is the last one: it reaches the total of its answer, which an
\* earlier statement has counted.  Among the open bills the page may fall short.
ShortPageReachesTotal ==
    \A c \in Clients :
        walk[c].pc = "done" /\ Settled(walk[c].req) => walk[c].total <= walk[c].end

=============================================================================
