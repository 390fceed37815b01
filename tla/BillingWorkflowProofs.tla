------------------------- MODULE BillingWorkflowProofs ------------------------
(***************************************************************************)
(* Proofs about BillingWorkflow, for any number of updates, fallback runs, *)
(* attempts, keys and payloads.                                            *)
(***************************************************************************)
EXTENDS BillingWorkflow, BillDataProofs

(***************************************************************************)
(* The inductive invariant, in the order in which its parts are proved.    *)
(***************************************************************************)

\* An attempt has left a trace in a worker or at the server.
Begun(a, i) == act[a].run[i] # "none"

\* The bill has left OPEN, for good.
LeftOpen == status \in {"CLOSED", "CANCELLED"}

\* Only the attempt the server waits for has a result, and it is one its
\* activity can have.
ActivityShape ==
    /\ \A a \in Activities :
          /\ act[a].open => act[a].attempt \in 1..MaxAttempts
          /\ \A i \in 1..MaxAttempts :
                act[a].run[i] \notin {"none", "running"} =>
                    act[a].open /\ act[a].attempt = i
    /\ \A u \in Updates, i \in 1..MaxAttempts : act[Persist(u)].run[i] # "ok"
    /\ \A w \in Workflows, i \in 1..MaxAttempts :
          /\ act[Mark(w)].run[i] \in {"none", "running", "ok"}
          /\ act[Invoice(w)].run[i] \in {"none", "running", "ok"}

\* An update has its request from the moment it is sent, waits for its activity
\* exactly while it is accepted, and has a reply exactly when it is done; while it
\* waits the primary run is open.
UpdateShape ==
    \A u \in Updates :
        /\ upd[u].phase # "idle" => upd[u].req \in Request
        /\ upd[u].phase = "done" <=> upd[u].reply # "none"
        /\ upd[u].phase \in {"sent", "accepted"} => Open(Primary)
        /\ act[Persist(u)].open <=> upd[u].phase = "accepted"
        /\ \A i \in 1..MaxAttempts :
              Begun(Persist(u), i) => upd[u].phase \in {"accepted", "done"}

\* A run in its close phase waits for exactly one of the two activities.
RunShape ==
    \A w \in Workflows :
        /\ act[Mark(w)].open <=> wf[w].phase = "marking"
        /\ act[Invoice(w)].open <=> wf[w].phase = "invoicing"

Shape == TypeOK /\ ActivityShape /\ UpdateShape /\ RunShape

\* Runs and their activities exist for a bill that was inserted, and nothing of the
\* invoice before it has left OPEN.
Stage ==
    /\ \A w \in Workflows : wf[w].phase # "none" => status # "NONE"
    /\ \A a \in Activities, i \in 1..MaxAttempts : Begun(a, i) => status # "NONE"
    /\ \A w \in Workflows :
          /\ wf[w].phase \in {"invoicing", "completed"} => LeftOpen
          /\ \A i \in 1..MaxAttempts :
                /\ act[Mark(w)].run[i] = "ok" => LeftOpen
                /\ Begun(Invoice(w), i) => LeftOpen
    /\ invoices > 0 => LeftOpen

\* What the workflow has been told of an update, or has told its caller.
Told(u) ==
    IF upd[u].phase = "accepted" THEN LastResult(Persist(u)) ELSE upd[u].reply

\* AnswersAreTrue, from the moment the attempt reports.
ReportsAreTrue ==
    \A u \in Updates :
        LET row == items[upd[u].req.key]
        IN  /\ Told(u) \in Acknowledged => row = upd[u].req.payload
            /\ Told(u) = "inserted" =>
                  \A v \in Updates \ {u} :
                      Told(v) = "inserted" => upd[v].req.key # upd[u].req.key
            /\ Told(u) = "ALREADY_EXISTS" => row \notin {None, upd[u].req.payload}
            /\ Told(u) = "FAILED_PRECONDITION" =>
                  LeftOpen \/ wf[Primary].phase \notin {"none", "accruing"}

\* The rows the running total has counted.
CountedKeys == {upd[u].req.key : u \in {v \in Updates : upd[v].reply = "inserted"}}
CountedRows == [k \in Keys |-> IF k \in CountedKeys THEN items[k] ELSE None]

Totals ==
    /\ total = ItemsTotal(items)
    /\ wf[Primary].totalMinor = ItemsTotal(CountedRows)

\* The runs whose invoice was sent and reported.
Invoiced ==
    {w \in Workflows :
        \/ wf[w].phase = "completed"
        \/ /\ wf[w].phase = "invoicing"
           /\ \E i \in 1..MaxAttempts : act[Invoice(w)].run[i] = "ok"}

InvoicesSuffice == IsFiniteSet(Invoiced) /\ Cardinality(Invoiced) <= invoices

\* S holds an attempt for each invoice: one that runs no more, and that the server
\* does not start again.
AttemptsCounted(S) ==
    /\ IsFiniteSet(S) /\ Cardinality(S) = invoices
    /\ S \subseteq InvoicingRuns \X (1..MaxAttempts)
    /\ \A w \in Workflows, i \in 1..MaxAttempts :
          <<w, i>> \in S =>
              /\ ~Running(Invoice(w), i)
              /\ act[Invoice(w)].open => i <= act[Invoice(w)].attempt

\* Attempts to send an invoice are those of runs that got that far, and none is ahead
\* of the one the server waits for.
InvoicesCounted ==
    /\ IsFiniteSet(InvoicingRuns)
    /\ \A w \in Workflows, i \in 1..MaxAttempts :
          Running(Invoice(w), i) =>
              /\ w \in InvoicingRuns
              /\ act[Invoice(w)].open => i <= act[Invoice(w)].attempt
    /\ \E S : AttemptsCounted(S)

(***************************************************************************)
(* What the steps do to activities and runs.                               *)
(***************************************************************************)

\* The activities are told apart by kind and by update or run.
LEMMA ActivityNames ==
    /\ \A u \in Updates : Persist(u) \in Activities /\ RunOf(Persist(u)) = Primary
    /\ \A w \in Workflows :
          /\ Mark(w) \in Activities /\ RunOf(Mark(w)) = w
          /\ Invoice(w) \in Activities /\ RunOf(Invoice(w)) = w
    /\ \A u, v \in Updates : Persist(u) = Persist(v) => u = v
    /\ \A v, w \in Workflows :
          /\ Mark(v) = Mark(w) => v = w
          /\ Invoice(v) = Invoice(w) => v = w
          /\ Mark(v) # Invoice(w)
    /\ \A u \in Updates, w \in Workflows :
          Persist(u) # Mark(w) /\ Persist(u) # Invoice(w)
    /\ Primary \in Workflows /\ Fallbacks \subseteq Workflows
BY DEF Activities, Persist, Mark, Invoice, RunOf, Workflows

\* An activity that was just scheduled has one attempt, and it runs.
LEMMA ScheduledEffect ==
    /\ Scheduled \in Activity
    /\ Scheduled.open /\ Scheduled.attempt = 1 /\ 1 \in 1..MaxAttempts
    /\ \A i \in 1..MaxAttempts : Scheduled.run[i] = IF i = 1 THEN "running" ELSE "none"
BY MaxAttemptsAssumption DEF Scheduled, Activity

\* Of an activity that is over only the attempts that still run are left.
LEMMA OverEffect ==
    ASSUME NEW a \in Activities
    PROVE  /\ Over(a) \in Activity
           /\ ~Over(a).open
           /\ \A i \in 1..MaxAttempts :
                 Over(a).run[i] = IF act[a].run[i] = "running" THEN "running" ELSE "none"
BY MaxAttemptsAssumption DEF Over, Activity

\* A report touches the one attempt, and leaves a result with the awaited one only.
LEMMA ReportEffect ==
    ASSUME TypeOK, NEW a \in Activities, NEW i \in 1..MaxAttempts,
           NEW r \in Results \cup {"none"}, Report(a, i, r)
    PROVE  /\ act' \in [Activities -> Activity]
           /\ \A b \in Activities \ {a} : act'[b] = act[b]
           /\ act'[a].open = act[a].open /\ act'[a].attempt = act[a].attempt
           /\ \A j \in (1..MaxAttempts) \ {i} : act'[a].run[j] = act[a].run[j]
           /\ act'[a].run[i] = IF act[a].open /\ act[a].attempt = i THEN r ELSE "none"
<1> DEFINE v == IF act[a].open /\ act[a].attempt = i THEN r ELSE "none"
<1>1. act' = [act EXCEPT ![a] = [act[a] EXCEPT !.run = [act[a].run EXCEPT ![i] = v]]]
    BY DEF Report, TypeOK
<1>2. v \in {"none", "running"} \cup Results
    OBVIOUS
<1> HIDE DEF v
<1>3. [act[a].run EXCEPT ![i] = v] \in [1..MaxAttempts -> {"none", "running"} \cup Results]
    BY <1>2 DEF TypeOK, Activity
<1>4. [act[a] EXCEPT !.run = [act[a].run EXCEPT ![i] = v]] \in Activity
    BY <1>3 DEF TypeOK, Activity
<1>5. /\ act' \in [Activities -> Activity]
      /\ \A b \in Activities \ {a} : act'[b] = act[b]
      /\ act'[a] = [act[a] EXCEPT !.run = [act[a].run EXCEPT ![i] = v]]
    BY <1>1, <1>4 DEF TypeOK
<1>6. /\ act'[a].open = act[a].open /\ act'[a].attempt = act[a].attempt
      /\ act'[a].run = [act[a].run EXCEPT ![i] = v]
    BY <1>5 DEF TypeOK, Activity
<1>7. act[a].run \in [1..MaxAttempts -> {"none", "running"} \cup Results]
    BY DEF TypeOK, Activity
<1> QED
    BY <1>5, <1>6, <1>7 DEF v

\* A retry awaits the next attempt; the others have no result, and run on if they did.
LEMMA RetryEffect ==
    ASSUME TypeOK, NEW a \in Activities, RetryActivity(a)
    PROVE  /\ act' \in [Activities -> Activity]
           /\ \A b \in Activities \ {a} : act'[b] = act[b]
           /\ act[a].open /\ act'[a].open
           /\ act'[a].attempt = act[a].attempt + 1 /\ act'[a].attempt \in 1..MaxAttempts
           /\ act'[a].run[act'[a].attempt] = "running"
           /\ \A i \in (1..MaxAttempts) \ {act'[a].attempt} :
                 act'[a].run[i] = IF act[a].run[i] = "running" THEN "running" ELSE "none"
<1> DEFINE next == act[a].attempt + 1
           new == [Over(a) EXCEPT !.open = TRUE, !.attempt = next,
                                  !.run = [Over(a).run EXCEPT ![next] = "running"]]
<1>1. act' = [act EXCEPT ![a] = new]
    BY DEF RetryActivity
<1>2. act[a].open /\ next \in 1..MaxAttempts
    BY MaxAttemptsAssumption DEF RetryActivity, TypeOK, Activity
<1>3. Over(a) \in Activity
    BY OverEffect
<1>4. /\ new \in Activity /\ new.open /\ new.attempt = next
      /\ new.run = [Over(a).run EXCEPT ![next] = "running"]
  <2> DEFINE r == [Over(a).run EXCEPT ![next] = "running"]
  <2>1. r \in [1..MaxAttempts -> {"none", "running"} \cup Results]
      BY <1>2, <1>3 DEF Activity
  <2>2. new = [Over(a) EXCEPT !.open = TRUE, !.attempt = next, !.run = r]
      OBVIOUS
  <2> HIDE DEF next, r, new
  <2>3. new = [open |-> TRUE, attempt |-> next, run |-> r]
      BY <1>3, <2>2 DEF Activity
  <2> QED
      BY <1>2, <2>1, <2>3 DEF Activity, r
<1>5. /\ act' \in [Activities -> Activity]
      /\ \A b \in Activities \ {a} : act'[b] = act[b]
      /\ act'[a] = new
  <2> HIDE DEF new
  <2> QED
      BY <1>1, <1>4 DEF TypeOK
<1>6. Over(a).run \in [1..MaxAttempts -> {"none", "running"} \cup Results]
    BY <1>3 DEF Activity
<1>7. \A i \in 1..MaxAttempts :
        Over(a).run[i] = IF act[a].run[i] = "running" THEN "running" ELSE "none"
    BY OverEffect
<1>8. /\ act'[a].open /\ act'[a].attempt = next
      /\ act'[a].run = [Over(a).run EXCEPT ![next] = "running"]
    BY <1>4, <1>5
<1> HIDE DEF new, next
<1>9. act'[a].run[next] = "running"
    BY <1>2, <1>6, <1>8
<1>10. \A i \in (1..MaxAttempts) \ {next} : act'[a].run[i] = Over(a).run[i]
    BY <1>6, <1>8
<1> QED
    BY <1>2, <1>5, <1>7, <1>8, <1>9, <1>10 DEF next

\* Activity a is replaced by v, which is of its type.
LEMMA ReplaceEffect ==
    ASSUME TypeOK, NEW a \in Activities, NEW v \in Activity, act' = [act EXCEPT ![a] = v]
    PROVE  /\ act' \in [Activities -> Activity]
           /\ \A b \in Activities \ {a} : act'[b] = act[b]
           /\ act'[a] = v
BY DEF TypeOK

\* A closed run has no pending activity, and no update waits for it.
LEMMA CloseRunEffect ==
    ASSUME TypeOK, UpdateShape, NEW w \in Workflows, NEW phase \in ClosedPhases,
           CloseRun(w, phase)
    PROVE  /\ wf' \in [Workflows -> Run]
           /\ \A v \in Workflows \ {w} : wf'[v] = wf[v]
           /\ wf'[w].phase = phase /\ wf'[w].totalMinor = wf[w].totalMinor
           /\ upd' \in [Updates -> Update]
           /\ \A u \in Updates :
                 /\ upd'[u].req = upd[u].req
                 /\ \/ w = Primary /\ upd[u].phase \in {"sent", "accepted"}
                       /\ upd'[u].phase = "done" /\ upd'[u].reply = "unreachable"
                    \/ ~(w = Primary /\ upd[u].phase \in {"sent", "accepted"})
                       /\ upd'[u] = upd[u]
           /\ act' \in [Activities -> Activity]
           /\ \A a \in Activities :
                 /\ RunOf(a) # w => act'[a] = act[a]
                 /\ RunOf(a) = w =>
                       /\ ~act'[a].open
                       /\ \A i \in 1..MaxAttempts : act'[a].run[i] =
                             IF act[a].run[i] = "running" THEN "running" ELSE "none"
<1>1. /\ wf' \in [Workflows -> Run]
      /\ \A v \in Workflows \ {w} : wf'[v] = wf[v]
      /\ wf'[w].phase = phase /\ wf'[w].totalMinor = wf[w].totalMinor
    BY DEF CloseRun, TypeOK, Run
<1>2. /\ upd' \in [Updates -> Update]
      /\ \A u \in Updates :
            /\ upd'[u].req = upd[u].req
            /\ \/ w = Primary /\ upd[u].phase \in {"sent", "accepted"}
                  /\ upd'[u].phase = "done" /\ upd'[u].reply = "unreachable"
               \/ ~(w = Primary /\ upd[u].phase \in {"sent", "accepted"})
                  /\ upd'[u] = upd[u]
    BY DEF CloseRun, TypeOK, Update, Reply
<1>3. /\ act' \in [Activities -> Activity]
      /\ \A a \in Activities : act'[a] = IF RunOf(a) = w THEN Over(a) ELSE act[a]
  <2>1. \A a \in Activities : (IF RunOf(a) = w THEN Over(a) ELSE act[a]) \in Activity
      BY OverEffect DEF TypeOK
  <2> QED
      BY <2>1 DEF CloseRun
<1> QED
    BY <1>1, <1>2, <1>3, OverEffect

(***************************************************************************)
(* Types and shapes.                                                       *)
(***************************************************************************)

LEMMA ShapeInit == Init => Shape
<1> SUFFICES ASSUME Init PROVE Shape
    OBVIOUS
<1>1. TypeOK
  <2>1. items \in Rows /\ total \in 0..MaxTotal /\ invoices \in Nat
      BY ItemsTotalEmpty, MaxTotalAssumption DEF Init
  <2>2. act \in [Activities -> Activity]
      BY MaxAttemptsAssumption DEF Init, Activity
  <2> QED
      BY <2>1, <2>2 DEF Init, TypeOK, BillStatus, Run, Update, Reply
<1>2. ActivityShape
    BY ActivityNames DEF Init, ActivityShape
<1>3. UpdateShape /\ RunShape
    BY ActivityNames DEF Init, UpdateShape, RunShape, Begun
<1> QED
    BY <1>1, <1>2, <1>3 DEF Shape

\* An attempt that reports keeps the shapes, if its result is one of its activity's.
LEMMA ReportKeepsShape ==
    ASSUME Shape, NEW a \in Activities, NEW i \in 1..MaxAttempts,
           NEW r \in Results \cup {"none"}, Running(a, i), Report(a, i, r),
           \A u \in Updates : a = Persist(u) => r # "ok",
           \A w \in Workflows : a \in {Mark(w), Invoice(w)} => r \in {"none", "ok"},
           UNCHANGED <<wf, upd>>
    PROVE  ActivityShape' /\ UpdateShape' /\ RunShape'
<1>1. /\ \A b \in Activities \ {a} : act'[b] = act[b]
      /\ act'[a].open = act[a].open /\ act'[a].attempt = act[a].attempt
      /\ \A j \in (1..MaxAttempts) \ {i} : act'[a].run[j] = act[a].run[j]
      /\ act'[a].run[i] = IF act[a].open /\ act[a].attempt = i THEN r ELSE "none"
    BY ReportEffect DEF Shape
<1>2. act[a].run[i] = "running"
    BY DEF Running
<1>3. ActivityShape'
    BY <1>1, ActivityNames DEF Shape, ActivityShape
<1>4. UpdateShape'
    BY <1>1, <1>2, ActivityNames DEF Shape, UpdateShape, Begun, Open
<1>5. RunShape'
    BY <1>1, ActivityNames DEF Shape, RunShape
<1> QED
    BY <1>3, <1>4, <1>5

\* So does a retry.
LEMMA RetryKeepsShape ==
    ASSUME Shape, NEW a \in Activities, RetryActivity(a)
    PROVE  Shape'
<1>1. /\ act' \in [Activities -> Activity]
      /\ \A b \in Activities \ {a} : act'[b] = act[b]
      /\ act[a].open /\ act'[a].open
      /\ act'[a].attempt \in 1..MaxAttempts
      /\ act'[a].run[act'[a].attempt] = "running"
      /\ \A i \in (1..MaxAttempts) \ {act'[a].attempt} :
            act'[a].run[i] = IF act[a].run[i] = "running" THEN "running" ELSE "none"
    BY RetryEffect DEF Shape
<1>2. UNCHANGED <<status, total, items, invoices, wf, upd>>
    BY DEF RetryActivity, tables
<1>3. TypeOK'
    BY <1>1, <1>2 DEF Shape, TypeOK
<1>4. ActivityShape'
    BY <1>1, ActivityNames DEF Shape, ActivityShape
<1>5. UpdateShape'
    BY <1>1, <1>2, ActivityNames DEF Shape, UpdateShape, Begun, Open
<1>6. RunShape'
    BY <1>1, <1>2, ActivityNames DEF Shape, RunShape
<1> QED
    BY <1>3, <1>4, <1>5, <1>6 DEF Shape

\* A run that closes leaves nothing pending and nobody waiting.
LEMMA CloseRunKeepsShape ==
    ASSUME Shape, NEW w \in Workflows, NEW phase \in ClosedPhases,
           CloseRun(w, phase), UNCHANGED <<tables, invoices>>
    PROVE  Shape'
<1>1. /\ wf' \in [Workflows -> Run]
      /\ \A v \in Workflows \ {w} : wf'[v] = wf[v]
      /\ wf'[w].phase = phase
      /\ upd' \in [Updates -> Update]
      /\ \A u \in Updates :
            /\ upd'[u].req = upd[u].req
            /\ \/ w = Primary /\ upd[u].phase \in {"sent", "accepted"}
                  /\ upd'[u].phase = "done" /\ upd'[u].reply = "unreachable"
               \/ ~(w = Primary /\ upd[u].phase \in {"sent", "accepted"})
                  /\ upd'[u] = upd[u]
      /\ act' \in [Activities -> Activity]
      /\ \A a \in Activities :
            /\ RunOf(a) # w => act'[a] = act[a]
            /\ RunOf(a) = w =>
                  /\ ~act'[a].open
                  /\ \A i \in 1..MaxAttempts : act'[a].run[i] =
                        IF act[a].run[i] = "running" THEN "running" ELSE "none"
    BY CloseRunEffect DEF Shape
<1>2. TypeOK'
    BY <1>1 DEF Shape, TypeOK, tables
<1>3. phase \notin {"none", "accruing", "marking", "invoicing"}
    BY DEF ClosedPhases
<1>4. ActivityShape'
  <2>1. \A a \in Activities, i \in 1..MaxAttempts :
            \/ act'[a] = act[a]
            \/ ~act'[a].open /\ act'[a].run[i] \in {"none", "running"}
      BY <1>1
  <2>2. \A a \in Activities :
            /\ act'[a].open => act'[a].attempt \in 1..MaxAttempts
            /\ \A i \in 1..MaxAttempts :
                  act'[a].run[i] \notin {"none", "running"} =>
                      act'[a].open /\ act'[a].attempt = i
      BY <1>1, <2>1 DEF Shape, ActivityShape
  <2>3. /\ \A u \in Updates, i \in 1..MaxAttempts : act'[Persist(u)].run[i] # "ok"
        /\ \A v \in Workflows, i \in 1..MaxAttempts :
              /\ act'[Mark(v)].run[i] \in {"none", "running", "ok"}
              /\ act'[Invoice(v)].run[i] \in {"none", "running", "ok"}
      BY <2>1, ActivityNames DEF Shape, ActivityShape
  <2> QED
      BY <2>2, <2>3 DEF ActivityShape
<1>5. UpdateShape'
  <2> SUFFICES ASSUME NEW u \in Updates
               PROVE  /\ upd'[u].phase # "idle" => upd'[u].req \in Request
                      /\ upd'[u].phase = "done" <=> upd'[u].reply # "none"
                      /\ upd'[u].phase \in {"sent", "accepted"} => Open(Primary)'
                      /\ act'[Persist(u)].open <=> upd'[u].phase = "accepted"
                      /\ \A i \in 1..MaxAttempts :
                            Begun(Persist(u), i)' => upd'[u].phase \in {"accepted", "done"}
      BY DEF UpdateShape
  <2>1. /\ upd[u].phase # "idle" => upd[u].req \in Request
        /\ upd[u].phase = "done" <=> upd[u].reply # "none"
        /\ upd[u].phase \in {"sent", "accepted"} => Open(Primary)
        /\ act[Persist(u)].open <=> upd[u].phase = "accepted"
        /\ \A i \in 1..MaxAttempts :
              Begun(Persist(u), i) => upd[u].phase \in {"accepted", "done"}
      BY DEF Shape, UpdateShape
  <2>2. CASE w = Primary
      BY <1>1, <2>1, <2>2, ActivityNames DEF Begun
  <2>3. CASE w # Primary
      BY <1>1, <2>1, <2>3, ActivityNames DEF Begun, Open
  <2> QED
      BY <2>2, <2>3
<1>6. RunShape'
    BY <1>1, <1>3, ActivityNames DEF Shape, RunShape
<1> QED
    BY <1>2, <1>4, <1>5, <1>6 DEF Shape

\* A result the server ends an activity with is that of the awaited attempt.
LEMMA EndsEffect ==
    ASSUME Shape, NEW a \in Activities, NEW r \in Results, Ends(a, r)
    PROVE  act[a].open /\ act[a].attempt \in 1..MaxAttempts
           /\ act[a].run[act[a].attempt] = r
BY DEF Ends, LastResult, Shape, ActivityShape, Results, Successes, Acknowledged,
       BusinessErrors

\* FinishUpdate answers the update: with what the awaited attempt reported, or with
\* a failure.
LEMMA FinishUpdateEffect ==
    ASSUME Shape, NEW u \in Updates, FinishUpdate(u)
    PROVE  \E r \in Reply \ {"none"} :
              /\ upd[u].phase = "accepted" /\ upd[u].req \in Request
              /\ act[Persist(u)].open /\ act[Persist(u)].attempt \in 1..MaxAttempts
              /\ r = "failed" \/ r = act[Persist(u)].run[act[Persist(u)].attempt]
              /\ upd' \in [Updates -> Update]
              /\ \A v \in Updates \ {u} : upd'[v] = upd[v]
              /\ upd'[u].phase = "done" /\ upd'[u].reply = r /\ upd'[u].req = upd[u].req
              /\ act' \in [Activities -> Activity]
              /\ \A b \in Activities \ {Persist(u)} : act'[b] = act[b]
              /\ ~act'[Persist(u)].open
              /\ \A i \in 1..MaxAttempts : act'[Persist(u)].run[i] =
                    IF act[Persist(u)].run[i] = "running" THEN "running" ELSE "none"
              /\ wf' \in [Workflows -> Run]
              /\ \A w \in Workflows : wf'[w].phase = wf[w].phase
              /\ wf'[Primary].totalMinor = IF r = "inserted"
                    THEN wf[Primary].totalMinor + upd[u].req.payload.amount_minor
                    ELSE wf[Primary].totalMinor
              /\ UNCHANGED <<tables, invoices>>
<1> DEFINE a == Persist(u)
<1>1. PICK r \in Results \cup {"failed"} :
        /\ Ends(a, r)
        /\ act' = [act EXCEPT ![a] = Over(a)]
        /\ upd' = [upd EXCEPT ![u].phase = "done", ![u].reply = r]
        /\ wf' = IF r = "inserted"
                 THEN [wf EXCEPT ![Primary].totalMinor = @ + upd[u].req.payload.amount_minor]
                 ELSE wf
    BY DEF FinishUpdate
<1>2. /\ a \in Activities /\ act[a].open /\ act[a].attempt \in 1..MaxAttempts
      /\ upd[u].phase = "accepted" /\ upd[u].req \in Request
    BY <1>1, ActivityNames DEF Ends, Shape, ActivityShape, UpdateShape
<1>3. /\ r \in Reply \ {"none"}
      /\ r = "failed" \/ r = act[a].run[act[a].attempt]
  <2>1. CASE r \in Results
    <3>1. r = act[a].run[act[a].attempt] /\ r # "ok"
        BY <1>1, <1>2, <2>1, EndsEffect DEF Shape, ActivityShape
    <3> QED
        BY <2>1, <3>1 DEF Results, Successes, Acknowledged, BusinessErrors, Reply
  <2>2. CASE r = "failed"
      BY <2>2 DEF Reply
  <2> QED
      BY <2>1, <2>2
<1>4. /\ upd' \in [Updates -> Update]
      /\ \A v \in Updates \ {u} : upd'[v] = upd[v]
      /\ upd'[u].phase = "done" /\ upd'[u].reply = r /\ upd'[u].req = upd[u].req
    BY <1>1, <1>3 DEF Shape, TypeOK, Update
<1>5. /\ act' \in [Activities -> Activity]
      /\ \A b \in Activities \ {a} : act'[b] = act[b]
      /\ act'[a] = Over(a)
    BY <1>1, <1>2, OverEffect, ReplaceEffect DEF Shape
<1>6. upd[u].req.payload.amount_minor \in Nat
    BY <1>2, PayloadsAssumption, MaxTotalAssumption DEF Request
<1>7. /\ wf' \in [Workflows -> Run]
      /\ \A w \in Workflows : wf'[w].phase = wf[w].phase
      /\ wf'[Primary].totalMinor = IF r = "inserted"
            THEN wf[Primary].totalMinor + upd[u].req.payload.amount_minor
            ELSE wf[Primary].totalMinor
    BY <1>1, <1>6, ActivityNames DEF Shape, TypeOK, Run
<1>8. UNCHANGED <<tables, invoices>>
    BY DEF FinishUpdate
<1> QED
    BY <1>2, <1>3, <1>4, <1>5, <1>7, <1>8, OverEffect

\* A run starts, is signalled, or its timer fires: nothing else changes.
LEMMA RunStepEffect ==
    ASSUME Shape, NEW w \in Workflows, StartWorkflow(w) \/ SignalClose(w) \/ TimerFires(w)
    PROVE  /\ wf' \in [Workflows -> Run]
           /\ \A v \in Workflows :
                 /\ wf'[v].totalMinor = wf[v].totalMinor
                 /\ \/ wf'[v].phase = wf[v].phase
                    \/ /\ v = w /\ StartWorkflow(w) /\ status # "NONE"
                       /\ wf[v].phase = "none" /\ wf'[v].phase = "accruing"
           /\ UNCHANGED <<tables, invoices, upd, act>>
<1>1. CASE StartWorkflow(w)
  <2>1. /\ wf' \in [Workflows -> Run]
        /\ \A v \in Workflows \ {w} : wf'[v] = wf[v]
        /\ wf'[w].phase = "accruing" /\ wf'[w].totalMinor = wf[w].totalMinor
      BY <1>1 DEF StartWorkflow, Shape, TypeOK, Run, OpenPhases
  <2> QED
      BY <1>1, <2>1 DEF StartWorkflow
<1>2. CASE SignalClose(w) \/ TimerFires(w)
  <2>1. /\ wf' \in [Workflows -> Run]
        /\ \A v \in Workflows \ {w} : wf'[v] = wf[v]
        /\ wf'[w].phase = wf[w].phase /\ wf'[w].totalMinor = wf[w].totalMinor
    <3>1. wf \in [Workflows -> Run] /\ wf' = [wf EXCEPT ![w].wake = TRUE]
        BY <1>2 DEF SignalClose, TimerFires, Shape, TypeOK
    <3>2. [wf[w] EXCEPT !.wake = TRUE] \in Run
        BY <3>1 DEF Run
    <3> QED
        BY <3>1, <3>2 DEF Run
  <2> QED
      BY <1>2, <2>1 DEF SignalClose, TimerFires
<1> QED
    BY <1>1, <1>2

\* SendUpdate gives the update its request, and answers it if no run is open.
LEMMA SendUpdateEffect ==
    ASSUME Shape, NEW u \in Updates, NEW q \in Request, SendUpdate(u, q)
    PROVE  /\ upd[u].phase = "idle"
           /\ upd' \in [Updates -> Update]
           /\ \A v \in Updates \ {u} : upd'[v] = upd[v]
           /\ upd'[u].req = q
           /\ \/ Open(Primary) /\ upd'[u].phase = "sent" /\ upd'[u].reply = "none"
              \/ upd'[u].phase = "done" /\ upd'[u].reply = "unreachable"
           /\ UNCHANGED <<tables, invoices, wf, act>>
BY DEF SendUpdate, Shape, TypeOK, Update, Reply

\* The validator lets an update through to its activity while the primary run
\* accrues, and answers that the bill is not open once it closes.
LEMMA HandleUpdateEffect ==
    ASSUME Shape, NEW u \in Updates, HandleUpdate(u)
    PROVE  /\ upd[u].phase = "sent"
           /\ upd' \in [Updates -> Update]
           /\ \A v \in Updates \ {u} : upd'[v] = upd[v]
           /\ upd'[u].req = upd[u].req
           /\ UNCHANGED <<tables, invoices, wf>>
           /\ \/ /\ wf[Primary].phase = "accruing"
                 /\ upd'[u].phase = "accepted" /\ upd'[u].reply = upd[u].reply
                 /\ act' \in [Activities -> Activity]
                 /\ \A b \in Activities \ {Persist(u)} : act'[b] = act[b]
                 /\ act'[Persist(u)] = Scheduled
              \/ /\ wf[Primary].phase \in {"marking", "invoicing"}
                 /\ upd'[u].phase = "done" /\ upd'[u].reply = "FAILED_PRECONDITION"
                 /\ UNCHANGED act
<1>1. /\ upd[u].phase = "sent"
      /\ upd' \in [Updates -> Update]
      /\ \A v \in Updates \ {u} : upd'[v] = upd[v]
      /\ upd'[u].req = upd[u].req
      /\ UNCHANGED <<tables, invoices, wf>>
    BY DEF HandleUpdate, Shape, TypeOK, Update, Reply, BusinessErrors
<1>2. CASE /\ wf[Primary].phase = "accruing"
           /\ upd' = [upd EXCEPT ![u].phase = "accepted"]
           /\ act' = [act EXCEPT ![Persist(u)] = Scheduled]
  <2>1. upd'[u].phase = "accepted" /\ upd'[u].reply = upd[u].reply
      BY <1>2 DEF Shape, TypeOK, Update
  <2>2. /\ act' \in [Activities -> Activity]
        /\ \A b \in Activities \ {Persist(u)} : act'[b] = act[b]
        /\ act'[Persist(u)] = Scheduled
      BY <1>2, ReplaceEffect, ScheduledEffect, ActivityNames DEF Shape
  <2> QED
      BY <1>1, <1>2, <2>1, <2>2
<1>3. CASE /\ wf[Primary].phase \in OpenPhases \ {"accruing"}
           /\ upd' = [upd EXCEPT ![u].phase = "done", ![u].reply = "FAILED_PRECONDITION"]
           /\ UNCHANGED act
  <2>1. upd'[u].phase = "done" /\ upd'[u].reply = "FAILED_PRECONDITION"
      BY <1>3 DEF Shape, TypeOK, Update
  <2> QED
      BY <1>1, <1>3, <2>1 DEF OpenPhases
<1> QED
    BY <1>2, <1>3 DEF HandleUpdate

\* The close phase starts with MarkClosedInDB.
LEMMA LeaveAccrualEffect ==
    ASSUME Shape, NEW w \in Workflows, LeaveAccrual(w)
    PROVE  /\ wf' \in [Workflows -> Run]
           /\ \A v \in Workflows \ {w} : wf'[v] = wf[v]
           /\ wf[w].phase = "accruing" /\ wf'[w].phase = "marking"
           /\ wf'[w].totalMinor = wf[w].totalMinor
           /\ act' \in [Activities -> Activity]
           /\ \A b \in Activities \ {Mark(w)} : act'[b] = act[b]
           /\ act'[Mark(w)] = Scheduled
           /\ UNCHANGED <<tables, invoices, upd>>
<1>1. /\ act' \in [Activities -> Activity]
      /\ \A b \in Activities \ {Mark(w)} : act'[b] = act[b]
      /\ act'[Mark(w)] = Scheduled
    BY ReplaceEffect, ScheduledEffect, ActivityNames DEF LeaveAccrual, Shape
<1>2. /\ wf' \in [Workflows -> Run]
      /\ \A v \in Workflows \ {w} : wf'[v] = wf[v]
      /\ wf[w].phase = "accruing" /\ wf'[w].phase = "marking"
      /\ wf'[w].totalMinor = wf[w].totalMinor
      /\ UNCHANGED <<tables, invoices, upd>>
    BY DEF LeaveAccrual, Shape, TypeOK, Run, OpenPhases
<1> QED
    BY <1>1, <1>2

\* It goes on with SendInvoiceEmail if MarkClosedInDB has reported success, and
\* fails otherwise.
LEMMA FinishMarkEffect ==
    ASSUME Shape, NEW w \in Workflows, FinishMark(w)
    PROVE  /\ wf[w].phase = "marking"
           /\ UNCHANGED <<tables, invoices>>
           /\ \/ CloseRun(w, "failed")
              \/ /\ \E i \in 1..MaxAttempts : act[Mark(w)].run[i] = "ok"
                 /\ wf' \in [Workflows -> Run]
                 /\ \A v \in Workflows \ {w} : wf'[v] = wf[v]
                 /\ wf'[w].phase = "invoicing" /\ wf'[w].totalMinor = wf[w].totalMinor
                 /\ act' \in [Activities -> Activity]
                 /\ \A b \in Activities \ {Mark(w), Invoice(w)} : act'[b] = act[b]
                 /\ act'[Mark(w)] = Over(Mark(w)) /\ act'[Invoice(w)] = Scheduled
                 /\ UNCHANGED upd
<1>1. UNCHANGED <<tables, invoices>> /\ wf[w].phase = "marking"
    BY DEF FinishMark
<1>2. CASE /\ Ends(Mark(w), "ok")
           /\ wf' = [wf EXCEPT ![w].phase = "invoicing"]
           /\ act' = [act EXCEPT ![Mark(w)] = Over(Mark(w)), ![Invoice(w)] = Scheduled]
           /\ UNCHANGED upd
  <2>1. \E i \in 1..MaxAttempts : act[Mark(w)].run[i] = "ok"
      BY <1>2, EndsEffect, ActivityNames DEF Results, Successes
  <2>2. /\ act' \in [Activities -> Activity]
        /\ \A b \in Activities \ {Mark(w), Invoice(w)} : act'[b] = act[b]
        /\ act'[Mark(w)] = Over(Mark(w)) /\ act'[Invoice(w)] = Scheduled
      BY <1>2, OverEffect, ScheduledEffect, ActivityNames DEF Shape, TypeOK
  <2>3. /\ wf' \in [Workflows -> Run]
        /\ \A v \in Workflows \ {w} : wf'[v] = wf[v]
        /\ wf'[w].phase = "invoicing" /\ wf'[w].totalMinor = wf[w].totalMinor
      BY <1>2 DEF Shape, TypeOK, Run, OpenPhases
  <2> QED
      BY <1>1, <1>2, <2>1, <2>2, <2>3
<1> QED
    BY <1>1, <1>2 DEF FinishMark

\* What an attempt of PersistLineItem writes and reports.
LEMMA PersistEffect ==
    ASSUME Shape, NEW u \in Updates, NEW i \in 1..MaxAttempts, PersistLineItem(u, i)
    PROVE  \E r \in (Results \ {"ok"}) \cup {"none"} :
              /\ Running(Persist(u), i) /\ upd[u].req \in Request
              /\ Report(Persist(u), i, r)
              /\ ChargeLineItem(u, i) => r \in {"inserted", "none"}
              /\ ~ChargeLineItem(u, i) =>
                    /\ UNCHANGED tables
                    /\ \/ r = "FAILED_PRECONDITION" /\ status # "OPEN"
                       \/ r = "existing" /\ items[upd[u].req.key] = upd[u].req.payload
                       \/ /\ r = "ALREADY_EXISTS"
                          /\ items[upd[u].req.key] \notin {None, upd[u].req.payload}
                       \/ r = "none"
              /\ UNCHANGED <<invoices, wf, upd>>
<1>1. Running(Persist(u), i) /\ UNCHANGED <<invoices, wf, upd>>
    BY DEF PersistLineItem, ChargeLineItem, RefuseLineItem
<1>2. upd[u].req \in Request
    BY <1>1, ActivityNames DEF Running, Shape, UpdateShape, Begun
<1>3. {"inserted", "existing", "ALREADY_EXISTS", "FAILED_PRECONDITION"} \subseteq Results \ {"ok"}
    BY DEF Results, Successes, Acknowledged, BusinessErrors
<1>4. CASE ChargeLineItem(u, i)
  <2>1. PICK r \in {"inserted", "none"} : Report(Persist(u), i, r)
      BY <1>4 DEF ChargeLineItem
  <2> QED
      BY <1>1, <1>2, <1>3, <1>4, <2>1
<1>5. CASE ~ChargeLineItem(u, i)
  <2> DEFINE k == upd[u].req.key
             p == upd[u].req.payload
  <2>1. RefuseLineItem(u, i)
      BY <1>5 DEF PersistLineItem
  <2>2. items[k] # None => items[k] \in Payloads
      BY <1>2 DEF Request, Shape, TypeOK, Rows
  <2>3. items[k] # None => (HashesAgree(items[k], p) <=> items[k] = p)
      BY <1>2, <2>2, HashInjective DEF Request, HashesAgree
  <2>4. /\ UNCHANGED tables
        /\ \/ Report(Persist(u), i, "FAILED_PRECONDITION") /\ status # "OPEN"
           \/ Report(Persist(u), i, "existing") /\ items[k] = p
           \/ Report(Persist(u), i, "ALREADY_EXISTS") /\ items[k] \notin {None, p}
           \/ Report(Persist(u), i, "none")
      BY <2>1, <2>3 DEF RefuseLineItem
  <2> QED
      BY <1>1, <1>2, <1>3, <1>5, <2>4
<1> QED
    BY <1>4, <1>5

\* What ChargeLineItem writes: the row was free, and the sum is a BIGINT.
LEMMA ChargeEffect ==
    ASSUME Shape, NEW u \in Updates, NEW i \in 1..MaxAttempts, ChargeLineItem(u, i)
    PROVE  /\ upd[u].req.key \in Keys /\ upd[u].req.payload \in Payloads
           /\ upd[u].req.payload.amount_minor \in Nat
           /\ status = "OPEN" /\ UNCHANGED status
           /\ items[upd[u].req.key] = None
           /\ items' = [items EXCEPT ![upd[u].req.key] = upd[u].req.payload]
           /\ items' \in Rows
           /\ total' = total + upd[u].req.payload.amount_minor
           /\ total' \in 0..MaxTotal
<1> DEFINE q == upd[u].req
<1>1. q \in Request
    BY ActivityNames DEF ChargeLineItem, Running, Shape, UpdateShape, Begun
<1>2. /\ total' = total + q.payload.amount_minor /\ total' <= MaxTotal
      /\ items' = [items EXCEPT ![q.key] = q.payload] /\ status' = status
      /\ items[q.key] = None /\ status = "OPEN"
    BY DEF ChargeLineItem
<1>3. q.payload.amount_minor \in Nat
    BY <1>1, PayloadsAssumption, MaxTotalAssumption DEF Request
<1> QED
    BY <1>1, <1>2, <1>3, MaxTotalAssumption DEF Shape, TypeOK, Rows, Request

\* Every step of the workflow keeps the types and shapes.
LEMMA ShapeNext == Shape /\ [Next]_vars => Shape'
<1> SUFFICES ASSUME Shape, [Next]_vars PROVE Shape'
    OBVIOUS
<1>1. CASE UNCHANGED vars
    BY <1>1 DEF vars, tables, Shape, TypeOK, ActivityShape, UpdateShape, RunShape, Begun, Open
<1>2. CASE InsertBill \/ CancelBill
    BY <1>2 DEF InsertBill, CancelBill, Shape, TypeOK, BillStatus, ActivityShape, UpdateShape,
                RunShape, Begun, Open
<1>3. ASSUME NEW w \in Workflows, StartWorkflow(w) \/ SignalClose(w) \/ TimerFires(w)
      PROVE  Shape'
  <2>1. /\ wf' \in [Workflows -> Run]
        /\ \A v \in Workflows : \/ wf'[v].phase = wf[v].phase
                                \/ wf[v].phase = "none" /\ wf'[v].phase = "accruing"
        /\ UNCHANGED <<tables, invoices, upd, act>>
      BY <1>3, RunStepEffect
  <2>2. TypeOK' /\ ActivityShape'
      BY <2>1 DEF Shape, TypeOK, tables, ActivityShape
  <2>3. UpdateShape' /\ RunShape'
      BY <2>1, ActivityNames DEF Shape, UpdateShape, RunShape, Begun, Open, OpenPhases
  <2> QED
      BY <2>2, <2>3 DEF Shape
<1>4. ASSUME NEW u \in Updates, NEW q \in Request, SendUpdate(u, q)
      PROVE  Shape'
  <2>1. TypeOK' /\ ActivityShape' /\ RunShape'
      BY <1>4, SendUpdateEffect DEF Shape, TypeOK, tables, ActivityShape, RunShape
  <2>2. UpdateShape'
      BY <1>4, SendUpdateEffect DEF Shape, UpdateShape, Begun, Open
  <2> QED
      BY <2>1, <2>2 DEF Shape
<1>5. ASSUME NEW a \in Activities, RetryActivity(a)
      PROVE  Shape'
    BY <1>5, RetryKeepsShape
<1>6. ASSUME NEW u \in Updates, NEW i \in 1..MaxAttempts, PersistLineItem(u, i)
      PROVE  Shape'
  <2>1. PICK r \in (Results \ {"ok"}) \cup {"none"} :
            /\ Running(Persist(u), i) /\ Report(Persist(u), i, r)
            /\ ~ChargeLineItem(u, i) => UNCHANGED tables
            /\ UNCHANGED <<invoices, wf, upd>>
      BY <1>6, PersistEffect
  <2>2. ActivityShape' /\ UpdateShape' /\ RunShape'
      BY <2>1, ReportKeepsShape, ActivityNames
  <2>3. act' \in [Activities -> Activity]
      BY <2>1, ReportEffect, ActivityNames DEF Shape
  <2>4. status' \in BillStatus /\ total' \in 0..MaxTotal /\ items' \in Rows
      BY <2>1, ChargeEffect DEF tables, Shape, TypeOK
  <2> QED
      BY <2>1, <2>2, <2>3, <2>4 DEF Shape, TypeOK
<1>7. ASSUME NEW w \in Workflows, NEW i \in 1..MaxAttempts,
             MarkClosedInDB(w, i) \/ SendInvoiceEmail(w, i)
      PROVE  Shape'
  <2>1. PICK a \in {Mark(w), Invoice(w)}, r \in {"ok", "none"} :
            Report(a, i, r) /\ Running(a, i)
      BY <1>7 DEF MarkClosedInDB, SendInvoiceEmail
  <2>2. r \in Results \cup {"none"} /\ a \in Activities
      BY <2>1, ActivityNames DEF Results, Successes
  <2>3. /\ UNCHANGED <<wf, upd, total, items>>
        /\ status' \in BillStatus /\ invoices' \in Nat
      BY <1>7 DEF MarkClosedInDB, SendInvoiceEmail, tables, Shape, TypeOK, BillStatus
  <2>4. ActivityShape' /\ UpdateShape' /\ RunShape'
      BY <2>1, <2>2, <2>3, ReportKeepsShape, ActivityNames
  <2>5. act' \in [Activities -> Activity]
      BY <2>1, <2>2, ReportEffect DEF Shape
  <2> QED
      BY <2>3, <2>4, <2>5 DEF Shape, TypeOK
<1>8. ASSUME NEW u \in Updates, HandleUpdate(u)
      PROVE  Shape'
  <2>1. TypeOK'
      BY <1>8, HandleUpdateEffect DEF Shape, TypeOK, tables
  <2>2. ActivityShape'
      BY <1>8, HandleUpdateEffect, ActivityNames, ScheduledEffect DEF Shape, ActivityShape
  <2>3. UpdateShape' /\ RunShape'
      BY <1>8, HandleUpdateEffect, ActivityNames, ScheduledEffect
         DEF Shape, UpdateShape, RunShape, Begun, Open
  <2> QED
      BY <2>1, <2>2, <2>3 DEF Shape
<1>9. ASSUME NEW u \in Updates, FinishUpdate(u)
      PROVE  Shape'
  <2>1. /\ upd[u].phase = "accepted" /\ upd[u].req \in Request
        /\ upd' \in [Updates -> Update]
        /\ \A v \in Updates \ {u} : upd'[v] = upd[v]
        /\ upd'[u].phase = "done" /\ upd'[u].reply # "none" /\ upd'[u].req = upd[u].req
        /\ act' \in [Activities -> Activity]
        /\ \A b \in Activities \ {Persist(u)} : act'[b] = act[b]
        /\ ~act'[Persist(u)].open
        /\ \A i \in 1..MaxAttempts : act'[Persist(u)].run[i] =
              IF act[Persist(u)].run[i] = "running" THEN "running" ELSE "none"
        /\ wf' \in [Workflows -> Run]
        /\ \A w \in Workflows : wf'[w].phase = wf[w].phase
        /\ UNCHANGED <<tables, invoices>>
      BY <1>9, FinishUpdateEffect
  <2>2. TypeOK'
      BY <2>1 DEF Shape, TypeOK, tables
  <2>3. ActivityShape'
    <3>1. Persist(u) \in Activities /\ \A w \in Workflows : Persist(u) \notin {Mark(w), Invoice(w)}
        BY ActivityNames
    <3>2. \A i \in 1..MaxAttempts : act'[Persist(u)].run[i] \in {"none", "running"}
        BY <2>1
    <3> QED
        BY <2>1, <3>1, <3>2, ActivityNames DEF Shape, ActivityShape
  <2>4. UpdateShape' /\ RunShape'
      BY <2>1, ActivityNames DEF Shape, UpdateShape, RunShape, Begun, Open
  <2> QED
      BY <2>2, <2>3, <2>4 DEF Shape
<1>10. ASSUME NEW w \in Workflows, LeaveAccrual(w)
       PROVE  Shape'
  <2>1. TypeOK'
      BY <1>10, LeaveAccrualEffect DEF Shape, TypeOK, tables
  <2>2. ActivityShape'
      BY <1>10, LeaveAccrualEffect, ActivityNames, ScheduledEffect DEF Shape, ActivityShape
  <2>3. UpdateShape' /\ RunShape'
      BY <1>10, LeaveAccrualEffect, ActivityNames, ScheduledEffect
         DEF Shape, UpdateShape, RunShape, Begun, Open, OpenPhases
  <2> QED
      BY <2>1, <2>2, <2>3 DEF Shape
<1>11. ASSUME NEW w \in Workflows, FinishMark(w)
       PROVE  Shape'
  <2>1. CASE CloseRun(w, "failed")
      BY <1>11, <2>1, FinishMarkEffect, CloseRunKeepsShape DEF ClosedPhases
  <2>2. CASE ~CloseRun(w, "failed")
    <3>1. TypeOK'
        BY <1>11, <2>2, FinishMarkEffect DEF Shape, TypeOK, tables
    <3>2. ActivityShape'
        BY <1>11, <2>2, FinishMarkEffect, ActivityNames, OverEffect, ScheduledEffect
           DEF Shape, ActivityShape
    <3>3. UpdateShape' /\ RunShape'
        BY <1>11, <2>2, FinishMarkEffect, ActivityNames, OverEffect, ScheduledEffect
           DEF Shape, UpdateShape, RunShape, Begun, Open, OpenPhases
    <3> QED
        BY <3>1, <3>2, <3>3 DEF Shape
  <2> QED
      BY <2>1, <2>2
<1>12. ASSUME NEW w \in Workflows, FinishInvoice(w) \/ TerminateWorkflow(w)
       PROVE  Shape'
    BY <1>12, CloseRunKeepsShape DEF FinishInvoice, TerminateWorkflow, ClosedPhases
<1> QED
    BY <1>1, <1>2, <1>3, <1>4, <1>5, <1>6, <1>7, <1>8, <1>9, <1>10, <1>11, <1>12, ActivityNames
       DEF Next, WorkerStep, Environment

\* MarkClosedInDB reports success only of a bill that is not OPEN any more.
LEMMA MarkEffect ==
    ASSUME NEW w \in Workflows, NEW i \in 1..MaxAttempts, MarkClosedInDB(w, i)
    PROVE  \E r \in {"ok", "none"} :
              /\ Running(Mark(w), i) /\ Report(Mark(w), i, r)
              /\ r = "ok" => status' # "OPEN"
              /\ status' # status => status = "OPEN" /\ status' = "CLOSED"
              /\ UNCHANGED <<total, items, invoices, wf, upd>>
BY DEF MarkClosedInDB

\* SendInvoiceEmail reports success only of an invoice that was sent.
LEMMA InvoiceEffect ==
    ASSUME NEW w \in Workflows, NEW i \in 1..MaxAttempts, SendInvoiceEmail(w, i)
    PROVE  \E r \in {"ok", "none"} :
              /\ Running(Invoice(w), i) /\ Report(Invoice(w), i, r)
              /\ r = "ok" => invoices' = invoices + 1
              /\ invoices' \in {invoices, invoices + 1}
              /\ UNCHANGED <<tables, wf, upd>>
BY DEF SendInvoiceEmail

\* A run that is over has completed only if its invoice was reported as sent.
LEMMA CloseEffect ==
    ASSUME Shape, NEW w \in Workflows, FinishInvoice(w) \/ TerminateWorkflow(w)
    PROVE  \E phase \in ClosedPhases :
              /\ CloseRun(w, phase) /\ UNCHANGED <<tables, invoices>>
              /\ phase = "completed" =>
                    /\ wf[w].phase = "invoicing"
                    /\ \E i \in 1..MaxAttempts : act[Invoice(w)].run[i] = "ok"
<1>1. UNCHANGED <<tables, invoices>>
    BY DEF FinishInvoice, TerminateWorkflow
<1>2. CASE FinishInvoice(w) /\ CloseRun(w, "completed") /\ Ends(Invoice(w), "ok")
  <2>1. \E i \in 1..MaxAttempts : act[Invoice(w)].run[i] = "ok"
      BY <1>2, EndsEffect, ActivityNames DEF Results, Successes
  <2> QED
      BY <1>1, <1>2, <2>1 DEF FinishInvoice, ClosedPhases
<1>3. CASE CloseRun(w, "failed") \/ CloseRun(w, "terminated")
    BY <1>1, <1>3 DEF ClosedPhases
<1> QED
    BY <1>2, <1>3 DEF FinishInvoice, TerminateWorkflow

(***************************************************************************)
(* The stages of a bill.                                                   *)
(***************************************************************************)

LEMMA StageInit == Init => Stage
<1> SUFFICES ASSUME Init PROVE Stage
    OBVIOUS
<1>1. \A a \in Activities, i \in 1..MaxAttempts : act[a].run[i] = "none"
    BY DEF Init
<1>2. (\A w \in Workflows : wf[w].phase = "none") /\ invoices = 0
    BY DEF Init
<1> QED
    BY <1>1, <1>2, ActivityNames DEF Stage, Begun

\* A pending activity is one of an inserted bill, and a pending invoice one of a
\* bill that has left OPEN.
LEMMA PendingStage ==
    ASSUME Shape, Stage, NEW a \in Activities, act[a].open
    PROVE  /\ status # "NONE"
           /\ \A w \in Workflows : a = Invoice(w) => LeftOpen
<1>1. CASE \E u \in Updates : a = Persist(u)
  <2>1. Open(Primary)
      BY <1>1 DEF Shape, UpdateShape
  <2> QED
      BY <1>1, <2>1, ActivityNames DEF Stage, Open, OpenPhases
<1>2. CASE \E w \in Workflows : a = Mark(w) \/ a = Invoice(w)
    BY <1>2, ActivityNames DEF Shape, RunShape, Stage
<1> QED
    BY <1>1, <1>2 DEF Activities

\* What is left of the stages once activities and runs only wind down.
LEMMA WindDownKeepsStage ==
    ASSUME Stage,
           LeftOpen => LeftOpen', status # "NONE" => status' # "NONE",
           invoices' = invoices,
           \A a \in Activities, i \in 1..MaxAttempts :
              act'[a].run[i] \in {act[a].run[i], "running", "none"},
           \A a \in Activities, i \in 1..MaxAttempts :
              Begun(a, i)' /\ ~Begun(a, i) =>
                 status' # "NONE" /\ (\A w \in Workflows : a = Invoice(w) => LeftOpen'),
           \A w \in Workflows :
              \/ wf'[w].phase = wf[w].phase
              \/ wf[w].phase # "none" /\ wf'[w].phase \notin {"invoicing", "completed"}
              \/ wf[w].phase # "none" /\ LeftOpen'
              \/ status' # "NONE" /\ wf'[w].phase = "accruing"
    PROVE  Stage'
<1>1. \A w \in Workflows : wf'[w].phase # "none" => status' # "NONE"
    BY DEF Stage
<1>2. \A a \in Activities, i \in 1..MaxAttempts : Begun(a, i)' => status' # "NONE"
    BY DEF Stage
<1>3. ASSUME NEW w \in Workflows
      PROVE  /\ wf'[w].phase \in {"invoicing", "completed"} => LeftOpen'
             /\ \A i \in 1..MaxAttempts :
                   /\ act'[Mark(w)].run[i] = "ok" => LeftOpen'
                   /\ Begun(Invoice(w), i)' => LeftOpen'
  <2>1. Mark(w) \in Activities /\ Invoice(w) \in Activities
      BY ActivityNames
  <2> QED
      BY <2>1 DEF Stage
<1>4. invoices' > 0 => LeftOpen'
    BY DEF Stage
<1> QED
    BY <1>1, <1>2, <1>3, <1>4 DEF Stage

LEMMA StageNext == Shape /\ Stage /\ [Next]_vars => Stage'
<1> SUFFICES ASSUME Shape, Stage, [Next]_vars PROVE Stage'
    OBVIOUS
<1>1. CASE UNCHANGED vars
    BY <1>1 DEF vars, tables, Stage, Begun, LeftOpen
<1>2. CASE InsertBill \/ CancelBill
    BY <1>2 DEF InsertBill, CancelBill, Stage, Begun, LeftOpen
<1>3. ASSUME NEW w \in Workflows, StartWorkflow(w) \/ SignalClose(w) \/ TimerFires(w)
      PROVE  Stage'
    BY <1>3, RunStepEffect DEF Stage, Begun, LeftOpen, tables
<1>4. ASSUME NEW u \in Updates, NEW q \in Request, SendUpdate(u, q)
      PROVE  Stage'
    BY <1>4 DEF SendUpdate, Stage, Begun, LeftOpen, tables
<1>5. ASSUME NEW a \in Activities, RetryActivity(a)
      PROVE  Stage'
  <2>1. /\ \A b \in Activities \ {a} : act'[b] = act[b]
        /\ act[a].open
        /\ \A i \in 1..MaxAttempts : act'[a].run[i] \in {"running", "none"}
      BY <1>5, RetryEffect DEF Shape
  <2>2. status # "NONE" /\ \A w \in Workflows : a = Invoice(w) => LeftOpen
      BY <2>1, PendingStage
  <2>3. UNCHANGED <<status, invoices, wf>>
      BY <1>5 DEF RetryActivity, tables
  <2> QED
      BY <2>1, <2>2, <2>3, WindDownKeepsStage DEF Begun, LeftOpen
<1>6. ASSUME NEW u \in Updates, NEW i \in 1..MaxAttempts, PersistLineItem(u, i)
      PROVE  Stage'
  <2>1. PICK r \in (Results \ {"ok"}) \cup {"none"} :
            /\ Running(Persist(u), i) /\ Report(Persist(u), i, r)
            /\ UNCHANGED <<invoices, wf>>
      BY <1>6, PersistEffect
  <2>2. UNCHANGED status
      BY <1>6, PersistEffect, ChargeEffect DEF tables
  <2>3. /\ \A b \in Activities \ {Persist(u)} : act'[b] = act[b]
        /\ \A j \in 1..MaxAttempts : act'[Persist(u)].run[j] # "none" => Begun(Persist(u), j)
      BY <2>1, ReportEffect, ActivityNames DEF Shape, Running, Begun
  <2> QED
      BY <2>1, <2>2, <2>3, ActivityNames DEF Stage, Begun, LeftOpen
<1>7. ASSUME NEW w \in Workflows, NEW i \in 1..MaxAttempts, MarkClosedInDB(w, i)
      PROVE  Stage'
  <2>1. PICK r \in {"ok", "none"} :
            /\ Running(Mark(w), i) /\ Report(Mark(w), i, r)
            /\ r = "ok" => status' # "OPEN"
            /\ status' # status => status = "OPEN" /\ status' = "CLOSED"
            /\ UNCHANGED <<total, items, invoices, wf, upd>>
      BY <1>7, MarkEffect
  <2>2. /\ \A b \in Activities \ {Mark(w)} : act'[b] = act[b]
        /\ \A j \in (1..MaxAttempts) \ {i} : act'[Mark(w)].run[j] = act[Mark(w)].run[j]
        /\ act'[Mark(w)].run[i] \in {r, "none"}
      BY <2>1, ReportEffect, ActivityNames DEF Shape, Results, Successes
  <2>3. status # "NONE" /\ status \in BillStatus
      BY <2>1, ActivityNames DEF Running, Stage, Begun, Shape, TypeOK
  <2>4. r = "ok" => LeftOpen'
      BY <2>1, <2>3 DEF LeftOpen, BillStatus
  <2>5. (LeftOpen => LeftOpen') /\ status' # "NONE"
      BY <2>1, <2>3 DEF LeftOpen
  <2> QED
      BY <2>1, <2>2, <2>4, <2>5, ActivityNames DEF Stage, Begun, Running
<1>8. ASSUME NEW w \in Workflows, NEW i \in 1..MaxAttempts, SendInvoiceEmail(w, i)
      PROVE  Stage'
  <2>1. PICK r \in {"ok", "none"} :
            /\ Running(Invoice(w), i) /\ Report(Invoice(w), i, r)
            /\ UNCHANGED <<tables, wf, upd>>
      BY <1>8, InvoiceEffect
  <2>2. /\ \A b \in Activities \ {Invoice(w)} : act'[b] = act[b]
        /\ \A j \in 1..MaxAttempts : act'[Invoice(w)].run[j] # "none" => Begun(Invoice(w), j)
      BY <2>1, ReportEffect, ActivityNames DEF Shape, Results, Successes, Running, Begun
  <2>3. LeftOpen /\ UNCHANGED status
      BY <2>1, ActivityNames DEF Running, Stage, Begun, tables
  <2> QED
      BY <2>1, <2>2, <2>3, ActivityNames DEF Stage, Begun, LeftOpen
<1>9. ASSUME NEW u \in Updates, HandleUpdate(u)
      PROVE  Stage'
  <2>1. /\ UNCHANGED <<tables, invoices, wf>>
        /\ \/ UNCHANGED act
           \/ /\ wf[Primary].phase = "accruing"
              /\ \A b \in Activities \ {Persist(u)} : act'[b] = act[b]
              /\ act'[Persist(u)] = Scheduled
      BY <1>9, HandleUpdateEffect
  <2>2. wf[Primary].phase = "accruing" => status # "NONE"
      BY ActivityNames DEF Stage
  <2> QED
      BY <2>1, <2>2, ActivityNames, ScheduledEffect, WindDownKeepsStage
         DEF Begun, LeftOpen, tables
<1>10. ASSUME NEW u \in Updates, FinishUpdate(u)
       PROVE  Stage'
  <2>1. /\ \A b \in Activities \ {Persist(u)} : act'[b] = act[b]
        /\ \A i \in 1..MaxAttempts : act'[Persist(u)].run[i] =
              IF act[Persist(u)].run[i] = "running" THEN "running" ELSE "none"
        /\ \A w \in Workflows : wf'[w].phase = wf[w].phase
        /\ UNCHANGED <<tables, invoices>>
      BY <1>10, FinishUpdateEffect
  <2> QED
      BY <2>1, WindDownKeepsStage DEF Begun, LeftOpen, tables
<1>11. ASSUME NEW w \in Workflows, LeaveAccrual(w)
       PROVE  Stage'
  <2>1. status # "NONE"
      BY <1>11 DEF LeaveAccrual, Stage
  <2> QED
      BY <1>11, <2>1, LeaveAccrualEffect, ActivityNames, ScheduledEffect, WindDownKeepsStage
         DEF Begun, LeftOpen, tables
<1>12. ASSUME NEW w \in Workflows, FinishMark(w), ~CloseRun(w, "failed")
       PROVE  Stage'
  <2>1. LeftOpen
      BY <1>12, FinishMarkEffect DEF Stage
  <2>2. /\ UNCHANGED <<tables, invoices>>
        /\ \A v \in Workflows \ {w} : wf'[v] = wf[v]
        /\ wf[w].phase = "marking"
        /\ \A b \in Activities \ {Mark(w), Invoice(w)} : act'[b] = act[b]
        /\ act'[Mark(w)] = Over(Mark(w)) /\ act'[Invoice(w)] = Scheduled
      BY <1>12, FinishMarkEffect
  <2>3. LeftOpen' /\ status' # "NONE"
      BY <2>1, <2>2 DEF LeftOpen, tables
  <2> QED
      BY <2>2, <2>3, ActivityNames, OverEffect, ScheduledEffect, WindDownKeepsStage
         DEF Begun
<1>13. ASSUME NEW w \in Workflows, NEW phase \in ClosedPhases, CloseRun(w, phase),
              UNCHANGED <<tables, invoices>>,
              wf[w].phase # "none",
              phase = "completed" => wf[w].phase = "invoicing"
       PROVE  Stage'
  <2>1. /\ \A v \in Workflows \ {w} : wf'[v] = wf[v]
        /\ wf'[w].phase = phase
        /\ \A a \in Activities :
              /\ RunOf(a) # w => act'[a] = act[a]
              /\ RunOf(a) = w => \A i \in 1..MaxAttempts : act'[a].run[i] =
                    IF act[a].run[i] = "running" THEN "running" ELSE "none"
      BY <1>13, CloseRunEffect DEF Shape
  <2>2. UNCHANGED <<status, invoices>>
      BY <1>13 DEF tables
  <2>3. \A a \in Activities, i \in 1..MaxAttempts :
            /\ act'[a].run[i] \in {act[a].run[i], "none"}
            /\ ~(Begun(a, i)' /\ ~Begun(a, i))
      BY <2>1 DEF Begun
  <2>4. phase = "completed" => LeftOpen
      BY <1>13 DEF Stage
  <2>5. phase # "invoicing"
      BY DEF ClosedPhases
  <2>6. (LeftOpen <=> LeftOpen') /\ (status # "NONE" <=> status' # "NONE")
      BY <2>2 DEF LeftOpen
  <2> QED
      BY <1>13, <2>1, <2>2, <2>3, <2>4, <2>5, <2>6, WindDownKeepsStage
<1>14. ASSUME NEW w \in Workflows, FinishMark(w), CloseRun(w, "failed")
       PROVE  Stage'
    BY <1>13, <1>14, FinishMarkEffect DEF ClosedPhases
<1>15. ASSUME NEW w \in Workflows, FinishInvoice(w) \/ TerminateWorkflow(w)
       PROVE  Stage'
  <2>1. wf[w].phase # "none"
      BY <1>15 DEF FinishInvoice, TerminateWorkflow, Open, OpenPhases
  <2> QED
      BY <1>13, <1>15, <2>1, CloseEffect
<1> QED
    BY <1>1, <1>2, <1>3, <1>4, <1>5, <1>6, <1>7, <1>8, <1>9, <1>10, <1>11, <1>12, <1>14,
       <1>15, ActivityNames
       DEF Next, WorkerStep, Environment

(***************************************************************************)
(* What a step may do to runs, tables and answers.                         *)
(***************************************************************************)

\* A run never accrues again, and a run that is over stays as it is.
LEMMA RunMoves ==
    ASSUME Shape, [Next]_vars, NEW w \in Workflows
    PROVE  /\ wf[w].phase \notin {"none", "accruing"} => wf'[w].phase \notin {"none", "accruing"}
           /\ wf[w].phase \in ClosedPhases => wf'[w].phase = wf[w].phase
<1>1. CASE UNCHANGED wf
    BY <1>1
<1>2. ASSUME NEW v \in Workflows, StartWorkflow(v) \/ SignalClose(v) \/ TimerFires(v)
      PROVE  wf'[w].phase = wf[w].phase \/ wf[w].phase = "none"
    BY <1>2, RunStepEffect
<1>3. ASSUME NEW u \in Updates, FinishUpdate(u)
      PROVE  wf'[w].phase = wf[w].phase
    BY <1>3, FinishUpdateEffect
<1>4. ASSUME NEW v \in Workflows, LeaveAccrual(v)
      PROVE  wf'[w].phase = wf[w].phase \/ (wf[w].phase = "accruing" /\ wf'[w].phase = "marking")
    BY <1>4, LeaveAccrualEffect
<1>5. ASSUME NEW v \in Workflows, FinishMark(v), ~CloseRun(v, "failed")
      PROVE  wf'[w].phase = wf[w].phase \/ (wf[w].phase = "marking" /\ wf'[w].phase = "invoicing")
    BY <1>5, FinishMarkEffect
<1>6. ASSUME NEW v \in Workflows, NEW phase \in ClosedPhases, CloseRun(v, phase), Open(v)
      PROVE  wf'[w].phase = wf[w].phase \/ (wf[w].phase \in OpenPhases /\ wf'[w].phase \in ClosedPhases)
    BY <1>6, CloseRunEffect DEF Shape, Open
<1>7. ASSUME NEW v \in Workflows,
             \/ FinishMark(v) /\ CloseRun(v, "failed")
             \/ FinishInvoice(v) \/ TerminateWorkflow(v)
      PROVE  wf'[w].phase = wf[w].phase \/ (wf[w].phase \in OpenPhases /\ wf'[w].phase \in ClosedPhases)
    BY <1>6, <1>7, CloseEffect
       DEF FinishMark, FinishInvoice, TerminateWorkflow, Open, OpenPhases, ClosedPhases
<1>8. \/ UNCHANGED wf
      \/ \E v \in Workflows : StartWorkflow(v) \/ SignalClose(v) \/ TimerFires(v)
      \/ \E u \in Updates : FinishUpdate(u)
      \/ \E v \in Workflows :
            LeaveAccrual(v) \/ FinishMark(v) \/ FinishInvoice(v) \/ TerminateWorkflow(v)
    BY ActivityNames
       DEF Next, WorkerStep, Environment, vars, InsertBill, CancelBill, SendUpdate,
           RetryActivity, PersistLineItem, ChargeLineItem, RefuseLineItem, MarkClosedInDB,
           SendInvoiceEmail, HandleUpdate
<1> QED
    BY <1>1, <1>2, <1>3, <1>4, <1>5, <1>7, <1>8 DEF OpenPhases, ClosedPhases

\* The tables change in four ways only.
LEMMA TableSteps ==
    ASSUME Shape, [Next]_vars
    PROVE  \/ UNCHANGED tables
           \/ InsertBill \/ CancelBill
           \/ \E u \in Updates, i \in 1..MaxAttempts : ChargeLineItem(u, i)
           \/ status = "OPEN" /\ status' = "CLOSED" /\ UNCHANGED <<total, items>>
<1>1. ASSUME NEW u \in Updates, FinishUpdate(u)
      PROVE  UNCHANGED tables
    BY <1>1, FinishUpdateEffect
<1>2. ASSUME NEW w \in Workflows,
             FinishMark(w) \/ FinishInvoice(w) \/ TerminateWorkflow(w) \/ LeaveAccrual(w)
      PROVE  UNCHANGED tables
    BY <1>2 DEF FinishMark, FinishInvoice, TerminateWorkflow, LeaveAccrual
<1>3. ASSUME NEW w \in Workflows, StartWorkflow(w) \/ SignalClose(w) \/ TimerFires(w)
      PROVE  UNCHANGED tables
    BY <1>3 DEF StartWorkflow, SignalClose, TimerFires
<1>4. ASSUME NEW w \in Workflows, NEW i \in 1..MaxAttempts,
             MarkClosedInDB(w, i) \/ SendInvoiceEmail(w, i)
      PROVE  \/ UNCHANGED tables
             \/ status = "OPEN" /\ status' = "CLOSED" /\ UNCHANGED <<total, items>>
    BY <1>4, MarkEffect, InvoiceEffect DEF tables
<1>5. ASSUME NEW u \in Updates,
             \/ HandleUpdate(u)
             \/ \E q \in Request : SendUpdate(u, q)
             \/ \E i \in 1..MaxAttempts : RefuseLineItem(u, i)
      PROVE  UNCHANGED tables
    BY <1>5 DEF HandleUpdate, SendUpdate, RefuseLineItem
<1>6. ASSUME NEW a \in Activities, RetryActivity(a)
      PROVE  UNCHANGED tables
    BY <1>6 DEF RetryActivity
<1>7. CASE UNCHANGED vars
    BY <1>7 DEF vars, tables
<1> QED
    BY <1>1, <1>2, <1>3, <1>4, <1>5, <1>6, <1>7, ActivityNames
       DEF Next, WorkerStep, Environment, PersistLineItem

\* A bill that has left OPEN is frozen, one that was inserted stays, and so does a row.
LEMMA TablesFreeze ==
    ASSUME Shape, [Next]_vars
    PROVE  /\ LeftOpen => UNCHANGED tables /\ LeftOpen'
           /\ status # "NONE" => status' # "NONE"
           /\ \A k \in Keys : items[k] # None => items'[k] = items[k]
<1>1. CASE UNCHANGED tables
    BY <1>1 DEF tables, LeftOpen
<1>2. CASE InsertBill \/ CancelBill
    BY <1>2 DEF InsertBill, CancelBill, LeftOpen
<1>3. ASSUME NEW u \in Updates, NEW i \in 1..MaxAttempts, ChargeLineItem(u, i)
      PROVE  /\ ~LeftOpen /\ UNCHANGED status
             /\ \A k \in Keys : items[k] # None => items'[k] = items[k]
    BY <1>3, ChargeEffect DEF LeftOpen, Shape, TypeOK, Rows
<1>4. CASE status = "OPEN" /\ status' = "CLOSED" /\ UNCHANGED <<total, items>>
    BY <1>4 DEF LeftOpen
<1> QED
    BY <1>1, <1>2, <1>3, <1>4, TableSteps

\* Any other step than an attempt of PersistLineItem tells nobody anything about the
\* tables: an answer stays, or it becomes one of no consequence, or the validator
\* has rejected the update.
LEMMA ToldMoves ==
    ASSUME Shape, [Next]_vars, NEW u \in Updates,
           \A v \in Updates, i \in 1..MaxAttempts : ~PersistLineItem(v, i)
    PROVE  \/ Told(u)' = Told(u) /\ upd'[u].req = upd[u].req
           \/ Told(u)' \in {"none", "running", "failed", "unreachable"}
           \/ /\ Told(u)' = "FAILED_PRECONDITION"
              /\ wf'[Primary].phase \in {"marking", "invoicing"}
<1> DEFINE Kept == Told(u)' = Told(u) /\ upd'[u].req = upd[u].req
           Mute == Told(u)' \in {"none", "running", "failed", "unreachable"}
<1>1. CASE upd'[u] = upd[u] /\ act'[Persist(u)] = act[Persist(u)]
    BY <1>1 DEF Told, LastResult
<1>2. ASSUME NEW a \in Activities, RetryActivity(a)
      PROVE  Kept \/ Mute
  <2>1. UNCHANGED upd
      BY <1>2 DEF RetryActivity
  <2>2. CASE a = Persist(u)
      BY <1>2, <2>1, <2>2, RetryEffect DEF Told, LastResult, Shape
  <2>3. CASE a # Persist(u)
      BY <1>2, <2>1, <2>3, RetryEffect, ActivityNames DEF Told, LastResult, Shape
  <2> QED
      BY <2>2, <2>3
<1>3. ASSUME NEW w \in Workflows, NEW i \in 1..MaxAttempts,
             MarkClosedInDB(w, i) \/ SendInvoiceEmail(w, i)
      PROVE  Kept
  <2>1. PICK a \in {Mark(w), Invoice(w)}, r \in {"ok", "none"} : Report(a, i, r)
      BY <1>3, MarkEffect, InvoiceEffect
  <2>2. a \in Activities /\ a # Persist(u) /\ r \in Results \cup {"none"}
      BY <2>1, ActivityNames DEF Results, Successes
  <2>3. act'[Persist(u)] = act[Persist(u)]
      BY <2>1, <2>2, ReportEffect, ActivityNames DEF Shape
  <2>4. UNCHANGED upd
      BY <1>3 DEF MarkClosedInDB, SendInvoiceEmail
  <2> QED
      BY <2>3, <2>4 DEF Told, LastResult
<1>4. ASSUME NEW v \in Updates, NEW q \in Request, SendUpdate(v, q)
      PROVE  Kept \/ Mute
    BY <1>4, SendUpdateEffect DEF Told, LastResult
<1>5. ASSUME NEW v \in Updates, HandleUpdate(v)
      PROVE  \/ Kept \/ Mute
             \/ /\ Told(u)' = "FAILED_PRECONDITION"
                /\ wf'[Primary].phase \in {"marking", "invoicing"}
  <2>1. CASE u = v /\ wf[Primary].phase = "accruing"
    <3>1. upd'[u].phase = "accepted" /\ act'[Persist(u)] = Scheduled
        BY <1>5, <2>1, HandleUpdateEffect
    <3> QED
        BY <3>1, ScheduledEffect DEF Told, LastResult
  <2>2. CASE u = v /\ wf[Primary].phase # "accruing"
      BY <1>5, <2>2, HandleUpdateEffect DEF Told
  <2>3. CASE u # v
    <3>1. upd'[u] = upd[u] /\ act'[Persist(u)] = act[Persist(u)]
        BY <1>5, <2>3, HandleUpdateEffect, ActivityNames
    <3> QED
        BY <3>1 DEF Told, LastResult
  <2> QED
      BY <2>1, <2>2, <2>3
<1>6. ASSUME NEW v \in Updates, FinishUpdate(v)
      PROVE  Kept \/ Mute
  <2>1. PICK r \in Reply \ {"none"} :
          /\ upd[v].phase = "accepted"
          /\ r = "failed" \/ r = act[Persist(v)].run[act[Persist(v)].attempt]
          /\ \A x \in Updates \ {v} : upd'[x] = upd[x]
          /\ upd'[v].phase = "done" /\ upd'[v].reply = r /\ upd'[v].req = upd[v].req
          /\ \A b \in Activities \ {Persist(v)} : act'[b] = act[b]
      BY <1>6, FinishUpdateEffect
  <2>2. CASE u = v
      BY <2>1, <2>2 DEF Told, LastResult
  <2>3. CASE u # v
      BY <2>1, <2>3, ActivityNames DEF Told, LastResult
  <2> QED
      BY <2>2, <2>3
<1>7. ASSUME NEW w \in Workflows, LeaveAccrual(w)
      PROVE  Kept
    BY <1>7, LeaveAccrualEffect, ActivityNames DEF Told, LastResult
<1>8. ASSUME NEW w \in Workflows, NEW phase \in ClosedPhases, CloseRun(w, phase)
      PROVE  Kept \/ Mute
  <2>1. CASE w = Primary /\ upd[u].phase \in {"sent", "accepted"}
      BY <1>8, <2>1, CloseRunEffect DEF Told, Shape
  <2>2. CASE ~(w = Primary /\ upd[u].phase \in {"sent", "accepted"})
    <3>1. upd'[u] = upd[u]
        BY <1>8, <2>2, CloseRunEffect DEF Shape
    <3>2. upd[u].phase = "accepted" => act'[Persist(u)] = act[Persist(u)]
        BY <1>8, <2>2, CloseRunEffect, ActivityNames DEF Shape
    <3> QED
        BY <3>1, <3>2 DEF Told, LastResult
  <2> QED
      BY <2>1, <2>2
<1>9. ASSUME NEW w \in Workflows, FinishMark(w)
      PROVE  Kept \/ Mute
  <2>1. CASE CloseRun(w, "failed")
      BY <1>8, <2>1 DEF ClosedPhases
  <2>2. CASE ~CloseRun(w, "failed")
      BY <1>9, <2>2, FinishMarkEffect, ActivityNames DEF Told, LastResult
  <2> QED
      BY <2>1, <2>2
<1>10. ASSUME NEW w \in Workflows, FinishInvoice(w) \/ TerminateWorkflow(w)
       PROVE  Kept \/ Mute
    BY <1>8, <1>10, CloseEffect
<1>11. CASE UNCHANGED <<upd, act>>
    BY <1>1, <1>11
<1>12. \/ UNCHANGED <<upd, act>>
       \/ \E a \in Activities : RetryActivity(a)
       \/ \E w \in Workflows, i \in 1..MaxAttempts : MarkClosedInDB(w, i) \/ SendInvoiceEmail(w, i)
       \/ \E v \in Updates, q \in Request : SendUpdate(v, q)
       \/ \E v \in Updates : HandleUpdate(v) \/ FinishUpdate(v)
       \/ \E w \in Workflows :
             LeaveAccrual(w) \/ FinishMark(w) \/ FinishInvoice(w) \/ TerminateWorkflow(w)
    BY ActivityNames
       DEF Next, WorkerStep, Environment, vars, InsertBill, CancelBill, StartWorkflow,
           SignalClose, TimerFires
<1> QED
    BY <1>2, <1>3, <1>4, <1>5, <1>6, <1>7, <1>9, <1>10, <1>11, <1>12

(***************************************************************************)
(* Answers.                                                                *)
(***************************************************************************)

\* What an attempt of PersistLineItem does to the answers: the other updates are
\* told nothing new, and its own is told nothing or the truth.
LEMMA PersistTells ==
    ASSUME Shape, Stage, NEW u \in Updates, NEW i \in 1..MaxAttempts, PersistLineItem(u, i)
    PROVE  /\ \A v \in Updates : upd'[v] = upd[v]
           /\ \A v \in Updates \ {u} : Told(v)' = Told(v)
           /\ UNCHANGED <<status, wf>>
           /\ \/ Told(u)' = Told(u)
              \/ Told(u)' = "none"
              \/ /\ Told(u)' = "inserted"
                 /\ items[upd[u].req.key] = None
                 /\ items'[upd[u].req.key] = upd[u].req.payload
              \/ /\ Told(u)' = "existing"
                 /\ items'[upd[u].req.key] = upd[u].req.payload
              \/ /\ Told(u)' = "ALREADY_EXISTS"
                 /\ items'[upd[u].req.key] \notin {None, upd[u].req.payload}
              \/ Told(u)' = "FAILED_PRECONDITION" /\ LeftOpen
<1> DEFINE a == Persist(u)
           k == upd[u].req.key
           p == upd[u].req.payload
<1>1. PICK r \in (Results \ {"ok"}) \cup {"none"} :
        /\ Running(a, i) /\ upd[u].req \in Request
        /\ Report(a, i, r)
        /\ ChargeLineItem(u, i) => r \in {"inserted", "none"}
        /\ ~ChargeLineItem(u, i) =>
              /\ UNCHANGED tables
              /\ \/ r = "FAILED_PRECONDITION" /\ status # "OPEN"
                 \/ r = "existing" /\ items[k] = p
                 \/ r = "ALREADY_EXISTS" /\ items[k] \notin {None, p}
                 \/ r = "none"
        /\ UNCHANGED <<invoices, wf, upd>>
    BY PersistEffect
<1>2. a \in Activities /\ r \in Results \cup {"none"}
    BY ActivityNames
<1>3. /\ \A b \in Activities \ {a} : act'[b] = act[b]
      /\ act'[a].open = act[a].open /\ act'[a].attempt = act[a].attempt
      /\ \A j \in (1..MaxAttempts) \ {i} : act'[a].run[j] = act[a].run[j]
      /\ act'[a].run[i] = IF act[a].open /\ act[a].attempt = i THEN r ELSE "none"
    BY <1>1, <1>2, ReportEffect DEF Shape
<1>4. \A v \in Updates \ {u} : Told(v)' = Told(v)
    BY <1>1, <1>3, ActivityNames DEF Told, LastResult
<1>5. UNCHANGED status
    BY <1>1, ChargeEffect DEF tables
<1>6. Told(u)' = Told(u) \/ Told(u)' = r
  <2>1. CASE upd[u].phase = "accepted"
    <3>1. act[a].open /\ act[a].attempt \in 1..MaxAttempts
        BY <1>2, <2>1 DEF Shape, UpdateShape, ActivityShape
    <3> QED
        BY <1>1, <1>3, <2>1, <3>1 DEF Told, LastResult
  <2>2. CASE upd[u].phase # "accepted"
      BY <1>1, <2>2 DEF Told
  <2> QED
      BY <2>1, <2>2
<1>7. CASE ChargeLineItem(u, i)
  <2>1. items[k] = None /\ items'[k] = p
      BY <1>7, ChargeEffect DEF Shape, TypeOK, Rows
  <2> QED
      BY <1>1, <1>4, <1>5, <1>6, <1>7, <2>1
<1>8. CASE ~ChargeLineItem(u, i)
  <2>1. status # "OPEN" => LeftOpen
    <3>1. status # "NONE"
        BY <1>1, <1>2 DEF Running, Stage, Begun
    <3> QED
        BY <3>1 DEF LeftOpen, Shape, TypeOK, BillStatus
  <2>2. items' = items
      BY <1>1, <1>8 DEF tables
  <2> QED
      BY <1>1, <1>4, <1>5, <1>6, <1>8, <2>1, <2>2
<1> QED
    BY <1>7, <1>8

\* An update that was told anything has its request.
LEMMA ToldHasRequest ==
    ASSUME Shape, NEW u \in Updates, Told(u) \notin {"none", "running"}
    PROVE  upd[u].req \in Request
BY DEF Told, Shape, UpdateShape

LEMMA ReportsNext ==
    Shape /\ Stage /\ ReportsAreTrue /\ [Next]_vars => ReportsAreTrue'
<1> SUFFICES ASSUME Shape, Stage, ReportsAreTrue, [Next]_vars PROVE ReportsAreTrue'
    OBVIOUS
<1>1. /\ LeftOpen => LeftOpen'
      /\ \A k \in Keys : items[k] # None => items'[k] = items[k]
    BY TablesFreeze
<1>2. wf[Primary].phase \notin {"none", "accruing"} => wf'[Primary].phase \notin {"none", "accruing"}
    BY RunMoves, ActivityNames
\* What was told before is still true.
<1>3. ASSUME NEW u \in Updates, Told(u)' = Told(u), upd'[u].req = upd[u].req,
             Told(u) \in Acknowledged \cup BusinessErrors
      PROVE  /\ Told(u) \in Acknowledged => items'[upd[u].req.key] = upd[u].req.payload
             /\ Told(u) = "ALREADY_EXISTS" =>
                   items'[upd[u].req.key] \notin {None, upd[u].req.payload}
             /\ Told(u) = "FAILED_PRECONDITION" =>
                   LeftOpen' \/ wf'[Primary].phase \notin {"none", "accruing"}
  <2>1. upd[u].req.key \in Keys /\ upd[u].req.payload \in Payloads
      BY <1>3, ToldHasRequest DEF Acknowledged, BusinessErrors, Request
  <2> QED
      BY <1>1, <1>2, <2>1, NoneAssumption DEF ReportsAreTrue
<1>4. CASE \A v \in Updates, i \in 1..MaxAttempts : ~PersistLineItem(v, i)
  <2>1. ASSUME NEW u \in Updates
        PROVE  \/ Told(u)' = Told(u) /\ upd'[u].req = upd[u].req
               \/ Told(u)' \notin Acknowledged \cup {"ALREADY_EXISTS", "FAILED_PRECONDITION"}
               \/ /\ Told(u)' = "FAILED_PRECONDITION"
                  /\ wf'[Primary].phase \notin {"none", "accruing"}
      BY <1>4, ToldMoves DEF Acknowledged
  <2>2. ASSUME NEW u \in Updates, NEW v \in Updates \ {u},
               Told(u)' = "inserted", Told(v)' = "inserted"
        PROVE  upd'[v].req.key # upd'[u].req.key
      BY <2>1, <2>2 DEF ReportsAreTrue, Acknowledged
  <2> QED
      BY <1>3, <2>1, <2>2 DEF ReportsAreTrue, Acknowledged, BusinessErrors
<1>5. ASSUME NEW w \in Updates, NEW i \in 1..MaxAttempts, PersistLineItem(w, i)
      PROVE  ReportsAreTrue'
  <2>1. /\ \A v \in Updates : upd'[v] = upd[v]
        /\ \A v \in Updates \ {w} : Told(v)' = Told(v)
      BY <1>5, PersistTells
  <2>2. \/ Told(w)' = Told(w)
        \/ Told(w)' = "none"
        \/ /\ Told(w)' = "inserted"
           /\ items[upd[w].req.key] = None
           /\ items'[upd[w].req.key] = upd[w].req.payload
        \/ /\ Told(w)' = "existing"
           /\ items'[upd[w].req.key] = upd[w].req.payload
        \/ /\ Told(w)' = "ALREADY_EXISTS"
           /\ items'[upd[w].req.key] \notin {None, upd[w].req.payload}
        \/ Told(w)' = "FAILED_PRECONDITION" /\ LeftOpen
      BY <1>5, PersistTells
  <2>3. ASSUME NEW u \in Updates
        PROVE  /\ Told(u)' \in Acknowledged => items'[upd[u].req.key] = upd[u].req.payload
               /\ Told(u)' = "ALREADY_EXISTS" =>
                     items'[upd[u].req.key] \notin {None, upd[u].req.payload}
               /\ Told(u)' = "FAILED_PRECONDITION" =>
                     LeftOpen' \/ wf'[Primary].phase \notin {"none", "accruing"}
    <3>1. CASE Told(u)' = Told(u)
        BY <1>3, <2>1, <3>1 DEF Acknowledged, BusinessErrors
    <3>2. CASE Told(u)' # Told(u)
        BY <1>1, <2>1, <2>2, <3>2 DEF Acknowledged
    <3> QED
        BY <3>1, <3>2
  <2>4. ASSUME NEW u \in Updates, Told(u) = "inserted"
        PROVE  items[upd[u].req.key] # None
    <3>1. upd[u].req.payload \in Payloads
        BY <2>4, ToldHasRequest DEF Request
    <3> QED
        BY <2>4, <3>1, NoneAssumption DEF ReportsAreTrue, Acknowledged
  <2>5. ASSUME NEW u \in Updates, NEW v \in Updates \ {u},
               Told(u)' = "inserted", Told(v)' = "inserted"
        PROVE  upd[v].req.key # upd[u].req.key
    <3>1. CASE Told(u) = "inserted" /\ Told(v) = "inserted"
        BY <3>1 DEF ReportsAreTrue
    <3>2. CASE Told(u) # "inserted"
        BY <2>1, <2>2, <2>4, <2>5, <3>2
    <3>3. CASE Told(v) # "inserted"
        BY <2>1, <2>2, <2>4, <2>5, <3>3
    <3> QED
        BY <3>1, <3>2, <3>3
  <2> QED
      BY <2>1, <2>3, <2>5 DEF ReportsAreTrue
<1> QED
    BY <1>4, <1>5

LEMMA ReportsInit == Init => ReportsAreTrue
<1> SUFFICES ASSUME Init PROVE ReportsAreTrue
    OBVIOUS
<1>1. \A u \in Updates : Told(u) = "none"
    BY DEF Init, Told
<1> QED
    BY <1>1 DEF ReportsAreTrue, Acknowledged

\* What callers were told is part of it.
LEMMA ReportsImplyAnswers ==
    ASSUME Shape, ReportsAreTrue
    PROVE  AnswersAreTrue
<1>1. \A u \in Updates : upd[u].reply # "none" => Told(u) = upd[u].reply
    BY DEF Told, Shape, UpdateShape
<1>2. ASSUME NEW u \in Updates, upd[u].reply = "FAILED_PRECONDITION"
      PROVE  status # "OPEN" \/ wf[Primary].phase # "accruing"
    BY <1>1, <1>2 DEF ReportsAreTrue, LeftOpen
<1> QED
    BY <1>1, <1>2 DEF ReportsAreTrue, AnswersAreTrue, Acknowledged

(***************************************************************************)
(* Totals.                                                                 *)
(***************************************************************************)

\* Of two bills the one that has fewer rows has the smaller sum.
LEMMA ItemsTotalMonotonic ==
    ASSUME NEW rows \in Rows, NEW more \in Rows,
           \A k \in Keys : rows[k] # None => more[k] = rows[k]
    PROVE  ItemsTotal(rows) <= ItemsTotal(more)
<1>1. IsFiniteSet(ChargedUnits(rows)) /\ IsFiniteSet(ChargedUnits(more))
    BY ItemsTotalType
<1>2. ChargedUnits(rows) \subseteq ChargedUnits(more)
    BY DEF ChargedUnits
<1> QED
    BY <1>1, <1>2, FS_Subset DEF ItemsTotal

\* A row is counted once its update was told that it is new.
LEMMA CountedShape ==
    ASSUME Shape, ReportsAreTrue
    PROVE  /\ CountedRows \in Rows
           /\ \A k \in CountedKeys : k \in Keys /\ items[k] # None
           /\ \A k \in Keys : CountedRows[k] # None => items[k] = CountedRows[k]
<1>1. ASSUME NEW u \in Updates, upd[u].reply = "inserted"
      PROVE  upd[u].req.key \in Keys /\ items[upd[u].req.key] # None
  <2>1. upd[u].phase = "done" /\ Told(u) = "inserted"
      BY <1>1 DEF Told, Shape, UpdateShape
  <2>2. upd[u].req \in Request
      BY <2>1, ToldHasRequest
  <2> QED
      BY <2>1, <2>2, NoneAssumption DEF ReportsAreTrue, Acknowledged, Request
<1>2. CountedRows \in Rows
    BY DEF CountedRows, Shape, TypeOK, Rows
<1>3. \A k \in CountedKeys : k \in Keys /\ items[k] # None
    BY <1>1 DEF CountedKeys
<1>4. \A k \in Keys : CountedRows[k] # None => items[k] = CountedRows[k]
    BY DEF CountedRows
<1> QED
    BY <1>2, <1>3, <1>4

\* Only FinishUpdate counts.
LEMMA CountMoves ==
    ASSUME Shape, [Next]_vars, \A u \in Updates : ~FinishUpdate(u)
    PROVE  /\ wf'[Primary].totalMinor = wf[Primary].totalMinor
           /\ \A u \in Updates :
                 /\ upd'[u].reply = "inserted" <=> upd[u].reply = "inserted"
                 /\ upd[u].reply = "inserted" => upd'[u].req = upd[u].req
<1> DEFINE Same ==
             /\ wf'[Primary].totalMinor = wf[Primary].totalMinor
             /\ \A u \in Updates :
                   /\ upd'[u].reply = "inserted" <=> upd[u].reply = "inserted"
                   /\ upd[u].reply = "inserted" => upd'[u].req = upd[u].req
<1>1. CASE UNCHANGED <<wf, upd>>
    BY <1>1
<1>2. ASSUME NEW w \in Workflows, StartWorkflow(w) \/ SignalClose(w) \/ TimerFires(w)
      PROVE  Same
    BY <1>2, RunStepEffect, ActivityNames
<1>3. ASSUME NEW u \in Updates, NEW q \in Request, SendUpdate(u, q)
      PROVE  Same
  <2>1. upd[u].reply = "none"
      BY <1>3, SendUpdateEffect DEF Shape, TypeOK, UpdateShape
  <2> QED
      BY <1>3, <2>1, SendUpdateEffect
<1>4. ASSUME NEW u \in Updates, HandleUpdate(u)
      PROVE  Same
  <2>1. upd[u].reply = "none"
      BY <1>4, HandleUpdateEffect DEF Shape, TypeOK, UpdateShape
  <2> QED
      BY <1>4, <2>1, HandleUpdateEffect
<1>5. ASSUME NEW w \in Workflows, LeaveAccrual(w)
      PROVE  Same
    BY <1>5, LeaveAccrualEffect, ActivityNames
<1>6. ASSUME NEW w \in Workflows, NEW phase \in ClosedPhases, CloseRun(w, phase)
      PROVE  Same
  <2>1. /\ wf'[Primary].totalMinor = wf[Primary].totalMinor
        /\ \A u \in Updates :
              \/ upd'[u] = upd[u]
              \/ /\ upd[u].phase \in {"sent", "accepted"}
                 /\ upd'[u].reply = "unreachable"
      BY <1>6, CloseRunEffect, ActivityNames DEF Shape
  <2>2. \A u \in Updates : upd[u].phase \in {"sent", "accepted"} => upd[u].reply = "none"
      BY DEF Shape, TypeOK, UpdateShape
  <2> QED
      BY <2>1, <2>2
<1>7. ASSUME NEW w \in Workflows, FinishMark(w)
      PROVE  Same
  <2>1. CASE CloseRun(w, "failed")
      BY <1>6, <2>1 DEF ClosedPhases
  <2>2. CASE ~CloseRun(w, "failed")
      BY <1>7, <2>2, FinishMarkEffect, ActivityNames
  <2> QED
      BY <2>1, <2>2
<1>8. ASSUME NEW w \in Workflows, FinishInvoice(w) \/ TerminateWorkflow(w)
      PROVE  Same
    BY <1>6, <1>8, CloseEffect
<1>9. \/ UNCHANGED <<wf, upd>>
      \/ \E w \in Workflows : StartWorkflow(w) \/ SignalClose(w) \/ TimerFires(w)
      \/ \E u \in Updates, q \in Request : SendUpdate(u, q)
      \/ \E u \in Updates : HandleUpdate(u)
      \/ \E w \in Workflows :
            LeaveAccrual(w) \/ FinishMark(w) \/ FinishInvoice(w) \/ TerminateWorkflow(w)
    BY ActivityNames
       DEF Next, WorkerStep, Environment, vars, InsertBill, CancelBill, RetryActivity,
           PersistLineItem, ChargeLineItem, RefuseLineItem, MarkClosedInDB, SendInvoiceEmail
<1> QED
    BY <1>1, <1>2, <1>3, <1>4, <1>5, <1>7, <1>8, <1>9

\* If the updates told of a new row stay the same, so do the counted rows, also when
\* a row is charged: its key was free.
LEMMA CountedRowsStay ==
    ASSUME Shape, Stage, ReportsAreTrue, [Next]_vars,
           \A u \in Updates :
              /\ upd'[u].reply = "inserted" <=> upd[u].reply = "inserted"
              /\ upd[u].reply = "inserted" => upd'[u].req = upd[u].req
    PROVE  CountedRows' = CountedRows
<1>1. CountedKeys' = CountedKeys
    BY DEF CountedKeys
<1>2. \A k \in Keys : items[k] # None => items'[k] = items[k]
    BY TablesFreeze
<1>3. \A k \in CountedKeys : items[k] # None
    BY CountedShape
<1> QED
    BY <1>1, <1>2, <1>3 DEF CountedRows

LEMMA TotalsNext ==
    Shape /\ Stage /\ ReportsAreTrue /\ Totals /\ [Next]_vars => Totals'
<1> SUFFICES ASSUME Shape, Stage, ReportsAreTrue, Totals, [Next]_vars PROVE Totals'
    OBVIOUS
<1>1. total' = ItemsTotal(items')
  <2>1. CASE UNCHANGED <<total, items>>
      BY <2>1 DEF Totals
  <2>2. ASSUME NEW u \in Updates, NEW i \in 1..MaxAttempts, ChargeLineItem(u, i)
        PROVE  total' = ItemsTotal(items')
      BY <2>2, ChargeEffect, ItemsTotalInsert DEF Totals, Shape, TypeOK
  <2> QED
      BY <2>1, <2>2, TableSteps DEF InsertBill, CancelBill, tables
<1>2. CASE \A u \in Updates : ~FinishUpdate(u)
    BY <1>1, <1>2, CountMoves, CountedRowsStay DEF Totals
<1>3. ASSUME NEW u \in Updates, FinishUpdate(u)
      PROVE  Totals'
  <2> DEFINE k == upd[u].req.key
             p == upd[u].req.payload
  <2>1. PICK r \in Reply \ {"none"} :
          /\ upd[u].phase = "accepted" /\ upd[u].req \in Request
          /\ r = "failed" \/ r = act[Persist(u)].run[act[Persist(u)].attempt]
          /\ \A v \in Updates \ {u} : upd'[v] = upd[v]
          /\ upd'[u].reply = r /\ upd'[u].req = upd[u].req
          /\ wf'[Primary].totalMinor = IF r = "inserted"
                THEN wf[Primary].totalMinor + p.amount_minor
                ELSE wf[Primary].totalMinor
          /\ UNCHANGED tables
      BY <1>3, FinishUpdateEffect
  <2>2. upd[u].reply = "none"
      BY <2>1 DEF Shape, TypeOK, UpdateShape
  <2>3. CASE r # "inserted"
      BY <1>1, <2>1, <2>2, <2>3, CountedRowsStay DEF Totals
  <2>4. CASE r = "inserted"
    <3>1. Told(u) = "inserted"
        BY <2>1, <2>4 DEF Told, LastResult
    <3>2. k \in Keys /\ p \in Payloads /\ items[k] = p
        BY <2>1, <3>1 DEF Request, ReportsAreTrue, Acknowledged
    <3>3. k \notin CountedKeys
      <4>1. ASSUME NEW v \in Updates, upd[v].reply = "inserted"
            PROVE  upd[v].req.key # k
        <5>1. Told(v) = "inserted" /\ v # u
            BY <2>2, <4>1 DEF Told, Shape, UpdateShape
        <5> QED
            BY <3>1, <5>1 DEF ReportsAreTrue
      <4> QED
          BY <4>1 DEF CountedKeys
    <3>4. CountedKeys' = CountedKeys \cup {k}
        BY <2>1, <2>2, <2>4 DEF CountedKeys
    <3>5. CountedRows' = [CountedRows EXCEPT ![k] = p]
        BY <2>1, <3>2, <3>4 DEF CountedRows, tables
    <3>6. CountedRows \in Rows /\ CountedRows[k] = None
        BY <3>2, <3>3, CountedShape DEF CountedRows
    <3>7. ItemsTotal(CountedRows') = ItemsTotal(CountedRows) + p.amount_minor
        BY <3>2, <3>5, <3>6, ItemsTotalInsert
    <3> QED
        BY <1>1, <2>1, <2>4, <3>7 DEF Totals
  <2> QED
      BY <2>3, <2>4
<1> QED
    BY <1>2, <1>3

LEMMA TotalsInit == Init => Totals
<1> SUFFICES ASSUME Init PROVE Totals
    OBVIOUS
<1>1. total = ItemsTotal(items)
    BY ItemsTotalEmpty DEF Init
<1>2. CountedRows = NoRows
    BY DEF Init, CountedRows, NoRows
<1>3. wf[Primary].totalMinor = 0
    BY ActivityNames DEF Init
<1> QED
    BY <1>1, <1>2, <1>3, ItemsTotalEmpty DEF Totals

(***************************************************************************)
(* Invoices.                                                               *)
(***************************************************************************)

\* Any step but SendInvoiceEmail leaves the runs whose invoice was reported, or takes
\* some away.
LEMMA InvoicedMoves ==
    ASSUME Shape, [Next]_vars,
           \A w \in Workflows, i \in 1..MaxAttempts : ~SendInvoiceEmail(w, i)
    PROVE  Invoiced' \subseteq Invoiced /\ invoices' = invoices
<1> DEFINE Ok(w) == \E i \in 1..MaxAttempts : act[Invoice(w)].run[i] = "ok"
           Fewer == \A w \in Workflows :
                       /\ wf'[w].phase = "completed" =>
                             wf[w].phase = "completed" \/ (wf[w].phase = "invoicing" /\ Ok(w))
                       /\ wf'[w].phase = "invoicing" /\ Ok(w)' =>
                             wf[w].phase = "invoicing" /\ Ok(w)
<1>0. Fewer /\ invoices' = invoices => Invoiced' \subseteq Invoiced /\ invoices' = invoices
    BY DEF Invoiced
<1>1. CASE UNCHANGED <<wf, act, invoices>>
    BY <1>0, <1>1
<1>2. ASSUME NEW w \in Workflows, StartWorkflow(w) \/ SignalClose(w) \/ TimerFires(w)
      PROVE  Fewer /\ invoices' = invoices
    BY <1>2, RunStepEffect
<1>3. ASSUME NEW a \in Activities, RetryActivity(a)
      PROVE  Fewer /\ invoices' = invoices
  <2>1. UNCHANGED <<wf, invoices>>
      BY <1>3 DEF RetryActivity
  <2>2. /\ \A b \in Activities \ {a} : act'[b] = act[b]
        /\ \A i \in 1..MaxAttempts : act'[a].run[i] # "ok"
      BY <1>3, RetryEffect DEF Shape
  <2> QED
      BY <2>1, <2>2, ActivityNames
<1>4. ASSUME NEW u \in Updates, NEW i \in 1..MaxAttempts, PersistLineItem(u, i)
      PROVE  Fewer /\ invoices' = invoices
  <2>1. PICK r \in (Results \ {"ok"}) \cup {"none"} :
            Report(Persist(u), i, r) /\ UNCHANGED <<invoices, wf>>
      BY <1>4, PersistEffect
  <2>2. \A b \in Activities \ {Persist(u)} : act'[b] = act[b]
      BY <2>1, ReportEffect, ActivityNames DEF Shape
  <2> QED
      BY <2>1, <2>2, ActivityNames
<1>5. ASSUME NEW w \in Workflows, NEW i \in 1..MaxAttempts, MarkClosedInDB(w, i)
      PROVE  Fewer /\ invoices' = invoices
  <2>1. PICK r \in {"ok", "none"} :
            Report(Mark(w), i, r) /\ UNCHANGED <<invoices, wf>>
      BY <1>5, MarkEffect
  <2>2. \A b \in Activities \ {Mark(w)} : act'[b] = act[b]
      BY <2>1, ReportEffect, ActivityNames DEF Shape, Results, Successes
  <2> QED
      BY <2>1, <2>2, ActivityNames
<1>6. ASSUME NEW u \in Updates, HandleUpdate(u)
      PROVE  Fewer /\ invoices' = invoices
    BY <1>6, HandleUpdateEffect, ActivityNames
<1>7. ASSUME NEW u \in Updates, FinishUpdate(u)
      PROVE  Fewer /\ invoices' = invoices
    BY <1>7, FinishUpdateEffect, ActivityNames
<1>8. ASSUME NEW w \in Workflows, LeaveAccrual(w)
      PROVE  Fewer /\ invoices' = invoices
    BY <1>8, LeaveAccrualEffect, ActivityNames
<1>9. ASSUME NEW w \in Workflows, NEW phase \in ClosedPhases, CloseRun(w, phase),
             phase = "completed" => wf[w].phase = "invoicing" /\ Ok(w)
      PROVE  Fewer
  <2>1. /\ \A v \in Workflows \ {w} : wf'[v] = wf[v] /\ act'[Invoice(v)] = act[Invoice(v)]
        /\ wf'[w].phase = phase /\ phase # "invoicing"
      BY <1>9, CloseRunEffect, ActivityNames DEF Shape, ClosedPhases
  <2> QED
      BY <1>9, <2>1
<1>10. ASSUME NEW w \in Workflows, FinishMark(w)
       PROVE  Fewer /\ invoices' = invoices
  <2>1. CASE CloseRun(w, "failed")
      BY <1>9, <1>10, <2>1, FinishMarkEffect DEF ClosedPhases
  <2>2. CASE ~CloseRun(w, "failed")
    <3>1. /\ \A v \in Workflows \ {w} : wf'[v] = wf[v] /\ act'[Invoice(v)] = act[Invoice(v)]
          /\ wf'[w].phase = "invoicing" /\ act'[Invoice(w)] = Scheduled
          /\ invoices' = invoices
        BY <1>10, <2>2, FinishMarkEffect, ActivityNames
    <3> QED
        BY <3>1, ScheduledEffect
  <2> QED
      BY <2>1, <2>2
<1>11. ASSUME NEW w \in Workflows, FinishInvoice(w) \/ TerminateWorkflow(w)
       PROVE  Fewer /\ invoices' = invoices
    BY <1>9, <1>11, CloseEffect
<1>12. \/ UNCHANGED <<wf, act, invoices>>
       \/ \E w \in Workflows : StartWorkflow(w) \/ SignalClose(w) \/ TimerFires(w)
       \/ \E a \in Activities : RetryActivity(a)
       \/ \E u \in Updates, i \in 1..MaxAttempts : PersistLineItem(u, i)
       \/ \E w \in Workflows, i \in 1..MaxAttempts : MarkClosedInDB(w, i)
       \/ \E u \in Updates : HandleUpdate(u) \/ FinishUpdate(u)
       \/ \E w \in Workflows :
             LeaveAccrual(w) \/ FinishMark(w) \/ FinishInvoice(w) \/ TerminateWorkflow(w)
    BY ActivityNames
       DEF Next, WorkerStep, Environment, vars, InsertBill, CancelBill, SendUpdate
<1> HIDE DEF Fewer
<1> QED
    BY <1>0, <1>1, <1>2, <1>3, <1>4, <1>5, <1>6, <1>7, <1>8, <1>10, <1>11, <1>12

LEMMA InvoicesNext == Shape /\ InvoicesSuffice /\ [Next]_vars => InvoicesSuffice'
<1> SUFFICES ASSUME Shape, InvoicesSuffice, [Next]_vars PROVE InvoicesSuffice'
    OBVIOUS
<1>0. Cardinality(Invoiced) \in Nat /\ invoices \in Nat
    BY FS_CardinalityType DEF InvoicesSuffice, Shape, TypeOK
<1>1. CASE \A w \in Workflows, i \in 1..MaxAttempts : ~SendInvoiceEmail(w, i)
  <2>1. Invoiced' \subseteq Invoiced /\ invoices' = invoices
      BY <1>1, InvoicedMoves
  <2>2. IsFiniteSet(Invoiced') /\ Cardinality(Invoiced') <= Cardinality(Invoiced)
      BY <2>1, FS_Subset DEF InvoicesSuffice
  <2>3. Cardinality(Invoiced') \in Nat
      BY <2>2, FS_CardinalityType
  <2> QED
      BY <1>0, <2>1, <2>2, <2>3 DEF InvoicesSuffice
<1>2. ASSUME NEW w \in Workflows, NEW i \in 1..MaxAttempts, SendInvoiceEmail(w, i)
      PROVE  InvoicesSuffice'
  <2>1. PICK r \in {"ok", "none"} :
            /\ Running(Invoice(w), i) /\ Report(Invoice(w), i, r)
            /\ r = "ok" => invoices' = invoices + 1
            /\ invoices' \in {invoices, invoices + 1}
            /\ UNCHANGED <<tables, wf, upd>>
      BY <1>2, InvoiceEffect
  <2>2. /\ \A b \in Activities \ {Invoice(w)} : act'[b] = act[b]
        /\ \A j \in (1..MaxAttempts) \ {i} : act'[Invoice(w)].run[j] = act[Invoice(w)].run[j]
        /\ act'[Invoice(w)].run[i] \in {r, "none"}
      BY <2>1, ReportEffect, ActivityNames DEF Shape, Results, Successes
  <2>3. \A v \in Workflows \ {w} : act'[Invoice(v)] = act[Invoice(v)]
      BY <2>2, ActivityNames
  <2>4. CASE r = "none"
    <3>1. Invoiced' \subseteq Invoiced
        BY <2>1, <2>2, <2>3, <2>4 DEF Invoiced
    <3>2. IsFiniteSet(Invoiced') /\ Cardinality(Invoiced') <= Cardinality(Invoiced)
        BY <3>1, FS_Subset DEF InvoicesSuffice
    <3>3. Cardinality(Invoiced') \in Nat
        BY <3>2, FS_CardinalityType
    <3> QED
        BY <1>0, <2>1, <3>2, <3>3 DEF InvoicesSuffice
  <2>5. CASE r = "ok"
    <3>1. Invoiced' \subseteq Invoiced \cup {w}
        BY <2>1, <2>2, <2>3, <2>5 DEF Invoiced
    <3>2. /\ IsFiniteSet(Invoiced \cup {w})
          /\ Cardinality(Invoiced \cup {w}) <= Cardinality(Invoiced) + 1
      <4>1. IsFiniteSet(Invoiced)
          BY DEF InvoicesSuffice
      <4>2. /\ IsFiniteSet(Invoiced \cup {w})
            /\ Cardinality(Invoiced \cup {w}) =
                  IF w \in Invoiced THEN Cardinality(Invoiced) ELSE Cardinality(Invoiced) + 1
          BY <4>1, FS_AddElement
      <4> QED
          BY <1>0, <4>2
    <3>3. IsFiniteSet(Invoiced') /\ Cardinality(Invoiced') <= Cardinality(Invoiced \cup {w})
        BY <3>1, <3>2, FS_Subset
    <3>4. Cardinality(Invoiced') \in Nat /\ Cardinality(Invoiced \cup {w}) \in Nat
        BY <3>2, <3>3, FS_CardinalityType
    <3> QED
        BY <1>0, <2>1, <2>5, <3>2, <3>3, <3>4 DEF InvoicesSuffice
  <2> QED
      BY <2>4, <2>5
<1> QED
    BY <1>1, <1>2

LEMMA InvoicesInit == Init => InvoicesSuffice
<1> SUFFICES ASSUME Init PROVE InvoicesSuffice
    OBVIOUS
<1>1. Invoiced = {}
    BY DEF Init, Invoiced
<1> QED
    BY <1>1, FS_EmptySet DEF Init, InvoicesSuffice

\* Runs that completed are among those whose invoice was reported.
LEMMA InvoicesImplyCompleted ==
    ASSUME Shape, Stage, InvoicesSuffice
    PROVE  CompletedRunsInvoiced
<1> DEFINE completed == {w \in Workflows : wf[w].phase = "completed"}
<1>1. completed \subseteq Invoiced
    BY DEF Invoiced
<1>2. IsFiniteSet(completed) /\ Cardinality(completed) <= Cardinality(Invoiced)
    BY <1>1, FS_Subset DEF InvoicesSuffice
<1>3. Cardinality(completed) \in Nat /\ Cardinality(Invoiced) \in Nat /\ invoices \in Nat
    BY <1>2, FS_CardinalityType DEF InvoicesSuffice, Shape, TypeOK
<1>4. completed # {} => status \in {"CLOSED", "CANCELLED"}
    BY DEF Stage, LeftOpen
<1> QED
    BY <1>2, <1>3, <1>4 DEF InvoicesSuffice, CompletedRunsInvoiced


(***************************************************************************)
(* How many invoices.                                                      *)
(***************************************************************************)

\* The activity that sends the invoice of a run is left alone, over, retried, or
\* scheduled as the run gets that far.
InvoiceMoves(w) ==
    \/ act'[Invoice(w)] = act[Invoice(w)]
    \/ /\ ~act'[Invoice(w)].open
       /\ \A i \in 1..MaxAttempts : Running(Invoice(w), i)' => Running(Invoice(w), i)
    \/ /\ act[Invoice(w)].open
       /\ act'[Invoice(w)].attempt = act[Invoice(w)].attempt + 1
       /\ \A i \in 1..MaxAttempts :
             Running(Invoice(w), i)' =>
                 Running(Invoice(w), i) \/ i = act[Invoice(w)].attempt + 1
    \/ /\ w \notin InvoicingRuns /\ w \in InvoicingRuns'
       /\ act'[Invoice(w)].attempt = 1
       /\ \A i \in 1..MaxAttempts : Running(Invoice(w), i)' => i = 1

\* Other steps than sending it do that to the invoice of every run, and at most one run
\* gets to its invoice, or is over, in a step.
LEMMA InvoiceActivityMoves ==
    ASSUME Shape, [Next]_vars,
           \A w \in Workflows, i \in 1..MaxAttempts : ~SendInvoiceEmail(w, i)
    PROVE  /\ \A w \in Workflows : InvoiceMoves(w)
           /\ InvoicingRuns \subseteq InvoicingRuns'
           /\ InvoicingRuns' = InvoicingRuns
              \/ \E v \in Workflows : InvoicingRuns' = InvoicingRuns \cup {v}
           /\ invoices' = invoices
<1> DEFINE Phases == \A w \in Workflows : wf'[w].phase = wf[w].phase
           Goal == /\ \A w \in Workflows : InvoiceMoves(w)
                   /\ InvoicingRuns \subseteq InvoicingRuns'
                   /\ InvoicingRuns' = InvoicingRuns
                      \/ \E v \in Workflows : InvoicingRuns' = InvoicingRuns \cup {v}
                   /\ invoices' = invoices
<1>0. Phases => InvoicingRuns' = InvoicingRuns
    BY DEF InvoicingRuns
<1>1. CASE UNCHANGED <<wf, act, invoices>>
    BY <1>0, <1>1 DEF InvoiceMoves
<1>2. ASSUME NEW w \in Workflows, StartWorkflow(w) \/ SignalClose(w) \/ TimerFires(w)
      PROVE  Goal
  <2>1. /\ \A v \in Workflows : \/ wf'[v].phase = wf[v].phase
                                \/ wf[v].phase = "none" /\ wf'[v].phase = "accruing"
        /\ UNCHANGED <<act, invoices>>
      BY <1>2, RunStepEffect
  <2>2. InvoicingRuns' = InvoicingRuns
      BY <2>1 DEF InvoicingRuns
  <2> QED
      BY <2>1, <2>2 DEF InvoiceMoves
<1>3. ASSUME NEW a \in Activities, RetryActivity(a)
      PROVE  Goal
  <2>1. UNCHANGED <<wf, invoices>>
      BY <1>3 DEF RetryActivity
  <2>2. /\ \A b \in Activities \ {a} : act'[b] = act[b]
        /\ act[a].open /\ act'[a].attempt = act[a].attempt + 1
        /\ \A i \in 1..MaxAttempts :
              act'[a].run[i] = "running" => act[a].run[i] = "running" \/ i = act[a].attempt + 1
      BY <1>3, RetryEffect DEF Shape
  <2>3. \A w \in Workflows : InvoiceMoves(w)
      BY <2>2, ActivityNames DEF InvoiceMoves, Running
  <2> QED
      BY <1>0, <2>1, <2>3
<1>4. ASSUME NEW a \in Activities, \A w \in Workflows : a # Invoice(w),
             \A b \in Activities \ {a} : act'[b] = act[b]
      PROVE  \A w \in Workflows : InvoiceMoves(w)
    BY <1>4, ActivityNames DEF InvoiceMoves
<1>5. ASSUME NEW u \in Updates,
             HandleUpdate(u) \/ FinishUpdate(u) \/ \E i \in 1..MaxAttempts : PersistLineItem(u, i)
      PROVE  Goal
  <2>1. CASE HandleUpdate(u)
      BY <1>0, <1>4, <2>1, HandleUpdateEffect, ActivityNames DEF InvoiceMoves
  <2>2. CASE FinishUpdate(u)
      BY <1>0, <1>4, <2>2, FinishUpdateEffect, ActivityNames
  <2>3. ASSUME NEW i \in 1..MaxAttempts, PersistLineItem(u, i)
        PROVE  Goal
    <3>1. PICK r \in (Results \ {"ok"}) \cup {"none"} :
              Report(Persist(u), i, r) /\ UNCHANGED <<invoices, wf>>
        BY <2>3, PersistEffect
    <3>2. \A b \in Activities \ {Persist(u)} : act'[b] = act[b]
        BY <3>1, ReportEffect, ActivityNames DEF Shape
    <3> QED
        BY <1>0, <1>4, <3>1, <3>2, ActivityNames
  <2> QED
      BY <1>5, <2>1, <2>2, <2>3
<1>6. ASSUME NEW w \in Workflows, NEW i \in 1..MaxAttempts, MarkClosedInDB(w, i)
      PROVE  Goal
  <2>1. PICK r \in {"ok", "none"} :
            Report(Mark(w), i, r) /\ UNCHANGED <<invoices, wf>>
      BY <1>6, MarkEffect
  <2>2. \A b \in Activities \ {Mark(w)} : act'[b] = act[b]
      BY <2>1, ReportEffect, ActivityNames DEF Shape, Results, Successes
  <2> QED
      BY <1>0, <1>4, <2>1, <2>2, ActivityNames
<1>7. ASSUME NEW w \in Workflows, LeaveAccrual(w)
      PROVE  Goal
  <2>1. InvoicingRuns' = InvoicingRuns
      BY <1>7, LeaveAccrualEffect DEF InvoicingRuns
  <2> QED
      BY <1>4, <1>7, <2>1, LeaveAccrualEffect, ActivityNames
<1>8. ASSUME NEW w \in Workflows, wf'[w].phase \notin {"none", "accruing", "marking"},
             \A v \in Workflows \ {w} : wf'[v] = wf[v]
      PROVE  /\ w \in InvoicingRuns'
             /\ InvoicingRuns' = InvoicingRuns \cup {w}
    BY <1>8 DEF InvoicingRuns
<1>9. ASSUME NEW w \in Workflows, NEW phase \in ClosedPhases, CloseRun(w, phase),
             UNCHANGED invoices
      PROVE  Goal
  <2>1. InvoicingRuns' = InvoicingRuns \cup {w}
      BY <1>8, <1>9, CloseRunEffect DEF Shape, ClosedPhases
  <2>2. \A v \in Workflows \ {w} : act'[Invoice(v)] = act[Invoice(v)]
      BY <1>9, CloseRunEffect, ActivityNames DEF Shape
  <2>3. act'[Invoice(w)] = Over(Invoice(w))
      BY <1>9, ActivityNames DEF CloseRun
  <2>4. \A v \in Workflows : InvoiceMoves(v)
      BY <2>2, <2>3, OverEffect, ActivityNames DEF InvoiceMoves, Running
  <2> QED
      BY <1>9, <2>1, <2>4
<1>10. ASSUME NEW w \in Workflows, FinishMark(w)
       PROVE  Goal
  <2>1. CASE CloseRun(w, "failed")
      BY <1>9, <1>10, <2>1, FinishMarkEffect DEF ClosedPhases
  <2>2. CASE ~CloseRun(w, "failed")
    <3>1. /\ \A v \in Workflows \ {w} : wf'[v] = wf[v] /\ act'[Invoice(v)] = act[Invoice(v)]
          /\ wf[w].phase = "marking" /\ wf'[w].phase = "invoicing"
          /\ act'[Invoice(w)] = Scheduled
          /\ invoices' = invoices
        BY <1>10, <2>2, FinishMarkEffect, ActivityNames
    <3>2. w \notin InvoicingRuns /\ w \in InvoicingRuns'
          /\ InvoicingRuns' = InvoicingRuns \cup {w}
        BY <1>8, <3>1 DEF InvoicingRuns
    <3>3. \A v \in Workflows : InvoiceMoves(v)
        BY <3>1, <3>2, ScheduledEffect DEF InvoiceMoves, Running
    <3> QED
        BY <3>1, <3>2, <3>3
  <2> QED
      BY <2>1, <2>2
<1>11. ASSUME NEW w \in Workflows, FinishInvoice(w) \/ TerminateWorkflow(w)
       PROVE  Goal
    BY <1>9, <1>11, CloseEffect
<1>12. \/ UNCHANGED <<wf, act, invoices>>
       \/ \E w \in Workflows : StartWorkflow(w) \/ SignalClose(w) \/ TimerFires(w)
       \/ \E a \in Activities : RetryActivity(a)
       \/ \E u \in Updates : HandleUpdate(u) \/ FinishUpdate(u)
                             \/ \E i \in 1..MaxAttempts : PersistLineItem(u, i)
       \/ \E w \in Workflows, i \in 1..MaxAttempts : MarkClosedInDB(w, i)
       \/ \E w \in Workflows :
             LeaveAccrual(w) \/ FinishMark(w) \/ FinishInvoice(w) \/ TerminateWorkflow(w)
    BY ActivityNames
       DEF Next, WorkerStep, Environment, vars, InsertBill, CancelBill, SendUpdate
<1> HIDE DEF Goal
<1>13. Goal
    BY <1>1, <1>2, <1>3, <1>5, <1>6, <1>7, <1>10, <1>11, <1>12 DEF Goal
<1> QED
    BY <1>13 DEF Goal

\* Each invoice sent adds the attempt that sent it, which was running until then.
LEMMA CountNext == Shape /\ InvoicesCounted /\ [Next]_vars => InvoicesCounted'
<1> SUFFICES ASSUME Shape, InvoicesCounted, [Next]_vars PROVE InvoicesCounted'
    OBVIOUS
<1>1. PICK S : AttemptsCounted(S)
    BY DEF InvoicesCounted
<1>2. \A w \in Workflows : act[Invoice(w)].attempt \in Nat
    BY ActivityNames DEF Shape, TypeOK, Activity
<1>3. CASE \A w \in Workflows, i \in 1..MaxAttempts : ~SendInvoiceEmail(w, i)
  <2>1. /\ \A w \in Workflows : InvoiceMoves(w)
        /\ InvoicingRuns \subseteq InvoicingRuns'
        /\ InvoicingRuns' = InvoicingRuns
           \/ \E v \in Workflows : InvoicingRuns' = InvoicingRuns \cup {v}
        /\ invoices' = invoices
      BY <1>3, InvoiceActivityMoves
  <2>2. IsFiniteSet(InvoicingRuns')
      BY <2>1, FS_AddElement DEF InvoicesCounted
  <2>3. ASSUME NEW w \in Workflows, NEW i \in 1..MaxAttempts, Running(Invoice(w), i)'
        PROVE  w \in InvoicingRuns' /\ (act'[Invoice(w)].open => i <= act'[Invoice(w)].attempt)
    <3>1. act[Invoice(w)].open => w \in InvoicingRuns
        BY DEF Shape, RunShape, InvoicingRuns
    <3> QED
        BY <1>2, <2>1, <2>3, <3>1 DEF InvoiceMoves, InvoicesCounted, Running
  <2>4. ASSUME NEW w \in Workflows, NEW i \in 1..MaxAttempts, <<w, i>> \in S
        PROVE  ~Running(Invoice(w), i)' /\ (act'[Invoice(w)].open => i <= act'[Invoice(w)].attempt)
    <3>1. /\ w \in InvoicingRuns /\ ~Running(Invoice(w), i)
          /\ act[Invoice(w)].open => i <= act[Invoice(w)].attempt
        BY <1>1, <2>4 DEF AttemptsCounted
    <3> QED
        BY <1>2, <2>1, <3>1 DEF InvoiceMoves, Running
  <2>5. AttemptsCounted(S)'
      BY <1>1, <2>1, <2>4 DEF AttemptsCounted
  <2> QED
      BY <2>2, <2>3, <2>5 DEF InvoicesCounted
<1>4. ASSUME NEW w \in Workflows, NEW i \in 1..MaxAttempts, SendInvoiceEmail(w, i)
      PROVE  InvoicesCounted'
  <2>1. PICK r \in {"ok", "none"} :
            /\ Running(Invoice(w), i) /\ Report(Invoice(w), i, r)
            /\ invoices' \in {invoices, invoices + 1}
            /\ UNCHANGED <<tables, wf, upd>>
      BY <1>4, InvoiceEffect
  <2>2. /\ \A b \in Activities \ {Invoice(w)} : act'[b] = act[b]
        /\ act'[Invoice(w)].open = act[Invoice(w)].open
        /\ act'[Invoice(w)].attempt = act[Invoice(w)].attempt
        /\ \A j \in (1..MaxAttempts) \ {i} : act'[Invoice(w)].run[j] = act[Invoice(w)].run[j]
        /\ act'[Invoice(w)].run[i] \in {r, "none"}
      BY <2>1, ReportEffect, ActivityNames DEF Shape, Results, Successes
  <2>3. \A v \in Workflows, j \in 1..MaxAttempts :
            /\ act'[Invoice(v)].open = act[Invoice(v)].open
            /\ act'[Invoice(v)].attempt = act[Invoice(v)].attempt
            /\ Running(Invoice(v), j)' => Running(Invoice(v), j) /\ (v # w \/ j # i)
      BY <2>1, <2>2, ActivityNames DEF Running
  <2>4. InvoicingRuns' = InvoicingRuns
      BY <2>1 DEF InvoicingRuns
  <2>5. w \in InvoicingRuns /\ (act[Invoice(w)].open => i <= act[Invoice(w)].attempt)
      BY <2>1 DEF InvoicesCounted
  <2>6. \E T : AttemptsCounted(T)'
    <3>1. CASE invoices' = invoices
      <4>1. AttemptsCounted(S)'
          BY <1>1, <2>3, <2>4, <3>1 DEF AttemptsCounted
      <4> QED
          BY <4>1
    <3>2. CASE invoices' = invoices + 1
      <4> DEFINE T == S \cup {<<w, i>>}
      <4>1. <<w, i>> \notin S
          BY <1>1, <2>1 DEF AttemptsCounted
      <4>2. IsFiniteSet(T) /\ Cardinality(T) = invoices'
          BY <1>1, <3>2, <4>1, FS_AddElement DEF AttemptsCounted
      <4>3. T \subseteq InvoicingRuns' \X (1..MaxAttempts)
          BY <1>1, <2>4, <2>5 DEF AttemptsCounted
      <4>4. ASSUME NEW v \in Workflows, NEW j \in 1..MaxAttempts, <<v, j>> \in T
            PROVE  ~Running(Invoice(v), j)'
                   /\ (act'[Invoice(v)].open => j <= act'[Invoice(v)].attempt)
        <5>1. CASE <<v, j>> \in S
            BY <1>1, <2>3, <5>1 DEF AttemptsCounted
        <5>2. CASE v = w /\ j = i
            BY <2>3, <2>5, <5>2
        <5> QED
            BY <4>4, <5>1, <5>2
      <4>5. AttemptsCounted(T)'
          BY <4>2, <4>3, <4>4 DEF AttemptsCounted
      <4> QED
          BY <4>5
    <3> QED
        BY <2>1, <3>1, <3>2
  <2>7. \A v \in Workflows, j \in 1..MaxAttempts :
            Running(Invoice(v), j)' =>
                v \in InvoicingRuns' /\ (act'[Invoice(v)].open => j <= act'[Invoice(v)].attempt)
      BY <2>3, <2>4 DEF InvoicesCounted
  <2> QED
      BY <2>4, <2>6, <2>7 DEF InvoicesCounted
<1> QED
    BY <1>3, <1>4

LEMMA CountInit == Init => InvoicesCounted
<1> SUFFICES ASSUME Init PROVE InvoicesCounted
    OBVIOUS
<1>1. InvoicingRuns = {} /\ invoices = 0
    BY DEF Init, InvoicingRuns
<1>2. \A w \in Workflows, i \in 1..MaxAttempts : ~Running(Invoice(w), i)
    BY ActivityNames DEF Init, Running
<1>3. AttemptsCounted({})
    BY <1>1, FS_EmptySet DEF AttemptsCounted
<1> QED
    BY <1>1, <1>2, <1>3, FS_EmptySet DEF InvoicesCounted

\* There are MaxAttempts attempts for each run.
LEMMA CountImpliesBound ==
    ASSUME InvoicesCounted
    PROVE  InvoicesBounded
<1>1. PICK S : AttemptsCounted(S)
    BY DEF InvoicesCounted
<1>2. IsFiniteSet(1..MaxAttempts) /\ Cardinality(1..MaxAttempts) = MaxAttempts
    BY FS_Interval, MaxAttemptsAssumption
<1>3. /\ IsFiniteSet(InvoicingRuns \X (1..MaxAttempts))
      /\ Cardinality(InvoicingRuns \X (1..MaxAttempts)) = Cardinality(InvoicingRuns) * MaxAttempts
    BY <1>2, FS_Product DEF InvoicesCounted
<1>4. Cardinality(S) <= Cardinality(InvoicingRuns \X (1..MaxAttempts))
    BY <1>1, <1>3, FS_Subset DEF AttemptsCounted
<1>5. Cardinality(InvoicingRuns) \in Nat
    BY FS_CardinalityType DEF InvoicesCounted
<1>6. Cardinality(InvoicingRuns) * MaxAttempts = MaxAttempts * Cardinality(InvoicingRuns)
    BY <1>5, MaxAttemptsAssumption
<1> QED
    BY <1>1, <1>3, <1>4, <1>6 DEF AttemptsCounted, InvoicesBounded

(***************************************************************************)
(* The theorems.                                                           *)
(***************************************************************************)

\* The inductive invariant: the shape of runs, updates and activities, how far the
\* bill has got with them, what updates were told, the money, and the invoices.
WorkflowInv ==
    Shape /\ Stage /\ ReportsAreTrue /\ Totals /\ InvoicesSuffice /\ InvoicesCounted

\* WorkflowInv holds in every reachable state of BillingWorkflow.
THEOREM WorkflowInvariant == Spec => []WorkflowInv
<1>1. Init => WorkflowInv
    BY ShapeInit, StageInit, ReportsInit, TotalsInit, InvoicesInit, CountInit DEF WorkflowInv
<1>2. WorkflowInv /\ [Next]_vars => WorkflowInv'
    BY ShapeNext, StageNext, ReportsNext, TotalsNext, InvoicesNext, CountNext DEF WorkflowInv
<1> QED
    BY <1>1, <1>2, PTL DEF Spec

\* Runs, updates, activities and tables are always of their types; in particular
\* the total stays in the range of a BIGINT.
THEOREM WorkflowTypeCorrect == Spec => []TypeOK
<1>1. WorkflowInv => TypeOK
    BY DEF WorkflowInv, Shape
<1> QED
    BY <1>1, WorkflowInvariant, PTL

\* What the caller of an update is told is, and stays, what is stored.
THEOREM AnswersTrue == Spec => []AnswersAreTrue
<1>1. WorkflowInv => AnswersAreTrue
    BY ReportsImplyAnswers DEF WorkflowInv
<1> QED
    BY <1>1, WorkflowInvariant, PTL

\* The total of a bill is the sum of its items.
THEOREM TotalsAddUp == Spec => [](total = ItemsTotal(items))
<1>1. WorkflowInv => total = ItemsTotal(items)
    BY DEF WorkflowInv, Totals
<1> QED
    BY <1>1, WorkflowInvariant, PTL

\* The running total of the workflow never exceeds the total of the bill, as the
\* rows it has counted are some of the rows that are there.
THEOREM RunningTotalBounded == Spec => []RunningTotalNeverOverstates
<1>1. WorkflowInv => RunningTotalNeverOverstates
  <2> SUFFICES ASSUME WorkflowInv PROVE RunningTotalNeverOverstates
      OBVIOUS
  <2>1. /\ CountedRows \in Rows /\ items \in Rows
        /\ \A k \in Keys : CountedRows[k] # None => items[k] = CountedRows[k]
      BY CountedShape DEF WorkflowInv, Shape, TypeOK
  <2>2. ItemsTotal(CountedRows) <= ItemsTotal(items)
      BY <2>1, ItemsTotalMonotonic
  <2> QED
      BY <2>2 DEF WorkflowInv, Totals, RunningTotalNeverOverstates
<1> QED
    BY <1>1, WorkflowInvariant, PTL

\* No run completes without an invoice of its own, or with the bill OPEN.
THEOREM RunsInvoiced == Spec => []CompletedRunsInvoiced
<1>1. WorkflowInv => CompletedRunsInvoiced
    BY InvoicesImplyCompleted DEF WorkflowInv
<1> QED
    BY <1>1, WorkflowInvariant, PTL

\* No run sends its invoice more often than MaxAttempts allows.
THEOREM InvoicesStayBounded == Spec => []InvoicesBounded
<1>1. WorkflowInv => InvoicesBounded
    BY CountImpliesBound DEF WorkflowInv
<1> QED
    BY <1>1, WorkflowInvariant, PTL

\* A bill does not change any more once an invoice was sent.
THEOREM InvoiceFinal == Spec => InvoiceIsFinal
<1>1. WorkflowInv /\ [Next]_vars => [invoices > 0 => UNCHANGED tables]_vars
    BY TablesFreeze DEF WorkflowInv, Stage
<1> QED
    BY <1>1, WorkflowInvariant, PTL DEF Spec, InvoiceIsFinal

\* All runs, retries and late attempts together do to the bill what the ledger
\* allows, one step at a time.
THEOREM WorkflowImplementsLedger == Spec => ImplementsLedger
<1>1. Init => Ledger!Init
    BY DEF Init, NoRows, Ledger!Init, Ledger!NoRows
<1>2. WorkflowInv /\ [Next]_vars => [Ledger!Next]_(Ledger!vars)
  <2> SUFFICES ASSUME Shape, [Next]_vars PROVE [Ledger!Next]_(Ledger!vars)
      BY DEF WorkflowInv
  <2>1. CASE UNCHANGED tables
      BY <2>1 DEF tables, Ledger!vars
  <2>2. CASE InsertBill \/ CancelBill
      BY <2>2 DEF InsertBill, CancelBill, OneBill, Ledger!Next, Ledger!Create, Ledger!Cancel
  <2>3. CASE status = "OPEN" /\ status' = "CLOSED" /\ UNCHANGED <<total, items>>
      BY <2>3 DEF OneBill, Ledger!Next, Ledger!Close
  <2>4. ASSUME NEW u \in Updates, NEW i \in 1..MaxAttempts, ChargeLineItem(u, i)
        PROVE  Ledger!Next
    <3> DEFINE k == upd[u].req.key
               p == upd[u].req.payload
    <3>1. k \in Keys /\ p \in Payloads
        BY <2>4, ChargeEffect
    <3>2. /\ status = "OPEN" /\ items[k] = None
          /\ items' = [items EXCEPT ![k] = p]
          /\ total' = total + p.amount_minor /\ total + p.amount_minor <= MaxTotal
          /\ UNCHANGED status
        BY <2>4 DEF ChargeLineItem
    <3>3. Ledger!Charge("bill", k, p)
      <4> HIDE DEF k, p
      <4> QED
          BY <3>2 DEF OneBill, Ledger!Charge
    <3> QED
        BY <3>1, <3>3 DEF OneBill, Ledger!Next
  <2> QED
      BY <2>1, <2>2, <2>3, <2>4, TableSteps
<1> QED
    BY <1>1, <1>2, WorkflowInvariant, PTL DEF Spec, ImplementsLedger, Ledger!Spec

=============================================================================
