--------------------------- MODULE BillDataProofs ---------------------------
(***************************************************************************)
(* Facts about ItemsTotal, the sum of the line items of a bill, and about  *)
(* the payload hash.                                                       *)
(***************************************************************************)
EXTENDS BillData, TLAPS, FiniteSetTheorems

\* Of two equal texts d|a and e|b, the first with no separator in a: the one
\* written out in e does not come after the one written out in d.
LEMMA SeparatorPlace ==
    ASSUME NEW d \in Seq(STRING), NEW a \in Seq(STRING),
           NEW e \in Seq(STRING), NEW b \in Seq(STRING),
           \A i \in DOMAIN a : a[i] # "|",
           d \o <<"|">> \o a = e \o <<"|">> \o b
    PROVE  Len(e) <= Len(d)
<1> DEFINE s == d \o <<"|">> \o a
           t == e \o <<"|">> \o b
<1>1. Len(d) \in Nat /\ Len(e) \in Nat /\ Len(a) \in Nat /\ Len(b) \in Nat
    OBVIOUS
<1>2. Len(s) = Len(d) + 1 + Len(a) /\ Len(t) = Len(e) + 1 + Len(b)
    OBVIOUS
<1>3. t[Len(e) + 1] = "|"
    OBVIOUS
<1>4. \A i \in 1..Len(a) : s[Len(d) + 1 + i] = a[i]
    OBVIOUS
<1>5. Len(s) = Len(t) /\ s[Len(e) + 1] = "|"
    BY <1>3
<1> HIDE DEF s, t
<1>6. SUFFICES ASSUME Len(d) < Len(e) PROVE FALSE
    BY <1>1
<1>7. Len(e) - Len(d) \in 1..Len(a)
    BY <1>1, <1>2, <1>5, <1>6
<1>8. s[Len(d) + 1 + (Len(e) - Len(d))] = a[Len(e) - Len(d)]
    BY <1>4, <1>7
<1>9. Len(d) + 1 + (Len(e) - Len(d)) = Len(e) + 1
    BY <1>1
<1> QED
    BY <1>5, <1>7, <1>8, <1>9

\* The hash of parsing.go tells any two payloads apart, although a description
\* may contain the separator and end in digits: the digits of the amount do not
\* contain it.
THEOREM HashInjective ==
    ASSUME NEW p \in Payloads, NEW q \in Payloads, HashesAgree(p, q)
    PROVE  p = q
<1> DEFINE d == p.description
           e == q.description
           a == Decimal[p.amount_minor]
           b == Decimal[q.amount_minor]
<1>1. /\ d \in Seq(STRING) /\ p.amount_minor \in 1..MaxTotal
      /\ e \in Seq(STRING) /\ q.amount_minor \in 1..MaxTotal
      /\ p = [description |-> d, amount_minor |-> p.amount_minor]
      /\ q = [description |-> e, amount_minor |-> q.amount_minor]
    BY PayloadsAssumption
<1>2. /\ a \in Seq(STRING) /\ \A i \in DOMAIN a : a[i] # "|"
      /\ b \in Seq(STRING) /\ \A i \in DOMAIN b : b[i] # "|"
      /\ a = b => p.amount_minor = q.amount_minor
    BY <1>1, DecimalAssumption
<1>3. d \o <<"|">> \o a = e \o <<"|">> \o b
    BY DEF HashesAgree, computeLineItemPayloadHash
<1> HIDE DEF d, e, a, b
<1>4. Len(d) = Len(e)
  <2>1. Len(e) <= Len(d) /\ Len(d) <= Len(e)
      BY <1>1, <1>2, <1>3, SeparatorPlace
  <2>2. Len(d) \in Nat /\ Len(e) \in Nat
      BY <1>1
  <2> QED
      BY <2>1, <2>2
<1>5. d = e
  <2>1. \A i \in 1..Len(d) : d[i] = (d \o <<"|">> \o a)[i]
      BY <1>1, <1>2
  <2>2. \A i \in 1..Len(e) : e[i] = (e \o <<"|">> \o b)[i]
      BY <1>1, <1>2
  <2> QED
      BY <1>1, <1>3, <1>4, <2>1, <2>2
<1>6. a = b
  <2>1. Len(a) = Len(b)
      BY <1>1, <1>2, <1>3, <1>4
  <2>2. \A i \in 1..Len(a) : a[i] = (d \o <<"|">> \o a)[Len(d) + 1 + i]
      BY <1>1, <1>2
  <2>3. \A i \in 1..Len(b) : b[i] = (e \o <<"|">> \o b)[Len(e) + 1 + i]
      BY <1>1, <1>2
  <2> QED
      BY <1>2, <1>3, <1>4, <2>1, <2>2, <2>3
<1> QED
    BY <1>1, <1>2, <1>5, <1>6

\* ItemsTotal is a natural number for the line items of any bill.
LEMMA ItemsTotalType ==
    ASSUME NEW rows \in Rows
    PROVE  /\ IsFiniteSet(ChargedUnits(rows))
           /\ ItemsTotal(rows) \in Nat
<1>1. IsFiniteSet(1..MaxTotal)
    BY FS_Interval, MaxTotalAssumption
<1>2. IsFiniteSet(Keys \X (1..MaxTotal))
    BY <1>1, FS_Product, KeysAssumption
<1>3. ChargedUnits(rows) \in SUBSET (Keys \X (1..MaxTotal))
    BY DEF ChargedUnits
<1>4. IsFiniteSet(ChargedUnits(rows))
    BY <1>2, <1>3, FS_Subset
<1> QED
    BY <1>4, FS_CardinalityType DEF ItemsTotal

\* A bill without line items charges nothing.
LEMMA ItemsTotalEmpty == NoRows \in Rows /\ ItemsTotal(NoRows) = 0
<1>1. NoRows \in Rows
    BY DEF NoRows, Rows
<1>2. ChargedUnits(NoRows) = {}
    BY DEF ChargedUnits, NoRows
<1> QED
    BY <1>1, <1>2, FS_EmptySet DEF ItemsTotal

\* The units of a payload under one key are as many as its amount.
LEMMA UnitsOfPayload ==
    ASSUME NEW k \in Keys, NEW p \in Payloads
    PROVE  /\ IsFiniteSet({k} \X (1..p.amount_minor))
           /\ Cardinality({k} \X (1..p.amount_minor)) = p.amount_minor
<1> DEFINE a == p.amount_minor
<1>1. a \in Nat /\ a > 0
    BY PayloadsAssumption, MaxTotalAssumption
<1> HIDE DEF a
<1>2. IsFiniteSet({k}) /\ Cardinality({k}) = 1
    BY FS_Singleton
<1>3. IsFiniteSet(1..a) /\ Cardinality(1..a) = a
    BY <1>1, FS_Interval
<1>4. /\ IsFiniteSet({k} \X (1..a))
      /\ Cardinality({k} \X (1..a)) = Cardinality({k}) * Cardinality(1..a)
    BY <1>2, <1>3, FS_Product
<1>5. Cardinality({k} \X (1..a)) = a
    BY <1>1, <1>2, <1>3, <1>4
<1> QED
    BY <1>4, <1>5 DEF a

\* Inserting a line item under a free key adds its amount to the sum.
LEMMA ItemsTotalInsert ==
    ASSUME NEW rows \in Rows, NEW k \in Keys, NEW p \in Payloads, rows[k] = None
    PROVE  /\ [rows EXCEPT ![k] = p] \in Rows
           /\ ItemsTotal([rows EXCEPT ![k] = p]) = ItemsTotal(rows) + p.amount_minor
<1> DEFINE new == [rows EXCEPT ![k] = p]
           units == {k} \X (1..p.amount_minor)
<1>1. new \in Rows /\ new[k] = p /\ \A j \in Keys \ {k} : new[j] = rows[j]
    BY DEF Rows
<1>2. p # None /\ p.amount_minor \in 1..MaxTotal
    BY NoneAssumption, PayloadsAssumption
<1>3. ChargedUnits(new) = ChargedUnits(rows) \cup units
  <2> HIDE DEF new
  <2>1. ASSUME NEW j \in Keys, NEW i \in 1..MaxTotal
        PROVE  <<j, i>> \in ChargedUnits(new)
                 <=> <<j, i>> \in ChargedUnits(rows) \/ (j = k /\ i \in 1..p.amount_minor)
    <3>1. CASE j = k
        BY <3>1, <1>1, <1>2, MaxTotalAssumption DEF ChargedUnits
    <3>2. CASE j # k
        BY <3>2, <1>1 DEF ChargedUnits
    <3> QED
        BY <3>1, <3>2
  <2>2. units \subseteq Keys \X (1..MaxTotal)
      BY <1>2, MaxTotalAssumption
  <2> QED
      BY <2>1, <2>2 DEF ChargedUnits
<1>4. ChargedUnits(rows) \cap units = {}
    BY DEF ChargedUnits
<1>5. IsFiniteSet(ChargedUnits(rows)) /\ ItemsTotal(rows) \in Nat
    BY ItemsTotalType
<1>6. IsFiniteSet(units) /\ Cardinality(units) = p.amount_minor
    BY UnitsOfPayload
<1> HIDE DEF new, units
<1>7. Cardinality(ChargedUnits(rows) \cup units)
        = Cardinality(ChargedUnits(rows)) + Cardinality(units) - Cardinality({})
    BY <1>4, <1>5, <1>6, FS_Union
<1>8. Cardinality({}) = 0
    BY FS_EmptySet
<1>9. ItemsTotal(new) = ItemsTotal(rows) + p.amount_minor
    BY <1>2, <1>3, <1>5, <1>6, <1>7, <1>8 DEF ItemsTotal
<1> QED
    BY <1>1, <1>9 DEF new

=============================================================================
