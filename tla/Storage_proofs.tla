------------------------------ MODULE Storage_proofs ------------------------------
(***************************************************************************)
(* Proofs that, for any payments, tenants, keys and clock, the two sets of *)
(* repositories answer alike.  Three invariants carry them.  Inv says what *)
(* a row is while its payment has been changed and not saved yet: of the   *)
(* same creation, and with nothing the payment has lost, so that an update *)
(* which leaves undefined columns alone comes to the payment again.        *)
(* SavedInv relates the map to the rows: each payment is in it once, and   *)
(* one that was refused its row for its key comes after the row's.         *)
(* TrailInv relates the trail to the rows: all but the records being       *)
(* inserted have theirs, no two records tell the same of a payment, and a  *)
(* row orders the keys of a record as recordAudit writes them.             *)
(***************************************************************************)
EXTENDS Storage, FoldTheorems, SequenceTheorems, TLAPS

USE StorageAssumption DEF StorageAssumption

Saved == {"saved", "sending", "done"}

\* What the row of p is, by where its execution is.
RowIsSound(p) ==
  /\ pc[p] = "new" => payment[p] = NoPayment /\ rows[p] = NoPayment
  /\ pc[p] \in Saved => rows[p] = payment[p]
  /\ pc[p] = "idle" =>
       \/ rows[p] = payment[p]
       \/ payment[p].state = "quoted" /\ rows[p] = NoPayment
  /\ pc[p] \in {"changed", "refused"} =>
       \/ rows[p] = NoPayment
       \/ /\ rows[p].created = payment[p].created /\ rows[p].parties = payment[p].parties
          /\ rows[p].has \subseteq payment[p].has

Inv == TypeOK /\ \A p \in Payments : RowIsSound(p)

\* What a new row would be.
LEMMA NoPaymentType == NoPayment \in PaymentType
<1>1. 0 \in 0 .. MaxTime
  OBVIOUS
<1> HIDE StorageAssumption
<1> QED BY <1>1 DEF NoPayment, PaymentType

\* At the start there is no row.
LEMMA InitInv == Init => Inv
<1> SUFFICES ASSUME Init PROVE Inv
  OBVIOUS
<1>1. TypeOK
  BY NoPaymentType DEF Init, TypeOK
<1>2. \A p \in Payments : RowIsSound(p)
  BY DEF Init, RowIsSound, Saved
<1> QED BY <1>1, <1>2 DEF Inv

\* What a step says of one payment is enough: the others are left as they were.
LEMMA OneStep ==
  ASSUME Inv, NEW p \in Payments, TypeOK', RowIsSound(p)',
         \A o \in Payments \ {p} :
           pc'[o] = pc[o] /\ payment'[o] = payment[o] /\ rows'[o] = rows[o]
  PROVE  Inv'
<1>1. ASSUME NEW o \in Payments \ {p} PROVE RowIsSound(o)'
  BY <1>1 DEF Inv, RowIsSound
<1> QED BY <1>1 DEF Inv

\* A payment is made and has no row.
LEMMA CreateStep ==
  ASSUME Inv, NEW p \in Payments, Create(p)
  PROVE  Inv'
<1> DEFINE new == [NoPayment EXCEPT !.state = "quoted", !.created = now, !.updated = now]
<1>1. TypeOK /\ payment[p] = NoPayment /\ rows[p] = NoPayment
  BY DEF Inv, RowIsSound, Create
<1>2. new \in PaymentType /\ new.state = "quoted"
  BY <1>1 DEF TypeOK, NoPayment, PaymentType
<1>3. /\ payment' = [payment EXCEPT ![p] = new] /\ pc' = [pc EXCEPT ![p] = "idle"]
      /\ rows' = rows /\ saved' = saved /\ now' = now
  BY <1>1 DEF Create, Goto
<1> HIDE DEF new
<1>4. TypeOK'
  BY <1>1, <1>2, <1>3 DEF TypeOK
<1>5. pc'[p] = "idle" /\ payment'[p] = new /\ rows'[p] = NoPayment
  BY <1>1, <1>3 DEF TypeOK
<1>6. RowIsSound(p)'
  BY <1>2, <1>5 DEF RowIsSound, Saved
<1>7. \A o \in Payments \ {p} :
        pc'[o] = pc[o] /\ payment'[o] = payment[o] /\ rows'[o] = rows[o]
  BY <1>1, <1>3 DEF TypeOK
<1> QED BY <1>4, <1>6, <1>7, OneStep

\* A payment is moved on and keeps what it had.
LEMMA ChangeStep ==
  ASSUME Inv, NEW p \in Payments, NEW from,
         NEW to \in {"validated", "committed", "settled", "failed"}, Change(p, from, to)
  PROVE  Inv'
<1> DEFINE old == payment[p]
           has == old.has \cup Gains(to)
           new == [old EXCEPT !.state = to, !.updated = now, !.has = has]
<1>1. TypeOK /\ old \in PaymentType /\ now \in 0 .. MaxTime /\ pc[p] = "idle"
  BY DEF Inv, TypeOK, Change
<1>2. has \in SUBSET {"reason", "entry", "rail"} /\ old.has \subseteq has
  BY <1>1 DEF PaymentType, Gains
<1>3. /\ payment' = [payment EXCEPT ![p] = new] /\ pc' = [pc EXCEPT ![p] = "changed"]
      /\ rows' = rows /\ saved' = saved /\ now' = now
  <2>1. payment' = [payment EXCEPT ![p] = new]
    BY DEF Change
  <2>2. pc' = [pc EXCEPT ![p] = "changed"]
    BY DEF Change, Goto
  <2> QED BY <2>1, <2>2 DEF Change
<1>4. /\ new \in PaymentType /\ new.has = has
      /\ new.created = old.created /\ new.parties = old.parties
  <2> HIDE DEF old, has
  <2> QED BY <1>1, <1>2 DEF PaymentType
<1>5. rows[p] = old \/ rows[p] = NoPayment
  BY <1>1 DEF Inv, RowIsSound
<1> HIDE DEF new, has
<1>6. TypeOK'
  BY <1>1, <1>3, <1>4 DEF TypeOK
<1>7. pc'[p] = "changed" /\ payment'[p] = new /\ rows'[p] = rows[p]
  BY <1>1, <1>3 DEF TypeOK
<1>8. RowIsSound(p)'
  BY <1>2, <1>4, <1>5, <1>7 DEF RowIsSound, Saved
<1>9. \A o \in Payments \ {p} :
        pc'[o] = pc[o] /\ payment'[o] = payment[o] /\ rows'[o] = rows[o]
  BY <1>1, <1>3 DEF TypeOK
<1> QED BY <1>6, <1>8, <1>9, OneStep

\* An update comes to the payment again.
LEMMA UpdateIsPayment ==
  ASSUME NEW p \in Payments, payment[p] \in PaymentType, rows[p] \in PaymentType,
         rows[p].created = payment[p].created, rows[p].parties = payment[p].parties,
         rows[p].has \subseteq payment[p].has
  PROVE  Update(p) = payment[p]
<1> DEFINE row == rows[p]
           old == payment[p]
           has == row.has \cup old.has
<1>1. has = old.has
  OBVIOUS
<1>2. Update(p) = [row EXCEPT !.state = old.state, !.updated = old.updated, !.has = old.has]
  <2>1. Update(p) = [row EXCEPT !.state = old.state, !.updated = old.updated, !.has = has]
    BY DEF Update
  <2> HIDE DEF has, old, row
  <2> QED BY <1>1, <2>1
<1> HIDE DEF row, old, has
<1>3. row \in PaymentType /\ old \in PaymentType /\ row.created = old.created
      /\ row.parties = old.parties
  BY DEF row, old
<1>4. [row EXCEPT !.state = old.state, !.updated = old.updated, !.has = old.has] = old
  BY <1>3 DEF PaymentType
<1> QED BY <1>2, <1>4 DEF old

\* The row a save leaves, or the refusal.
LEMMA RowSaved ==
  ASSUME Inv, NEW p \in Payments, Save(p)
  PROVE  \/ /\ Exists(p) \/ Creatable(p)
            /\ rows' = [rows EXCEPT ![p] = payment[p]] /\ pc' = [pc EXCEPT ![p] = "saved"]
         \/ /\ ~Exists(p) /\ ~Creatable(p)
            /\ rows' = rows /\ pc' = [pc EXCEPT ![p] = "refused"]
<1>1. payment[p] \in PaymentType /\ rows[p] \in PaymentType /\ pc[p] = "changed"
  BY DEF Inv, TypeOK, Save
<1>2. CASE Exists(p) /\ rows' = [rows EXCEPT ![p] = Update(p)] /\ Goto(p, "saved")
  <2>1. rows[p] # NoPayment
    BY <1>2 DEF Exists, NoPayment
  <2>2. Update(p) = payment[p]
    BY <1>1, <2>1, UpdateIsPayment DEF Inv, RowIsSound
  <2> QED BY <1>2, <2>2 DEF Goto
<1>3. CASE ~Exists(p) /\ Creatable(p) /\ rows' = [rows EXCEPT ![p] = payment[p]]
            /\ Goto(p, "saved")
  BY <1>3 DEF Goto
<1>4. CASE ~Exists(p) /\ ~Creatable(p) /\ Goto(p, "refused") /\ UNCHANGED rows
  BY <1>4 DEF Goto
<1> QED BY <1>2, <1>3, <1>4 DEF Save

\* A save leaves the row the payment, or is refused.
LEMMA SaveStep ==
  ASSUME Inv, NEW p \in Payments, Save(p)
  PROVE  Inv'
<1>1. TypeOK /\ payment[p] \in PaymentType /\ rows[p] \in PaymentType /\ pc[p] = "changed"
  BY DEF Inv, TypeOK, Save
<1>2. saved' \in Seq(Payments)
  BY <1>1 DEF Save, TypeOK
<1>3. payment' = payment /\ now' = now
  BY DEF Save
<1>4. \/ rows' = [rows EXCEPT ![p] = payment[p]] /\ pc' = [pc EXCEPT ![p] = "saved"]
      \/ rows' = rows /\ pc' = [pc EXCEPT ![p] = "refused"]
  BY RowSaved
<1>5. TypeOK'
  BY <1>1, <1>2, <1>3, <1>4 DEF TypeOK
<1>6. RowIsSound(p)'
  <2>1. CASE rows' = [rows EXCEPT ![p] = payment[p]] /\ pc' = [pc EXCEPT ![p] = "saved"]
    BY <1>1, <1>3, <2>1 DEF TypeOK, RowIsSound, Saved
  <2>2. CASE rows' = rows /\ pc' = [pc EXCEPT ![p] = "refused"]
    BY <1>1, <1>3, <2>2 DEF Inv, TypeOK, RowIsSound, Saved
  <2> QED BY <1>4, <2>1, <2>2
<1>7. \A o \in Payments \ {p} :
        pc'[o] = pc[o] /\ payment'[o] = payment[o] /\ rows'[o] = rows[o]
  BY <1>1, <1>3, <1>4 DEF TypeOK
<1> QED BY <1>5, <1>6, <1>7, OneStep

\* An audit record is made or inserted: no payment and no row changes.
LEMMA AuditStep ==
  ASSUME Inv, NEW p \in Payments, NEW to \in {"sending", "done", "idle"},
         pc[p] \in Saved, Goto(p, to), UNCHANGED <<payment, rows, saved, now>>
  PROVE  Inv'
<1>1. TypeOK
  BY DEF Inv
<1>2. TypeOK'
  BY <1>1 DEF TypeOK, Goto
<1>3. pc'[p] = to /\ rows'[p] = payment'[p]
  BY <1>1 DEF Inv, TypeOK, RowIsSound, Goto
<1>4. RowIsSound(p)'
  <2>1. to # "new" /\ to # "changed" /\ to # "refused"
    OBVIOUS
  <2> QED BY <1>3, <2>1 DEF RowIsSound
<1>5. \A o \in Payments \ {p} :
        pc'[o] = pc[o] /\ payment'[o] = payment[o] /\ rows'[o] = rows[o]
  BY <1>1 DEF TypeOK, Goto
<1> QED BY <1>2, <1>4, <1>5, OneStep

\* Every step preserves the invariant.
LEMMA NextInv == Inv /\ [Next]_vars => Inv'
<1> SUFFICES ASSUME Inv, [Next]_vars PROVE Inv'
  OBVIOUS
<1>1. ASSUME NEW p \in Payments, Create(p) PROVE Inv'
  BY <1>1, CreateStep
<1>2. ASSUME NEW p \in Payments, Deny(p) \/ Validate(p) \/ Commit(p) \/ Settle(p) PROVE Inv'
  BY <1>2, ChangeStep DEF Deny, Validate, Commit, Settle
<1>3. ASSUME NEW p \in Payments, Save(p) PROVE Inv'
  BY <1>3, SaveStep
<1>4. ASSUME NEW p \in Payments, Build(p) PROVE Inv'
  BY <1>4, AuditStep DEF Build, Saved
<1>5. ASSUME NEW p \in Payments, Insert(p) PROVE Inv'
  BY <1>5, AuditStep DEF Insert, Saved
<1>6. CASE (\E q \in {QuoteOf[p] : p \in Payments} \ {None} : SaveQuote(q)) \/ UNCHANGED vars
              \/ Finished
  <2>1. UNCHANGED <<payment, pc, rows, saved, now>>
    BY <1>6 DEF SaveQuote, vars, Finished
  <2> QED BY <2>1 DEF Inv, TypeOK, RowIsSound
<1>7. CASE Tick
  <2>1. UNCHANGED <<payment, pc, rows, saved>>
    BY <1>7 DEF Tick
  <2>2. TypeOK'
    BY <1>7, <2>1 DEF Inv, TypeOK, Tick
  <2>3. ASSUME NEW p \in Payments PROVE RowIsSound(p)'
    BY <2>1 DEF Inv, RowIsSound
  <2> QED BY <2>2, <2>3 DEF Inv
<1> QED BY <1>1, <1>2, <1>3, <1>4, <1>5, <1>6, <1>7 DEF Next

\* So the invariant holds throughout.
LEMMA SpecInv == Spec => []Inv
<1> QED BY InitInv, NextInv, PTL DEF Spec

\* The variables keep their types, for any payments and constraints (Storage).
THEOREM TypeCorrect == Spec => []TypeOK
<1>1. Inv => TypeOK
  BY DEF Inv
<1> QED BY <1>1, SpecInv, PTL

\* A saved payment is read back as it was left, by any number of executions and whatever saves the
\* schema refuses (PrismaPaymentRepository.save, findById).
THEOREM SavedIsReadBack == Spec => []ReadsAgree
<1>1. ASSUME Inv, NEW p \in Payments,
             pc[p] \in {"saved", "sending", "idle", "done"} /\ payment[p].state # "quoted"
      PROVE  Found(p) = [payment[p] EXCEPT !.parties = "stored"]
  <2>1. rows[p] = payment[p]
    BY <1>1 DEF Inv, RowIsSound, Saved
  <2> QED BY <2>1 DEF Found
<1>2. Inv => ReadsAgree
  BY <1>1 DEF ReadsAgree
<1> QED BY <1>2, SpecInv, PTL

---------------------------------------------------------------------------------
(* What a filter leaves. *)

\* m counts the positions I of a list upwards, each once.
Counts(m, I) ==
  /\ Cardinality(I) \in Nat
  /\ m \in [1 .. Cardinality(I) -> I]
  /\ \A a, b \in 1 .. Cardinality(I) : a < b => m[a] < m[b]
  /\ \A i \in I : \E a \in 1 .. Cardinality(I) : m[a] = i

\* The n-th position kept is the one with n - 1 kept before it.
LEMMA PositionsInOrder ==
  ASSUME NEW N \in Nat, NEW I \in SUBSET (1 .. N)
  PROVE  Counts([n \in 1 .. Cardinality(I) |->
                   CHOOSE i \in I : Cardinality({j \in I : j < i}) = n - 1], I)
<1> DEFINE c == Cardinality(I)
           before(i) == {j \in I : j < i}
           rank == [i \in I |-> Cardinality(before(i)) + 1]
           m == [n \in 1 .. c |-> CHOOSE i \in I : Cardinality(before(i)) = n - 1]
<1>1. IsFiniteSet(I) /\ c \in Nat /\ \A i \in I : i \in Int
  <2>1. IsFiniteSet(1 .. N)
    BY FS_Interval
  <2>2. IsFiniteSet(I)
    BY <2>1, FS_Subset
  <2> QED BY <2>2, FS_CardinalityType
<1>2. ASSUME NEW i \in I
      PROVE  /\ IsFiniteSet(before(i)) /\ Cardinality(before(i)) \in Nat
             /\ Cardinality(before(i)) < c
  <2>1. before(i) \in SUBSET I /\ i \notin before(i)
    BY <1>1
  <2> HIDE DEF before
  <2>2. IsFiniteSet(before(i)) /\ Cardinality(before(i)) \in Nat
    BY <1>1, <2>1, FS_Subset, FS_CardinalityType
  <2>3. Cardinality(before(i)) <= c /\ c # Cardinality(before(i))
    BY <1>1, <2>1, FS_Subset
  <2> QED BY <1>1, <2>2, <2>3
<1>3. ASSUME NEW i \in I, NEW k \in I, i < k
      PROVE  Cardinality(before(i)) < Cardinality(before(k))
  <2>0. i \in Int /\ k \in Int /\ \A j \in I : j < i => j < k
    BY <1>1, <1>3
  <2>1. before(i) \in SUBSET before(k) /\ i \in before(k) /\ i \notin before(i)
    <3>1. \A j \in before(i) : j \in before(k)
      BY <2>0
    <3>2. i \in before(k) /\ ~(i < i)
      BY <1>3, <2>0
    <3> QED BY <3>1, <3>2
  <2> HIDE DEF before
  <2>2. Cardinality(before(i)) <= Cardinality(before(k))
    BY <1>2, <2>1, FS_Subset
  <2>3. Cardinality(before(k)) # Cardinality(before(i))
    BY <1>2, <2>1, FS_Subset
  <2> QED BY <1>2, <2>2, <2>3
<1> HIDE DEF before
<1>4. rank \in [I -> 1 .. c] /\ \A i \in I : rank[i] = Cardinality(before(i)) + 1
  BY <1>1, <1>2
<1>5. \A i, k \in I : i < k => rank[i] < rank[k]
  BY <1>2, <1>3, <1>4
<1> HIDE DEF rank, c
<1>6. rank \in Injection(I, 1 .. c)
  <2>1. ASSUME NEW i \in I, NEW k \in I, rank[i] = rank[k] PROVE i = k
    <3>1. rank[i] \in Int /\ rank[k] \in Int /\ i \in Int /\ k \in Int
      BY <1>1, <1>4
    <3>2. ~(rank[i] < rank[k]) /\ ~(rank[k] < rank[i])
      BY <2>1, <3>1
    <3>3. ~(i < k) /\ ~(k < i)
      BY <1>5, <3>2
    <3> QED BY <3>1, <3>3
  <2> QED BY <1>4, <2>1 DEF Injection, IsInjective
<1>7. IsFiniteSet(1 .. c) /\ Cardinality(1 .. c) = c
  BY <1>1, FS_Interval
<1>8. rank \in Surjection(I, 1 .. c)
  BY <1>6, <1>7, FS_Injection DEF c
<1>9. ASSUME NEW n \in 1 .. c PROVE \E i \in I : rank[i] = n
  BY <1>8 DEF Surjection
<1>10. ASSUME NEW n \in 1 .. c PROVE m[n] \in I /\ rank[m[n]] = n
  <2>1. PICK i \in I : rank[i] = n
    BY <1>9
  <2>2. Cardinality(before(i)) = n - 1
    BY <1>1, <1>2, <1>4, <2>1
  <2>3. m[n] \in I /\ Cardinality(before(m[n])) = n - 1
    BY <2>2
  <2> HIDE DEF m
  <2>4. rank[m[n]] = Cardinality(before(m[n])) + 1
    BY <1>4, <2>3
  <2> QED BY <2>3, <2>4
<1>11. m \in [1 .. c -> I]
  BY <1>10
<1> HIDE DEF m
<1>12. ASSUME NEW a \in 1 .. c, NEW b \in 1 .. c, a < b PROVE m[a] < m[b]
  <2>1. m[a] \in I /\ m[b] \in I /\ rank[m[a]] = a /\ rank[m[b]] = b
    BY <1>10
  <2>2. m[a] \in Int /\ m[b] \in Int
    BY <1>1, <2>1
  <2>4. a \in Int /\ b \in Int /\ a # b /\ ~(b < a)
    BY <1>12
  <2>3. m[a] # m[b] /\ ~(m[b] < m[a])
    BY <1>5, <2>1, <2>2, <2>4
  <2> QED BY <2>2, <2>3
<1>13. ASSUME NEW i \in I PROVE \E a \in 1 .. c : m[a] = i
  <2>1. rank[i] \in 1 .. c /\ rank[m[rank[i]]] = rank[i] /\ m[rank[i]] \in I
    BY <1>4, <1>10
  <2>2. m[rank[i]] = i
    BY <1>6, <2>1 DEF Injection, IsInjective
  <2> QED BY <2>1, <2>2
<1>14. Counts(m, I)
  BY <1>1, <1>11, <1>12, <1>13 DEF Counts, c
<1> QED BY <1>14 DEF m, c, before

\* A filter leaves the elements at the positions it keeps, in the order they were in.
LEMMA Filtered ==
  ASSUME NEW S, NEW list \in Seq(S), NEW I \in SUBSET DOMAIN list
  PROVE  /\ filter(list, I) \in Seq(S)
         /\ IsFiniteSet(I) /\ Cardinality(I) \in Nat
         /\ Len(filter(list, I)) = Cardinality(I)
         /\ ToSet(filter(list, I)) = {list[i] : i \in I}
         /\ \A a, b \in DOMAIN filter(list, I) :
              a < b => \E i, j \in I : /\ i < j
                                       /\ filter(list, I)[a] = list[i]
                                       /\ filter(list, I)[b] = list[j]
<1> DEFINE c == Cardinality(I)
           m == [n \in 1 .. c |-> CHOOSE i \in I : Cardinality({j \in I : j < i}) = n - 1]
           f == filter(list, I)
<1>1. Len(list) \in Nat /\ I \in SUBSET (1 .. Len(list))
  OBVIOUS
<1>2. Counts(m, I)
  BY <1>1, PositionsInOrder
<1>3. f = [n \in 1 .. c |-> list[m[n]]]
  BY DEF filter
<1>4. IsFiniteSet(I) /\ c \in Nat
  <2>1. IsFiniteSet(1 .. Len(list))
    BY <1>1, FS_Interval
  <2>2. IsFiniteSet(I)
    BY <1>1, <2>1, FS_Subset
  <2> QED BY <2>2, FS_CardinalityType
<1> HIDE DEF m, f, c
<1>5. /\ m \in [1 .. c -> I] /\ \A a, b \in 1 .. c : a < b => m[a] < m[b]
      /\ \A i \in I : \E a \in 1 .. c : m[a] = i
  BY <1>2 DEF Counts, c
<1>6. f \in Seq(S) /\ Len(f) = c /\ DOMAIN f = 1 .. c
  BY <1>3, <1>4, <1>5
<1>7. ToSet(f) = {list[i] : i \in I}
  <2>1. \A i \in I : list[i] \in ToSet(f)
    BY <1>3, <1>5, <1>6 DEF ToSet
  <2>2. \A x \in ToSet(f) : \E i \in I : x = list[i]
    BY <1>3, <1>5, <1>6 DEF ToSet
  <2> QED BY <2>1, <2>2
<1>8. \A a, b \in DOMAIN f : a < b => \E i, j \in I : i < j /\ f[a] = list[i] /\ f[b] = list[j]
  BY <1>3, <1>5, <1>6
<1> QED BY <1>4, <1>6, <1>7, <1>8 DEF f, c

\* Kept positions of a list without repetitions are as many as the elements there.
LEMMA AsManyElements ==
  ASSUME NEW list, NEW I \in SUBSET DOMAIN list, IsFiniteSet(I),
         \A i, j \in I : list[i] = list[j] => i = j
  PROVE  /\ IsFiniteSet({list[i] : i \in I})
         /\ Cardinality({list[i] : i \in I}) = Cardinality(I)
<1> DEFINE T == {list[i] : i \in I}
           g == [i \in I |-> list[i]]
<1>1. g \in Injection(I, T) /\ g \in Surjection(I, T)
  BY DEF Injection, IsInjective, Surjection
<1> HIDE DEF g, T
<1>2. IsFiniteSet(T) /\ Cardinality(T) = Cardinality(I)
  BY <1>1, FS_Surjection
<1> QED BY <1>2 DEF T

---------------------------------------------------------------------------------
(* The map and the rows. *)

\* Payments are in the map once each: those that have a row, and those that were refused one.  A
\* refusal that is not for a quote is for the key of an earlier payment.
SavedInv ==
  /\ \A p \in Payments : pc[p] # "new" => payment[p].state # "none"
  /\ \A i, j \in DOMAIN saved : saved[i] = saved[j] => i = j
  /\ \A p \in Payments : p \in ToSet(saved) <=> Exists(p) \/ pc[p] = "refused"
  /\ \A p \in Payments : pc[p] = "refused" => ~Exists(p)
  /\ \A p, o \in Payments :
       Exists(p) /\ Exists(o) /\ KeyOf[p] = KeyOf[o] /\ KeyOf[p] # None => p = o
  /\ \A i \in DOMAIN saved :
       pc[saved[i]] = "refused" /\ QuoteOf[saved[i]] = None =>
         /\ KeyOf[saved[i]] # None
         /\ \E j \in DOMAIN saved :
              j < i /\ Exists(saved[j]) /\ KeyOf[saved[j]] = KeyOf[saved[i]]

\* At the start there is nothing in either.
LEMMA InitSaved == Init => SavedInv
<1> SUFFICES ASSUME Init PROVE SavedInv
  OBVIOUS
<1>1. \A p \in Payments : rows[p].state = "none" /\ pc[p] = "new"
  BY DEF Init, NoPayment
<1>2. saved = <<>> /\ DOMAIN saved = {} /\ ToSet(saved) = {}
  BY DEF Init, ToSet
<1> QED BY <1>1, <1>2 DEF SavedInv, Exists

\* Steps that save nothing and refuse nothing.
LEMMA QuietSaved ==
  ASSUME SavedInv, saved \in Seq(Payments), UNCHANGED <<saved, rows>>,
         \A p \in Payments :
           /\ pc'[p] = "refused" <=> pc[p] = "refused"
           /\ pc'[p] # "new" => payment'[p].state # "none"
  PROVE  SavedInv'
<1>1. \A i \in DOMAIN saved : saved[i] \in Payments
  OBVIOUS
<1>2. \A p \in Payments : Exists(p)' <=> Exists(p)
  BY DEF Exists
<1>3. saved' = saved
  OBVIOUS
<1> QED BY <1>1, <1>2, <1>3 DEF SavedInv

\* A save puts its payment into the map as it gets its row, or is refused it.
LEMMA SavedStep ==
  ASSUME Inv, SavedInv, NEW p \in Payments, Save(p)
  PROVE  SavedInv'
<1>1. /\ TypeOK /\ pc[p] = "changed" /\ payment' = payment /\ payment[p].state # "none"
      /\ saved \in Seq(Payments) /\ \A i \in DOMAIN saved : saved[i] \in Payments
  BY DEF Inv, TypeOK, Save, SavedInv
<1>2. p \in ToSet(saved) <=> Exists(p)
  BY <1>1 DEF SavedInv
<1>3. Contains(saved, p) <=> Exists(p)
  BY <1>1, <1>2 DEF Contains, ToSet
<1>4. \A o \in Payments \ {p} :
        (Exists(o)' <=> Exists(o)) /\ pc'[o] = pc[o]
  BY <1>1, RowSaved DEF Exists, TypeOK
<1>5. CASE Exists(p)
  <2>1. saved' = saved /\ Exists(p)' /\ pc'[p] = "saved"
    BY <1>1, <1>3, <1>5, RowSaved DEF Save, Exists, TypeOK
  <2>2. \A o \in Payments : (Exists(o)' <=> Exists(o)) /\ (pc'[o] = "refused" <=> pc[o] = "refused")
    BY <1>1, <1>4, <1>5, <2>1
  <2>3. \A o \in Payments : pc'[o] # "new" => payment'[o].state # "none"
    BY <1>1, <1>4, <2>1 DEF SavedInv
  <2> QED BY <1>1, <2>1, <2>2, <2>3 DEF SavedInv
<1>6. CASE ~Exists(p)
  <2> DEFINE n == Len(saved)
  <2>1. saved' = Append(saved, p)
    BY <1>3, <1>6 DEF Save
  <2>2. /\ n \in Nat /\ DOMAIN saved = 1 .. n /\ DOMAIN saved' = 1 .. n + 1
        /\ saved'[n + 1] = p /\ \A i \in 1 .. n : saved'[i] = saved[i]
    BY <1>1, <2>1
  <2>3. \A i \in 1 .. n : saved[i] \in Payments /\ saved[i] # p
    BY <1>1, <1>2, <1>6, <2>2 DEF ToSet
  <2>4. \A o \in Payments : o \in ToSet(saved)' <=> o \in ToSet(saved) \/ o = p
    <3>1. ASSUME NEW o \in ToSet(saved)' PROVE o \in ToSet(saved) \/ o = p
      BY <2>2 DEF ToSet
    <3>2. ASSUME NEW o \in ToSet(saved) PROVE o \in ToSet(saved)'
      BY <2>2 DEF ToSet
    <3>3. p \in ToSet(saved)'
      BY <2>2 DEF ToSet
    <3> QED BY <3>1, <3>2, <3>3
  <2>5. \/ Creatable(p) /\ Exists(p)' /\ pc'[p] = "saved"
        \/ ~Creatable(p) /\ ~Exists(p)' /\ pc'[p] = "refused"
    BY <1>1, <1>6, RowSaved DEF Exists, TypeOK
  <2> HIDE DEF n
  <2>6. \A o \in Payments : pc'[o] # "new" => payment'[o].state # "none"
    BY <1>1, <1>4 DEF SavedInv
  <2>7. \A i, j \in DOMAIN saved' : saved'[i] = saved'[j] => i = j
    BY <2>2, <2>3 DEF SavedInv
  <2>8. \A o \in Payments : o \in ToSet(saved)' <=> Exists(o)' \/ pc'[o] = "refused"
    BY <1>4, <2>4, <2>5 DEF SavedInv
  <2>9. \A o \in Payments : pc'[o] = "refused" => ~Exists(o)'
    BY <1>4, <2>5 DEF SavedInv
  <2>10. \A a, o \in Payments :
           Exists(a)' /\ Exists(o)' /\ KeyOf[a] = KeyOf[o] /\ KeyOf[a] # None => a = o
    <3>1. ASSUME NEW o \in Payments \ {p}, Exists(o), Exists(p)', KeyOf[p] = KeyOf[o],
                 KeyOf[p] # None
          PROVE  FALSE
      BY <2>5, <3>1 DEF Creatable, RowsOfKey
    <3> QED BY <1>4, <3>1 DEF SavedInv
  <2>11. ASSUME NEW i \in DOMAIN saved', pc'[saved'[i]] = "refused", QuoteOf[saved'[i]] = None
         PROVE  /\ KeyOf[saved'[i]] # None
                /\ \E j \in DOMAIN saved' :
                     j < i /\ Exists(saved[j])' /\ KeyOf[saved'[j]] = KeyOf[saved'[i]]
    <3>1. CASE i \in 1 .. n
      <4>1. saved'[i] = saved[i] /\ pc[saved[i]] = "refused" /\ QuoteOf[saved[i]] = None
        BY <1>4, <2>2, <2>3, <2>11, <3>1
      <4>2. /\ KeyOf[saved[i]] # None
            /\ \E j \in DOMAIN saved :
                 j < i /\ Exists(saved[j]) /\ KeyOf[saved[j]] = KeyOf[saved[i]]
        BY <2>2, <3>1, <4>1 DEF SavedInv
      <4>3. PICK j \in 1 .. n : j < i /\ Exists(saved[j]) /\ KeyOf[saved[j]] = KeyOf[saved[i]]
        BY <2>2, <4>2
      <4>4. saved'[j] = saved[j] /\ j \in DOMAIN saved'
        BY <2>2
      <4>5. PICK o \in Payments \ {p} : o = saved[j]
        BY <2>3
      <4>6. Exists(o)'
        BY <1>4, <4>3, <4>5
      <4>7. Exists(saved[j])'
        BY <4>4, <4>5, <4>6 DEF Exists
      <4> QED BY <4>1, <4>2, <4>3, <4>4, <4>7
    <3>2. CASE i = n + 1
      <4>1. saved'[i] = p /\ ~Creatable(p)
        BY <2>2, <2>5, <2>11, <3>2
      <4>2. KeyOf[p] # None /\ RowsOfKey(KeyOf[p]) # {}
        BY <2>11, <4>1 DEF Creatable
      <4>3. PICK o \in Payments : Exists(o) /\ KeyOf[o] = KeyOf[p]
        BY <4>2 DEF RowsOfKey
      <4>4. PICK j \in 1 .. n : saved[j] = o
        BY <2>2, <4>3 DEF SavedInv, ToSet
      <4>5. saved'[j] = o /\ j \in DOMAIN saved' /\ j < i
        BY <2>2, <3>2, <4>4
      <4>6. Exists(o)'
        BY <1>4, <1>6, <4>3
      <4>7. Exists(saved[j])'
        BY <4>5, <4>6 DEF Exists
      <4> QED BY <4>1, <4>2, <4>3, <4>5, <4>7
    <3> QED BY <2>2, <3>1, <3>2
  <2> QED BY <2>6, <2>7, <2>8, <2>9, <2>10, <2>11 DEF SavedInv
<1> QED BY <1>5, <1>6

\* Every step keeps map and rows together.
LEMMA NextSaved ==
  ASSUME Inv, SavedInv, [Next]_vars
  PROVE  SavedInv'
<1>1. saved \in Seq(Payments) /\ TypeOK
  BY DEF Inv, TypeOK
<1>2. ASSUME NEW p \in Payments, Save(p) PROVE SavedInv'
  BY <1>2, SavedStep
<1>3. ASSUME NEW p \in Payments, Create(p) PROVE SavedInv'
  <2>1. /\ UNCHANGED <<saved, rows>> /\ pc[p] = "new" /\ pc'[p] = "idle"
        /\ payment'[p].state = "quoted"
        /\ \A o \in Payments \ {p} : pc'[o] = pc[o] /\ payment'[o] = payment[o]
    <3>1. pc[p] = "new" /\ pc' = [pc EXCEPT ![p] = "idle"] /\ UNCHANGED <<saved, rows>>
      BY <1>3 DEF Create, Goto
    <3>2. payment' = [payment EXCEPT ![p] = [payment[p] EXCEPT
                        !.state = "quoted", !.created = now, !.updated = now]]
      BY <1>3 DEF Create
    <3>3. payment[p] \in PaymentType
      BY <1>1 DEF TypeOK
    <3>4. [payment[p] EXCEPT !.state = "quoted", !.created = now, !.updated = now].state = "quoted"
      BY <3>3 DEF PaymentType
    <3> QED BY <1>1, <3>1, <3>2, <3>4 DEF TypeOK
  <2>2. \A o \in Payments : /\ pc'[o] = "refused" <=> pc[o] = "refused"
                            /\ pc'[o] # "new" => payment'[o].state # "none"
    BY <2>1 DEF SavedInv
  <2> QED BY <1>1, <2>1, <2>2, QuietSaved
<1>4. ASSUME NEW p \in Payments, Deny(p) \/ Validate(p) \/ Commit(p) \/ Settle(p) PROVE SavedInv'
  <2>1. PICK from \in {"quoted", "validated", "committed"},
            to \in {"validated", "committed", "settled", "failed"} : Change(p, from, to)
    BY <1>4 DEF Deny, Validate, Commit, Settle
  <2>2. /\ UNCHANGED <<saved, rows>> /\ pc[p] = "idle" /\ pc'[p] = "changed"
        /\ payment'[p].state = to
        /\ \A o \in Payments \ {p} : pc'[o] = pc[o] /\ payment'[o] = payment[o]
    <3>1. pc[p] = "idle" /\ pc' = [pc EXCEPT ![p] = "changed"] /\ UNCHANGED <<saved, rows>>
      BY <2>1 DEF Change, Goto
    <3>2. PICK has : payment' = [payment EXCEPT ![p] = [payment[p] EXCEPT
                        !.state = to, !.updated = now, !.has = has]]
      BY <2>1 DEF Change
    <3>3. payment[p] \in PaymentType
      BY <1>1 DEF TypeOK
    <3>4. [payment[p] EXCEPT !.state = to, !.updated = now, !.has = has].state = to
      BY <3>3 DEF PaymentType
    <3> QED BY <1>1, <3>1, <3>2, <3>4 DEF TypeOK
  <2>3. \A o \in Payments : /\ pc'[o] = "refused" <=> pc[o] = "refused"
                            /\ pc'[o] # "new" => payment'[o].state # "none"
    BY <2>2 DEF SavedInv
  <2> QED BY <1>1, <2>2, <2>3, QuietSaved
<1>5. ASSUME NEW p \in Payments, Build(p) \/ Insert(p) PROVE SavedInv'
  <2>1. /\ UNCHANGED <<saved, rows, payment>> /\ pc[p] \notin {"new", "refused"}
        /\ pc'[p] \notin {"new", "refused"}
        /\ \A o \in Payments \ {p} : pc'[o] = pc[o]
    BY <1>1, <1>5 DEF Build, Insert, Goto, TypeOK
  <2>2. \A o \in Payments : /\ pc'[o] = "refused" <=> pc[o] = "refused"
                            /\ pc'[o] # "new" => payment'[o].state # "none"
    BY <2>1 DEF SavedInv
  <2> QED BY <1>1, <2>1, <2>2, QuietSaved
<1>6. CASE (\E q \in {QuoteOf[p] : p \in Payments} \ {None} : SaveQuote(q)) \/ Tick \/ Finished
             \/ UNCHANGED vars
  <2>1. UNCHANGED <<saved, rows, payment, pc>>
    BY <1>6 DEF SaveQuote, Tick, Finished, vars
  <2>2. \A o \in Payments : pc'[o] # "new" => payment'[o].state # "none"
    BY <2>1 DEF SavedInv
  <2> QED BY <1>1, <2>1, <2>2, QuietSaved
<1> QED BY <1>2, <1>3, <1>4, <1>5, <1>6 DEF Next

\* A key leads to the payment of its row, which is the first of the map to have it.
LEMMA KeysLeadToTheSame ==
  ASSUME Inv, SavedInv, NEW k \in Keys,
         \A p \in Payments : pc[p] = "refused" => QuoteOf[p] = None
  PROVE  FirstOfKey(k) = RowsOfKey(k)
<1> DEFINE matches == {i \in DOMAIN saved : KeyOf[saved[i]] = k}
           first == {j \in matches : \A m \in matches : j <= m}
<1>1. /\ saved \in Seq(Payments) /\ DOMAIN saved = 1 .. Len(saved) /\ Len(saved) \in Nat
      /\ k # None
  BY DEF Inv, TypeOK
<1>2. FirstOfKey(k) = {saved[i] : i \in first}
  BY DEF FirstOfKey
<1>3. ASSUME NEW i \in first PROVE saved[i] \in RowsOfKey(k)
  <2>1. i \in DOMAIN saved /\ saved[i] \in Payments /\ KeyOf[saved[i]] = k
    BY <1>1
  <2>2. saved[i] \in ToSet(saved)
    BY <2>1 DEF ToSet
  <2>3. CASE Exists(saved[i])
    BY <2>1, <2>3 DEF RowsOfKey
  <2>4. CASE pc[saved[i]] = "refused"
    <3>1. PICK j \in DOMAIN saved :
            j < i /\ Exists(saved[j]) /\ KeyOf[saved[j]] = KeyOf[saved[i]]
      BY <2>1, <2>4 DEF SavedInv
    <3>2. j \in matches
      BY <2>1, <3>1
    <3>3. i <= j /\ i \in Int /\ j \in Int
      BY <1>1, <3>2
    <3> QED BY <3>1, <3>3
  <2> QED BY <2>1, <2>2, <2>3, <2>4 DEF SavedInv
<1>4. ASSUME NEW p \in RowsOfKey(k) PROVE \E i \in first : saved[i] = p
  <2>1. p \in Payments /\ Exists(p) /\ KeyOf[p] = k
    BY DEF RowsOfKey
  <2>2. PICK i \in DOMAIN saved : saved[i] = p
    BY <2>1 DEF SavedInv, ToSet
  <2>3. matches \subseteq Nat /\ i \in matches
    BY <1>1, <2>1, <2>2
  <2> HIDE DEF matches
  <2>4. PICK j \in matches : \A m \in matches : j <= m
    BY <2>3, LeastNatural
  <2>5. j \in first
    BY <2>4
  <2>6. saved[j] \in RowsOfKey(k)
    BY <1>3, <2>5
  <2>7. saved[j] \in Payments /\ Exists(saved[j]) /\ KeyOf[saved[j]] = k
    BY <2>6 DEF RowsOfKey
  <2>8. saved[j] = p
    BY <1>1, <2>1, <2>7 DEF SavedInv
  <2> QED BY <2>5, <2>8
<1> HIDE DEF first
<1> QED BY <1>2, <1>3, <1>4

\* A payment that has been saved and not refused is in its row what it is in the map.
LEMMA SameState ==
  ASSUME Inv, NEW p \in Payments, Exists(p), pc[p] # "changed", pc[p] # "refused"
  PROVE  rows[p] = payment[p]
<1>1. rows[p].state # "none"
  BY DEF Exists
<1>2. rows[p] # NoPayment
  BY <1>1 DEF NoPayment
<1>3. pc[p] \in {"new", "idle", "changed", "saved", "sending", "done", "refused"}
  BY DEF Inv, TypeOK
<1> QED BY <1>2, <1>3 DEF Inv, RowIsSound, Saved

\* What is listed of a tenant whose payments have all been accepted.
LEMMA ListedAsStored ==
  ASSUME Inv, SavedInv, NEW t \in Tenants, NEW state,
         \A p \in Payments : pc[p] # "changed",
         \A p \in Payments : TenantOf[p] = t => pc[p] # "refused"
  PROVE  /\ OfTenant(t, state) \in Seq(Payments)
         /\ ToSet(OfTenant(t, state)) = RowsOfTenant(t, state)
         /\ IsFiniteSet(RowsOfTenant(t, state))
         /\ Len(OfTenant(t, state)) = Cardinality(RowsOfTenant(t, state))
<1> DEFINE I == {i \in DOMAIN saved :
                   TenantOf[saved[i]] = t /\ state \in {None, payment[saved[i]].state}}
<1>1. saved \in Seq(Payments) /\ \A i \in DOMAIN saved : saved[i] \in Payments
  BY DEF Inv, TypeOK
<1>2. OfTenant(t, state) = filter(saved, I) /\ I \in SUBSET DOMAIN saved
  BY DEF OfTenant
<1>3. {saved[i] : i \in I} = RowsOfTenant(t, state)
  <2>1. ASSUME NEW i \in I PROVE saved[i] \in RowsOfTenant(t, state)
    <3>1. i \in DOMAIN saved /\ saved[i] \in Payments /\ TenantOf[saved[i]] = t
          /\ state \in {None, payment[saved[i]].state} /\ pc[saved[i]] # "refused"
      BY <1>1
    <3>2. Exists(saved[i])
      BY <3>1 DEF SavedInv, ToSet
    <3>3. rows[saved[i]] = payment[saved[i]]
      BY <3>1, <3>2, SameState
    <3> QED BY <3>1, <3>2, <3>3 DEF RowsOfTenant
  <2>2. ASSUME NEW p \in RowsOfTenant(t, state) PROVE \E i \in I : saved[i] = p
    <3>1. p \in Payments /\ Exists(p) /\ TenantOf[p] = t /\ state \in {None, rows[p].state}
          /\ pc[p] # "refused"
      BY DEF RowsOfTenant
    <3>2. rows[p] = payment[p]
      BY <3>1, SameState
    <3>3. PICK i \in DOMAIN saved : saved[i] = p
      BY <3>1 DEF SavedInv, ToSet
    <3> QED BY <3>1, <3>2, <3>3
  <2> HIDE DEF I
  <2> QED BY <2>1, <2>2
<1>4. \A i, j \in I : saved[i] = saved[j] => i = j
  BY DEF SavedInv
<1> HIDE DEF I
<1>5. /\ filter(saved, I) \in Seq(Payments) /\ IsFiniteSet(I)
      /\ Len(filter(saved, I)) = Cardinality(I) /\ ToSet(filter(saved, I)) = {saved[i] : i \in I}
  BY <1>1, <1>2, Filtered
<1>6. IsFiniteSet({saved[i] : i \in I}) /\ Cardinality({saved[i] : i \in I}) = Cardinality(I)
  BY <1>2, <1>4, <1>5, AsManyElements
<1> QED BY <1>2, <1>3, <1>5, <1>6

\* A tenant who has no more payments than fit on a page is shown all of them.
LEMMA PagesAreWhole ==
  ASSUME NEW t, NEW state, IsFiniteSet(RowsOfTenant(t, state)),
         Cardinality(RowsOfTenant(t, state)) <= PageSize
  PROVE  Pages(t, state) = {RowsOfTenant(t, state)}
<1> DEFINE all == RowsOfTenant(t, state)
           size == IF Cardinality(all) < PageSize THEN Cardinality(all) ELSE PageSize
<1>1. Cardinality(all) \in Nat
  BY FS_CardinalityType
<1>2. size = Cardinality(all)
  BY <1>1
<1>3. Pages(t, state) =
        {page \in SUBSET all :
           /\ Cardinality(page) = size
           /\ \A p \in page, q \in all \ page : rows[q].created <= rows[p].created}
  BY DEF Pages
<1> HIDE DEF all, size
<1>4. \A page \in SUBSET all : Cardinality(page) = Cardinality(all) => page = all
  BY FS_Subset DEF all
<1>5. all \in Pages(t, state)
  BY <1>2, <1>3
<1> QED BY <1>2, <1>3, <1>4, <1>5 DEF all

\* Once every payment that was changed is saved, map and rows answer alike.
LEMMA AnsweredAlike ==
  ASSUME Inv, SavedInv
  PROVE  QueriesAgree
<1> SUFFICES ASSUME \A p \in Payments : pc[p] # "changed" PROVE QueriesAgree
  BY DEF QueriesAgree
<1>1. (\A p \in Payments : pc[p] = "refused" => QuoteOf[p] = None) =>
         \A k \in Keys : FirstOfKey(k) = RowsOfKey(k)
  BY KeysLeadToTheSame
<1>2. ASSUME NEW t \in Tenants, \A p \in Payments : TenantOf[p] = t => pc[p] # "refused"
      PROVE  /\ RowCount(t) = Len(OfTenant(t, None))
             /\ RowCount(t) <= PageSize =>
                  \A state \in {None, "failed", "validated", "settled"} :
                    Pages(t, state) = {Page(t, state)}
  <2>1. /\ IsFiniteSet(RowsOfTenant(t, None))
        /\ Len(OfTenant(t, None)) = Cardinality(RowsOfTenant(t, None))
    BY <1>2, ListedAsStored
  <2>2. RowCount(t) = Cardinality(RowsOfTenant(t, None))
    BY DEF RowCount
  <2>3. ASSUME RowCount(t) <= PageSize, NEW state
        PROVE  Pages(t, state) = {Page(t, state)}
    <3> DEFINE list == OfTenant(t, state)
               all == RowsOfTenant(t, state)
    <3>1. /\ list \in Seq(Payments) /\ ToSet(list) = all /\ IsFiniteSet(all)
          /\ Len(list) = Cardinality(all)
      BY <1>2, ListedAsStored
    <3>2. all \in SUBSET RowsOfTenant(t, None)
      BY DEF RowsOfTenant
    <3>3. Cardinality(all) <= Cardinality(RowsOfTenant(t, None))
      BY <2>1, <3>2, FS_Subset
    <3>4. Cardinality(all) \in Nat /\ Cardinality(RowsOfTenant(t, None)) \in Nat
      BY <2>1, <3>1, FS_CardinalityType
    <3>5. Cardinality(all) <= PageSize
      BY <2>2, <2>3, <3>3, <3>4
    <3>6. Pages(t, state) = {all}
      BY <3>1, <3>5, PagesAreWhole
    <3>7. Page(t, state) =
            {p \in Payments : \E i \in 1 .. PageSize : i \in DOMAIN list /\ list[i] = p}
      BY DEF Page
    <3> HIDE DEF list, all
    <3>8. DOMAIN list = 1 .. Len(list) /\ DOMAIN list \subseteq 1 .. PageSize
      BY <3>1, <3>4, <3>5
    <3>9. \A i \in DOMAIN list : list[i] \in Payments
      BY <3>1
    <3>10. Page(t, state) = ToSet(list)
      <4>1. \A p \in ToSet(list) : p \in Page(t, state)
        BY <3>7, <3>8, <3>9 DEF ToSet
      <4>2. \A p \in Page(t, state) : p \in ToSet(list)
        BY <3>7 DEF ToSet
      <4> QED BY <4>1, <4>2
    <3> QED BY <3>1, <3>6, <3>10
  <2> QED BY <2>1, <2>2, <2>3
<1> QED BY <1>1, <1>2 DEF QueriesAgree

\* The map in memory and the table of payments answer every query alike, whatever was refused
\* and in whatever order payments were saved (PaymentRepository's two implementations).
THEOREM RepositoriesAgree == Spec => []QueriesAgree
<1>1. Inv /\ SavedInv /\ [Next]_vars => SavedInv'
  BY NextSaved
<1>2. Inv /\ SavedInv => QueriesAgree
  BY AnsweredAlike
<1> QED BY <1>1, <1>2, InitSaved, SpecInv, PTL DEF Spec

---------------------------------------------------------------------------------
(* The trail and its rows. *)

States == {"none", "quoted", "validated", "committed", "settled", "failed"}

\* How far a payment has come.
Rank ==
  [s \in States |-> IF s = "none" THEN 0 ELSE IF s = "quoted" THEN 1
                    ELSE IF s \in {"validated", "failed"} THEN 2
                    ELSE IF s = "committed" THEN 3 ELSE 4]

\* What recordAudit writes is in the order of a jsonb column.
SortedKeys ==
  {<<"state", "amount">>, <<"state", "amount", "rejectionReason">>,
   <<"state", "amount", "railTxId">>}

RecordType ==
  {AuditRecord(p, s, time, keys) :
     p \in Payments, s \in States, time \in 0 .. MaxTime, keys \in SortedKeys}

\* A payment that has been saved and not audited yet has come farther than its records tell.
Told(r) ==
  LET p == r.payment
  IN  /\ Rank[r.state] <= Rank[payment[p].state]
      /\ pc[p] \in {"changed", "saved", "refused"} => Rank[r.state] # Rank[payment[p].state]

\* A payment is inserting the last record it made, if any.
SendingIsLast(p) ==
  \/ pc[p] # "sending" /\ sending[p] = <<>>
  \/ /\ pc[p] = "sending"
     /\ \E i \in DOMAIN trail : trail[i].payment = p /\ sending[p] = <<trail[i]>>

Inserted == {i \in DOMAIN trail : sending[trail[i].payment] # <<trail[i]>>}

TrailInv ==
  /\ trail \in Seq(RecordType)
  /\ sending \in [Payments -> Seq(RecordType)]
  /\ \A i, j \in DOMAIN trail : i < j => trail[i].time <= trail[j].time
  /\ \A i \in DOMAIN trail : trail[i].time <= now /\ Told(trail[i])
  /\ \A i, j \in DOMAIN trail :
       trail[i].payment = trail[j].payment /\ trail[i].state = trail[j].state => i = j
  /\ \A p \in Payments : SendingIsLast(p)
  /\ auditRows = {trail[i] : i \in Inserted}
  /\ \A p \in Payments :
       /\ "reason" \in payment[p].has => payment[p].state = "failed"
       /\ "rail" \in payment[p].has => payment[p].state = "settled"

\* Short sequences put together.
LEMMA ShortSequences ==
  ASSUME NEW a, NEW b, NEW c
  PROVE  /\ <<a>> \o <<b>> = <<a, b>> /\ <<a, b>> \o <<c>> = <<a, b, c>>
         /\ <<a, b>> \o <<>> = <<a, b>> /\ <<a, b, c>> \o <<>> = <<a, b, c>>
<1> DEFINE S == {a, b, c}
           x == <<a>>  y == <<b>>  z == <<c>>  xy == <<a, b>>  xyz == <<a, b, c>>
<1>1. /\ x \in Seq(S) /\ Len(x) = 1 /\ x[1] = a /\ y \in Seq(S) /\ Len(y) = 1 /\ y[1] = b
      /\ z \in Seq(S) /\ Len(z) = 1 /\ z[1] = c
  OBVIOUS
<1>2. /\ xy \in Seq(S) /\ Len(xy) = 2 /\ xy[1] = a /\ xy[2] = b
  OBVIOUS
<1>3. xyz \in Seq(S) /\ Len(xyz) = 3 /\ xyz[1] = a /\ xyz[2] = b /\ xyz[3] = c
  OBVIOUS
<1> HIDE DEF S, x, y, z, xy, xyz
<1>4. x \o y = xy
  <2> DEFINE s == x \o y
  <2>0. /\ s \in Seq(S) /\ Len(s) = Len(x) + Len(y)
        /\ \A i \in 1 .. Len(x) + Len(y) : s[i] = IF i <= Len(x) THEN x[i] ELSE y[i - Len(x)]
    BY <1>1, ConcatProperties
  <2> HIDE DEF s
  <2>1. s \in Seq(S) /\ Len(s) = 2
        /\ \A i \in 1 .. 2 : s[i] = IF i <= 1 THEN x[i] ELSE y[i - 1]
    BY <1>1, <2>0
  <2>2. \A i \in 1 .. 2 : s[i] = xy[i]
    BY <1>1, <1>2, <2>1
  <2> QED BY <1>2, <2>1, <2>2, SeqEqual DEF s
<1>5. xy \o z = xyz
  <2> DEFINE s == xy \o z
  <2>0. /\ s \in Seq(S) /\ Len(s) = Len(xy) + Len(z)
        /\ \A i \in 1 .. Len(xy) + Len(z) : s[i] = IF i <= Len(xy) THEN xy[i] ELSE z[i - Len(xy)]
    BY <1>1, <1>2, ConcatProperties
  <2> HIDE DEF s
  <2>1. s \in Seq(S) /\ Len(s) = 3
        /\ \A i \in 1 .. 3 : s[i] = IF i <= 2 THEN xy[i] ELSE z[i - 2]
    BY <1>1, <1>2, <2>0
  <2> HIDE DEF s
  <2>2. \A i \in 1 .. 3 : s[i] = xyz[i]
    BY <1>1, <1>2, <1>3, <2>1
  <2> QED BY <1>3, <2>1, <2>2, SeqEqual DEF s
<1>6. xy \o <<>> = xy /\ xyz \o <<>> = xyz
  BY <1>2, <1>3
<1> QED BY <1>4, <1>5, <1>6 DEF x, y, z, xy, xyz

\* The keys recordAudit writes are in the order of a jsonb column.
LEMMA KeysComeBack == ASSUME NEW keys \in SortedKeys PROVE Jsonb(keys) = keys
<1>0. <<"state">> \o <<"amount">> = <<"state", "amount">>
      /\ <<"state", "amount">> \o <<>> = <<"state", "amount">>
  BY ShortSequences
<1>1. CASE keys = <<"state", "amount">>
  <2>1. Len(keys) = 2 /\ keys[1] = "state" /\ keys[2] = "amount"
    BY <1>1
  <2>2. Contains(keys, "state") /\ Contains(keys, "amount")
    BY <2>1 DEF Contains
  <2>3. ~Contains(keys, "railTxId") /\ ~Contains(keys, "rejectionReason")
    BY <2>1 DEF Contains
  <2>4. Jsonb(keys) = <<"state">> \o <<"amount">> \o <<>> \o <<>>
    BY <2>2, <2>3 DEF Jsonb
  <2>5. <<"state">> \o <<"amount">> \o <<>> \o <<>> = keys
    BY <1>0, <1>1
  <2> QED BY <2>4, <2>5
<1>2. CASE keys = <<"state", "amount", "rejectionReason">>
  <2>1. /\ Len(keys) = 3
        /\ keys[1] = "state" /\ keys[2] = "amount" /\ keys[3] = "rejectionReason"
    BY <1>2
  <2>2. /\ Contains(keys, "state") /\ Contains(keys, "amount")
        /\ ~Contains(keys, "railTxId") /\ Contains(keys, "rejectionReason")
    BY <2>1 DEF Contains
  <2>3. Jsonb(keys) = <<"state">> \o <<"amount">> \o <<>> \o <<"rejectionReason">>
    BY <2>2 DEF Jsonb
  <2>4. <<"state">> \o <<"amount">> \o <<>> \o <<"rejectionReason">> = keys
    <3>1. <<"state", "amount">> \o <<"rejectionReason">> = keys
      BY <1>2, ShortSequences
    <3> QED BY <1>0, <3>1
  <2> QED BY <2>3, <2>4
<1>3. CASE keys = <<"state", "amount", "railTxId">>
  <2>1. /\ Len(keys) = 3
        /\ keys[1] = "state" /\ keys[2] = "amount" /\ keys[3] = "railTxId"
    BY <1>3
  <2>2. /\ Contains(keys, "state") /\ Contains(keys, "amount")
        /\ Contains(keys, "railTxId") /\ ~Contains(keys, "rejectionReason")
    BY <2>1 DEF Contains
  <2>3. Jsonb(keys) = <<"state">> \o <<"amount">> \o <<"railTxId">> \o <<>>
    BY <2>2 DEF Jsonb
  <2>4. <<"state">> \o <<"amount">> \o <<"railTxId">> \o <<>> = keys
    <3>1. <<"state", "amount">> \o <<"railTxId">> = keys /\ keys \o <<>> = keys
      BY <1>3, ShortSequences
    <3> QED BY <1>0, <3>1
  <2> QED BY <2>3, <2>4
<1> QED BY <1>1, <1>2, <1>3 DEF SortedKeys
\* A record is read back from its row as it was written, and hashed to the same.
LEMMA RecordsComeBack ==
  ASSUME NEW r \in RecordType
  PROVE  /\ AuditRow(r) = r /\ Reload(r) = r
         /\ r.payment \in Payments /\ r.state \in States /\ r.time \in 0 .. MaxTime
<1>1. PICK p \in Payments, s \in States, time \in 0 .. MaxTime, keys \in SortedKeys :
        r = AuditRecord(p, s, time, keys)
  BY DEF RecordType
<1>2. Jsonb(keys) = keys
  BY KeysComeBack
<1>3. r = [payment |-> p, state |-> s, time |-> time, keys |-> keys, hash |-> r.hash]
  BY <1>1 DEF AuditRecord
<1>4. AuditRow(r) = r
  BY <1>2, <1>3 DEF AuditRow
<1>5. Reload(r) = r
  BY <1>1, <1>3 DEF Reload
<1> QED BY <1>3, <1>4, <1>5

\* Nothing has been audited at the start.
LEMMA InitTrail == Init => TrailInv
<1> SUFFICES ASSUME Init PROVE TrailInv
  OBVIOUS
<1>1. trail = <<>> /\ DOMAIN trail = {} /\ trail \in Seq(RecordType)
  BY DEF Init
<1>2. sending \in [Payments -> Seq(RecordType)] /\ \A p \in Payments : SendingIsLast(p)
  BY DEF Init, SendingIsLast
<1>3. auditRows = {trail[i] : i \in Inserted}
  BY <1>1 DEF Init, Inserted
<1>4. \A p \in Payments : payment[p].has = {}
  BY DEF Init, NoPayment
<1> QED BY <1>1, <1>2, <1>3, <1>4 DEF TrailInv

\* What the trail is made of.
LEMMA TrailIsTyped ==
  ASSUME TrailInv
  PROVE  /\ Len(trail) \in Nat /\ DOMAIN trail = 1 .. Len(trail)
         /\ \A i \in DOMAIN trail :
              /\ trail[i] \in RecordType /\ trail[i].payment \in Payments
              /\ trail[i].state \in States /\ trail[i].time \in Nat
<1>1. trail \in Seq(RecordType)
  BY DEF TrailInv
<1>2. \A i \in DOMAIN trail : trail[i] \in RecordType
  BY <1>1
<1>3. \A r \in RecordType : r.payment \in Payments /\ r.state \in States /\ r.time \in Nat
  BY RecordsComeBack
<1> QED BY <1>1, <1>2, <1>3

\* Steps that make no record and insert none.
LEMMA QuietTrail ==
  ASSUME Inv, TrailInv, UNCHANGED <<trail, sending, auditRows>>, now' \in Nat, now <= now',
         \A p \in Payments :
           /\ payment'[p].state \in States
           /\ pc'[p] = "sending" <=> pc[p] = "sending"
           /\ Rank[payment[p].state] <= Rank[payment'[p].state]
           /\ pc'[p] \in {"changed", "saved", "refused"} =>
                \/ pc[p] \in {"changed", "saved", "refused"} /\ payment'[p].state = payment[p].state
                \/ Rank[payment[p].state] # Rank[payment'[p].state]
           /\ "reason" \in payment'[p].has => payment'[p].state = "failed"
           /\ "rail" \in payment'[p].has => payment'[p].state = "settled"
  PROVE  TrailInv'
<1>1. Inserted' = Inserted /\ trail' = trail /\ sending' = sending /\ auditRows' = auditRows
  BY DEF Inserted
<1>2. \A s \in States : Rank[s] \in Nat
  BY DEF Rank
<1>3. \A p \in Payments : payment[p].state \in States /\ now \in Nat
  BY DEF Inv, TypeOK, PaymentType, States
<1>4. ASSUME NEW i \in DOMAIN trail PROVE trail[i].time <= now' /\ Told(trail[i])'
  <2>1. trail[i].payment \in Payments /\ trail[i].state \in States /\ trail[i].time \in Nat
    BY TrailIsTyped
  <2>2. trail[i].time <= now /\ Told(trail[i])
    BY DEF TrailInv
  <2>3. PICK p \in Payments : p = trail[i].payment
    BY <2>1
  <2>4. /\ Rank[trail[i].state] <= Rank[payment[p].state]
        /\ pc[p] \in {"changed", "saved", "refused"} =>
             Rank[trail[i].state] # Rank[payment[p].state]
    BY <2>2, <2>3 DEF Told
  <2>5. PICK x \in Nat, y \in Nat, z \in Nat :
          x = Rank[trail[i].state] /\ y = Rank[payment[p].state] /\ z = Rank[payment'[p].state]
    BY <1>2, <1>3, <2>1
  <2>6. x <= y /\ y <= z /\ (pc'[p] \in {"changed", "saved", "refused"} => x # z)
    BY <2>4, <2>5
  <2>7. x <= z
    BY <2>6
  <2>8. Told(trail[i])'
    BY <1>1, <2>3, <2>5, <2>6, <2>7 DEF Told
  <2> QED BY <1>3, <2>1, <2>2, <2>8
<1>5. \A p \in Payments : SendingIsLast(p)'
  BY <1>1 DEF TrailInv, SendingIsLast
<1> QED BY <1>1, <1>4, <1>5 DEF TrailInv

\* What recordAudit writes of a payment.
LEMMA KeysAreSorted ==
  ASSUME Inv, TrailInv, NEW p \in Payments
  PROVE  afterState(p) \in SortedKeys
<1>1. ~("reason" \in payment[p].has /\ "rail" \in payment[p].has)
  BY DEF TrailInv
<1>2. <<"state", "amount">> \o <<>> = <<"state", "amount">>
  BY ShortSequences
<1>3. <<"state", "amount">> \o <<"railTxId">> = <<"state", "amount", "railTxId">>
  BY ShortSequences
<1>4. <<"state", "amount">> \o <<"rejectionReason">> = <<"state", "amount", "rejectionReason">>
      /\ <<"state", "amount", "rejectionReason">> \o <<>> = <<"state", "amount", "rejectionReason">>
  BY ShortSequences
<1>5. CASE "reason" \in payment[p].has
  BY <1>1, <1>4, <1>5 DEF afterState, SortedKeys
<1>6. CASE "reason" \notin payment[p].has /\ "rail" \in payment[p].has
  BY <1>2, <1>3, <1>6 DEF afterState, SortedKeys
<1>7. CASE "reason" \notin payment[p].has /\ "rail" \notin payment[p].has
  BY <1>2, <1>7 DEF afterState, SortedKeys
<1> QED BY <1>5, <1>6, <1>7

\* A record is made of a payment that none yet tells to have come so far.
LEMMA BuildTrail ==
  ASSUME Inv, TrailInv, NEW p \in Payments, Build(p)
  PROVE  TrailInv'
<1> DEFINE record == AuditRecord(p, payment[p].state, now, afterState(p))
<1>0. PICK n \in Nat : n = Len(trail)
  BY TrailIsTyped
<1>1. /\ pc[p] = "saved" /\ trail' = Append(trail, record)
      /\ sending' = [sending EXCEPT ![p] = <<record>>] /\ pc' = [pc EXCEPT ![p] = "sending"]
      /\ UNCHANGED <<payment, auditRows, now>>
  BY DEF Build, Goto
<1>2. /\ payment[p].state \in States /\ now \in 0 .. MaxTime /\ now \in Nat
      /\ pc \in [Payments -> {"new", "idle", "changed", "saved", "sending", "done", "refused"}]
  BY DEF Inv, TypeOK, PaymentType, States
<1>3. record \in RecordType
  BY <1>2, KeysAreSorted DEF RecordType
<1>4. record.payment = p /\ record.state = payment[p].state /\ record.time = now
  BY DEF AuditRecord
<1> HIDE DEF record
<1>5. trail \in Seq(RecordType) /\ sending \in [Payments -> Seq(RecordType)] /\ n \in Nat
      /\ n = Len(trail) /\ DOMAIN trail = 1 .. n
  BY <1>0 DEF TrailInv
<1>6. /\ trail' \in Seq(RecordType) /\ DOMAIN trail' = 1 .. n + 1
      /\ trail'[n + 1] = record /\ \A i \in 1 .. n : trail'[i] = trail[i]
  BY <1>1, <1>3, <1>5
<1>7. sending' \in [Payments -> Seq(RecordType)] /\ sending'[p] = <<record>>
      /\ \A o \in Payments \ {p} : sending'[o] = sending[o]
  BY <1>1, <1>3, <1>5
<1>8. pc'[p] = "sending" /\ \A o \in Payments \ {p} : pc'[o] = pc[o]
  BY <1>1, <1>2
<1>9. \A i \in 1 .. n : /\ trail[i] \in RecordType /\ trail[i].payment \in Payments
                        /\ trail[i].state \in States /\ trail[i].time \in Nat
                        /\ trail[i].time <= now /\ Told(trail[i])
  BY <1>5, TrailIsTyped DEF TrailInv
<1>10. \A i, j \in DOMAIN trail' : i < j => trail'[i].time <= trail'[j].time
  <2>1. ASSUME NEW i \in DOMAIN trail', NEW j \in DOMAIN trail', i < j
        PROVE  trail'[i].time <= trail'[j].time
    <3>1. i \in 1 .. n
      BY <1>5, <1>6, <2>1
    <3>2. CASE j \in 1 .. n
      BY <1>5, <1>6, <2>1, <3>1, <3>2 DEF TrailInv
    <3>3. CASE j = n + 1
      BY <1>4, <1>6, <1>9, <3>1, <3>3
    <3> QED BY <1>5, <1>6, <3>2, <3>3
  <2> QED BY <2>1
<1>11. \A i \in 1 .. n : trail[i].payment = p => trail[i].state # record.state
  BY <1>1, <1>4, <1>9 DEF Told
<1>12. \A i \in DOMAIN trail' : trail'[i].time <= now' /\ Told(trail[i])'
  <2>1. \A s \in States : Rank[s] \in Nat
    BY DEF Rank
  <2>2. now' <= now' /\ now' = now /\ payment' = payment
    BY <1>1, <1>2
  <2>3. ASSUME NEW i \in 1 .. n PROVE Told(trail[i])'
    <3>1. PICK r \in RecordType : r = trail'[i] /\ r = trail[i]
      BY <1>6, <1>9
    <3>2. Told(r) /\ r.payment \in Payments
      BY <1>9, <3>1
    <3>3. PICK o \in Payments : o = r.payment
      BY <3>2
    <3>4. pc'[o] \in {"changed", "saved", "refused"} => pc[o] \in {"changed", "saved", "refused"}
      BY <1>8
    <3>5. /\ Rank[r.state] <= Rank[payment[o].state]
          /\ pc[o] \in {"changed", "saved", "refused"} => Rank[r.state] # Rank[payment[o].state]
      BY <3>2, <3>3 DEF Told
    <3>6. Told(r)'
      BY <2>2, <3>3, <3>4, <3>5 DEF Told
    <3> QED BY <3>1, <3>6
  <2>4. Told(trail[n + 1])'
    <3>1. Rank[payment[p].state] <= Rank[payment[p].state]
      BY <1>2, <2>1
    <3>2. PICK r : r = trail'[n + 1] /\ r.payment = p /\ r.state = payment[p].state
      BY <1>4, <1>6
    <3>3. Told(r)'
      BY <1>8, <2>2, <3>1, <3>2 DEF Told
    <3> QED BY <3>2, <3>3
  <2>5. ASSUME NEW i \in DOMAIN trail' PROVE trail'[i].time <= now' /\ Told(trail[i])'
    <3>1. CASE i \in 1 .. n
      BY <1>6, <1>9, <2>2, <2>3, <3>1
    <3>2. CASE i = n + 1
      BY <1>4, <1>6, <2>2, <2>4, <3>2
    <3> QED BY <1>5, <1>6, <3>1, <3>2
  <2> QED BY <2>5
<1>13. \A i, j \in DOMAIN trail' :
         trail'[i].payment = trail'[j].payment /\ trail'[i].state = trail'[j].state => i = j
  <2>1. ASSUME NEW i \in DOMAIN trail', NEW j \in DOMAIN trail',
               trail'[i].payment = trail'[j].payment, trail'[i].state = trail'[j].state
        PROVE  i = j
    <3>1. CASE i \in 1 .. n /\ j \in 1 .. n
      BY <1>5, <1>6, <2>1, <3>1 DEF TrailInv
    <3>2. CASE i = n + 1 /\ j \in 1 .. n
      BY <1>4, <1>6, <1>11, <2>1, <3>2
    <3>3. CASE i \in 1 .. n /\ j = n + 1
      BY <1>4, <1>6, <1>11, <2>1, <3>3
    <3> QED BY <1>5, <1>6, <3>1, <3>2, <3>3
  <2> QED BY <2>1
<1>14. ASSUME NEW o \in Payments PROVE SendingIsLast(o)'
  <2>1. CASE o = p
    <3>1. n + 1 \in DOMAIN trail'
      BY <1>5, <1>6
    <3> QED BY <1>4, <1>6, <1>7, <1>8, <2>1, <3>1 DEF SendingIsLast
  <2>2. CASE o # p
    <3>1. SendingIsLast(o) /\ DOMAIN trail \subseteq DOMAIN trail'
      BY <1>5, <1>6 DEF TrailInv
    <3>2. \A i \in DOMAIN trail : trail'[i] = trail[i]
      BY <1>5, <1>6
    <3>3. sending'[o] = sending[o] /\ pc'[o] = pc[o]
      BY <1>7, <1>8, <2>2
    <3> QED BY <3>1, <3>2, <3>3 DEF SendingIsLast
  <2> QED BY <2>1, <2>2
<1>15. Inserted' = Inserted
  <2>1. sending[p] = <<>>
    BY <1>1 DEF TrailInv, SendingIsLast
  <2>2. ASSUME NEW i \in 1 .. n
        PROVE  sending[trail[i].payment] # <<trail[i]>>
                 <=> sending'[trail[i].payment] # <<trail[i]>>
    <3>1. CASE trail[i].payment = p
      <4>1. trail[i] # record
        BY <1>11, <3>1
      <4> QED BY <1>7, <2>1, <3>1, <4>1
    <3>2. CASE trail[i].payment # p
      BY <1>7, <1>9, <3>2
    <3> QED BY <3>1, <3>2
  <2>3. Inserted' = {i \in DOMAIN trail' : sending'[trail'[i].payment] # <<trail'[i]>>}
    BY DEF Inserted
  <2>4. n + 1 \notin Inserted'
    BY <1>4, <1>6, <1>7, <2>3
  <2>5. ASSUME NEW i \in 1 .. n PROVE i \in Inserted' <=> i \in Inserted
    <3>1. i \in DOMAIN trail /\ i \in DOMAIN trail' /\ trail'[i] = trail[i]
      BY <1>5, <1>6
    <3>2. i \in Inserted' <=> sending'[trail[i].payment] # <<trail[i]>>
      BY <2>3, <3>1
    <3>3. i \in Inserted <=> sending[trail[i].payment] # <<trail[i]>>
      BY <3>1 DEF Inserted
    <3> QED BY <2>2, <3>2, <3>3
  <2>6. Inserted' \subseteq 1 .. n + 1 /\ Inserted \subseteq 1 .. n
    BY <1>5, <1>6, <2>3 DEF Inserted
  <2>7. \A i \in 1 .. n + 1 : i \in 1 .. n \/ i = n + 1
    BY <1>5
  <2> QED BY <2>4, <2>5, <2>6, <2>7
<1>16. auditRows' = {trail'[i] : i \in Inserted'}
  <2>1. auditRows = {trail[i] : i \in Inserted} /\ Inserted \subseteq 1 .. n
    BY <1>5 DEF TrailInv, Inserted
  <2>2. \A i \in Inserted : trail'[i] = trail[i]
    BY <1>6, <2>1
  <2> QED BY <1>1, <1>15, <2>1, <2>2
<1>17. \A o \in Payments :
         /\ "reason" \in payment'[o].has => payment'[o].state = "failed"
         /\ "rail" \in payment'[o].has => payment'[o].state = "settled"
  BY <1>1 DEF TrailInv
<1> QED BY <1>6, <1>7, <1>10, <1>12, <1>13, <1>14, <1>16, <1>17 DEF TrailInv

\* The record an execution was inserting has its row.
LEMMA InsertTrail ==
  ASSUME Inv, TrailInv, NEW p \in Payments, Insert(p)
  PROVE  TrailInv'
<1>1. /\ pc[p] = "sending" /\ auditRows' = auditRows \cup {AuditRow(sending[p][1])}
      /\ sending' = [sending EXCEPT ![p] = <<>>] /\ UNCHANGED <<payment, trail, now>>
  BY DEF Insert
<1>2. PICK to \in {"done", "idle"} : pc' = [pc EXCEPT ![p] = to]
  BY DEF Insert, Goto
<1>3. /\ pc \in [Payments -> {"new", "idle", "changed", "saved", "sending", "done", "refused"}]
      /\ sending \in [Payments -> Seq(RecordType)] /\ now \in Nat
  BY DEF Inv, TypeOK, TrailInv
<1>4. pc'[p] = to /\ \A o \in Payments \ {p} : pc'[o] = pc[o]
  BY <1>2, <1>3
<1>5. /\ sending'[p] = <<>> /\ \A o \in Payments \ {p} : sending'[o] = sending[o]
      /\ sending' \in [Payments -> Seq(RecordType)]
  BY <1>1, <1>3
<1>6. PICK k \in DOMAIN trail : trail[k].payment = p /\ sending[p] = <<trail[k]>>
  BY <1>1 DEF TrailInv, SendingIsLast
<1>7. AuditRow(sending[p][1]) = trail[k]
  <2>1. sending[p][1] = trail[k]
    BY <1>6
  <2>2. trail[k] \in RecordType
    BY TrailIsTyped
  <2> QED BY <2>1, <2>2, RecordsComeBack
<1>8. Inserted' = Inserted \cup {k}
  <2>1. Inserted' = {i \in DOMAIN trail : sending'[trail[i].payment] # <<trail[i]>>}
    BY <1>1 DEF Inserted
  <2>2. ASSUME NEW i \in DOMAIN trail PROVE i \in Inserted' <=> i \in Inserted \/ i = k
    <3>1. CASE trail[i].payment # p
      <4>1. trail[i].payment \in Payments \ {p}
        BY <3>1, TrailIsTyped
      <4> QED BY <1>5, <1>6, <2>1, <3>1, <4>1 DEF Inserted
    <3>2. CASE trail[i].payment = p
      <4>1. i \in Inserted'
        <5>1. sending'[trail[i].payment] = <<>>
          BY <1>5, <3>2
        <5>2. Len(<<>>) = 0 /\ Len(<<trail[i]>>) = 1
          OBVIOUS
        <5>3. sending'[trail[i].payment] # <<trail[i]>>
          BY <5>1, <5>2
        <5> QED BY <2>1, <5>3
      <4>2. i # k => trail[i] # trail[k]
        BY DEF TrailInv
      <4>3. i # k => sending[p] # <<trail[i]>>
        BY <1>6, <4>2
      <4> QED BY <3>2, <4>1, <4>3 DEF Inserted
    <3> QED BY <3>1, <3>2
  <2>3. Inserted' \subseteq DOMAIN trail /\ Inserted \subseteq DOMAIN trail
    BY <2>1 DEF Inserted
  <2> QED BY <2>2, <2>3
<1>9. auditRows' = {trail'[i] : i \in Inserted'}
  <2>1. auditRows = {trail[i] : i \in Inserted}
    BY DEF TrailInv
  <2>2. trail' = trail
    BY <1>1
  <2> QED BY <1>1, <1>7, <1>8, <2>1, <2>2
<1>10. ASSUME NEW i \in DOMAIN trail PROVE trail[i].time <= now' /\ Told(trail[i])'
  <2>1. trail[i].time <= now /\ Told(trail[i]) /\ trail[i].payment \in Payments
    BY TrailIsTyped DEF TrailInv
  <2>2. PICK r \in RecordType : r = trail[i] /\ r = trail'[i]
    BY <1>1, TrailIsTyped
  <2>3. pc'[r.payment] \in {"changed", "saved", "refused"} =>
          pc[r.payment] \in {"changed", "saved", "refused"}
    BY <1>4, <2>1, <2>2
  <2>4. Told(r)'
    BY <1>1, <2>1, <2>2, <2>3 DEF Told
  <2> QED BY <1>1, <2>1, <2>2, <2>4
<1>11. ASSUME NEW o \in Payments PROVE SendingIsLast(o)'
  <2>1. CASE o = p
    BY <1>4, <1>5, <2>1 DEF SendingIsLast
  <2>2. CASE o # p
    <3>1. sending'[o] = sending[o] /\ pc'[o] = pc[o] /\ trail' = trail
      BY <1>1, <1>4, <1>5, <2>2
    <3> QED BY <3>1 DEF TrailInv, SendingIsLast
  <2> QED BY <2>1, <2>2
<1> QED BY <1>1, <1>5, <1>9, <1>10, <1>11 DEF TrailInv

\* Every step keeps the trail and its rows together.
LEMMA NextTrail ==
  ASSUME Inv, TrailInv, [Next]_vars
  PROVE  TrailInv'
<1>1. /\ TypeOK /\ now \in 0 .. MaxTime /\ now \in Nat /\ now <= now
      /\ pc \in [Payments -> {"new", "idle", "changed", "saved", "sending", "done", "refused"}]
      /\ \A p \in Payments : payment[p] \in PaymentType /\ payment[p].state \in States
  BY DEF Inv, TypeOK, PaymentType, States
<1>2. \A s \in States : Rank[s] \in Nat /\ Rank[s] <= Rank[s]
  BY DEF Rank
<1>3. \A p \in Payments : /\ "reason" \in payment[p].has => payment[p].state = "failed"
                          /\ "rail" \in payment[p].has => payment[p].state = "settled"
  BY DEF TrailInv
<1>4. ASSUME NEW p \in Payments, Create(p) PROVE TrailInv'
  <2> DEFINE new == [payment[p] EXCEPT !.state = "quoted", !.created = now, !.updated = now]
  <2>1. /\ payment' = [payment EXCEPT ![p] = new] /\ pc' = [pc EXCEPT ![p] = "idle"]
        /\ UNCHANGED <<trail, sending, auditRows, now>> /\ pc[p] = "new"
    <3>1. payment' = [payment EXCEPT ![p] = new]
      BY <1>4 DEF Create
    <3> QED BY <1>4, <3>1 DEF Create, Goto
  <2>2. payment[p] = NoPayment
    BY <2>1 DEF Inv, RowIsSound
  <2>3. new.state = "quoted" /\ new.has = {} /\ payment[p].state = "none"
    BY <2>2 DEF NoPayment
  <2> HIDE DEF new
  <2>4. payment'[p] = new /\ pc'[p] = "idle"
        /\ \A o \in Payments \ {p} : payment'[o] = payment[o] /\ pc'[o] = pc[o]
    BY <1>1, <2>1 DEF TypeOK
  <2>5. Rank["none"] <= Rank["quoted"] /\ "quoted" \in States
    BY DEF Rank, States
  <2>6. now' \in Nat /\ now <= now'
    BY <1>1, <2>1
  <2>7. ASSUME NEW o \in Payments
        PROVE  /\ payment'[o].state \in States
               /\ pc'[o] = "sending" <=> pc[o] = "sending"
               /\ Rank[payment[o].state] <= Rank[payment'[o].state]
               /\ pc'[o] \in {"changed", "saved", "refused"} =>
                    \/ /\ pc[o] \in {"changed", "saved", "refused"}
                       /\ payment'[o].state = payment[o].state
                    \/ Rank[payment[o].state] # Rank[payment'[o].state]
               /\ "reason" \in payment'[o].has => payment'[o].state = "failed"
               /\ "rail" \in payment'[o].has => payment'[o].state = "settled"
    <3>1. CASE o = p
      BY <2>1, <2>3, <2>4, <2>5, <3>1
    <3>2. CASE o # p
      BY <1>1, <1>2, <1>3, <2>4, <3>2
    <3> QED BY <3>1, <3>2
  <2> QED BY <2>1, <2>6, <2>7, QuietTrail
<1>5. ASSUME NEW p \in Payments, Deny(p) \/ Validate(p) \/ Commit(p) \/ Settle(p) PROVE TrailInv'
  <2>1. PICK from \in {"quoted", "validated", "committed"},
             to \in {"validated", "committed", "settled", "failed"} :
          /\ Change(p, from, to)
          /\ <<from, to>> \in {<<"quoted", "failed">>, <<"quoted", "validated">>,
                               <<"validated", "committed">>, <<"committed", "settled">>}
    BY <1>5 DEF Deny, Validate, Commit, Settle
  <2>2. from \in States /\ to \in States /\ Rank[from] < Rank[to]
    BY <2>1 DEF Rank, States
  <2> DEFINE has == payment[p].has \cup Gains(to)
             new == [payment[p] EXCEPT !.state = to, !.updated = now, !.has = has]
  <2>3. /\ payment' = [payment EXCEPT ![p] = new] /\ pc' = [pc EXCEPT ![p] = "changed"]
        /\ UNCHANGED <<trail, sending, auditRows, now>> /\ pc[p] = "idle"
        /\ payment[p].state = from
    <3>1. payment' = [payment EXCEPT ![p] = new]
      BY <2>1 DEF Change
    <3> QED BY <2>1, <3>1 DEF Change, Goto
  <2>4. new.state = to /\ new.has = has
    <3> HIDE DEF has
    <3> QED BY <1>1 DEF PaymentType
  <2>5. ("reason" \in has => to = "failed") /\ ("rail" \in has => to = "settled")
    <3>1. "reason" \notin payment[p].has /\ "rail" \notin payment[p].has
      BY <1>3, <2>1, <2>3
    <3> QED BY <3>1 DEF Gains
  <2> HIDE DEF has, new
  <2>6. payment'[p] = new /\ pc'[p] = "changed"
        /\ \A o \in Payments \ {p} : payment'[o] = payment[o] /\ pc'[o] = pc[o]
    BY <1>1, <2>3 DEF TypeOK
  <2>7. now' \in Nat /\ now <= now'
    BY <1>1, <2>3
  <2>8. Rank[from] <= Rank[to] /\ Rank[from] # Rank[to]
    BY <1>2, <2>2
  <2>9. ASSUME NEW o \in Payments
        PROVE  /\ payment'[o].state \in States
               /\ pc'[o] = "sending" <=> pc[o] = "sending"
               /\ Rank[payment[o].state] <= Rank[payment'[o].state]
               /\ pc'[o] \in {"changed", "saved", "refused"} =>
                    \/ /\ pc[o] \in {"changed", "saved", "refused"}
                       /\ payment'[o].state = payment[o].state
                    \/ Rank[payment[o].state] # Rank[payment'[o].state]
               /\ "reason" \in payment'[o].has => payment'[o].state = "failed"
               /\ "rail" \in payment'[o].has => payment'[o].state = "settled"
    <3>1. CASE o = p
      BY <2>2, <2>3, <2>4, <2>5, <2>6, <2>8, <3>1
    <3>2. CASE o # p
      BY <1>1, <1>2, <1>3, <2>6, <3>2
    <3> QED BY <3>1, <3>2
  <2> QED BY <2>3, <2>7, <2>9, QuietTrail
<1>6. ASSUME NEW p \in Payments, Save(p) PROVE TrailInv'
  <2>1. UNCHANGED <<payment, trail, sending, auditRows, now>> /\ pc[p] = "changed"
    BY <1>6 DEF Save
  <2>2. pc'[p] \in {"saved", "refused"} /\ \A o \in Payments \ {p} : pc'[o] = pc[o]
    BY <1>1, <1>6 DEF Save, Goto
  <2>3. \A o \in Payments :
          /\ pc'[o] = "sending" <=> pc[o] = "sending"
          /\ pc'[o] \in {"changed", "saved", "refused"} => pc[o] \in {"changed", "saved", "refused"}
    BY <2>1, <2>2
  <2> QED BY <1>1, <1>2, <1>3, <2>1, <2>3, QuietTrail
<1>7. ASSUME NEW p \in Payments, Build(p) PROVE TrailInv'
  BY <1>7, BuildTrail
<1>8. ASSUME NEW p \in Payments, Insert(p) PROVE TrailInv'
  BY <1>8, InsertTrail
<1>9. CASE (\E q \in {QuoteOf[p] : p \in Payments} \ {None} : SaveQuote(q)) \/ Tick \/ Finished
             \/ UNCHANGED vars
  <2>1. UNCHANGED <<payment, pc, trail, sending, auditRows>>
    BY <1>9 DEF SaveQuote, Tick, Finished, vars
  <2>2. now' \in Nat /\ now <= now'
    BY <1>1, <1>9 DEF SaveQuote, Tick, Finished, vars
  <2> QED BY <1>1, <1>2, <1>3, <2>1, <2>2, QuietTrail
<1> QED BY <1>4, <1>5, <1>6, <1>7, <1>8, <1>9 DEF Next

\* Once nobody is inserting, every record has its row.
LEMMA AllInserted ==
  ASSUME TrailInv, \A p \in Payments : sending[p] = <<>>
  PROVE  auditRows = {trail[i] : i \in DOMAIN trail}
<1>1. \A i \in DOMAIN trail : sending[trail[i].payment] = <<>>
  BY TrailIsTyped
<1>2. \A i \in DOMAIN trail : <<>> # <<trail[i]>>
  <2>1. \A i \in DOMAIN trail : Len(<<>>) = 0 /\ Len(<<trail[i]>>) = 1
    OBVIOUS
  <2> QED BY <2>1
<1>3. Inserted = DOMAIN trail
  BY <1>1, <1>2 DEF Inserted
<1> QED BY <1>3 DEF TrailInv

\* What the trail is filtered to is what the rows of the same records are read as.
LEMMA Listed ==
  ASSUME TrailInv, NEW I \in SUBSET DOMAIN trail, NEW R \in SUBSET {trail[i] : i \in DOMAIN trail},
         \A i \in DOMAIN trail : i \in I <=> trail[i] \in R
  PROVE  /\ Oldest(filter(trail, I), {Reload(r) : r \in R})
         /\ filter(trail, I) \in Seq(RecordType)
         /\ \A a, b \in DOMAIN filter(trail, I) :
              filter(trail, I)[a] = filter(trail, I)[b] => a = b
<1> DEFINE list == filter(trail, I)
           records == {Reload(r) : r \in R}
<1>1. /\ trail \in Seq(RecordType)
      /\ \A i \in DOMAIN trail : trail[i] \in RecordType
  BY TrailIsTyped DEF TrailInv
<1>2. records = {trail[i] : i \in I}
  <2>1. \A i \in DOMAIN trail : Reload(trail[i]) = trail[i]
    BY <1>1, RecordsComeBack
  <2>2. ASSUME NEW x \in records PROVE \E i \in I : x = trail[i]
    BY <2>1
  <2>3. ASSUME NEW i \in I PROVE trail[i] \in records
    BY <2>1
  <2> HIDE DEF records
  <2> QED BY <2>2, <2>3
<1> HIDE DEF records
<1>3. /\ list \in Seq(RecordType) /\ IsFiniteSet(I) /\ Len(list) = Cardinality(I)
      /\ ToSet(list) = {trail[i] : i \in I}
      /\ \A a, b \in DOMAIN list :
           a < b => \E i, j \in I : i < j /\ list[a] = trail[i] /\ list[b] = trail[j]
  BY <1>1, Filtered
<1> HIDE DEF list
<1>4. \A i, j \in I : trail[i] = trail[j] => i = j
  BY DEF TrailInv
<1>5. Cardinality(records) = Cardinality(I)
  <2>1. /\ IsFiniteSet({trail[i] : i \in I})
        /\ Cardinality({trail[i] : i \in I}) = Cardinality(I)
    BY <1>3, <1>4, AsManyElements
  <2> QED BY <1>2, <2>1
<1>6. ASSUME NEW a \in DOMAIN list, NEW b \in DOMAIN list, a < b
      PROVE  list[a].time <= list[b].time /\ list[a] # list[b]
  <2>1. PICK i \in I, j \in I : i < j /\ list[a] = trail[i] /\ list[b] = trail[j]
    BY <1>3, <1>6
  <2>2. i \in DOMAIN trail /\ j \in DOMAIN trail /\ i \in Int /\ j \in Int
    BY <1>1
  <2>3. trail[i].time <= trail[j].time
    BY <2>1, <2>2 DEF TrailInv
  <2>4. trail[i] # trail[j]
    BY <1>4, <2>1, <2>2
  <2> QED BY <2>1, <2>3, <2>4
<1>7. ASSUME NEW a \in DOMAIN list, NEW b \in DOMAIN list, list[a] = list[b] PROVE a = b
  <2>1. ~(a < b) /\ ~(b < a) /\ a \in Int /\ b \in Int
    BY <1>3, <1>6, <1>7
  <2> QED BY <2>1
<1>8. Oldest(list, records)
  BY <1>2, <1>3, <1>5, <1>6 DEF Oldest
<1> QED BY <1>3, <1>7, <1>8 DEF list, records

\* Where the last of n elements begin.
Start(n, limit) == IF n > limit THEN n - limit + 1 ELSE 1

\* It is a position, or the next one, and there are as many from there as asked for.
LEMMA Window ==
  ASSUME NEW n \in Nat, NEW limit \in Nat
  PROVE  /\ Start(n, limit) \in Nat /\ 1 <= Start(n, limit) /\ Start(n, limit) <= n + 1
         /\ n - Start(n, limit) + 1 \in Nat
         /\ n - Start(n, limit) + 1 = IF n < limit THEN n ELSE limit
<1>1. CASE n > limit
  <2>1. Start(n, limit) = n - limit + 1
    BY <1>1 DEF Start
  <2> QED BY <1>1, <2>1
<1>2. CASE ~(n > limit)
  BY <1>2 DEF Start
<1> QED BY <1>1, <1>2

\* The first numbers are as many.
LEMMA UpTo ==
  ASSUME NEW m \in Nat
  PROVE  IsFiniteSet(1 .. m) /\ Cardinality(1 .. m) = m
<1>1. IsFiniteSet(1 .. m) /\ Cardinality(1 .. m) = IF 1 > m THEN 0 ELSE m - 1 + 1
  BY FS_Interval
<1> QED BY <1>1

\* Where an element is that is counted from the last.
LEMMA FromTheLast ==
  ASSUME NEW n \in Nat, NEW k \in Nat, 1 <= k, k <= n + 1, NEW m \in Nat, m = n - k + 1,
         NEW i \in 1 .. m
  PROVE  /\ (m - i) + 1 \in 1 .. m /\ k + ((m - i) + 1) - 1 = n + 1 - i
         /\ n + 1 - i \in k .. n /\ n + 1 - i \in 1 .. n
OBVIOUS

\* A list without repetitions has as many elements.
LEMMA NoRepetitions ==
  ASSUME NEW S, NEW list \in Seq(S), \A i, j \in DOMAIN list : list[i] = list[j] => i = j
  PROVE  Cardinality(ToSet(list)) = Len(list)
<1>1. Len(list) \in Nat /\ DOMAIN list = 1 .. Len(list)
  OBVIOUS
<1> DEFINE I == DOMAIN list
<1>2. IsFiniteSet(I) /\ Cardinality(I) = Len(list)
  BY <1>1, UpTo
<1>3. I \in SUBSET DOMAIN list /\ \A i, j \in I : list[i] = list[j] => i = j
  OBVIOUS
<1>4. ToSet(list) = {list[i] : i \in I}
  BY DEF ToSet
<1> HIDE DEF I
<1>5. IsFiniteSet({list[i] : i \in I}) /\ Cardinality({list[i] : i \in I}) = Cardinality(I)
  BY <1>2, <1>3, AsManyElements
<1> QED BY <1>2, <1>4, <1>5

\* The last of a list, newest first.
NewestFirst(list, limit) == Reverse(SubSeq(list, Start(Len(list), limit), Len(list)))

IsNewest(last, records, limit) ==
  /\ Len(last) = IF Cardinality(records) < limit THEN Cardinality(records) ELSE limit
  /\ ToSet(last) \subseteq records /\ Cardinality(ToSet(last)) = Len(last)
  /\ \A i, j \in DOMAIN last : i < j => last[j].time <= last[i].time
  /\ \A r \in records \ ToSet(last), i \in DOMAIN last : r.time <= last[i].time

\* So they are found from a list that is oldest first.
LEMMA NewestOf ==
  ASSUME NEW list \in Seq(RecordType), NEW records, NEW limit \in Nat, Oldest(list, records),
         \A a, b \in DOMAIN list : list[a] = list[b] => a = b
  PROVE  IsNewest(NewestFirst(list, limit), records, limit)
<1>0. PICK last : last = NewestFirst(list, limit)
  OBVIOUS
<1>1. PICK n \in Nat : n = Len(list)
  OBVIOUS
<1>2. DOMAIN list = 1 .. n /\ \A a \in 1 .. n : list[a] \in RecordType
  BY <1>1
<1>3. /\ n = Cardinality(records) /\ ToSet(list) = records
      /\ \A a, b \in 1 .. n : a < b => list[a].time <= list[b].time
  BY <1>1, <1>2 DEF Oldest
<1>4. PICK k : k = Start(n, limit)
  OBVIOUS
<1>5. /\ k \in Nat /\ 1 <= k /\ k <= n + 1 /\ n - k + 1 \in Nat
      /\ n - k + 1 = IF n < limit THEN n ELSE limit
  BY <1>4, Window
<1>6. PICK m \in Nat : m = n - k + 1 /\ m = IF n < limit THEN n ELSE limit
  BY <1>5
<1>7. last = Reverse(SubSeq(list, k, n))
  BY <1>0, <1>1, <1>4 DEF NewestFirst
<1>8. PICK some : some = SubSeq(list, k, n)
  OBVIOUS
<1>9. /\ some \in Seq(RecordType) /\ Len(some) = m
      /\ \A a \in 1 .. m : some[a] = list[k + a - 1]
  <2>1. \A a \in k .. n : list[a] \in RecordType
    BY <1>2, <1>5
  <2>2. /\ SubSeq(list, k, n) \in Seq(RecordType)
        /\ Len(SubSeq(list, k, n)) = IF k <= n THEN n - k + 1 ELSE 0
        /\ \A a \in 1 .. n - k + 1 : SubSeq(list, k, n)[a] = list[k + a - 1]
    BY <1>5, <2>1, SubSeqProperties
  <2>3. /\ some \in Seq(RecordType) /\ Len(some) = IF k <= n THEN n - k + 1 ELSE 0
        /\ \A a \in 1 .. n - k + 1 : some[a] = list[k + a - 1]
    BY <1>8, <2>2
  <2>4. Len(some) = m
    BY <1>5, <1>6, <2>3
  <2> QED BY <1>6, <2>3, <2>4
<1>10. last = [i \in 1 .. m |-> some[(m - i) + 1]]
  BY <1>7, <1>8, <1>9 DEF Reverse
<1>11. ASSUME NEW i \in 1 .. m
       PROVE  last[i] = list[n + 1 - i] /\ n + 1 - i \in k .. n /\ n + 1 - i \in 1 .. n
  <2>1. /\ (m - i) + 1 \in 1 .. m /\ k + ((m - i) + 1) - 1 = n + 1 - i
        /\ n + 1 - i \in k .. n /\ n + 1 - i \in 1 .. n
    BY <1>5, <1>6, FromTheLast
  <2>2. last[i] = some[(m - i) + 1]
    BY <1>10
  <2>3. some[(m - i) + 1] = list[k + ((m - i) + 1) - 1]
    BY <1>9, <2>1
  <2> QED BY <2>1, <2>2, <2>3
<1>12. DOMAIN last = 1 .. m /\ Len(last) = m /\ last \in Seq(RecordType)
  <2>1. ASSUME NEW i \in 1 .. m PROVE last[i] \in RecordType
    <3>1. PICK a \in 1 .. n : last[i] = list[a]
      BY <1>11
    <3> QED BY <1>2, <3>1
  <2> QED BY <1>10, <2>1
<1>13. ToSet(last) = {last[i] : i \in 1 .. m}
  BY <1>12 DEF ToSet
<1>14. ToSet(last) \subseteq records
  <2>1. ASSUME NEW i \in 1 .. m PROVE last[i] \in records
    <3>1. PICK a \in 1 .. n : last[i] = list[a]
      BY <1>11
    <3> QED BY <1>2, <1>3, <3>1 DEF ToSet
  <2> QED BY <1>13, <2>1
<1>15. ASSUME NEW i \in 1 .. m, NEW j \in 1 .. m, last[i] = last[j] PROVE i = j
  <2>1. PICK a \in 1 .. n, b \in 1 .. n :
          a = n + 1 - i /\ b = n + 1 - j /\ last[i] = list[a] /\ last[j] = list[b]
    BY <1>11
  <2>2. a = b
    BY <1>2, <1>15, <2>1
  <2> QED BY <2>1, <2>2
<1>16. Cardinality(ToSet(last)) = m
  <2>1. \A i, j \in DOMAIN last : last[i] = last[j] => i = j
    BY <1>12, <1>15
  <2> QED BY <1>12, <2>1, NoRepetitions
<1>17. ASSUME NEW i \in DOMAIN last, NEW j \in DOMAIN last, i < j
       PROVE  last[j].time <= last[i].time
  <2>1. i \in 1 .. m /\ j \in 1 .. m
    BY <1>12
  <2>2. PICK a \in 1 .. n, b \in 1 .. n :
          a = n + 1 - j /\ b = n + 1 - i /\ last[j] = list[a] /\ last[i] = list[b]
    BY <1>11, <2>1
  <2>3. a < b
    BY <1>17, <2>1, <2>2
  <2> QED BY <1>3, <2>2, <2>3
<1>18. ASSUME NEW r \in records \ ToSet(last), NEW i \in DOMAIN last
       PROVE  r.time <= last[i].time
  <2>1. PICK a \in 1 .. n : list[a] = r
    BY <1>2, <1>3 DEF ToSet
  <2>2. a < k
    <3>1. SUFFICES ASSUME ~(a < k) PROVE FALSE
      OBVIOUS
    <3>2. PICK j \in 1 .. m : n + 1 - j = a
      <4>1. n + 1 - a \in 1 .. m /\ n + 1 - (n + 1 - a) = a
        BY <1>5, <1>6, <3>1
      <4> QED BY <4>1
    <3>3. last[j] = list[a]
      BY <1>11, <3>2
    <3> QED BY <1>13, <2>1, <3>3
  <2>3. PICK b \in 1 .. n : b \in k .. n /\ last[i] = list[b]
    BY <1>11, <1>12
  <2>4. a < b
    BY <1>5, <2>2, <2>3
  <2> QED BY <1>3, <2>1, <2>3, <2>4
<1>19. Len(last) = IF Cardinality(records) < limit THEN Cardinality(records) ELSE limit
  BY <1>3, <1>6, <1>12
<1> QED BY <1>0, <1>12, <1>14, <1>16, <1>17, <1>18, <1>19 DEF IsNewest

\* Once every record has its row, the trail and the rows answer alike.
LEMMA TrailsAnsweredAlike ==
  ASSUME TrailInv
  PROVE  TrailsAgree
<1> SUFFICES ASSUME \A p \in Payments : sending[p] = <<>> PROVE TrailsAgree
  BY DEF TrailsAgree
<1>0. auditRows = {trail[i] : i \in DOMAIN trail}
  BY AllInserted
<1>1. ASSUME NEW p \in Payments PROVE MayAnswerEntity(trailOfEntity(p), p)
  <2> DEFINE I == {i \in DOMAIN trail : trail[i].payment = p}
             R == {s \in auditRows : s.payment = p}
  <2>1. /\ I \in SUBSET DOMAIN trail /\ R \in SUBSET {trail[i] : i \in DOMAIN trail}
        /\ \A i \in DOMAIN trail : i \in I <=> trail[i] \in R
    BY <1>0
  <2> HIDE DEF I, R
  <2>2. Oldest(filter(trail, I), {Reload(r) : r \in R})
    BY <2>1, Listed
  <2> QED BY <2>2 DEF I, R, MayAnswerEntity, trailOfEntity
<1>2. ASSUME NEW c PROVE MayAnswerCorrelation(trailOfCorrelation(c), c)
  <2> DEFINE I == {i \in DOMAIN trail : CorrelationOf[trail[i].payment] = c}
             R == {s \in auditRows : CorrelationOf[s.payment] = c}
  <2>1. /\ I \in SUBSET DOMAIN trail /\ R \in SUBSET {trail[i] : i \in DOMAIN trail}
        /\ \A i \in DOMAIN trail : i \in I <=> trail[i] \in R
    BY <1>0
  <2> HIDE DEF I, R
  <2>2. Oldest(filter(trail, I), {Reload(r) : r \in R})
    BY <2>1, Listed
  <2> QED BY <2>2 DEF I, R, MayAnswerCorrelation, trailOfCorrelation
<1>3. ASSUME NEW t \in Tenants PROVE MayAnswerRecent(trailRecent(t, PageSize), t, PageSize)
  <2> DEFINE I == {i \in DOMAIN trail : TenantOf[trail[i].payment] = t}
             R == {s \in auditRows : TenantOf[s.payment] = t}
             records == {Reload(r) : r \in R}
             list == filter(trail, I)
             last == trailRecent(t, PageSize)
  <2>1. /\ I \in SUBSET DOMAIN trail /\ R \in SUBSET {trail[i] : i \in DOMAIN trail}
        /\ \A i \in DOMAIN trail : i \in I <=> trail[i] \in R
    BY <1>0
  <2>2. last = NewestFirst(list, PageSize)
    BY DEF trailRecent, NewestFirst, Start
  <2> HIDE DEF I, R
  <2>3. /\ Oldest(list, records) /\ list \in Seq(RecordType)
        /\ \A a, b \in DOMAIN list : list[a] = list[b] => a = b
    BY <2>1, Listed
  <2> HIDE DEF list, records, last
  <2>0. PageSize \in Nat
    OBVIOUS
  <2>4. IsNewest(last, records, PageSize)
    BY <2>0, <2>2, <2>3, NewestOf
  <2>5. MayAnswerRecent(last, t, PageSize)
    BY <2>4 DEF IsNewest, MayAnswerRecent, records, R
  <2> QED BY <2>5 DEF last
<1> QED BY <1>1, <1>2, <1>3 DEF TrailsAgree

\* The audit trail in memory and the table of audit records answer every query alike once every
\* record has its row, whatever order they arrived in (AuditRepository's two implementations).
THEOREM TrailsAlike == Spec => []TrailsAgree
<1>1. Inv /\ TrailInv /\ [Next]_vars => TrailInv'
  BY NextTrail
<1>2. TrailInv => TrailsAgree
  BY TrailsAnsweredAlike
<1> QED BY <1>1, <1>2, InitTrail, SpecInv, PTL DEF Spec
=================================================================================
