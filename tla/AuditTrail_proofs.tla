----------------------------- MODULE AuditTrail_proofs -----------------------------
(***************************************************************************)
(* Proofs about AuditTrail for any payments, tenants, number of records    *)
(* and clock, over either repository, with or without calls that throw.    *)
(* What a recorder holds between its read and its append is the reason:    *)
(* the hash of a record of its tenant that is in the log for good.         *)
(***************************************************************************)
EXTENDS AuditTrail, TLAPS

USE AuditAssumption DEF AuditAssumption, OfTenant, hash

\* What a recorder has read, if anything, is in the log, and it may record once more.
HeldIsInLog ==
  \A p \in Payments : pc[p] \in {"read", "built"} =>
    /\ written[p] < PerPayment
    /\ held[p] # Genesis =>
         \E j \in DOMAIN log : hash(log[j]) = held[p] /\ TenantOf[log[j].payment] = TenantOf[p]

\* No record is numbered beyond what its payment has counted.
NumbersAreCounted ==
  \A i \in DOMAIN log : log[i].n <= written[log[i].payment]

Inv == TypeOK /\ HeldIsInLog /\ NumbersAreCounted /\ ParentIsEarlier /\ OwnRecordsInOrder

\* What getLatestRecord returns is the hash of a record of the tenant, unless there is none.
LEMMA LatestIsInLog ==
  ASSUME TypeOK, NEW t \in Tenants, NEW h \in getLatestRecord(t)
  PROVE  /\ h \in Hashes
         /\ h # Genesis => \E j \in DOMAIN log : hash(log[j]) = h /\ TenantOf[log[j].payment] = t
<1>1. CASE OfTenant(t) = {}
  BY <1>1 DEF getLatestRecord, Hashes
<1>2. CASE OfTenant(t) # {}
  <2>1. PICK i \in OfTenant(t) : h = hash(log[i])
    BY <1>2 DEF getLatestRecord
  <2>2. log[i] \in RecordType /\ i \in DOMAIN log
    BY <2>1 DEF TypeOK
  <2> QED BY <2>1, <2>2 DEF Hashes, RecordType
<1> QED BY <1>1, <1>2

\* Appending the record p has built, stamped t, keeps the log in order.
LEMMA AppendStep ==
  ASSUME Inv, NEW p \in Payments, pc[p] \in {"read", "built"}, NEW t \in 0 .. MaxTime,
         log' = Append(log, NewRecord(p, t)),
         written' = [written EXCEPT ![p] = @ + 1],
         pc' \in [Payments -> {"idle", "read", "built", "stopped"}],
         \A q \in Payments : q # p => pc'[q] = pc[q],
         pc'[p] \notin {"read", "built"},
         UNCHANGED <<durable, serial, held, stamp>>, now' \in 0 .. MaxTime
  PROVE  Inv'
<1> DEFINE new == NewRecord(p, t)
<1>1. log \in Seq(RecordType) /\ written[p] \in Nat /\ written[p] < PerPayment
  BY DEF Inv, TypeOK, HeldIsInLog
<1>2. new \in RecordType /\ new.payment = p /\ new.n = written[p] + 1 /\ new.prev = held[p]
  BY <1>1 DEF NewRecord, RecordType, Inv, TypeOK
<1> HIDE DEF new
<1>3. /\ log' \in Seq(RecordType)
      /\ Len(log') = Len(log) + 1
      /\ \A i \in DOMAIN log : i \in DOMAIN log' /\ log'[i] = log[i]
      /\ log'[Len(log) + 1] = new
      /\ DOMAIN log' = DOMAIN log \cup {Len(log) + 1}
  BY <1>1, <1>2 DEF new
<1>4. TypeOK'
  <2>1. written' \in [Payments -> 0 .. PerPayment]
    BY <1>1 DEF Inv, TypeOK
  <2>2. log' \in Seq(RecordType)
    BY <1>3
  <2> HIDE DEF hash, OfTenant
  <2>3. RecordType' = RecordType /\ Hashes' = Hashes
    BY DEF RecordType, Hashes
  <2> QED BY <2>1, <2>2, <2>3 DEF Inv, TypeOK
<1>5. HeldIsInLog'
  <2> SUFFICES ASSUME NEW q \in Payments, pc'[q] \in {"read", "built"}
               PROVE  /\ written'[q] < PerPayment
                      /\ held'[q] # Genesis => \E j \in DOMAIN log' :
                           hash(log'[j]) = held'[q] /\ TenantOf[log'[j].payment] = TenantOf[q]
    BY DEF HeldIsInLog
  <2>1. q # p /\ pc[q] \in {"read", "built"} /\ written'[q] = written[q] /\ held'[q] = held[q]
    BY DEF Inv, TypeOK
  <2>2. CASE held[q] = Genesis
    BY <2>1, <2>2 DEF Inv, HeldIsInLog
  <2>3. CASE held[q] # Genesis
    <3>1. PICK j \in DOMAIN log : hash(log[j]) = held[q] /\ TenantOf[log[j].payment] = TenantOf[q]
      BY <2>1, <2>3 DEF Inv, HeldIsInLog
    <3>2. j \in DOMAIN log' /\ log'[j] = log[j]
      BY <3>1, <1>3
    <3>3. hash(log'[j]) = held'[q] /\ TenantOf[log'[j].payment] = TenantOf[q]
      BY <3>1, <3>2, <2>1
    <3> QED BY <3>2, <3>3, <2>1 DEF Inv, HeldIsInLog
  <2> QED BY <2>2, <2>3
<1>6. NumbersAreCounted'
  <2> SUFFICES ASSUME NEW i \in DOMAIN log'
               PROVE  log'[i].n <= written'[log'[i].payment]
    BY DEF NumbersAreCounted
  <2>1. CASE i \in DOMAIN log
    <3>1. log[i] \in RecordType /\ log'[i] = log[i] /\ log[i].n <= written[log[i].payment]
      BY <2>1, <1>1, <1>3 DEF Inv, NumbersAreCounted
    <3>2. log[i].payment \in Payments /\ log[i].n \in Nat
      BY <3>1 DEF RecordType
    <3>3. written \in [Payments -> 0 .. PerPayment] /\ written[log[i].payment] \in Nat
      BY <3>2 DEF Inv, TypeOK
    <3>4. written'[log[i].payment] \in {written[log[i].payment], written[log[i].payment] + 1}
      BY <3>2, <3>3
    <3> QED BY <3>1, <3>2, <3>3, <3>4
  <2>2. CASE i = Len(log) + 1
    BY <2>2, <1>2, <1>3 DEF Inv, TypeOK
  <2> QED BY <2>1, <2>2, <1>3
<1>7. ParentIsEarlier'
  <2> SUFFICES ASSUME NEW i \in DOMAIN log', log'[i].prev # Genesis
               PROVE  \E j \in 1 .. i - 1 : /\ hash(log'[j]) = log'[i].prev
                                            /\ TenantOf[log'[j].payment] = TenantOf[log'[i].payment]
    BY DEF ParentIsEarlier
  <2>1. CASE i \in DOMAIN log
    <3>1. PICK j \in 1 .. i - 1 :
            hash(log[j]) = log[i].prev /\ TenantOf[log[j].payment] = TenantOf[log[i].payment]
      BY <2>1, <1>3 DEF Inv, ParentIsEarlier
    <3>2. j \in DOMAIN log
      BY <2>1, <1>1
    <3> QED BY <3>1, <3>2, <2>1, <1>3
  <2>2. CASE i = Len(log) + 1
    <3>1. PICK j \in DOMAIN log :
            hash(log[j]) = held[p] /\ TenantOf[log[j].payment] = TenantOf[p]
      BY <2>2, <1>2, <1>3 DEF Inv, HeldIsInLog
    <3>2. j \in 1 .. i - 1
      BY <2>2, <1>1
    <3> QED BY <3>1, <3>2, <2>2, <1>2, <1>3
  <2> QED BY <2>1, <2>2, <1>3
<1>8. OwnRecordsInOrder'
  <2> SUFFICES ASSUME NEW i \in DOMAIN log', NEW j \in DOMAIN log', i < j,
                      log'[i].payment = log'[j].payment
               PROVE  log'[i].n < log'[j].n
    BY DEF OwnRecordsInOrder
  <2>1. CASE j \in DOMAIN log
    <3>1. i \in DOMAIN log
      BY <2>1, <1>1, <1>3
    <3>2. log'[i] = log[i] /\ log'[j] = log[j]
      BY <3>1, <2>1, <1>3
    <3> QED BY <3>1, <3>2, <2>1 DEF Inv, OwnRecordsInOrder
  <2>2. CASE j = Len(log) + 1
    <3>1. i \in DOMAIN log /\ log[i].payment = p /\ log[i] \in RecordType
      BY <2>2, <1>1, <1>2, <1>3
    <3>2. log[i].n <= written[p]
      BY <3>1 DEF Inv, NumbersAreCounted
    <3>3. log'[i].n = log[i].n /\ log[i].n \in Nat
      BY <3>1, <1>3 DEF RecordType
    <3>4. log'[j].n = written[p] + 1
      BY <2>2, <1>2, <1>3
    <3> QED BY <3>2, <3>3, <3>4, <1>1
  <2> QED BY <2>1, <2>2, <1>3
<1> QED BY <1>4, <1>5, <1>6, <1>7, <1>8 DEF Inv

\* Inv holds at the start.
LEMMA InitInv == Init => Inv
BY DEF Init, Inv, TypeOK, HeldIsInLog, NumbersAreCounted, ParentIsEarlier, OwnRecordsInOrder,
       Hashes

\* Every step of every recorder, and of the clock, keeps Inv.
LEMMA NextInv == Inv /\ [Next]_vars => Inv'
<1> SUFFICES ASSUME Inv, [Next]_vars PROVE Inv'
  OBVIOUS
<1>1. ASSUME NEW p \in Payments, GetLatest(p) PROVE Inv'
  <2>1. PICK h \in getLatestRecord(TenantOf[p]) : held' = [held EXCEPT ![p] = h]
    BY <1>1 DEF GetLatest
  <2>2. /\ h \in Hashes
        /\ h # Genesis => \E j \in DOMAIN log :
             hash(log[j]) = h /\ TenantOf[log[j].payment] = TenantOf[p]
    BY <2>1, LatestIsInLog DEF Inv
  <2>3. TypeOK'
    BY <1>1, <2>1, <2>2 DEF GetLatest, Inv, TypeOK
  <2>4. HeldIsInLog'
    BY <1>1, <2>1, <2>2 DEF GetLatest, Inv, TypeOK, HeldIsInLog
  <2> QED BY <1>1, <2>3, <2>4
          DEF GetLatest, Inv, NumbersAreCounted, ParentIsEarlier, OwnRecordsInOrder
<1>2. ASSUME NEW p \in Payments, BuildAndPush(p) PROVE Inv'
  BY <1>2, AppendStep DEF BuildAndPush, Inv, TypeOK
<1>3. ASSUME NEW p \in Payments, Build(p) PROVE Inv'
  BY <1>3 DEF Build, Inv, TypeOK, HeldIsInLog, NumbersAreCounted, ParentIsEarlier,
              OwnRecordsInOrder
<1>4. ASSUME NEW p \in Payments, Insert(p) PROVE Inv'
  <2>1. stamp[p] \in 0 .. MaxTime /\ now' \in 0 .. MaxTime
    BY <1>4 DEF Insert, Inv, TypeOK
  <2>2. PICK s \in {"idle", "stopped"} : pc' = [pc EXCEPT ![p] = s]
    BY <1>4 DEF Insert
  <2> QED BY <1>4, <2>1, <2>2, AppendStep DEF Insert, Inv, TypeOK
<1>5. ASSUME NEW p \in Payments, Throw(p) PROVE Inv'
  BY <1>5 DEF Throw, Inv, TypeOK, HeldIsInLog, NumbersAreCounted, ParentIsEarlier,
              OwnRecordsInOrder
<1>6. CASE Tick
  BY <1>6 DEF Tick, Inv, TypeOK, HeldIsInLog, NumbersAreCounted, ParentIsEarlier,
              OwnRecordsInOrder
<1>7. CASE UNCHANGED vars
  BY <1>7 DEF vars, Inv, TypeOK, HeldIsInLog, NumbersAreCounted, ParentIsEarlier,
              OwnRecordsInOrder
<1> QED BY <1>1, <1>2, <1>3, <1>4, <1>5, <1>6, <1>7 DEF Next, Finished

\* The log, the recorders and the clock keep their types (AuditTrail).
THEOREM TypeCorrect == Spec => []TypeOK
<1>1. Inv => TypeOK
  BY DEF Inv
<1> QED BY <1>1, InitInv, NextInv, PTL DEF Spec

\* Every record of the log is chained to an earlier record of its own tenant, or is a first
\* one, however recorders overlap and whatever throws (getLatestRecord, then append).
THEOREM ParentsAreEarlier == Spec => []ParentIsEarlier
<1>1. Inv => ParentIsEarlier
  BY DEF Inv
<1> QED BY <1>1, InitInv, NextInv, PTL DEF Spec

\* The records of one payment are in the log in the order it made them, each once.
THEOREM OwnRecordsOrdered == Spec => []OwnRecordsInOrder
<1>1. Inv => OwnRecordsInOrder
  BY DEF Inv
<1> QED BY <1>1, InitInv, NextInv, PTL DEF Spec

---------------------------------------------------------------------------------
(* The in-memory repository, where a read returns the tenant's last record. *)

\* Nobody is between a build and an insert, and nothing stops a recorder.
OnlyReads == \A p \in Payments : pc[p] \in {"idle", "read"}

\* Two payments of a serial tenant are never both between their read and their append.
SerialReadsAlone ==
  \A p, q \in Payments :
    /\ TenantOf[p] \in serial
    /\ TenantOf[q] = TenantOf[p]
    /\ pc[p] = "read"
    /\ pc[q] = "read"
    => p = q

\* What a recorder of a serial tenant holds is still the tenant's last record.
SerialHoldsLast ==
  \A p \in Payments : TenantOf[p] \in serial /\ pc[p] = "read" /\ OfTenant(TenantOf[p]) # {} =>
    \E j \in OfTenant(TenantOf[p]) :
      hash(log[j]) = held[p] /\ \A k \in OfTenant(TenantOf[p]) : k <= j

\* What a recorder holds is none of its own records but the last, or one appended later.
HoldsOwnOrLater ==
  \A p \in Payments, i \in DOMAIN log : pc[p] = "read" /\ log[i].payment = p =>
    \E k \in i .. Len(log) : hash(log[k]) = held[p]

MemoryInv ==
  /\ OnlyReads
  /\ SerialReadsAlone
  /\ SerialHoldsLast
  /\ HoldsOwnOrLater
  /\ ReadsSeeOwnRecords
  /\ SerialChainIsLinear

\* Two records with the same hash are the same record.
LEMMA HashesAreUnique ==
  ASSUME Inv, NEW i \in DOMAIN log, NEW j \in DOMAIN log, hash(log[i]) = hash(log[j])
  PROVE  i = j
<1>1. i \in Nat /\ j \in Nat /\ log[i] \in RecordType /\ log[j] \in RecordType
  BY DEF Inv, TypeOK
<1>2. log[i].payment = log[j].payment /\ log[i].n = log[j].n /\ log[i].n \in Nat
  BY <1>1 DEF RecordType
<1>3. ~(i < j) /\ ~(j < i)
  BY <1>2 DEF Inv, OwnRecordsInOrder
<1> QED BY <1>1, <1>3

\* The record a serial tenant's payment appends has a parent no record of the tenant has.
LEMMA ParentIsFresh ==
  ASSUME Inv, MemoryInv, NEW p \in Payments, TenantOf[p] \in serial, pc[p] = "read",
         NEW i \in OfTenant(TenantOf[p])
  PROVE  log[i].prev # held[p]
<1> SUFFICES ASSUME log[i].prev = held[p] PROVE FALSE
  OBVIOUS
<1>1. PICK last \in OfTenant(TenantOf[p]) :
        hash(log[last]) = held[p] /\ \A k \in OfTenant(TenantOf[p]) : k <= last
  BY DEF MemoryInv, SerialHoldsLast
<1>2. log[last] \in RecordType /\ last \in DOMAIN log
  BY <1>1 DEF Inv, TypeOK
<1>3. held[p] # Genesis
  <2>1. log[last].payment \in Payments /\ log[last].n \in 1 .. PerPayment
    BY <1>2 DEF RecordType
  <2>2. hash(log[last]) \in Payments \X (1 .. PerPayment)
    BY <2>1
  <2> QED BY <1>1, <2>2
<1>4. PICK j \in 1 .. i - 1 : hash(log[j]) = log[i].prev
  BY <1>3 DEF Inv, ParentIsEarlier
<1>5. j \in DOMAIN log /\ i \in Nat /\ i <= last
  BY <1>1, <1>4 DEF Inv, TypeOK
<1>6. j = last
  BY <1>1, <1>2, <1>4, <1>5, HashesAreUnique
<1> QED BY <1>4, <1>5, <1>6

\* Reading the latest record keeps MemoryInv.
LEMMA GetLatestMemory ==
  ASSUME ~durable, Inv, MemoryInv, NEW p \in Payments, GetLatest(p)
  PROVE  MemoryInv'
<1>1. PICK h \in getLatestRecord(TenantOf[p]) : held' = [held EXCEPT ![p] = h]
  BY DEF GetLatest
<1>2. /\ pc \in [Payments -> {"idle", "read", "built", "stopped"}]
      /\ held \in [Payments -> Hashes]
      /\ log \in Seq(RecordType)
  BY DEF Inv, TypeOK
<1>3. /\ held'[p] = h /\ pc'[p] = "read"
      /\ \A q \in Payments \ {p} : held'[q] = held[q] /\ pc'[q] = pc[q]
  BY <1>1, <1>2 DEF GetLatest
<1>4. /\ log' = log /\ OfTenant(TenantOf[p])' = OfTenant(TenantOf[p])
      /\ durable' = durable /\ serial' = serial
  BY DEF GetLatest
<1>5. ASSUME OfTenant(TenantOf[p]) # {}
      PROVE  \E j \in OfTenant(TenantOf[p]) :
               hash(log[j]) = h /\ \A k \in OfTenant(TenantOf[p]) : k <= j
  BY <1>1, <1>5 DEF getLatestRecord
<1>6. OnlyReads'
  BY <1>3 DEF MemoryInv, OnlyReads
<1>7. SerialReadsAlone'
  <2>1. TenantOf[p] \in serial =>
          \A q \in Payments \ {p} : TenantOf[q] = TenantOf[p] => pc[q] # "read"
    BY DEF GetLatest, Turn
  <2> QED BY <2>1, <1>3, <1>4 DEF MemoryInv, SerialReadsAlone
<1>8. SerialHoldsLast'
  <2> SUFFICES ASSUME NEW q \in Payments, TenantOf[q] \in serial, pc'[q] = "read",
                      OfTenant(TenantOf[q]) # {}
               PROVE  \E j \in OfTenant(TenantOf[q]) :
                        hash(log[j]) = held'[q] /\ \A k \in OfTenant(TenantOf[q]) : k <= j
    BY <1>4 DEF SerialHoldsLast
  <2>1. CASE q = p
    BY <2>1, <1>3, <1>5
  <2>2. CASE q # p
    BY <2>2, <1>3 DEF MemoryInv, SerialHoldsLast
  <2> QED BY <2>1, <2>2
<1>9. HoldsOwnOrLater'
  <2> SUFFICES ASSUME NEW q \in Payments, NEW i \in DOMAIN log, pc'[q] = "read",
                      log[i].payment = q
               PROVE  \E k \in i .. Len(log) : hash(log[k]) = held'[q]
    BY <1>4 DEF HoldsOwnOrLater
  <2>1. CASE q = p
    <3>1. i \in OfTenant(TenantOf[p])
      BY <2>1
    <3>2. PICK j \in OfTenant(TenantOf[p]) :
            hash(log[j]) = h /\ \A k \in OfTenant(TenantOf[p]) : k <= j
      BY <3>1, <1>5
    <3>3. i <= j /\ j \in i .. Len(log)
      BY <3>1, <3>2, <1>2
    <3> QED BY <3>2, <3>3, <2>1, <1>3
  <2>2. CASE q # p
    BY <2>2, <1>3 DEF MemoryInv, HoldsOwnOrLater
  <2> QED BY <2>1, <2>2
<1>10. ReadsSeeOwnRecords' /\ SerialChainIsLinear'
  BY <1>4 DEF MemoryInv, ReadsSeeOwnRecords, SerialChainIsLinear, Linear
<1> QED BY <1>6, <1>7, <1>8, <1>9, <1>10 DEF MemoryInv

\* Building and pushing a record keeps MemoryInv.
LEMMA PushMemory ==
  ASSUME ~durable, Inv, MemoryInv, NEW p \in Payments, BuildAndPush(p)
  PROVE  MemoryInv'
<1> DEFINE new == NewRecord(p, now)
           n == Len(log) + 1
<1>1. /\ log \in Seq(RecordType) /\ Len(log) \in Nat
      /\ pc \in [Payments -> {"idle", "read", "built", "stopped"}]
      /\ pc[p] = "read" /\ held' = held
  BY DEF Inv, TypeOK, BuildAndPush
<1>2. new \in RecordType /\ new.payment = p /\ new.prev = held[p]
  BY DEF NewRecord, RecordType, Inv, TypeOK, HeldIsInLog, BuildAndPush
<1>3. log' = Append(log, new)
  BY DEF BuildAndPush
<1> HIDE DEF new
<1>4. /\ DOMAIN log = 1 .. Len(log)
      /\ DOMAIN log' = DOMAIN log \cup {n}
      /\ Len(log') = n
      /\ \A i \in DOMAIN log : log'[i] = log[i]
      /\ log'[n] = new
      /\ n \notin DOMAIN log
  BY <1>1, <1>2, <1>3
<1>5. /\ pc'[p] = "idle" /\ \A q \in Payments \ {p} : pc'[q] = pc[q]
      /\ durable' = durable /\ serial' = serial
  BY <1>1 DEF BuildAndPush
<1>6. OnlyReads' /\ SerialReadsAlone'
  BY <1>5 DEF MemoryInv, OnlyReads, SerialReadsAlone
<1>7. \A t \in Tenants : t # TenantOf[p] =>
        OfTenant(t)' = OfTenant(t) /\ \A i \in OfTenant(t) : log'[i] = log[i]
  BY <1>2, <1>4
<1>8. /\ OfTenant(TenantOf[p])' = OfTenant(TenantOf[p]) \cup {n}
      /\ \A i \in OfTenant(TenantOf[p]) : log'[i] = log[i]
  BY <1>2, <1>4
<1>9. SerialHoldsLast'
  <2> SUFFICES ASSUME NEW q \in Payments, TenantOf[q] \in serial, pc'[q] = "read",
                      OfTenant(TenantOf[q])' # {}
               PROVE  \E j \in OfTenant(TenantOf[q])' :
                        /\ hash(log'[j]) = held'[q]
                        /\ \A k \in OfTenant(TenantOf[q])' : k <= j
    BY <1>5 DEF SerialHoldsLast
  <2>1. q # p /\ pc[q] = "read" /\ TenantOf[q] # TenantOf[p]
    BY <1>1, <1>5 DEF MemoryInv, SerialReadsAlone
  <2>2. OfTenant(TenantOf[q])' = OfTenant(TenantOf[q])
    BY <2>1, <1>7
  <2>3. PICK j \in OfTenant(TenantOf[q]) :
          hash(log[j]) = held[q] /\ \A k \in OfTenant(TenantOf[q]) : k <= j
    BY <2>1, <2>2 DEF MemoryInv, SerialHoldsLast
  <2>4. hash(log'[j]) = held'[q]
    BY <2>3, <1>1, <1>4
  <2> QED BY <2>2, <2>3, <2>4
<1>10. HoldsOwnOrLater'
  <2> SUFFICES ASSUME NEW q \in Payments, NEW i \in DOMAIN log', pc'[q] = "read",
                      log'[i].payment = q
               PROVE  \E k \in i .. Len(log') : hash(log'[k]) = held'[q]
    BY DEF HoldsOwnOrLater
  <2>1. q # p /\ pc[q] = "read" /\ i \in DOMAIN log /\ log[i].payment = q
    BY <1>2, <1>4, <1>5
  <2>2. PICK k \in i .. Len(log) : hash(log[k]) = held[q]
    BY <2>1 DEF MemoryInv, HoldsOwnOrLater
  <2>3. k \in DOMAIN log /\ k \in i .. Len(log')
    BY <2>1, <2>2, <1>1, <1>4
  <2> QED BY <2>2, <2>3, <1>1, <1>4
<1>11. ReadsSeeOwnRecords'
  <2> SUFFICES ASSUME NEW i \in DOMAIN log', NEW j \in DOMAIN log', i < j,
                      log'[i].payment = log'[j].payment
               PROVE  \E k \in i .. j - 1 : hash(log'[k]) = log'[j].prev
    BY <1>5 DEF ReadsSeeOwnRecords
  <2>1. i \in DOMAIN log /\ log'[i] = log[i]
    BY <1>1, <1>4
  <2>2. CASE j \in DOMAIN log
    <3>1. PICK k \in i .. j - 1 : hash(log[k]) = log[j].prev
      BY <2>1, <2>2, <1>4 DEF MemoryInv, ReadsSeeOwnRecords
    <3>2. k \in DOMAIN log
      BY <2>1, <2>2, <3>1, <1>1
    <3> QED BY <3>1, <3>2, <2>2, <1>4
  <2>3. CASE j = n
    <3>1. log[i].payment = p
      BY <2>1, <2>3, <1>2, <1>4
    <3>2. PICK k \in i .. Len(log) : hash(log[k]) = held[p]
      BY <2>1, <3>1, <1>1 DEF MemoryInv, HoldsOwnOrLater
    <3>3. k \in i .. j - 1 /\ k \in DOMAIN log
      BY <2>1, <2>3, <3>2, <1>1, <1>4
    <3> QED BY <3>2, <3>3, <2>3, <1>2, <1>4
  <2> QED BY <2>2, <2>3, <1>4
<1>12. SerialChainIsLinear'
  <2> SUFFICES ASSUME NEW t \in serial, NEW i \in OfTenant(t)', NEW j \in OfTenant(t)',
                      log'[i].prev = log'[j].prev
               PROVE  i = j
    BY <1>5 DEF SerialChainIsLinear, Linear
  <2>1. ASSUME NEW a \in OfTenant(t), NEW b \in OfTenant(t), log[a].prev = log[b].prev
        PROVE  a = b
    BY <2>1 DEF MemoryInv, SerialChainIsLinear, Linear
  <2>a. t \in Tenants
    BY DEF Inv, TypeOK
  <2>2. CASE t # TenantOf[p]
    <3>1. i \in OfTenant(t) /\ j \in OfTenant(t) /\ log'[i] = log[i] /\ log'[j] = log[j]
      BY <2>2, <2>a, <1>7
    <3> QED BY <3>1, <2>1
  <2>3. CASE t = TenantOf[p]
    <3>1. \A k \in OfTenant(t) : log'[k] = log[k] /\ log[k].prev # log'[n].prev
      BY <2>3, <1>1, <1>2, <1>4, <1>8, ParentIsFresh
    <3>2. i \in OfTenant(t) \cup {n} /\ j \in OfTenant(t) \cup {n}
      BY <2>3, <1>8
    <3>3. CASE i = n \/ j = n
      BY <3>1, <3>2, <3>3
    <3>4. CASE i # n /\ j # n
      BY <3>1, <3>2, <3>4, <2>1
    <3> QED BY <3>3, <3>4
  <2> QED BY <2>2, <2>3
<1> QED BY <1>6, <1>9, <1>10, <1>11, <1>12 DEF MemoryInv

\* In memory every step keeps MemoryInv: nobody builds and inserts apart, nothing throws.
LEMMA NextMemory ==
  Inv /\ (~durable => MemoryInv) /\ [Next]_vars => (~durable' => MemoryInv')
<1> SUFFICES ASSUME ~durable', Inv, ~durable => MemoryInv, [Next]_vars PROVE MemoryInv'
  OBVIOUS
<1>1. ~durable /\ MemoryInv
  BY DEF Next, GetLatest, BuildAndPush, Build, Insert, Throw, Tick, Finished, vars
<1>2. ASSUME NEW p \in Payments, GetLatest(p) PROVE MemoryInv'
  BY <1>1, <1>2, GetLatestMemory
<1>3. ASSUME NEW p \in Payments, BuildAndPush(p) PROVE MemoryInv'
  BY <1>1, <1>3, PushMemory
<1>4. ASSUME NEW p \in Payments, Build(p) \/ Insert(p) \/ Throw(p) PROVE MemoryInv'
  BY <1>1, <1>4 DEF Build, Insert, Throw, MemoryInv, OnlyReads
<1>5. CASE Tick \/ UNCHANGED vars
  <2>1. UNCHANGED <<durable, serial, log, pc, held, written>>
    BY <1>5 DEF Tick, vars
  <2>2. OnlyReads' /\ SerialReadsAlone' /\ SerialHoldsLast' /\ HoldsOwnOrLater'
    BY <1>1, <2>1 DEF MemoryInv, OnlyReads, SerialReadsAlone, SerialHoldsLast, HoldsOwnOrLater
  <2>3. ReadsSeeOwnRecords'
    BY <1>1, <2>1 DEF MemoryInv, ReadsSeeOwnRecords
  <2>4. SerialChainIsLinear'
    BY <1>1, <2>1 DEF MemoryInv, SerialChainIsLinear, Linear
  <2> QED BY <2>2, <2>3, <2>4 DEF MemoryInv
<1> QED BY <1>2, <1>3, <1>4, <1>5 DEF Next, Finished

\* MemoryInv holds at the start.
LEMMA InitMemory == Init => MemoryInv
BY DEF Init, MemoryInv, OnlyReads, SerialReadsAlone, SerialHoldsLast, HoldsOwnOrLater,
       ReadsSeeOwnRecords, SerialChainIsLinear, Linear

\* In the in-memory log a payment's record is never chained to anything older than its own
\* previous record, however many other payments record meanwhile.
THEOREM OwnRecordsAreSeen == Spec => []ReadsSeeOwnRecords
<1>1. (~durable => MemoryInv) => ReadsSeeOwnRecords
  BY DEF MemoryInv, ReadsSeeOwnRecords
<1> QED BY <1>1, InitInv, NextInv, InitMemory, NextMemory, PTL DEF Spec

\* In the in-memory log the records of a tenant whose payments do not overlap form one chain,
\* however the payments of other tenants overlap.
THEOREM SerialChains == Spec => []SerialChainIsLinear
<1>1. (~durable => MemoryInv) => SerialChainIsLinear
  BY DEF MemoryInv, SerialChainIsLinear
<1> QED BY <1>1, InitInv, NextInv, InitMemory, NextMemory, PTL DEF Spec
====================================================================================
