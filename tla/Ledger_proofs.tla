------------------------------- MODULE Ledger_proofs -------------------------------
(***************************************************************************)
(* Proofs about Ledger for any accounts, transfers and commands, over      *)
(* either kind of repository: entries are whole, postings are on stored    *)
(* accounts, and the balances that can be read satisfy the accounting      *)
(* equation, but for exactly what has been paid across currencies.         *)
(***************************************************************************)
EXTENDS Ledger, FoldTheorems

USE LedgerAssumption DEF LedgerAssumption, Ended, Goto

\* Who may book has looked up its accounts, and what is booked is on stored accounts, in the
\* database on ledger accounts (the posting's foreign key).
AccountsFound(t) ==
  /\ pc[t] \in {"destination", "book"} => cmd[t].source \in accounts
  /\ pc[t] = "book" => cmd[t].destination \in accounts
PostingsHaveAccounts ==
  \A p \in postings : p.account \in accounts /\ (durable => p.account \in ledgerAccounts)

Inv ==
  /\ TypeOK /\ EntriesAreWhole /\ PostingsHaveAccounts
  /\ \A t \in Transfers : AccountsFound(t)

\* The postings of one transfer are postings, and all of them are this transfer's.
LEMMA EntriesApart ==
  ASSUME TypeOK, NEW t \in Transfers
  PROVE  /\ createTransferEntry(t) \subseteq PostingType
         /\ createTransferEntry(t) # {}
         /\ \A p \in createTransferEntry(t) : p.entry = t
  BY DEF TypeOK, createTransferEntry, Posting, PostingType, CommandType

\* As long as the commands stay as they are, so do the entries.
LEMMA EntriesStay ==
  ASSUME cmd' = cmd, NEW t \in Transfers
  PROVE  createTransferEntry(t)' = createTransferEntry(t)
  BY DEF createTransferEntry, Posting

\* Nothing is in the ledger at the start.
LEMMA InitInv == Init => Inv
<1> SUFFICES ASSUME Init PROVE Inv
  OBVIOUS
<1>1. TypeOK
  BY DEF Init, TypeOK
<1>2. EntriesAreWhole /\ PostingsHaveAccounts /\ \A t \in Transfers : AccountsFound(t)
  BY DEF Init, EntriesAreWhole, findEntryById, PostingsHaveAccounts, AccountsFound
<1> QED BY <1>1, <1>2 DEF Inv

\* A step that books nothing and takes no transfer out of its end keeps the invariant.
LEMMA QuietStep ==
  ASSUME Inv, UNCHANGED <<durable, cmd, postings>>,
         accounts \subseteq accounts', accounts' \subseteq Accounts,
         ledgerAccounts \subseteq ledgerAccounts', ledgerAccounts' \subseteq accounts',
         pc' \in [Transfers -> {"new", "destination", "book", "done", "error"}],
         \A t \in Transfers : pc[t] \in Ended => pc'[t] = pc[t],
         \A t \in Transfers : pc'[t] = "done" => pc[t] = "done",
         \A t \in Transfers : AccountsFound(t)'
  PROVE  Inv'
<1>1. TypeOK'
  BY DEF Inv, TypeOK
<1>2. EntriesAreWhole'
  BY EntriesStay DEF Inv, EntriesAreWhole, findEntryById
<1>3. PostingsHaveAccounts'
  BY DEF Inv, PostingsHaveAccounts
<1> QED BY <1>1, <1>2, <1>3 DEF Inv

\* saveEntry adds the whole entry of its transfer, or nothing.
LEMMA SaveEntryStep ==
  ASSUME Inv, NEW t \in Transfers, SaveEntry(t)
  PROVE  Inv'
<1> DEFINE e == createTransferEntry(t)
<1>1. /\ TypeOK /\ EntriesAreWhole /\ PostingsHaveAccounts
      /\ cmd[t].source \in accounts /\ cmd[t].destination \in accounts
  BY DEF Inv, AccountsFound, SaveEntry
<1>2. pc[t] = "book" /\ UNCHANGED <<durable, cmd, accounts, ledgerAccounts>>
  BY DEF SaveEntry
<1>5. ASSUME \E s \in {"done", "error"} : pc' = [pc EXCEPT ![t] = s]
      PROVE  \A x \in Transfers : AccountsFound(x)'
  BY <1>1, <1>2, <1>5 DEF Inv, AccountsFound, TypeOK
<1>3. CASE Accepted(e) /\ postings' = postings \cup e
             /\ \E s \in {"done", "error"} : pc' = [pc EXCEPT ![t] = s]
  <2>1. TypeOK'
    BY <1>1, <1>2, <1>3, EntriesApart DEF TypeOK
  <2>2. ASSUME NEW x \in Transfers
        PROVE  \/ findEntryById(x)' = createTransferEntry(x)' /\ pc'[x] \in Ended
               \/ findEntryById(x)' = {} /\ pc'[x] # "done"
    <3>1. createTransferEntry(x)' = createTransferEntry(x)
      BY <1>2, EntriesStay
    <3>2. CASE x = t
      <4>1. findEntryById(t)' = findEntryById(t) \cup e
        BY <1>1, <1>3, EntriesApart DEF findEntryById
      <4>2. findEntryById(t) \in {{}, e}
        BY <1>1 DEF EntriesAreWhole
      <4> QED BY <1>1, <1>3, <3>1, <3>2, <4>1, <4>2 DEF TypeOK
    <3>3. CASE x # t
      <4>1. findEntryById(x)' = findEntryById(x)
        BY <1>1, <1>3, <3>3, EntriesApart DEF findEntryById
      <4>2. pc'[x] = pc[x]
        BY <1>1, <1>3, <3>3 DEF TypeOK
      <4> QED BY <1>1, <3>1, <4>1, <4>2 DEF EntriesAreWhole
    <3> QED BY <3>2, <3>3
  <2>3. EntriesAreWhole'
    BY <2>2 DEF EntriesAreWhole
  <2>4. PostingsHaveAccounts'
    <3>1. \A p \in e : p.account \in {cmd[t].source, cmd[t].destination}
      BY DEF createTransferEntry, Posting
    <3> QED BY <1>1, <1>2, <1>3, <3>1 DEF PostingsHaveAccounts, Accepted
  <2> QED BY <1>3, <1>5, <2>1, <2>3, <2>4 DEF Inv
<1>4. CASE pc' = [pc EXCEPT ![t] = "error"] /\ UNCHANGED postings
  BY <1>1, <1>2, <1>4, <1>5, QuietStep DEF TypeOK
<1> QED BY <1>3, <1>4 DEF SaveEntry

\* No step saves a part of an entry, or a posting on an account that is not stored.
LEMMA NextInv == Inv /\ [Next]_vars => Inv'
<1> SUFFICES ASSUME Inv, [Next]_vars PROVE Inv'
  OBVIOUS
<1>0. TypeOK /\ \A t \in Transfers : AccountsFound(t)
  BY DEF Inv
<1>1. ASSUME NEW a \in Accounts, SaveAccount(a) PROVE Inv'
  BY <1>0, <1>1, QuietStep DEF SaveAccount, TypeOK, AccountsFound
<1>2. ASSUME NEW a \in Accounts, SaveLedgerAccount(a) PROVE Inv'
  BY <1>0, <1>2, QuietStep DEF SaveLedgerAccount, TypeOK, AccountsFound
<1>3. ASSUME NEW t \in Transfers, FindSource(t) PROVE Inv'
  BY <1>0, <1>3, QuietStep DEF FindSource, TypeOK, AccountsFound
<1>4. ASSUME NEW t \in Transfers, FindDestination(t) PROVE Inv'
  BY <1>0, <1>4, QuietStep DEF FindDestination, TypeOK, AccountsFound
<1>5. ASSUME NEW t \in Transfers, SaveEntry(t) PROVE Inv'
  BY <1>5, SaveEntryStep
<1>6. CASE UNCHANGED vars
  BY <1>0, <1>6, QuietStep DEF vars, TypeOK, AccountsFound
<1> QED BY <1>1, <1>2, <1>3, <1>4, <1>5, <1>6 DEF Next, Finished

\* The invariant of the entries.
LEMMA SpecInv == Spec => []Inv
  BY InitInv, NextInv, PTL DEF Spec

\* The commands, accounts and postings keep their types, and no ledger account is without
\* its account (createAccount).
THEOREM TypeCorrect == Spec => []TypeOK
  BY SpecInv, PTL DEF Inv

\* An entry is read back with the postings it was made of or not at all, and successful
\* transfers are in the ledger (saveEntry, findEntryById).
THEOREM EntriesWhole == Spec => []EntriesAreWhole
  BY SpecInv, PTL DEF Inv

---------------------------------------------------------------------------------
(* The accounting equation.                                                 *)

amountOf == [p \in PostingType |-> p.amount]

Of(ps, a, direction) == {p \in ps : p.account = a /\ p.direction = direction}

\* What an account was debited and not credited again.
Net(ps, a) == Sum(amountOf, Of(ps, a, "DEBIT")) - Sum(amountOf, Of(ps, a, "CREDIT"))
NetOf(ps) == [a \in Accounts |-> Net(ps, a)]

\* The stored accounts of a currency, and those whose balance can be read.
InCurrency(c) == {a \in accounts : CurrencyOf[a] = c}
Readable(c) == {a \in ledgerAccounts : CurrencyOf[a] = c}

\* The amounts, and the booked transfers that Strayed adds up.
paid == [t \in Transfers |-> cmd[t].amount]
Into(c) == {t \in Booked : CurrencyOf[cmd[t].destination] = c /\ cmd[t].currency # c}
OutOf(c) == {t \in Booked : CurrencyOf[cmd[t].destination] # c /\ cmd[t].currency = c}
StrayedSum(c) == Sum(paid, Into(c)) - Sum(paid, OutOf(c))

\* The accounts of each currency add up to what has strayed into it.
NetIsStrayed == \A c \in Currencies : Sum(NetOf(postings), InCurrency(c)) = StrayedSum(c)

TrialInv ==
  /\ IsFiniteSet(postings) /\ IsFiniteSet(accounts) /\ IsFiniteSet(Booked)
  /\ \A t \in Transfers : pc[t] = "book" => CurrencyOf[cmd[t].source] = cmd[t].currency
  /\ NetIsStrayed

\* What the fold over an account's postings computes (MapThenSumSet).
LEMMA TotalIsSum ==
  ASSUME NEW ps, IsFiniteSet(ps), ps \subseteq PostingType, NEW d
  PROVE  Total(ps, d) = Sum(amountOf, {p \in ps : p.direction = d})
<1> DEFINE S == {p \in ps : p.direction = d}
           c == [s \in SUBSET S |-> CHOOSE x \in s : TRUE]
           Chosen(h) == [s \in SUBSET S |-> IF s = {} THEN 0 ELSE amountOf[c[s]] + h[s \ {c[s]}]]
           Iter(h) == [s \in SUBSET S |-> IF s = {} THEN 0
                         ELSE (CHOOSE x \in s : TRUE).amount + h[s \ {CHOOSE x \in s : TRUE}]]
<1>1. IsFiniteSet(S) /\ S \subseteq PostingType
  BY FS_Subset
<1>2. \A x \in S : amountOf[x] = x.amount /\ amountOf[x] \in Int
  BY DEF amountOf, PostingType
<1>3. \A s \in SUBSET S : c[s] = CHOOSE x \in s : TRUE
  OBVIOUS
<1>4. \A s \in SUBSET S : s # {} => c[s] \in s
  OBVIOUS
<1> HIDE DEF S, c
<1>5. (\E h : h = Chosen(h)) /\ (\A h : h = Chosen(h) => h[S] = Sum(amountOf, S))
  BY <1>1, <1>2, <1>4, FoldsSum
<1>6. ASSUME NEW s \in SUBSET S, s # {}
      PROVE  amountOf[c[s]] = (CHOOSE x \in s : TRUE).amount
  BY <1>2, <1>3, <1>4, <1>6
<1>7. ASSUME NEW h PROVE Chosen(h) = Iter(h)
  BY <1>3, <1>6
<1>8. (\E h : h = Iter(h)) /\ (\A h : h = Iter(h) => h[S] = Sum(amountOf, S))
  <2> HIDE DEF Chosen, Iter
  <2> QED BY <1>5, <1>7
<1>9. MapThenSumSet(LAMBDA p : p.amount, S) = Sum(amountOf, S)
  BY <1>8 DEF MapThenSumSet, MapThenFoldSet
<1> QED BY <1>9 DEF Total, S

\* The parts of a ledger, and that what an account was debited is a number.
LEMMA NetFacts ==
  ASSUME NEW ps, IsFiniteSet(ps), ps \subseteq PostingType, NEW a \in Accounts
  PROVE  /\ \A d : /\ IsFiniteSet(Of(ps, a, d)) /\ Of(ps, a, d) \subseteq PostingType
                   /\ \A p \in Of(ps, a, d) : amountOf[p] \in Int
                   /\ Sum(amountOf, Of(ps, a, d)) \in Int
         /\ Net(ps, a) \in Int
         /\ NetOf(ps)[a] = Net(ps, a)
<1>1. ASSUME NEW d
      PROVE  /\ IsFiniteSet(Of(ps, a, d)) /\ Of(ps, a, d) \subseteq PostingType
             /\ \A p \in Of(ps, a, d) : amountOf[p] \in Int
             /\ Sum(amountOf, Of(ps, a, d)) \in Int
  <2>1. IsFiniteSet(Of(ps, a, d)) /\ Of(ps, a, d) \subseteq PostingType
    BY FS_Subset DEF Of
  <2>2. \A p \in Of(ps, a, d) : amountOf[p] \in Int
    BY <2>1 DEF amountOf, PostingType
  <2> QED BY <2>1, <2>2, SumFacts
<1>2. Net(ps, a) \in Int
  BY <1>1 DEF Net
<1> QED BY <1>1, <1>2 DEF NetOf

\* A balance is what is net on the account, seen from its normal side.
LEMMA BalanceIsNet ==
  ASSUME TypeOK, IsFiniteSet(postings), NEW a \in Accounts
  PROVE  getAccountBalance(a) =
           IF isDebitNormal(a) THEN Net(postings, a) ELSE -Net(postings, a)
<1> DEFINE ps == findPostingsForAccount(a)
<1>1. ps \subseteq PostingType /\ IsFiniteSet(ps)
  BY FS_Subset DEF TypeOK, findPostingsForAccount
<1>2. \A d : {p \in ps : p.direction = d} = Of(postings, a, d)
  BY DEF findPostingsForAccount, Of
<1> HIDE DEF ps
<1>3. \A d : Total(ps, d) = Sum(amountOf, Of(postings, a, d))
  BY <1>1, <1>2, TotalIsSum
<1>4. \A d : Sum(amountOf, Of(postings, a, d)) \in Int
  BY NetFacts DEF TypeOK
<1>5. getAccountBalance(a) = calculateAccountBalance(a, ps)
  BY DEF getAccountBalance, ps
<1> QED BY <1>3, <1>4, <1>5 DEF calculateAccountBalance, Net

\* What the fold over accounts computes.
LEMMA BalancesSum ==
  ASSUME TypeOK, IsFiniteSet(postings), NEW S, IsFiniteSet(S), S \subseteq Accounts
  PROVE  MapThenSumSet(getAccountBalance, S)
           = Sum([a \in Accounts |-> getAccountBalance(a)], S)
<1> DEFINE b == [a \in Accounts |-> getAccountBalance(a)]
           c == [s \in SUBSET S |-> CHOOSE x \in s : TRUE]
           Chosen(h) == [s \in SUBSET S |-> IF s = {} THEN 0 ELSE b[c[s]] + h[s \ {c[s]}]]
           Iter(h) == [s \in SUBSET S |-> IF s = {} THEN 0
                         ELSE getAccountBalance(CHOOSE x \in s : TRUE)
                                + h[s \ {CHOOSE x \in s : TRUE}]]
<1>1. \A x \in S : b[x] = getAccountBalance(x) /\ b[x] \in Int
  <2>1. \A x \in S : getAccountBalance(x) \in Int
    BY BalanceIsNet, NetFacts DEF TypeOK
  <2> QED BY <2>1
<1>2. \A s \in SUBSET S : c[s] = CHOOSE x \in s : TRUE
  OBVIOUS
<1>3. \A s \in SUBSET S : s # {} => c[s] \in s
  OBVIOUS
<1> HIDE DEF b, c
<1>4. (\E h : h = Chosen(h)) /\ (\A h : h = Chosen(h) => h[S] = Sum(b, S))
  BY <1>1, <1>3, FoldsSum
<1>5. ASSUME NEW s \in SUBSET S, s # {}
      PROVE  b[c[s]] = getAccountBalance(CHOOSE x \in s : TRUE)
  BY <1>1, <1>2, <1>3, <1>5
<1>6. ASSUME NEW h PROVE Chosen(h) = Iter(h)
  BY <1>2, <1>5
<1>7. (\E h : h = Iter(h)) /\ (\A h : h = Iter(h) => h[S] = Sum(b, S))
  <2> HIDE DEF Chosen, Iter
  <2> QED BY <1>4, <1>6
<1>8. MapThenSumSet(getAccountBalance, S) = Sum(b, S)
  BY <1>7 DEF MapThenSumSet, MapThenFoldSet
<1> QED BY <1>8 DEF b

\* What the fold over transfers computes.
LEMMA PaidIsSum ==
  ASSUME TypeOK, NEW S, IsFiniteSet(S), S \subseteq Transfers
  PROVE  Paid(S) = Sum(paid, S)
<1> DEFINE c == [s \in SUBSET S |-> CHOOSE x \in s : TRUE]
           Chosen(h) == [s \in SUBSET S |-> IF s = {} THEN 0 ELSE paid[c[s]] + h[s \ {c[s]}]]
           Iter(h) == [s \in SUBSET S |-> IF s = {} THEN 0
                         ELSE cmd[CHOOSE x \in s : TRUE].amount + h[s \ {CHOOSE x \in s : TRUE}]]
<1>1. \A x \in S : paid[x] = cmd[x].amount /\ paid[x] \in Int
  BY DEF paid, TypeOK, CommandType
<1>2. \A s \in SUBSET S : c[s] = CHOOSE x \in s : TRUE
  OBVIOUS
<1>3. \A s \in SUBSET S : s # {} => c[s] \in s
  OBVIOUS
<1> HIDE DEF c
<1>4. (\E h : h = Chosen(h)) /\ (\A h : h = Chosen(h) => h[S] = Sum(paid, S))
  BY <1>1, <1>3, FoldsSum
<1>5. ASSUME NEW s \in SUBSET S, s # {}
      PROVE  paid[c[s]] = cmd[CHOOSE x \in s : TRUE].amount
  BY <1>1, <1>2, <1>3, <1>5
<1>6. ASSUME NEW h PROVE Chosen(h) = Iter(h)
  BY <1>2, <1>5
<1>7. (\E h : h = Iter(h)) /\ (\A h : h = Iter(h) => h[S] = Sum(paid, S))
  <2> HIDE DEF Chosen, Iter
  <2> QED BY <1>4, <1>6
<1>8. MapThenSumSet(LAMBDA t : cmd[t].amount, S) = Sum(paid, S)
  BY <1>7 DEF MapThenSumSet, MapThenFoldSet
<1> QED BY <1>8 DEF Paid

\* What has strayed is a difference of two sums.
LEMMA StrayedIsSum ==
  ASSUME TypeOK, IsFiniteSet(Booked), NEW c
  PROVE  Strayed(c) = StrayedSum(c)
<1>1. /\ Into(c) \subseteq Transfers /\ IsFiniteSet(Into(c))
      /\ OutOf(c) \subseteq Transfers /\ IsFiniteSet(OutOf(c))
  <2>1. Into(c) \subseteq Booked /\ OutOf(c) \subseteq Booked /\ Booked \subseteq Transfers
    BY DEF Into, OutOf, Booked
  <2> QED BY <2>1, FS_Subset
<1>2. Paid(Into(c)) = Sum(paid, Into(c)) /\ Paid(OutOf(c)) = Sum(paid, OutOf(c))
  BY <1>1, PaidIsSum
<1> QED BY <1>2 DEF Strayed, StrayedSum, Into, OutOf

\* Accounts whose balance cannot be read have no postings where the database refuses them.
LEMMA NothingUnread ==
  ASSUME Inv, TrialInv, durable \/ accounts = ledgerAccounts, NEW c \in Currencies
  PROVE  Sum(NetOf(postings), Readable(c)) = StrayedSum(c)
<1> DEFINE n == NetOf(postings)
           rest == InCurrency(c) \ ledgerAccounts
<1>1. TypeOK /\ IsFiniteSet(postings) /\ postings \subseteq PostingType /\ IsFiniteSet(accounts)
  BY DEF Inv, TrialInv, TypeOK
<1>2. /\ InCurrency(c) = Readable(c) \cup rest /\ Readable(c) \cap rest = {}
      /\ Readable(c) \subseteq accounts /\ rest \subseteq accounts /\ accounts \subseteq Accounts
  BY <1>1 DEF InCurrency, Readable, TypeOK
<1>3. IsFiniteSet(Readable(c)) /\ IsFiniteSet(rest)
  BY <1>1, <1>2, FS_Subset
<1>4. \A a \in Accounts : n[a] \in Int
  BY <1>1, NetFacts
<1>5. \A a \in rest : n[a] = 0
  <2> SUFFICES ASSUME NEW a \in rest PROVE n[a] = 0
    OBVIOUS
  <2>1. \A d : Of(postings, a, d) = {}
    BY DEF Of, Inv, PostingsHaveAccounts, InCurrency
  <2>2. Sum(amountOf, {}) = 0
    BY SumFacts, FS_EmptySet
  <2>3. Net(postings, a) = 0
    BY <2>1, <2>2 DEF Net
  <2> QED BY <1>2, <2>3 DEF NetOf
<1> HIDE DEF n, rest
<1>6. Sum(n, rest) = 0
  <2>1. PICK z \in Int : z = 0
    OBVIOUS
  <2>2. \A a \in rest : n[a] \in Int /\ n[a] = z * n[a] + z * n[a]
    BY <1>5, <2>1
  <2>3. Sum(n, rest) = z * Sum(n, rest) + z * Sum(n, rest)
    BY <1>3, <2>2, SumsAreLinear
  <2>4. Sum(n, rest) \in Int
    BY <1>3, <2>2, SumFacts
  <2> QED BY <2>1, <2>3, <2>4
<1>7. Sum(n, InCurrency(c)) = Sum(n, Readable(c)) + Sum(n, rest)
  BY <1>2, <1>3, <1>4, SumOfTwoParts
<1>8. Sum(n, Readable(c)) \in Int
  BY <1>2, <1>3, <1>4, SumFacts
<1>9. Sum(n, InCurrency(c)) = StrayedSum(c)
  BY DEF TrialInv, NetIsStrayed, n
<1> QED BY <1>6, <1>7, <1>8, <1>9 DEF n

\* When the accounts of a currency add up to what has strayed into it, so do their balances.
LEMMA TrialFromNet ==
  ASSUME Inv, TrialInv
  PROVE  TrialBalance
<1> SUFFICES ASSUME durable \/ accounts = ledgerAccounts, NEW c \in Currencies
             PROVE  LET inCurrency == {a \in ledgerAccounts : CurrencyOf[a] = c}
                    IN  MapThenSumSet(getAccountBalance, {a \in inCurrency : isDebitNormal(a)})
                         - MapThenSumSet(getAccountBalance, {a \in inCurrency : ~isDebitNormal(a)})
                          = Strayed(c)
  BY DEF TrialBalance
<1> DEFINE D == {a \in Readable(c) : isDebitNormal(a)}
           C == {a \in Readable(c) : ~isDebitNormal(a)}
           b == [a \in Accounts |-> getAccountBalance(a)]
           n == NetOf(postings)
<1>0. TypeOK
  BY DEF Inv
<1>1. /\ Readable(c) = D \cup C /\ D \cap C = {}
      /\ IsFiniteSet(D) /\ IsFiniteSet(C)
      /\ D \subseteq Accounts /\ C \subseteq Accounts
  <2>1. Readable(c) \subseteq accounts /\ Readable(c) \subseteq Accounts
    BY <1>0 DEF Readable, TypeOK
  <2>2. D \subseteq accounts /\ C \subseteq accounts
    BY <2>1
  <2>3. IsFiniteSet(D) /\ IsFiniteSet(C)
    BY <2>2, FS_Subset DEF TrialInv
  <2> QED BY <2>1, <2>3
<1>2. \A a \in D : b[a] = n[a] /\ n[a] \in Int
  BY <1>0, <1>1, BalanceIsNet, NetFacts DEF TrialInv, TypeOK
<1>3. \A a \in C : b[a] = -n[a] /\ n[a] \in Int
  BY <1>0, <1>1, BalanceIsNet, NetFacts DEF TrialInv, TypeOK
<1>4. /\ MapThenSumSet(getAccountBalance, D) = Sum(b, D)
      /\ MapThenSumSet(getAccountBalance, C) = Sum(b, C)
  BY <1>0, <1>1, BalancesSum DEF TrialInv
<1>5. Sum(n, Readable(c)) = Strayed(c)
  <2>1. Sum(n, Readable(c)) = StrayedSum(c)
    BY NothingUnread
  <2>2. Strayed(c) = StrayedSum(c)
    BY <1>0, StrayedIsSum DEF TrialInv
  <2> QED BY <2>1, <2>2
<1>6. Readable(c) = {a \in ledgerAccounts : CurrencyOf[a] = c}
  BY DEF Readable
<1> HIDE DEF D, C, b, n
<1>7. Sum(b, D) = Sum(n, D)
  BY <1>2, SumsOfSame
<1>8. Sum(b, C) = -Sum(n, C)
  <2>1. \A a \in C : n[a] \in Int /\ b[a] = (-1) * n[a] + 0 * n[a]
    BY <1>3
  <2>2. Sum(b, C) = (-1) * Sum(n, C) + 0 * Sum(n, C)
    BY <1>1, <2>1, SumsAreLinear
  <2>3. Sum(n, C) \in Int
    BY <1>1, <1>3, SumFacts
  <2> QED BY <2>2, <2>3
<1>9. Sum(n, D) + Sum(n, C) = Strayed(c)
  BY <1>1, <1>2, <1>3, <1>5, SumOfTwoParts
<1>10. Sum(n, D) \in Int /\ Sum(n, C) \in Int
  BY <1>1, <1>2, <1>3, SumFacts
<1>11. MapThenSumSet(getAccountBalance, D) - MapThenSumSet(getAccountBalance, C) = Strayed(c)
  BY <1>4, <1>7, <1>8, <1>9, <1>10
<1> QED BY <1>6, <1>11 DEF D, C

\* An entry has two postings, and the sums below are of finite sets.
LEMMA EntriesAreFinite ==
  ASSUME NEW t
  PROVE  IsFiniteSet(createTransferEntry(t))
<1> DEFINE p1 == Posting(t, 1, cmd[t].destination, "DEBIT")
           p2 == Posting(t, 2, cmd[t].source, "CREDIT")
<1>1. createTransferEntry(t) = {p1} \cup {p2}
  BY DEF createTransferEntry
<1> HIDE DEF p1, p2
<1>2. IsFiniteSet({p1})
  BY FS_Singleton
<1>3. IsFiniteSet({p1} \cup {p2})
  BY <1>2, FS_AddElement
<1> QED BY <1>1, <1>3

\* What an entry adds to the postings of an account, in one direction.
LEMMA EntryAdds ==
  ASSUME TypeOK, IsFiniteSet(postings), NEW t \in Transfers, findEntryById(t) = {},
         NEW a \in Accounts,
         NEW ps, ps = postings \cup createTransferEntry(t)
  PROVE  /\ Sum(amountOf, Of(ps, a, "DEBIT")) =
              Sum(amountOf, Of(postings, a, "DEBIT"))
                + (IF a = cmd[t].destination THEN cmd[t].amount ELSE 0)
         /\ Sum(amountOf, Of(ps, a, "CREDIT")) =
              Sum(amountOf, Of(postings, a, "CREDIT"))
                + (IF a = cmd[t].source THEN cmd[t].amount ELSE 0)
<1> DEFINE p1 == Posting(t, 1, cmd[t].destination, "DEBIT")
           p2 == Posting(t, 2, cmd[t].source, "CREDIT")
<1>1. /\ p1 \in PostingType /\ p2 \in PostingType
      /\ p1.account = cmd[t].destination /\ p1.direction = "DEBIT"
      /\ p2.account = cmd[t].source /\ p2.direction = "CREDIT"
      /\ amountOf[p1] = cmd[t].amount /\ amountOf[p2] = cmd[t].amount
      /\ p1.entry = t /\ p2.entry = t
  <2>1. p1 \in createTransferEntry(t) /\ p2 \in createTransferEntry(t)
    BY DEF createTransferEntry
  <2>2. p1 \in PostingType /\ p2 \in PostingType
    BY <2>1, EntriesApart
  <2> QED BY <2>2 DEF amountOf, Posting
<1>2. p1 \notin postings /\ p2 \notin postings
  BY <1>1 DEF findEntryById
<1>3. createTransferEntry(t) = {p1, p2}
  BY DEF createTransferEntry
<1>4. cmd[t].amount \in Int
  BY DEF TypeOK, CommandType
<1> HIDE DEF p1, p2
<1>5. ASSUME NEW d \in {"DEBIT", "CREDIT"}
      PROVE  /\ IsFiniteSet(Of(postings, a, d))
             /\ \A p \in Of(postings, a, d) : amountOf[p] \in Int
             /\ Sum(amountOf, Of(postings, a, d)) \in Int
             /\ p1 \notin Of(postings, a, d) /\ p2 \notin Of(postings, a, d)
  <2>1. p1 \notin Of(postings, a, d) /\ p2 \notin Of(postings, a, d)
    BY <1>2 DEF Of
  <2> QED BY <2>1, NetFacts DEF TypeOK
<1>6. Sum(amountOf, Of(ps, a, "DEBIT")) =
        Sum(amountOf, Of(postings, a, "DEBIT"))
          + (IF a = cmd[t].destination THEN cmd[t].amount ELSE 0)
  <2>1. CASE a = cmd[t].destination
    <3>1. Of(ps, a, "DEBIT") = Of(postings, a, "DEBIT") \cup {p1}
      BY <1>1, <1>3, <2>1 DEF Of
    <3>2. \A p \in Of(postings, a, "DEBIT") \cup {p1} : amountOf[p] \in Int
      BY <1>1, <1>4, <1>5
    <3>3. Sum(amountOf, Of(ps, a, "DEBIT")) = amountOf[p1] + Sum(amountOf, Of(postings, a, "DEBIT"))
      BY <1>5, <3>1, <3>2, SumOfOneMore
    <3> QED BY <1>1, <1>4, <1>5, <2>1, <3>3
  <2>2. CASE a # cmd[t].destination
    <3>1. Of(ps, a, "DEBIT") = Of(postings, a, "DEBIT")
      BY <1>1, <1>3, <2>2 DEF Of
    <3> QED BY <1>5, <2>2, <3>1
  <2> QED BY <2>1, <2>2
<1>7. Sum(amountOf, Of(ps, a, "CREDIT")) =
        Sum(amountOf, Of(postings, a, "CREDIT"))
          + (IF a = cmd[t].source THEN cmd[t].amount ELSE 0)
  <2>1. CASE a = cmd[t].source
    <3>1. Of(ps, a, "CREDIT") = Of(postings, a, "CREDIT") \cup {p2}
      BY <1>1, <1>3, <2>1 DEF Of
    <3>2. \A p \in Of(postings, a, "CREDIT") \cup {p2} : amountOf[p] \in Int
      BY <1>1, <1>4, <1>5
    <3>3. Sum(amountOf, Of(ps, a, "CREDIT"))
            = amountOf[p2] + Sum(amountOf, Of(postings, a, "CREDIT"))
      BY <1>5, <3>1, <3>2, SumOfOneMore
    <3> QED BY <1>1, <1>4, <1>5, <2>1, <3>3
  <2>2. CASE a # cmd[t].source
    <3>1. Of(ps, a, "CREDIT") = Of(postings, a, "CREDIT")
      BY <1>1, <1>3, <2>2 DEF Of
    <3> QED BY <1>5, <2>2, <3>1
  <2> QED BY <2>1, <2>2
<1> QED BY <1>6, <1>7

\* An entry moves its amount from one stored account to another, in the sum of each currency.
LEMMA EntryNets ==
  ASSUME Inv, TrialInv, NEW t \in Transfers, findEntryById(t) = {},
         cmd[t].source \in accounts, cmd[t].destination \in accounts,
         NEW ps, ps = postings \cup createTransferEntry(t),
         NEW c \in Currencies
  PROVE  Sum(NetOf(ps), InCurrency(c)) =
           Sum(NetOf(postings), InCurrency(c))
             + (IF CurrencyOf[cmd[t].destination] = c THEN cmd[t].amount ELSE 0)
             - (IF CurrencyOf[cmd[t].source] = c THEN cmd[t].amount ELSE 0)
<1> DEFINE S == InCurrency(c)
           n == NetOf(postings)
           m == NetOf(ps)
           src == cmd[t].source
           dst == cmd[t].destination
           x == cmd[t].amount
           k == [a \in Accounts |-> n[a] + (IF a = dst THEN x ELSE 0)]
<1>0. TypeOK /\ IsFiniteSet(postings) /\ src \in Accounts /\ dst \in Accounts /\ x \in Int
  BY DEF Inv, TrialInv, TypeOK, CommandType
<1>1. IsFiniteSet(S) /\ S \subseteq Accounts
  BY <1>0, FS_Subset DEF TrialInv, InCurrency, TypeOK
<1>3. \A a \in Accounts : n[a] \in Int
  BY <1>0, NetFacts DEF TypeOK
<1>4. ps \subseteq PostingType /\ IsFiniteSet(ps)
  <2>1. createTransferEntry(t) \subseteq PostingType
    BY <1>0, EntriesApart
  <2> QED BY <1>0, <2>1, EntriesAreFinite, FS_Union DEF TypeOK
<1>5. ASSUME NEW a \in Accounts
      PROVE  m[a] = n[a] + (IF a = dst THEN x ELSE 0) - (IF a = src THEN x ELSE 0)
  <2>1. m[a] = Net(ps, a) /\ n[a] = Net(postings, a)
    BY <1>0, <1>4, NetFacts DEF TypeOK
  <2>2. \A d : Sum(amountOf, Of(postings, a, d)) \in Int
    BY <1>0, NetFacts DEF TypeOK
  <2>3. /\ Sum(amountOf, Of(ps, a, "DEBIT")) =
             Sum(amountOf, Of(postings, a, "DEBIT")) + (IF a = dst THEN x ELSE 0)
        /\ Sum(amountOf, Of(ps, a, "CREDIT")) =
             Sum(amountOf, Of(postings, a, "CREDIT")) + (IF a = src THEN x ELSE 0)
    BY <1>0, EntryAdds
  <2> HIDE DEF m, n
  <2> QED BY <1>0, <2>1, <2>2, <2>3 DEF Net
<1>6. \A a \in Accounts : k[a] = n[a] + (IF a = dst THEN x ELSE 0)
  OBVIOUS
<1>7. /\ src \in S <=> CurrencyOf[src] = c
      /\ dst \in S <=> CurrencyOf[dst] = c
  BY DEF InCurrency
<1> HIDE DEF S, n, m, k, src, dst, x
<1>8. \A a \in S : n[a] \in Int /\ k[a] \in Int /\ m[a] \in Int
  BY <1>0, <1>1, <1>3, <1>5, <1>6
<1>9. \A a \in S : (a # dst => k[a] = n[a]) /\ (a # src => m[a] = k[a])
  BY <1>0, <1>1, <1>3, <1>5, <1>6
<1>10. Sum(k, S) = Sum(n, S) + (IF dst \in S THEN x ELSE 0)
  <2>1. CASE dst \in S
    <3>1. Sum(k, S) = Sum(n, S) + (k[dst] - n[dst])
      BY <1>1, <1>8, <1>9, <2>1, SumOfOneChange
    <3> QED BY <1>0, <1>3, <1>6, <2>1, <3>1
  <2>2. CASE dst \notin S
    <3>1. \A a \in S : k[a] = n[a]
      BY <1>9, <2>2
    <3>2. Sum(k, S) = Sum(n, S) /\ Sum(n, S) \in Int
      BY <1>1, <1>8, <3>1, SumsOfSame, SumFacts
    <3> QED BY <2>2, <3>2
  <2> QED BY <2>1, <2>2
<1>11. Sum(m, S) = Sum(k, S) - (IF src \in S THEN x ELSE 0)
  <2>1. CASE src \in S
    <3>1. Sum(m, S) = Sum(k, S) + (m[src] - k[src])
      BY <1>1, <1>8, <1>9, <2>1, SumOfOneChange
    <3>2. m[src] - k[src] = -x
      BY <1>0, <1>3, <1>5, <1>6
    <3>3. Sum(k, S) \in Int
      BY <1>1, <1>8, SumFacts
    <3> QED BY <1>0, <2>1, <3>1, <3>2, <3>3
  <2>2. CASE src \notin S
    <3>1. \A a \in S : m[a] = k[a]
      BY <1>9, <2>2
    <3>2. Sum(m, S) = Sum(k, S) /\ Sum(k, S) \in Int
      BY <1>1, <1>8, <3>1, SumsOfSame, SumFacts
    <3> QED BY <2>2, <3>2
  <2> QED BY <2>1, <2>2
<1>12. Sum(m, S) = Sum(n, S) + (IF CurrencyOf[dst] = c THEN x ELSE 0)
                             - (IF CurrencyOf[src] = c THEN x ELSE 0)
  <2>1. Sum(n, S) \in Int
    BY <1>1, <1>8, SumFacts
  <2> QED BY <1>0, <1>7, <1>10, <1>11, <2>1
<1> QED BY <1>12 DEF S, n, m, src, dst, x

\* A booked transfer counts as strayed where its payee's currency is not its own.
LEMMA EntryStrays ==
  ASSUME TypeOK, IsFiniteSet(Booked), NEW t \in Transfers, t \notin Booked,
         cmd' = cmd, Booked' = Booked \cup {t}, NEW c \in Currencies
  PROVE  /\ StrayedSum(c)' = StrayedSum(c)
              + (IF CurrencyOf[cmd[t].destination] = c THEN cmd[t].amount ELSE 0)
              - (IF cmd[t].currency = c THEN cmd[t].amount ELSE 0)
         /\ StrayedSum(c) \in Int
<1> DEFINE x == cmd[t].amount
           in == CurrencyOf[cmd[t].destination] = c /\ cmd[t].currency # c
           out == CurrencyOf[cmd[t].destination] # c /\ cmd[t].currency = c
<1>1. /\ \A u \in Transfers : paid[u] \in Int
      /\ paid[t] = x /\ x \in Int /\ paid' = paid
  BY DEF paid, TypeOK, CommandType
<1>2. /\ Into(c) \subseteq Transfers /\ IsFiniteSet(Into(c)) /\ t \notin Into(c)
      /\ OutOf(c) \subseteq Transfers /\ IsFiniteSet(OutOf(c)) /\ t \notin OutOf(c)
  <2>1. Into(c) \subseteq Booked /\ OutOf(c) \subseteq Booked /\ Booked \subseteq Transfers
    BY DEF Into, OutOf, Booked
  <2> QED BY <2>1, FS_Subset
<1>3. /\ Into(c)' = Into(c) \cup (IF in THEN {t} ELSE {})
      /\ OutOf(c)' = OutOf(c) \cup (IF out THEN {t} ELSE {})
  BY DEF Into, OutOf
<1>4. Sum(paid, Into(c)) \in Int /\ Sum(paid, OutOf(c)) \in Int
  BY <1>1, <1>2, SumFacts
<1>5. Sum(paid, Into(c) \cup {t}) = x + Sum(paid, Into(c))
  BY <1>1, <1>2, SumOfOneMore
<1>6. Sum(paid, OutOf(c) \cup {t}) = x + Sum(paid, OutOf(c))
  BY <1>1, <1>2, SumOfOneMore
<1>7. PICK I, O : I = Into(c)' /\ O = OutOf(c)'
  OBVIOUS
<1>8. StrayedSum(c)' = Sum(paid, I) - Sum(paid, O)
  BY <1>1, <1>7 DEF StrayedSum
<1>9. Sum(paid, I) = Sum(paid, Into(c)) + (IF in THEN x ELSE 0)
  <2>1. CASE in
    <3>1. I = Into(c) \cup {t}
      BY <1>3, <1>7, <2>1
    <3> QED BY <1>1, <1>4, <1>5, <2>1, <3>1
  <2>2. CASE ~in
    <3>1. I = Into(c)
      BY <1>3, <1>7, <2>2
    <3> QED BY <1>4, <2>2, <3>1
  <2> QED BY <2>1, <2>2
<1>10. Sum(paid, O) = Sum(paid, OutOf(c)) + (IF out THEN x ELSE 0)
  <2>1. CASE out
    <3>1. O = OutOf(c) \cup {t}
      BY <1>3, <1>7, <2>1
    <3> QED BY <1>1, <1>4, <1>6, <2>1, <3>1
  <2>2. CASE ~out
    <3>1. O = OutOf(c)
      BY <1>3, <1>7, <2>2
    <3> QED BY <1>4, <2>2, <3>1
  <2> QED BY <2>1, <2>2
<1>11. StrayedSum(c) = Sum(paid, Into(c)) - Sum(paid, OutOf(c))
  BY DEF StrayedSum
<1> HIDE DEF x
<1> QED BY <1>1, <1>4, <1>8, <1>9, <1>10, <1>11 DEF x

\* A step that books nothing and opens no account.
LEMMA QuietTrial ==
  ASSUME TrialInv, UNCHANGED <<cmd, postings, accounts>>,
         \A t \in Transfers : pc'[t] = "book" =>
           pc[t] = "book" \/ CurrencyOf[cmd[t].source] = cmd[t].currency
  PROVE  TrialInv'
<1>1. Booked' = Booked
  BY DEF Booked, findEntryById
<1>2. \A c : InCurrency(c)' = InCurrency(c) /\ Into(c)' = Into(c) /\ OutOf(c)' = OutOf(c)
  BY <1>1 DEF InCurrency, Into, OutOf
<1>3. \A c : StrayedSum(c)' = StrayedSum(c)
  BY <1>2 DEF StrayedSum, paid
<1> QED BY <1>1, <1>2, <1>3 DEF TrialInv, NetIsStrayed

\* Nothing adds up to nothing.
LEMMA InitTrial == Init => TrialInv
<1> SUFFICES ASSUME Init PROVE TrialInv
  OBVIOUS
<1>1. postings = {} /\ accounts = {} /\ Booked = {}
  BY DEF Init, Booked, findEntryById
<1>2. \A t \in Transfers : pc[t] # "book"
  BY DEF Init
<1>3. NetIsStrayed
  <2> SUFFICES ASSUME NEW c \in Currencies
               PROVE  Sum(NetOf(postings), InCurrency(c)) = StrayedSum(c)
    BY DEF NetIsStrayed
  <2>1. InCurrency(c) = {} /\ Into(c) = {} /\ OutOf(c) = {}
    BY <1>1 DEF InCurrency, Into, OutOf
  <2>2. \A f : Sum(f, {}) = 0
    BY SumFacts, FS_EmptySet
  <2> QED BY <2>1, <2>2 DEF StrayedSum
<1> QED BY <1>1, <1>2, <1>3, FS_EmptySet DEF TrialInv

\* A new account has no postings yet, so it adds nothing to its currency.
LEMMA OpenedTrial ==
  ASSUME Inv, TrialInv, NEW a \in Accounts, SaveAccount(a)
  PROVE  TrialInv'
<1> DEFINE n == NetOf(postings)
<1>0. TypeOK /\ IsFiniteSet(postings) /\ IsFiniteSet(accounts) /\ postings \subseteq PostingType
  BY DEF Inv, TrialInv, TypeOK
<1>1. /\ a \notin accounts /\ accounts' = accounts \cup {a}
      /\ UNCHANGED <<cmd, pc, postings>>
  BY DEF SaveAccount
<1>2. n[a] = 0
  <2>1. \A d : Of(postings, a, d) = {}
    BY <1>1 DEF Of, Inv, PostingsHaveAccounts
  <2>2. Sum(amountOf, {}) = 0
    BY SumFacts, FS_EmptySet
  <2>3. Net(postings, a) = 0
    BY <2>1, <2>2 DEF Net
  <2> QED BY <2>3 DEF NetOf
<1>3. ASSUME NEW c \in Currencies PROVE Sum(n, InCurrency(c)') = StrayedSum(c)
  <2>1. Sum(n, InCurrency(c)) = StrayedSum(c)
    BY DEF TrialInv, NetIsStrayed
  <2>2. CASE CurrencyOf[a] = c
    <3>1. InCurrency(c)' = InCurrency(c) \cup {a} /\ a \notin InCurrency(c)
      BY <1>1, <2>2 DEF InCurrency
    <3>2. IsFiniteSet(InCurrency(c)) /\ InCurrency(c) \subseteq Accounts
      BY <1>0, FS_Subset DEF InCurrency, TypeOK
    <3>3. \A b \in InCurrency(c) \cup {a} : n[b] \in Int
      BY <1>0, <3>2, NetFacts
    <3> HIDE DEF n
    <3>4. Sum(n, InCurrency(c) \cup {a}) = n[a] + Sum(n, InCurrency(c))
      BY <3>1, <3>2, <3>3, SumOfOneMore
    <3>5. Sum(n, InCurrency(c)) \in Int
      BY <3>2, <3>3, SumFacts
    <3> QED BY <1>2, <2>1, <3>1, <3>4, <3>5
  <2>3. CASE CurrencyOf[a] # c
    <3>1. InCurrency(c)' = InCurrency(c)
      BY <1>1, <2>3 DEF InCurrency
    <3> QED BY <2>1, <3>1
  <2> QED BY <2>2, <2>3
<1>4. Booked' = Booked /\ \A c : StrayedSum(c)' = StrayedSum(c)
  <2>1. Booked' = Booked
    BY <1>1 DEF Booked, findEntryById
  <2>2. \A c : Into(c)' = Into(c) /\ OutOf(c)' = OutOf(c)
    BY <1>1, <2>1 DEF Into, OutOf
  <2> QED BY <1>1, <2>1, <2>2 DEF StrayedSum, paid
<1>5. NetIsStrayed'
  BY <1>1, <1>3, <1>4 DEF NetIsStrayed
<1>6. IsFiniteSet(accounts')
  BY <1>0, <1>1, FS_AddElement
<1> QED BY <1>1, <1>4, <1>5, <1>6 DEF TrialInv

\* An entry credits an account of its currency with what it debits to the payee's (saveEntry).
LEMMA BookedTrial ==
  ASSUME Inv, TrialInv, NEW t \in Transfers, SaveEntry(t)
  PROVE  TrialInv'
<1> DEFINE e == createTransferEntry(t)
<1>0. TypeOK /\ EntriesAreWhole
  BY DEF Inv
<1>1. pc[t] = "book" /\ UNCHANGED <<cmd, accounts, ledgerAccounts>>
  BY DEF SaveEntry
<1>2. \A x \in Transfers : pc'[x] = "book" => pc[x] = "book"
  BY <1>0, <1>1 DEF SaveEntry, TypeOK
<1>3. CASE postings' = postings \cup e
  <2>1. findEntryById(t) = {} /\ t \notin Booked
    BY <1>0, <1>1 DEF EntriesAreWhole, Booked
  <2>2. /\ cmd[t].source \in accounts /\ cmd[t].destination \in accounts
        /\ CurrencyOf[cmd[t].source] = cmd[t].currency
    BY <1>1 DEF Inv, AccountsFound, TrialInv
  <2>3. Booked' = Booked \cup {t}
    <3>1. e # {} /\ \A p \in e : p.entry = t
      BY <1>0, EntriesApart
    <3> QED BY <1>3, <3>1 DEF Booked, findEntryById
  <2>4. ASSUME NEW c \in Currencies PROVE Sum(NetOf(postings'), InCurrency(c)) = StrayedSum(c)'
    <3>1. Sum(NetOf(postings), InCurrency(c)) = StrayedSum(c)
      BY DEF TrialInv, NetIsStrayed
    <3>2. Sum(NetOf(postings'), InCurrency(c)) =
            Sum(NetOf(postings), InCurrency(c))
              + (IF CurrencyOf[cmd[t].destination] = c THEN cmd[t].amount ELSE 0)
              - (IF CurrencyOf[cmd[t].source] = c THEN cmd[t].amount ELSE 0)
      BY <1>3, <2>1, <2>2, EntryNets
    <3>3. StrayedSum(c)' = StrayedSum(c)
            + (IF CurrencyOf[cmd[t].destination] = c THEN cmd[t].amount ELSE 0)
            - (IF cmd[t].currency = c THEN cmd[t].amount ELSE 0)
      BY <1>0, <1>1, <2>1, <2>3, EntryStrays DEF TrialInv
    <3> QED BY <2>2, <3>1, <3>2, <3>3
  <2>5. \A c : InCurrency(c)' = InCurrency(c)
    BY <1>1 DEF InCurrency
  <2>6. NetIsStrayed'
    BY <2>4, <2>5 DEF NetIsStrayed
  <2>7. IsFiniteSet(postings') /\ IsFiniteSet(Booked')
    BY <1>3, <2>3, EntriesAreFinite, FS_Union, FS_AddElement DEF TrialInv
  <2> QED BY <1>1, <1>2, <2>6, <2>7 DEF TrialInv
<1>4. CASE UNCHANGED postings
  BY <1>1, <1>2, <1>4, QuietTrial
<1> QED BY <1>3, <1>4 DEF SaveEntry

\* Nothing but an entry moves money, and an account starts with none.
LEMMA NextTrial ==
  ASSUME Inv, TrialInv, [Next]_vars
  PROVE  TrialInv'
<1>0. TypeOK
  BY DEF Inv
<1>1. ASSUME NEW a \in Accounts, SaveAccount(a) PROVE TrialInv'
  BY <1>1, OpenedTrial
<1>2. ASSUME NEW a \in Accounts, SaveLedgerAccount(a) PROVE TrialInv'
  BY <1>2, QuietTrial DEF SaveLedgerAccount
<1>3. ASSUME NEW t \in Transfers, FindSource(t) PROVE TrialInv'
  BY <1>0, <1>3, QuietTrial DEF FindSource, TypeOK
<1>4. ASSUME NEW t \in Transfers, FindDestination(t) PROVE TrialInv'
  BY <1>0, <1>4, QuietTrial DEF FindDestination, TypeOK
<1>5. ASSUME NEW t \in Transfers, SaveEntry(t) PROVE TrialInv'
  BY <1>5, BookedTrial
<1>6. CASE UNCHANGED vars
  BY <1>6, QuietTrial DEF vars
<1> QED BY <1>1, <1>2, <1>3, <1>4, <1>5, <1>6 DEF Next, Finished

\* Over either kind of repository, and whatever payees are in which currency, the reported
\* balances of each currency are off by exactly what has been paid across currencies, however
\* many transfers are booked, fail or are lost (getAccountBalance, createTransferEntry).
THEOREM LedgerBalances == Spec => []TrialBalance
<1>1. Inv /\ TrialInv /\ [Next]_vars => TrialInv'
  BY NextTrial
<1>2. Inv /\ TrialInv => TrialBalance
  BY TrialFromNet
<1> QED BY <1>1, <1>2, InitTrial, SpecInv, PTL DEF Spec
====================================================================================
