---------------------------------- MODULE Ledger ----------------------------------
(***************************************************************************)
(* The double-entry ledger: accounts and their ledger accounts, the        *)
(* transfer entries executePayment books, and the balances read back.      *)
(* A transfer is executePayment seen from the ledger: it looks both        *)
(* accounts up, checks the source, and saves one entry of two postings.    *)
(* What it does in between is in PaymentOrchestrator.  Accounts are always *)
(* active: no operation of the program changes their status.               *)
(* The fee is never posted, and createFeeTransferEntry is never called.    *)
(***************************************************************************)
EXTENDS Integers, FiniteSetsExt

CONSTANTS
  Accounts,
  Currencies,
  TypeOf,       \* the type of each account
  CurrencyOf,   \* the currency of each account
  Transfers,    \* executions that may book an entry
  Commands      \* what they are asked to move

AccountType == {"ASSET", "LIABILITY", "EQUITY", "REVENUE", "EXPENSE"}
CommandType ==
  [source : Accounts, destination : Accounts, currency : Currencies, amount : Int]

ASSUME LedgerAssumption ==
  /\ TypeOf \in [Accounts -> AccountType]
  /\ CurrencyOf \in [Accounts -> Currencies]
  /\ Commands \subseteq CommandType

VARIABLES
  durable,         \* TRUE: the Prisma repositories; FALSE: the in-memory ones; never changes
  cmd,             \* what each transfer is asked to move
  pc,              \* where its execution is
  accounts,        \* stored accounts
  ledgerAccounts,  \* stored ledger accounts
  postings         \* stored postings

vars == <<durable, cmd, pc, accounts, ledgerAccounts, postings>>

PostingType ==
  [entry : Transfers, sequence : {1, 2}, account : Accounts, currency : Currencies,
   amount : Int, direction : {"DEBIT", "CREDIT"}]

---------------------------------------------------------------------------------
(* Postings, entries and balances. *)

Posting(t, sequence, account, direction) ==
  [entry |-> t, sequence |-> sequence, account |-> account, currency |-> cmd[t].currency,
   amount |-> cmd[t].amount, direction |-> direction]

createTransferEntry(t) ==
  {Posting(t, 1, cmd[t].destination, "DEBIT"), Posting(t, 2, cmd[t].source, "CREDIT")}

Total(ps, direction) ==
  MapThenSumSet(LAMBDA p : p.amount, {p \in ps : p.direction = direction})

\* What the constructor of LedgerEntry demands, and the balance trigger of the database.
Balanced(ps) ==
  \A c \in Currencies :
    LET inCurrency == {p \in ps : p.currency = c}
    IN  Total(inCurrency, "DEBIT") = Total(inCurrency, "CREDIT")

isDebitNormal(a) == TypeOf[a] \in {"ASSET", "EXPENSE"}

\* The postings of one account, and those an entry is made of again when it is read.
findPostingsForAccount(a) == {p \in postings : p.account = a}
findEntryById(t) == {p \in postings : p.entry = t}

\* The sums of an account's postings, whatever their currency.
calculateAccountBalance(a, ps) ==
  IF isDebitNormal(a)
    THEN Total(ps, "DEBIT") - Total(ps, "CREDIT")
    ELSE Total(ps, "CREDIT") - Total(ps, "DEBIT")

\* Of an account that has a ledger account; of others there is no balance.
getAccountBalance(a) == calculateAccountBalance(a, findPostingsForAccount(a))

---------------------------------------------------------------------------------
(* Steps. *)

Ended == {"done", "error"}
Goto(t, s) == pc' = [pc EXCEPT ![t] = s]

Init ==
  /\ durable \in BOOLEAN
  /\ cmd \in [Transfers -> Commands]
  /\ pc = [t \in Transfers |-> "new"]
  /\ accounts = {}
  /\ ledgerAccounts = {}
  /\ postings = {}

\* createAccount, its first save and its second; the second may never come.
SaveAccount(a) ==
  /\ a \notin accounts
  /\ accounts' = accounts \cup {a}
  /\ UNCHANGED <<durable, cmd, pc, ledgerAccounts, postings>>

SaveLedgerAccount(a) ==
  /\ a \in accounts \ ledgerAccounts
  /\ ledgerAccounts' = ledgerAccounts \cup {a}
  /\ UNCHANGED <<durable, cmd, pc, accounts, postings>>

FindSource(t) ==
  /\ pc[t] = "new"
  /\ Goto(t, IF cmd[t].source \in accounts THEN "destination" ELSE "error")
  /\ UNCHANGED <<durable, cmd, accounts, ledgerAccounts, postings>>

\* Then assertCanTransact, on the source only.
FindDestination(t) ==
  /\ pc[t] = "destination"
  /\ Goto(t, IF /\ cmd[t].destination \in accounts
                /\ CurrencyOf[cmd[t].source] = cmd[t].currency
               THEN "book" ELSE "error")
  /\ UNCHANGED <<durable, cmd, accounts, ledgerAccounts, postings>>

\* Postings must be positive and entries balanced before an entry exists at all.
Constructible(t) == cmd[t].amount > 0 /\ Balanced(createTransferEntry(t))

\* Mutant: nothing ties a posting to a ledger account.
AcceptedUnchecked(ps) == TRUE

\* A posting's account is a foreign key in the database.
Accepted(ps) == durable => \A p \in ps : p.account \in ledgerAccounts

\* Mutant: the postings are inserted one by one, outside a transaction.
SaveEntryOneByOne(t) ==
  /\ pc[t] = "book"
  /\ \E ps \in SUBSET createTransferEntry(t) :
       /\ Constructible(t) /\ Accepted(ps)
       /\ postings' = postings \cup ps
       /\ Goto(t, IF ps = createTransferEntry(t) THEN "done" ELSE "error")
  /\ UNCHANGED <<durable, cmd, accounts, ledgerAccounts>>

\* saveEntry: all of the entry or nothing; a call on the database may throw either way.
SaveEntry(t) ==
  /\ pc[t] = "book"
  /\ \/ /\ Constructible(t) /\ Accepted(createTransferEntry(t))
        /\ postings' = postings \cup createTransferEntry(t)
        /\ \E s \in {"done"} \cup (IF durable THEN {"error"} ELSE {}) : Goto(t, s)
     \/ /\ durable \/ ~Constructible(t)
        /\ Goto(t, "error")
        /\ UNCHANGED postings
  /\ UNCHANGED <<durable, cmd, accounts, ledgerAccounts>>

\* Nothing is left to do.
Finished ==
  /\ \A t \in Transfers : pc[t] \in Ended
  /\ ledgerAccounts = Accounts
  /\ UNCHANGED vars

Next ==
  \/ \E a \in Accounts : SaveAccount(a) \/ SaveLedgerAccount(a)
  \/ \E t \in Transfers : FindSource(t) \/ FindDestination(t) \/ SaveEntry(t)
  \/ Finished

Spec == Init /\ [][Next]_vars

---------------------------------------------------------------------------------
(* Properties. *)

TypeOK ==
  /\ durable \in BOOLEAN
  /\ cmd \in [Transfers -> CommandType]
  /\ pc \in [Transfers -> {"new", "destination", "book", "done", "error"}]
  /\ accounts \subseteq Accounts
  /\ ledgerAccounts \subseteq accounts
  /\ postings \subseteq PostingType

\* An entry is read back with the postings it was made of or not at all, and a transfer that
\* reported success is in the ledger (saveEntry, findEntryById).
EntriesAreWhole ==
  \A t \in Transfers :
    \/ findEntryById(t) = createTransferEntry(t) /\ pc[t] \in Ended
    \/ findEntryById(t) = {} /\ pc[t] # "done"

\* What accounts in c have been paid in another currency, less what payments in c have paid to
\* accounts in another: executePayment compares the currency of the source only.
Booked == {t \in Transfers : findEntryById(t) # {}}
Paid(ts) == MapThenSumSet(LAMBDA t : cmd[t].amount, ts)
Strayed(c) ==
  Paid({t \in Booked : CurrencyOf[cmd[t].destination] = c /\ cmd[t].currency # c})
    - Paid({t \in Booked : CurrencyOf[cmd[t].destination] # c /\ cmd[t].currency = c})

\* The accounting equation, as the balances the API reports have it: in every currency what
\* debit-normal accounts hold is what credit-normal ones owe, but for what has been paid across
\* currencies.  In the database also when an account is left without its ledger account, and so
\* without a balance; in memory whenever no account is on its way between createAccount's two
\* saves (getAccountBalance).
TrialBalance ==
  durable \/ accounts = ledgerAccounts =>
    \A c \in Currencies :
      LET inCurrency == {a \in ledgerAccounts : CurrencyOf[a] = c}
      IN  MapThenSumSet(getAccountBalance, {a \in inCurrency : isDebitNormal(a)})
            - MapThenSumSet(getAccountBalance, {a \in inCurrency : ~isDebitNormal(a)})
            = Strayed(c)
===================================================================================
