---------------------------------- MODULE Quotes ----------------------------------
(***************************************************************************)
(* Quoting a rate: the payment form, which asks for a quote whenever it    *)
(* changes (apps/web PaymentWizard), the quote service of the API, and its *)
(* rate adapter, which tries the network again after each failure and then *)
(* falls back, first on a table and then on another adapter.  Several      *)
(* calls of one form may be under way, and answered in any order.          *)
(* A rate is the pair it is for and where it came from; amounts are in     *)
(* Quotation.  A quote's expiry is nobody's concern: no payment is made    *)
(* with one.                                                               *)
(***************************************************************************)
EXTENDS Naturals

CONSTANTS
  Sources,     \* currencies the form can send
  Targets,     \* currencies it can send to
  Fallback,    \* the pairs STATIC_FALLBACK_RATES has a rate for
  First,       \* the pair the form starts with
  maxRetries,
  MaxCalls     \* bound: calls the form makes

Pairs == Sources \X Targets
Calls == 1 .. MaxCalls

ASSUME QuotesAssumption ==
  /\ First \in Pairs
  /\ Fallback \subseteq Pairs
  /\ maxRetries \in Nat
  /\ MaxCalls \in Nat \ {0}

VARIABLES
  form,      \* the pair in the form, and what its amount is
  sent,      \* calls made so far
  call,      \* the calls, in the order they were made
  waiting,   \* the calls the browser waits for
  shown,     \* the rate the form shows
  isQuoting,
  quotes,    \* the calls the API has stored a quote for
  latest,    \* the latest call the browser has heard of, and
  inOrder    \* whether it has never heard of an earlier one after it

vars == <<form, sent, call, waiting, shown, isQuoting, quotes, latest, inOrder>>

\* What is in the amount field: a number the API's schema can read, or anything else.
Amount == {"number", "other"}

Origin == {"none", "same", "live", "table", "mock", "browser"}
Rate(pair, origin) == [pair |-> pair, from |-> origin]

CallType ==
  [stage : {"new", "posted", "fetching", "reading", "backoff", "answered", "refused"},
   pair : Pairs, amount : Amount, attempt : 0 .. maxRetries, failures : Nat, rate : Origin]

Posted(f) ==
  [stage |-> "posted", pair |-> f.pair, amount |-> f.amount, attempt |-> 0, failures |-> 0,
   rate |-> "none"]

TypeOK ==
  /\ form \in [pair : Pairs, amount : Amount]
  /\ sent \in Calls
  /\ call \in [Calls -> CallType]
  /\ waiting \subseteq Calls /\ quotes \subseteq Calls
  /\ shown \in [pair : Pairs, from : Origin]
  /\ isQuoting \in BOOLEAN /\ inOrder \in BOOLEAN
  /\ latest \in 0 .. MaxCalls

---------------------------------------------------------------------------------
(* The form. *)

\* The form asks for a quote as soon as it is there, and shows a rate of its own till then.
Init ==
  /\ form = [pair |-> First, amount |-> "number"]
  /\ sent = 1
  /\ call = [c \in Calls |-> [Posted(form) EXCEPT !.stage = IF c = 1 THEN "posted" ELSE "new"]]
  /\ waiting = {1}
  /\ shown = Rate(First, "browser")
  /\ isQuoting = TRUE
  /\ quotes = {}
  /\ latest = 0
  /\ inOrder = TRUE

\* fetchQuote, up to its fetch.
fetchQuote ==
  /\ sent < MaxCalls
  /\ sent' = sent + 1
  /\ call' = [call EXCEPT ![sent + 1] = Posted(form')]
  /\ waiting' = waiting \cup {sent + 1}
  /\ isQuoting' = TRUE
  /\ UNCHANGED <<shown, quotes, latest, inOrder>>

\* Mutant: the target currency is missing from the list of what the effect depends on.
OnChangeSource ==
  IF form'.pair[1] # form.pair[1] \/ form'.amount # form.amount
  THEN fetchQuote
  ELSE UNCHANGED <<sent, call, waiting, isQuoting, shown, quotes, latest, inOrder>>

\* The effect runs when the currencies or the amount are other than they were.
OnChange == fetchQuote

\* One field of the form is changed.
ChangeForm ==
  /\ sent < MaxCalls
  /\ \/ \E s \in Sources \ {form.pair[1]} : form' = [form EXCEPT !.pair = <<s, @[2]>>]
     \/ \E t \in Targets \ {form.pair[2]} : form' = [form EXCEPT !.pair = <<@[1], t>>]
     \/ \E a \in Amount \ {form.amount} : form' = [form EXCEPT !.amount = a]
     \/ UNCHANGED form \* another amount of the same kind
  /\ OnChange

\* What the browser hears of call c, in whatever order.
Hear(c) ==
  /\ c \in waiting
  /\ waiting' = waiting \ {c}
  /\ isQuoting' = FALSE
  /\ inOrder' = (inOrder /\ c > latest)
  /\ latest' = IF c > latest THEN c ELSE latest
  /\ UNCHANGED <<form, sent, call, quotes>>

ApplyAnswer(c) ==
  /\ call[c].stage = "answered"
  /\ shown' = Rate(call[c].pair, call[c].rate)
  /\ Hear(c)

\* An error of the API leaves the rate on the screen.
ApplyRefusal(c) ==
  /\ call[c].stage = "refused"
  /\ Hear(c)
  /\ UNCHANGED shown

\* The connection to the API breaks: the form makes up a rate for the pair it had asked for.
Lose(c) ==
  /\ shown' = Rate(call[c].pair, "browser")
  /\ Hear(c)

---------------------------------------------------------------------------------
(* The API. *)

Set(c, new) ==
  /\ call' = [call EXCEPT ![c] = new]
  /\ UNCHANGED <<form, sent, waiting, shown, isQuoting, latest, inOrder>>

\* A quote at the rate is made, kept and returned.
Quote(c, new, origin) ==
  /\ Set(c, [new EXCEPT !.stage = "answered", !.rate = origin])
  /\ quotes' = quotes \cup {c}

\* An amount the schema cannot read is refused; a pair of one currency needs no rate.
Receive(c) ==
  /\ call[c].stage = "posted"
  /\ \/ call[c].amount = "other" /\ Set(c, [call[c] EXCEPT !.stage = "refused"]) /\ UNCHANGED quotes
     \/ call[c].amount = "number" /\ call[c].pair[1] = call[c].pair[2] /\ Quote(c, call[c], "same")
     \/ /\ call[c].amount = "number" /\ call[c].pair[1] # call[c].pair[2]
        /\ Set(c, [call[c] EXCEPT !.stage = "fetching"])
        /\ UNCHANGED quotes

\* Mutant: the loop ends one attempt early.
MayRetryLess(c) == call[c].attempt + 1 < maxRetries

MayRetry(c) == call[c].attempt < maxRetries

\* The table may lack the pair; the mock adapter answers for any.
FallBack(pair) == IF pair \in Fallback THEN "table" ELSE "mock"

\* An attempt has failed: back off, or do without the network.  (The count stops above the most
\* failures there should be.)
Fail(c) ==
  LET failed == [call[c] EXCEPT !.failures = IF @ > maxRetries + 1 THEN @ ELSE @ + 1]
  IN  \/ MayRetry(c) /\ Set(c, [failed EXCEPT !.stage = "backoff"]) /\ UNCHANGED quotes
      \/ ~MayRetry(c) /\ Quote(c, failed, FallBack(call[c].pair))

\* The request fails, is answered with an error, or is aborted after timeoutMs.
FetchFails(c) == call[c].stage = "fetching" /\ Fail(c)

\* The headers are there: the timer is cleared, and the body is read with none.
Headers(c) ==
  /\ call[c].stage = "fetching"
  /\ Set(c, [call[c] EXCEPT !.stage = "reading"])
  /\ UNCHANGED quotes

ReadRate(c) == call[c].stage = "reading" /\ Quote(c, call[c], "live")

\* The body breaks off, or has no rate for the pair.
ReadFails(c) == call[c].stage = "reading" /\ Fail(c)

\* Mutant: the attempt is not counted.
WakeUpUncounted(c) ==
  /\ call[c].stage = "backoff"
  /\ Set(c, [call[c] EXCEPT !.stage = "fetching"])
  /\ UNCHANGED quotes

WakeUp(c) ==
  /\ call[c].stage = "backoff"
  /\ Set(c, [call[c] EXCEPT !.stage = "fetching", !.attempt = @ + 1])
  /\ UNCHANGED quotes

Finished ==
  /\ sent = MaxCalls /\ waiting = {}
  /\ \A c \in Calls : call[c].stage \in {"posted", "answered", "refused"}
  /\ UNCHANGED vars

Next ==
  \/ ChangeForm
  \/ \E c \in Calls :
       \/ ApplyAnswer(c) \/ ApplyRefusal(c) \/ Lose(c)
       \/ Receive(c) \/ FetchFails(c) \/ Headers(c) \/ ReadRate(c) \/ ReadFails(c) \/ WakeUp(c)
  \/ Finished

Spec == Init /\ [][Next]_vars

\* A timer ends a request without headers, another the back-off; the API handles what it is sent,
\* and its answers arrive or are lost; that a body comes to an end is up to the network.
FairSpec ==
  /\ Spec
  /\ \A c \in Calls :
       /\ WF_vars(c \in waiting /\ Receive(c))
       /\ WF_vars(FetchFails(c) \/ Headers(c))
       /\ WF_vars(ReadRate(c) \/ ReadFails(c))
       /\ WF_vars(WakeUp(c))
       /\ WF_vars(ApplyAnswer(c) \/ ApplyRefusal(c))

---------------------------------------------------------------------------------
(* Properties. *)

\* However the network fails, the form hears of every call it made, and every call the adapter took
\* up gets a rate (fetchQuote, fetchWithRetry, getExchangeRate).
EveryQuoteEnds ==
  \A c \in Calls :
    /\ c \in waiting ~> c \notin waiting
    /\ call[c].stage = "fetching" ~> call[c].stage = "answered"

\* A rate that is not the network's is given only after every attempt has failed, and the mock
\* adapter's only for pairs the table lacks (fetchWithRetry, STATIC_FALLBACK_RATES).
FallbackIsLastResort ==
  \A c \in Calls :
    /\ call[c].rate \in {"table", "mock"} =>
         /\ call[c].failures = maxRetries + 1
         /\ (call[c].rate = "table") <=> (call[c].pair \in Fallback)
    /\ call[c].rate = "live" => call[c].failures <= maxRetries

\* When all calls have been heard of, the form is not quoting; and if that was in the order they
\* were made, the last of them with a rate, it shows a rate of the pair that is in it
\* (PaymentWizard's effect and fetchQuote).
PanelShowsForm ==
  waiting = {} =>
    /\ ~isQuoting
    /\ inOrder /\ call[sent].stage # "refused" => shown.pair = form.pair
=================================================================================
