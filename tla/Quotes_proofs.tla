------------------------------- MODULE Quotes_proofs -------------------------------
(***************************************************************************)
(* Proofs about Quotes for any currencies, table of rates, retries and     *)
(* number of calls: what the attempts of a call have come to can be read   *)
(* off its stage, so the adapter falls back only after the last of them;   *)
(* and the form shows the rate of its pair if answers came in order.       *)
(***************************************************************************)
EXTENDS Quotes, TLAPS

USE QuotesAssumption DEF QuotesAssumption, Calls, Pairs, Rate, Origin

\* How often a call has failed, and where its rate is from, by its stage.
CallIsSound(k) ==
  /\ k.stage \in {"new", "posted", "refused"} => k.failures = 0 /\ k.attempt = 0 /\ k.rate = "none"
  /\ k.stage \in {"fetching", "reading"} => k.failures = k.attempt /\ k.rate = "none"
  /\ k.stage = "backoff" =>
       k.attempt < maxRetries /\ k.failures = k.attempt + 1 /\ k.rate = "none"
  /\ k.rate \in {"table", "mock"} =>
       k.failures = maxRetries + 1 /\ (k.rate = "table" <=> k.pair \in Fallback)
  /\ k.rate = "live" => k.failures <= maxRetries

\* A call as the adapter leaves it.
Sound(k) == k \in CallType /\ CallIsSound(k)

\* What the form has heard of: every call it does not wait for, and the pair of the latest.
Heard ==
  /\ waiting \subseteq 1 .. sent /\ latest <= sent
  /\ call[sent].pair = form.pair
  /\ \A c \in 1 .. sent : c \in waiting \/ c <= latest
  /\ latest \notin waiting
  /\ inOrder /\ latest = sent /\ call[sent].stage # "refused" => shown.pair = form.pair
  /\ isQuoting => waiting # {}

Inv == TypeOK /\ (\A c \in Calls : CallIsSound(call[c])) /\ Heard

LEMMA InitInv == Init => Inv
<1> SUFFICES ASSUME Init PROVE Inv
  OBVIOUS
<1>1. form = [pair |-> First, amount |-> "number"]
  BY DEF Init
<1>2. Posted(form) = [stage |-> "posted", pair |-> First, amount |-> "number", attempt |-> 0,
                      failures |-> 0, rate |-> "none"]
  BY <1>1 DEF Posted
<1>3. ASSUME NEW c \in Calls
      PROVE  call[c] = [stage |-> IF c = 1 THEN "posted" ELSE "new", pair |-> First,
                        amount |-> "number", attempt |-> 0, failures |-> 0, rate |-> "none"]
  <2>1. call[c] = [Posted(form) EXCEPT !.stage = IF c = 1 THEN "posted" ELSE "new"]
    BY DEF Init
  <2> QED BY <1>2, <2>1
<1>4. ASSUME NEW c \in Calls PROVE call[c] \in CallType /\ CallIsSound(call[c])
  <2>1. PICK stage \in {"new", "posted"} :
          call[c] = [stage |-> stage, pair |-> First, amount |-> "number", attempt |-> 0,
                     failures |-> 0, rate |-> "none"]
    BY <1>3
  <2> QED BY <2>1 DEF CallType, CallIsSound, Amount
<1>5. TypeOK
  BY <1>1, <1>4 DEF Init, TypeOK, Amount
<1>6. Heard
  <2>1. sent = 1 /\ waiting = {1} /\ latest = 0 /\ shown = Rate(First, "browser")
    BY DEF Init
  <2>2. call[1].pair = First
    <3>1. 1 \in Calls
      OBVIOUS
    <3>2. call[1] = [stage |-> IF 1 = 1 THEN "posted" ELSE "new", pair |-> First,
                     amount |-> "number", attempt |-> 0, failures |-> 0, rate |-> "none"]
      <4> HIDE DEF Calls
      <4> QED BY <1>3, <3>1
    <3> QED BY <3>2
  <2>3. isQuoting => waiting # {}
    BY <2>1
  <2>4. ~(inOrder /\ latest = sent)
    BY <2>1
  <2>5. waiting \subseteq 1 .. sent /\ latest <= sent /\ latest \notin waiting
    BY <2>1
  <2>6. call[sent].pair = form.pair
    BY <1>1, <2>1, <2>2
  <2>7. \A c \in 1 .. sent : c \in waiting \/ c <= latest
    BY <2>1
  <2> QED BY <2>3, <2>4, <2>5, <2>6, <2>7 DEF Heard
<1> QED BY <1>4, <1>5, <1>6 DEF Inv

\* Another call is made for what is in the form.
LEMMA ChangeFormStep ==
  ASSUME Inv, ChangeForm
  PROVE  Inv'
<1>1. TypeOK /\ Heard
  BY DEF Inv
<1>2. form' \in [pair : Pairs, amount : Amount]
  BY <1>1 DEF ChangeForm, TypeOK
<1>3. /\ sent < MaxCalls /\ sent' = sent + 1
      /\ call' = [call EXCEPT ![sent + 1] = Posted(form')]
      /\ waiting' = waiting \cup {sent + 1} /\ isQuoting' = TRUE
      /\ UNCHANGED <<shown, quotes, latest, inOrder>>
  BY DEF ChangeForm, OnChange, fetchQuote
<1>4. Posted(form') \in CallType /\ CallIsSound(Posted(form')) /\ Posted(form').pair = form'.pair
  BY <1>2 DEF Posted, CallType, CallIsSound
<1>5. TypeOK'
  BY <1>1, <1>2, <1>3, <1>4 DEF TypeOK
<1>6. \A c \in Calls : CallIsSound(call'[c])
  BY <1>1, <1>3, <1>4 DEF TypeOK, Inv
<1>7. Heard'
  BY <1>1, <1>3, <1>4 DEF TypeOK, Heard
<1> QED BY <1>5, <1>6, <1>7 DEF Inv

\* The form hears of a call, and shows the rate of its pair unless it was refused.
LEMMA HearStep ==
  ASSUME Inv, NEW c \in Calls, Hear(c),
         \/ shown' = shown /\ call[c].stage = "refused"
         \/ shown' \in [pair : {call[c].pair}, from : Origin]
  PROVE  Inv'
<1>1. TypeOK /\ Heard
  BY DEF Inv
<1>2. shown' \in [pair : Pairs, from : Origin]
  BY <1>1 DEF TypeOK, CallType
<1>3. TypeOK'
  <2>1. isQuoting' \in BOOLEAN /\ inOrder' \in BOOLEAN
    BY DEF Hear
  <2>2. latest' \in 0 .. MaxCalls /\ waiting' \subseteq Calls
    BY <1>1 DEF TypeOK, Hear
  <2>3. UNCHANGED <<form, sent, call, quotes>>
    BY DEF Hear
  <2> QED BY <1>1, <1>2, <2>1, <2>2, <2>3 DEF TypeOK
<1>4. \A d \in Calls : CallIsSound(call'[d])
  <2>1. call' = call
    BY DEF Hear
  <2> QED BY <2>1 DEF Inv
<1>5. Heard'
  <2>1. /\ c \in waiting /\ waiting' = waiting \ {c}
        /\ latest' = IF c > latest THEN c ELSE latest
        /\ ~isQuoting'
        /\ inOrder' => inOrder /\ c > latest
        /\ form' = form /\ sent' = sent /\ call' = call
    BY DEF Hear
  <2>2. latest' \in 0 .. MaxCalls /\ latest \in 0 .. MaxCalls /\ sent \in Calls
    BY <1>1, <2>1 DEF TypeOK
  <2>3. waiting' \subseteq 1 .. sent /\ latest' <= sent /\ latest' \notin waiting'
    BY <1>1, <2>1, <2>2 DEF Heard
  <2>4. \A d \in 1 .. sent : d \in waiting' \/ d <= latest'
    BY <1>1, <2>1, <2>2 DEF Heard
  <2>5. ASSUME inOrder', latest' = sent, call[sent].stage # "refused" PROVE shown'.pair = form.pair
    <3>1. c = sent
      BY <2>1, <2>2, <2>5
    <3>2. shown'.pair = call[c].pair
      BY <3>1, <2>5
    <3> QED BY <1>1, <3>1, <3>2 DEF Heard
  <2> QED BY <1>1, <2>1, <2>3, <2>4, <2>5 DEF Heard
<1> QED BY <1>3, <1>4, <1>5 DEF Inv

\* The API moves a call on, to a sound one that keeps its pair; what was refused stays so.
LEMMA SetStep ==
  ASSUME Inv, NEW c \in Calls, NEW k, Set(c, k), Sound(k), k.pair = call[c].pair,
         call[c].stage # "refused", quotes' \subseteq Calls
  PROVE  Inv'
<1>1. TypeOK /\ Heard
  BY DEF Inv
<1>2. TypeOK'
  BY <1>1 DEF TypeOK, Set, Sound
<1>3. \A d \in Calls : CallIsSound(call'[d])
  BY <1>1 DEF TypeOK, Set, Sound, Inv
<1>4. Heard'
  BY <1>1 DEF TypeOK, Heard, Set
<1> QED BY <1>2, <1>3, <1>4 DEF Inv

\* A call keeps its type, and the fields that are not assigned.
LEMMA Failed ==
  ASSUME NEW k \in CallType, NEW n \in Nat
  PROVE  LET new == [k EXCEPT !.failures = n]
         IN  /\ new \in CallType /\ new.failures = n
             /\ new.pair = k.pair /\ new.attempt = k.attempt /\ new.rate = k.rate
<1> QED BY DEF CallType

\* The same when it is answered,
LEMMA Answered ==
  ASSUME NEW k \in CallType, NEW o \in Origin
  PROVE  LET new == [k EXCEPT !.stage = "answered", !.rate = o]
         IN  /\ new \in CallType /\ new.stage = "answered" /\ new.rate = o
             /\ new.pair = k.pair /\ new.attempt = k.attempt /\ new.failures = k.failures
<1> QED BY DEF CallType

\* and when it only moves to another stage.
LEMMA Staged ==
  ASSUME NEW k \in CallType,
         NEW stage \in {"refused", "fetching", "reading", "backoff"}
  PROVE  LET new == [k EXCEPT !.stage = stage]
         IN  /\ new \in CallType /\ new.stage = stage /\ new.rate = k.rate
             /\ new.pair = k.pair /\ new.attempt = k.attempt /\ new.failures = k.failures
<1> QED BY DEF CallType

\* A failure counts, and the last one falls back.
LEMMA FailStep ==
  ASSUME Inv, NEW c \in Calls, call[c].stage \in {"fetching", "reading"}, Fail(c)
  PROVE  Inv'
<1> DEFINE old == call[c]
           more == IF old.failures > maxRetries + 1 THEN old.failures ELSE old.failures + 1
           failed == [old EXCEPT !.failures = more]
           backoff == [failed EXCEPT !.stage = "backoff"]
           answered == [failed EXCEPT !.stage = "answered", !.rate = FallBack(old.pair)]
<1>1. old \in CallType /\ quotes \subseteq Calls /\ old.failures = old.attempt /\ old.rate = "none"
  BY DEF Inv, TypeOK, CallIsSound
<1>2. more = old.attempt + 1 /\ more \in Nat
  BY <1>1 DEF CallType
<1>3. /\ failed \in CallType /\ failed.failures = old.attempt + 1
      /\ failed.pair = old.pair /\ failed.attempt = old.attempt /\ failed.rate = "none"
  <2> HIDE DEF more
  <2> QED BY <1>1, <1>2, Failed
<1>4. \/ MayRetry(c) /\ Set(c, backoff) /\ UNCHANGED quotes
      \/ ~MayRetry(c) /\ Set(c, answered) /\ quotes' = quotes \cup {c}
  BY DEF Fail, Quote
<1> HIDE DEF failed, more
<1>5. ASSUME MayRetry(c), Set(c, backoff), UNCHANGED quotes
      PROVE  Inv'
  <2>1. /\ backoff \in CallType /\ backoff.stage = "backoff" /\ backoff.rate = "none"
        /\ backoff.pair = old.pair /\ backoff.attempt = old.attempt
        /\ backoff.failures = old.attempt + 1
    BY <1>3, Staged
  <2> HIDE DEF backoff
  <2>2. Sound(backoff)
    BY <1>5, <2>1 DEF Sound, CallIsSound, MayRetry
  <2> QED BY <1>1, <1>5, <2>1, <2>2, SetStep
<1>6. ASSUME ~MayRetry(c), Set(c, answered), quotes' = quotes \cup {c}
      PROVE  Inv'
  <2>1. FallBack(old.pair) \in Origin
    BY DEF FallBack
  <2>2. /\ answered \in CallType /\ answered.stage = "answered"
        /\ answered.rate = FallBack(old.pair) /\ answered.pair = old.pair
        /\ answered.failures = old.attempt + 1
    <3> DEFINE o == FallBack(old.pair)
    <3>1. o \in Origin
      BY <2>1
    <3>2. answered = [failed EXCEPT !.stage = "answered", !.rate = o]
      OBVIOUS
    <3> HIDE DEF answered, o, Origin
    <3>3. /\ answered \in CallType /\ answered.stage = "answered" /\ answered.rate = o
          /\ answered.pair = failed.pair /\ answered.failures = failed.failures
      BY <1>3, <3>1, <3>2, Answered
    <3> QED BY <1>3, <3>3 DEF o
  <2> HIDE DEF answered
  <2>3. old.attempt = maxRetries
    BY <1>1, <1>6 DEF CallType, MayRetry
  <2>4. Sound(answered)
    BY <2>2, <2>3 DEF Sound, CallIsSound, FallBack
  <2>5. quotes' \subseteq Calls
    BY <1>1, <1>6
  <2> QED BY <1>6, <2>2, <2>4, <2>5, SetStep
<1> QED BY <1>4, <1>5, <1>6

\* A quote is made for a call that needs no fallback.
LEMMA QuoteStep ==
  ASSUME Inv, NEW c \in Calls, NEW o \in {"same", "live"}, Quote(c, call[c], o),
         call[c].stage \in {"posted", "reading"}
  PROVE  Inv'
<1> DEFINE k == [call[c] EXCEPT !.stage = "answered", !.rate = o]
<1>1. call[c] \in CallType /\ CallIsSound(call[c]) /\ quotes \subseteq Calls
  BY DEF Inv, TypeOK
<1>2. Set(c, k) /\ quotes' = quotes \cup {c}
  BY DEF Quote
<1>3. /\ k \in CallType /\ k.stage = "answered" /\ k.rate = o
      /\ k.pair = call[c].pair /\ k.failures = call[c].failures
  <2> DEFINE old == call[c]
  <2>1. old \in CallType /\ o \in Origin
    BY <1>1
  <2> HIDE DEF old
  <2>2. k = [old EXCEPT !.stage = "answered", !.rate = o]
    BY DEF old
  <2> HIDE DEF k, Origin
  <2>3. /\ k \in CallType /\ k.stage = "answered" /\ k.rate = o
        /\ k.pair = old.pair /\ k.failures = old.failures
    BY <2>1, <2>2, Answered
  <2> QED BY <2>3 DEF old
<1> HIDE DEF k
<1>4. call[c].failures \in 0 .. maxRetries
  BY <1>1 DEF CallType, CallIsSound
<1>5. Sound(k)
  BY <1>3, <1>4 DEF Sound, CallIsSound
<1> QED BY <1>1, <1>2, <1>3, <1>5, SetStep

\* The API moves a call on without a quote for it yet.
LEMMA MoveStep ==
  ASSUME Inv, NEW c \in Calls, NEW k, Set(c, k), UNCHANGED quotes,
         \/ call[c].stage = "posted" /\ k = [call[c] EXCEPT !.stage = "refused"]
         \/ call[c].stage = "posted" /\ k = [call[c] EXCEPT !.stage = "fetching"]
         \/ call[c].stage = "fetching" /\ k = [call[c] EXCEPT !.stage = "reading"]
         \/ /\ call[c].stage = "backoff"
            /\ k = [call[c] EXCEPT !.stage = "fetching", !.attempt = @ + 1]
  PROVE  Inv'
<1>1. call[c] \in CallType /\ CallIsSound(call[c]) /\ quotes \subseteq Calls
  BY DEF Inv, TypeOK
<1>2. call[c].stage = "backoff" => call[c].attempt < maxRetries
  BY <1>1 DEF CallIsSound
<1>3. /\ k \in CallType /\ k.pair = call[c].pair
      /\ k.rate = call[c].rate /\ k.failures = call[c].failures
      /\ \/ call[c].stage = "posted" /\ k.stage \in {"refused", "fetching"}
            /\ k.attempt = call[c].attempt
         \/ call[c].stage = "fetching" /\ k.stage = "reading" /\ k.attempt = call[c].attempt
         \/ /\ call[c].stage = "backoff" /\ k.stage = "fetching"
            /\ k.attempt = call[c].attempt + 1
  <2>1. CASE call[c].stage = "posted" /\ k = [call[c] EXCEPT !.stage = "refused"]
    BY <1>1, <2>1, Staged
  <2>2. CASE call[c].stage = "posted" /\ k = [call[c] EXCEPT !.stage = "fetching"]
    BY <1>1, <2>2, Staged
  <2>3. CASE call[c].stage = "fetching" /\ k = [call[c] EXCEPT !.stage = "reading"]
    BY <1>1, <2>3, Staged
  <2>4. CASE /\ call[c].stage = "backoff"
             /\ k = [call[c] EXCEPT !.stage = "fetching", !.attempt = @ + 1]
    <3> DEFINE old == call[c]
               n == old.attempt + 1
    <3>1. old \in CallType /\ n \in 0 .. maxRetries
      BY <1>1, <1>2, <2>4 DEF CallType
    <3>2. k = [old EXCEPT !.stage = "fetching", !.attempt = n]
      BY <2>4
    <3> HIDE DEF old, n
    <3>3. /\ k \in CallType /\ k.stage = "fetching" /\ k.rate = old.rate
          /\ k.pair = old.pair /\ k.attempt = n /\ k.failures = old.failures
      <4> DEFINE new == [old EXCEPT !.stage = "fetching", !.attempt = n]
      <4>1. /\ new \in CallType /\ new.stage = "fetching" /\ new.rate = old.rate
            /\ new.pair = old.pair /\ new.attempt = n /\ new.failures = old.failures
        BY ONLY <3>1 DEF CallType
      <4> QED BY <3>2, <4>1
    <3> QED BY <2>4, <3>3 DEF old, n
  <2> QED BY <2>1, <2>2, <2>3, <2>4
<1>4. CallIsSound(k)
  BY <1>1, <1>3 DEF CallIsSound
<1>5. call[c].stage # "refused"
  BY <1>3
<1> QED BY <1>1, <1>3, <1>4, <1>5, SetStep DEF Sound

\* Every step preserves the invariant.
LEMMA NextInv == Inv /\ [Next]_vars => Inv'
<1> SUFFICES ASSUME Inv, [Next]_vars PROVE Inv'
  OBVIOUS
<1>0. \A c \in Calls : call[c] \in CallType
  BY DEF Inv, TypeOK
<1>1. CASE ChangeForm
  BY <1>1, ChangeFormStep
<1>2. ASSUME NEW c \in Calls, ApplyAnswer(c) PROVE Inv'
  <2>1. shown' \in [pair : {call[c].pair}, from : Origin]
    BY <1>0, <1>2 DEF ApplyAnswer, CallType
  <2> QED BY <1>2, <2>1, HearStep DEF ApplyAnswer
<1>3. ASSUME NEW c \in Calls, ApplyRefusal(c) PROVE Inv'
  BY <1>3, HearStep DEF ApplyRefusal
<1>4. ASSUME NEW c \in Calls, Lose(c) PROVE Inv'
  <2>1. shown' \in [pair : {call[c].pair}, from : Origin]
    BY <1>0, <1>4 DEF Lose, CallType
  <2> QED BY <1>4, <2>1, HearStep DEF Lose
<1>5. ASSUME NEW c \in Calls, Receive(c) PROVE Inv'
  BY <1>5, QuoteStep, MoveStep DEF Receive
<1>6. ASSUME NEW c \in Calls, FetchFails(c) PROVE Inv'
  BY <1>6, FailStep DEF FetchFails
<1>7. ASSUME NEW c \in Calls, Headers(c) PROVE Inv'
  BY <1>7, MoveStep DEF Headers
<1>8. ASSUME NEW c \in Calls, ReadRate(c) PROVE Inv'
  BY <1>8, QuoteStep DEF ReadRate
<1>9. ASSUME NEW c \in Calls, ReadFails(c) PROVE Inv'
  BY <1>9, FailStep DEF ReadFails
<1>10. ASSUME NEW c \in Calls, WakeUp(c) PROVE Inv'
  BY <1>10, MoveStep DEF WakeUp
<1>11. CASE Finished \/ UNCHANGED vars
  <2>1. UNCHANGED vars
    BY <1>11 DEF Finished
  <2>2. TypeOK'
    BY <2>1 DEF vars, Inv, TypeOK
  <2>3. Heard'
    BY <2>1 DEF vars, Inv, Heard
  <2>4. \A c \in Calls : CallIsSound(call'[c])
    BY <2>1 DEF vars, Inv
  <2> QED BY <2>2, <2>3, <2>4 DEF Inv
<1> QED BY <1>1, <1>2, <1>3, <1>4, <1>5, <1>6, <1>7, <1>8, <1>9, <1>10, <1>11 DEF Next

LEMMA SpecInv == Spec => []Inv
<1> QED BY InitInv, NextInv, PTL DEF Spec

\* The variables keep their types, for any bounds (Quotes).
THEOREM TypeCorrect == Spec => []TypeOK
<1>1. Inv => TypeOK
  BY DEF Inv
<1> QED BY <1>1, SpecInv, PTL

\* The adapter falls back only after its last attempt, and on the mock adapter only for want of a
\* rate in the table, whatever the retries and the table (fetchWithRetry).
THEOREM FallbackComesLast == Spec => []FallbackIsLastResort
<1>1. Inv => FallbackIsLastResort
  BY DEF Inv, CallIsSound, FallbackIsLastResort
<1> QED BY <1>1, SpecInv, PTL

\* Once every call has been heard of the form is not quoting, and shows the rate of its pair if the
\* answers came in order, however many calls it made (fetchQuote).
THEOREM PanelIsRight == Spec => []PanelShowsForm
<1>1. ASSUME Inv PROVE PanelShowsForm
  <2>1. TypeOK /\ Heard
    BY <1>1 DEF Inv
  <2>2. waiting = {} => latest = sent
    BY <2>1 DEF TypeOK, Heard
  <2> QED BY <2>1, <2>2 DEF Heard, PanelShowsForm
<1> QED BY <1>1, SpecInv, PTL
====================================================================================
