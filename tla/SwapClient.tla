----------------------------- MODULE SwapClient -----------------------------
(***************************************************************************)
(* A swap through the protocol SDK: the finalized read adapter pins a      *)
(* ledger version and reads the pool's views at it, the safe client checks *)
(* the quote, turns it into a draft and submits it, and the pool executes  *)
(* it later, at whatever its reserves are by then.  Between any two awaits *)
(* others trade.  The reader may also be another one than the adapter, and *)
(* the application may hand the client an object it did not issue.         *)
(***************************************************************************)
EXTENDS AmmReserves

CONSTANTS
  REFLECTION_FEE_BPS,
  MAX_REFLECTION_FEE_BPS,   \* policy of the SDK
  MAX_AMM_FEE_BPS,
  Amounts, Slippages,       \* what callers ask for
  Idle,                     \* no call
  MaxNow,                   \* bound on the chain's clock
  MaxSkew,                  \* how far the client's clock may be off
  MaxMoves,                 \* bound: transactions of others
  MaxCalls,                 \* bound: calls of the client
  MaxSubmissions            \* bound: submissions of one draft

ASSUME ClientAssumption ==
  /\ REFLECTION_FEE_BPS \in 0 .. MAX_REFLECTION_FEE_BPS
  /\ MAX_REFLECTION_FEE_BPS \in 0 .. BPS_DENOMINATOR - 1
  /\ FIXED_AMM_FEE_BPS <= MAX_AMM_FEE_BPS
  /\ Amounts \subseteq Nat \ {0} /\ Slippages \subseteq 0 .. BPS_DENOMINATOR

VARIABLES
  now,        \* the chain's clock, in seconds
  moves,      \* transactions of others so far
  calls,      \* calls of the client so far
  call        \* the client's call, its quote, its draft and what became of
              \* it (last is history), or Idle

clientVars == <<rfl, usd, shares, lifecycle, now, moves, calls, call>>

Directions == {"sell", "buy"}
Inputs == [direction : Directions, gross : Amounts, slippage : Slippages, deadline : 1 .. MaxNow]

ClientInit ==
  /\ Init
  /\ now = 0 /\ moves = 0 /\ calls = 0 /\ call = Idle

\* nowUnixSeconds is any time the client's clock may show.
Clock == {t \in 0 .. MaxNow + MaxSkew : now - MaxSkew <= t /\ t <= now + MaxSkew}

-----------------------------------------------------------------------------
(* The pool's views *)

Reserves == [rfl |-> rfl, usd |-> usd]

In(direction, r) == IF direction = "sell" THEN r.rfl ELSE r.usd
Out(direction, r) == IF direction = "sell" THEN r.usd ELSE r.rfl

reflection_fee_for(amount) == (amount * REFLECTION_FEE_BPS) \div BPS_DENOMINATOR

\* What quote_sell and quote_buy compute.
priced(direction, gross, r) ==
  LET net == IF direction = "sell" THEN gross - reflection_fee_for(gross) ELSE gross
      output == constant_product_output(In(direction, r), Out(direction, r), net,
                                        FIXED_AMM_FEE_BPS)
      reflection == reflection_fee_for(IF direction = "sell" THEN gross ELSE output)
  IN  [ output |-> output,
        receipt |-> IF direction = "sell" THEN output ELSE output - reflection,
        reflection |-> reflection,
        amm |-> fee(net, FIXED_AMM_FEE_BPS) ]

\* What they assert.
quotable(direction, gross, r) ==
  /\ assert_swap_bounds(gross, In(direction, r))
  /\ assert_reserve_output_cap(priced(direction, gross, r).output, Out(direction, r))
  /\ priced(direction, gross, r).receipt > 0

-----------------------------------------------------------------------------
(* The read adapter *)

Context(direction, r, fee_bps) ==
  [inputReserve |-> In(direction, r), outputReserve |-> Out(direction, r),
   reflectionFeeBps |-> fee_bps]

less(amount, slippage) == (amount * (BPS_DENOMINATOR - slippage)) \div BPS_DENOMINATOR

\* Mutant: a buyer's minimum is taken of the output before the fee.
minimumOfOutput(amounts, slippage) == less(amounts.output, slippage)

minimumOf(amounts, slippage) == less(amounts.receipt, slippage)

impactOf(priced_input, reserve) == (priced_input * BPS_DENOMINATOR) \div (reserve + priced_input)

\* A quote as it is carried to the draft: the declared inputs, the amounts,
\* and the finalized state they were computed from.
Quote(input, amounts, context) ==
  [input |-> input, amounts |-> amounts, minimum |-> minimumOf(amounts, input.slippage),
   impact |-> impactOf(amounts.net - amounts.amm, context.inputReserve), context |-> context]

\* quoteSwap's last step: its own arithmetic over the two tuples it has read.
quoteTuple(input, view, r) ==
  LET sells == input.direction = "sell"
      net == IF sells THEN input.gross - view.reflection ELSE input.gross
      gross_output == IF sells THEN view.receipt ELSE view.receipt + view.reflection
  IN  Quote(input,
            [net |-> net, amm |-> view.amm, output |-> gross_output,
             reflection |-> view.reflection, receipt |-> view.receipt],
            Context(input.direction, r, REFLECTION_FEE_BPS))

adapterAccepts(quote) ==
  LET a == quote.amounts  c == quote.context  gross == quote.input.gross
      priced_input == a.net - a.amm
  IN  /\ REFLECTION_FEE_BPS <= MAX_REFLECTION_FEE_BPS /\ FIXED_AMM_FEE_BPS <= MAX_AMM_FEE_BPS
      /\ a.net >= 0 /\ a.amm <= a.net /\ a.output <= MAX_U64
      /\ c.inputReserve > 0 /\ c.outputReserve > 0 /\ a.receipt > 0
      /\ gross <= FIXED_MAX_GROSS_SWAP
      /\ gross * BPS_DENOMINATOR <= c.inputReserve * FIXED_MAX_RESERVE_BPS
      /\ a.amm = a.net - (a.net * (BPS_DENOMINATOR - FIXED_AMM_FEE_BPS)) \div BPS_DENOMINATOR
      /\ a.output = (c.outputReserve * priced_input) \div (c.inputReserve + priced_input)
      /\ a.reflection = ((IF quote.input.direction = "sell" THEN gross ELSE a.output)
                            * c.reflectionFeeBps) \div BPS_DENOMINATOR

-----------------------------------------------------------------------------
(* The safe client's check *)

\* Every amount is computed again from the inputs and the context.
reproduced(input, c) ==
  LET sells == input.direction = "sell"
      sell_fee == (input.gross * c.reflectionFeeBps) \div BPS_DENOMINATOR
      net == IF sells THEN input.gross - sell_fee ELSE input.gross
      priced_input == (net * (BPS_DENOMINATOR - FIXED_AMM_FEE_BPS)) \div BPS_DENOMINATOR
      output == (c.outputReserve * priced_input) \div (c.inputReserve + priced_input)
      reflection == IF sells THEN sell_fee
                    ELSE (output * c.reflectionFeeBps) \div BPS_DENOMINATOR
      receipt == IF sells THEN output ELSE output - reflection
  IN  Quote(input,
            [net |-> net, amm |-> net - priced_input, output |-> output,
             reflection |-> reflection, receipt |-> receipt],
            c)

assertSwapQuote(quote, t) ==
  LET c == quote.context
  IN  /\ quote.input.deadline > t
      /\ c.inputReserve > 0 /\ c.outputReserve > 0
      /\ c.reflectionFeeBps <= MAX_REFLECTION_FEE_BPS
      /\ quote.input.gross <= FIXED_MAX_GROSS_SWAP
      /\ quote.input.gross * BPS_DENOMINATOR <= c.inputReserve * FIXED_MAX_RESERVE_BPS
      /\ quote.amounts.net > 0 /\ quote.amounts.receipt > 0
      /\ quote = reproduced(quote.input, c)

-----------------------------------------------------------------------------
(* A call of the client *)

Call(at, input) ==
  [at |-> at, input |-> input, honest |-> TRUE, pinned |-> Idle, tuple |-> Idle,
   reserves |-> Idle, quote |-> Idle, issued |-> FALSE, submitted |-> 0, settled |-> 0,
   last |-> Idle]

Own == UNCHANGED <<rfl, usd, shares, lifecycle, now, moves, calls>>

\* The manifest names a finalized deployment, so the pool has been launched.
quoteSwap(input) ==
  /\ call = Idle
  /\ calls < MaxCalls /\ calls' = calls + 1
  /\ lifecycle # "unlaunched"
  /\ \E t \in Clock : input.deadline > t
  /\ call' = Call("asked", input)
  /\ UNCHANGED <<rfl, usd, shares, lifecycle, now, moves>>

\* The ledger version whose state all views will be read at.  The identity
\* that is validated at it never changes.
pinLedger == Reserves

Pin ==
  /\ call # Idle /\ call.at = "asked"
  /\ call' = IF call.input.deadline > now
             THEN [call EXCEPT !.at = "reading", !.pinned = pinLedger]
             ELSE Idle
  /\ Own

\* Mutant: a view is read at the latest version.
viewLatest == Reserves

\* view with its ledgerVersion option
viewAt == call.pinned

\* The views of one Promise.all, answered in any order; one that aborts
\* rejects the call.  A closed pool's quote aborts, and so does one of empty
\* reserves.
ReadQuote ==
  /\ call # Idle /\ call.at = "reading" /\ call.tuple = Idle
  /\ call' = IF quotable(call.input.direction, call.input.gross, viewAt)
             THEN [call EXCEPT !.tuple = priced(call.input.direction, call.input.gross, viewAt)]
             ELSE Idle
  /\ Own

ReadReserves ==
  /\ call # Idle /\ call.at = "reading" /\ call.reserves = Idle
  /\ call' = [call EXCEPT !.reserves = viewAt]
  /\ Own

AdapterDone == call # Idle /\ call.at = "reading" /\ call.tuple # Idle /\ call.reserves # Idle

adapterQuote == quoteTuple(call.input, call.tuple, call.reserves)

declaredInputs(quote) == quote.input = call.input

\* What another reader may return: a consistent quote of other inputs, other
\* reserves or another fee, or the adapter's with one amount off by one.
OtherQuotes ==
  LET q == adapterQuote
  IN  {reproduced(i, [q.context EXCEPT !.outputReserve = @ + d, !.reflectionFeeBps = f]) :
          i \in {j \in Inputs : j.deadline = call.input.deadline}, d \in {0, 1},
          f \in {0, REFLECTION_FEE_BPS}}
      \cup {[q EXCEPT !.amounts[k] = @ + 1] : k \in DOMAIN q.amounts}
      \cup {[q EXCEPT !.minimum = IF @ = 0 THEN 0 ELSE @ - 1], [q EXCEPT !.impact = @ + 1]}

\* The rest of quoteSwap: verified and issued, or refused.
Answer(quote, honest) ==
  /\ \E t \in Clock :
       call' = IF assertSwapQuote(quote, t) /\ declaredInputs(quote)
               THEN [call EXCEPT !.at = "quoted", !.quote = quote, !.issued = TRUE,
                                 !.honest = honest]
               ELSE Idle
  /\ Own

AdapterAnswers ==
  /\ AdapterDone
  /\ IF adapterAccepts(adapterQuote) THEN Answer(adapterQuote, TRUE) ELSE call' = Idle /\ Own

OtherReaderAnswers == AdapterDone /\ \E q \in OtherQuotes : Answer(q, FALSE)

\* Mutant: an object of the right shape is enough.
anyObject == TRUE

\* verifiedSwapQuotes and verifiedSwapDrafts know the objects the client made.
issuedHere == call.issued

createSwapDraft ==
  /\ call # Idle /\ call.at = "quoted"
  /\ issuedHere
  /\ \E t \in Clock : assertSwapQuote(call.quote, t)
  /\ call' = [call EXCEPT !.at = "drafted"]
  /\ Own

\* The application copies the frozen object to accept any output.
Copy ==
  /\ call # Idle /\ call.at \in {"quoted", "drafted"}
  /\ call' = [call EXCEPT !.quote.minimum = 0, !.issued = FALSE]
  /\ Own

\* Nothing marks a draft as used.
submit ==
  /\ call # Idle /\ call.at \in {"drafted", "submitted"}
  /\ call.submitted < MaxSubmissions
  /\ issuedHere
  /\ \E t \in Clock : call.quote.input.deadline > t
  /\ call' = [call EXCEPT !.at = "submitted", !.submitted = @ + 1]
  /\ Own

\* The application drops a call it has not submitted, or one that is over.
Forget ==
  /\ call # Idle
  /\ \/ call.at # "submitted"
     \/ call.settled = call.submitted
     \/ now > call.input.deadline
  /\ call' = Idle
  /\ Own

-----------------------------------------------------------------------------
(* The chain *)

\* What a swap pays: what leaves the reserve, less a buyer's reflection fee.
paid(direction, gross) ==
  IF direction = "sell" THEN sell_output(gross, reflection_fee_for(gross))
                        ELSE buy_output(gross) - reflection_fee_for(buy_output(gross))

\* A swap of the pool with the caller's limits.
swap_succeeds(direction, gross, minimum, deadline) ==
  /\ now <= deadline
  /\ IF direction = "sell" THEN sell_succeeds(gross, reflection_fee_for(gross))
                           ELSE buy_succeeds(gross)
  /\ paid(direction, gross) > 0 /\ paid(direction, gross) >= minimum

Swap(direction, gross, minimum, deadline) ==
  /\ swap_succeeds(direction, gross, minimum, deadline)
  /\ \/ direction = "sell" /\ sell_trfl(gross, reflection_fee_for(gross))
     \/ direction = "buy" /\ buy_trfl(gross)

\* A submitted draft is executed, once for each submission.
Execute ==
  /\ call # Idle /\ call.at = "submitted" /\ call.settled < call.submitted
  /\ LET input == call.quote.input
     IN  /\ Swap(input.direction, input.gross, call.quote.minimum, input.deadline)
         /\ call' = [call EXCEPT !.settled = @ + 1,
                                 !.last = [direction |-> input.direction, gross |-> input.gross,
                                           paid |-> paid(input.direction, input.gross),
                                           at |-> now]]
  /\ UNCHANGED <<now, moves, calls>>

\* Launch, and what others do with the pool.
Others ==
  /\ \/ launch /\ UNCHANGED moves
     \/ /\ moves < MaxMoves /\ moves' = moves + 1
        /\ \/ \E a \in Amounts, d \in Directions : Swap(d, a, 0, now)
           \/ \E a, b \in Amounts : add_liquidity(a, b)
           \/ \E burned \in {shares, shares \div 2} \ {0} : remove_liquidity(burned)
  /\ UNCHANGED <<now, calls, call>>

Tick ==
  /\ now < MaxNow
  /\ now' = now + 1
  /\ UNCHANGED <<rfl, usd, shares, lifecycle, moves, calls, call>>

ClientNext ==
  \/ \E input \in Inputs : quoteSwap(input)
  \/ Pin \/ ReadQuote \/ ReadReserves
  \/ AdapterAnswers \/ OtherReaderAnswers
  \/ createSwapDraft \/ Copy \/ submit \/ Forget
  \/ Execute \/ Others \/ Tick

ClientSpec == ClientInit /\ [][ClientNext]_clientVars

-----------------------------------------------------------------------------
\* However the pool moves between the reads, the adapter accepts what it has
\* read and the safe client what the adapter made of it: the three copies of
\* the arithmetic agree to the unit, and all views are of one version
\* (finalized-read-adapter quoteSwap, safe-client assertSwapQuote).
HonestQuoteAccepted ==
  AdapterDone =>
    /\ adapterAccepts(adapterQuote)
    /\ \A t \in Clock : call.input.deadline > t => assertSwapQuote(adapterQuote, t)

\* The pinned reserves are still (or again) the pool's, and the store of the
\* input has room for it.
Fresh ==
  /\ call # Idle /\ call.at = "submitted" /\ call.settled < call.submitted
  /\ call.honest /\ Reserves = call.pinned /\ now <= call.input.deadline
  /\ fits(In(call.input.direction, Reserves) + call.input.gross)

\* A quote of the adapter that is fresh when it is executed passes every
\* assertion of the pool and pays exactly what was shown, at any slippage
\* (minimumNetUserReceipt, and pool's E_MIN_OUTPUT).
FreshQuoteExecutes ==
  Fresh =>
    LET input == call.quote.input
    IN  /\ swap_succeeds(input.direction, input.gross, call.quote.minimum, input.deadline)
        /\ paid(input.direction, input.gross) = call.quote.amounts.receipt

Settled == call # Idle /\ call.last # Idle

\* Whatever reader answered, whatever the application did with the objects it
\* was given, however the pool moved and however often the draft was sent: a
\* swap is the one the caller asked for, pays no less of the receipt that was
\* shown than the caller's slippage allows, and is not late (the checks of
\* quoteSwap, createSwapDraft and submit with those of the pool).
SwapsAsAsked ==
  Settled =>
    /\ call.last.direction = call.input.direction /\ call.last.gross = call.input.gross
    /\ call.last.paid >= less(call.quote.amounts.receipt, call.input.slippage)
    /\ call.last.at <= call.input.deadline
=============================================================================
