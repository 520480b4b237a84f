------------------------------ MODULE IBSession ------------------------------
(***************************************************************************)
(* A trading session over IBBroker of execution/ib_adapter.py: an order is *)
(* placed at the venue, submit waits a bounded time for it to be done, and *)
(* poll_fills delivers at the next bars what came later.                   *)
(*                                                                         *)
(* The venue is what it reports through ib_insync's Trade objects: shares  *)
(* executed at one price an order, a commission report, and the end of the *)
(* order (filled or cancelled), in any order: the status "Filled" may come *)
(* before the executions it speaks of.  Reports reach the adapter while it *)
(* lets the event loop of ib_insync run, in submit and in poll_fills, and  *)
(* not once the connection is lost: no code of the adapter connects again. *)
(*                                                                         *)
(* All its waits but one are bounded by the code: qualifyContracts waits   *)
(* for the venue's answer as long as the connection holds.  A request that *)
(* is open when the connection is lost raises.                             *)
(***************************************************************************)
EXTENDS SessionProperties

CONSTANTS EnabledValues,     \* what the setting ib_enabled may be
          WaitSteps,         \* iterations of _wait_done
          VenuePrices,       \* prices the venue executes at
          CommissionReport   \* the commission of an order, as reported

ASSUME IBAssumption ==
    /\ EnabledValues \subseteq BOOLEAN
    /\ WaitSteps \in Nat \ {0}
    /\ VenuePrices \subseteq Int
    /\ CommissionReport \in Int

VARIABLES enabled,      \* self.enabled
          venue,        \* every order placed, by order id
          trades,       \* the ids in self._trades
          qualifying,   \* submit waits for the answer of qualifyContracts
          waiting,      \* the order submit waits for, NoTrade outside submit
          waited        \* iterations of _wait_done so far

ibVars == <<enabled, venue, trades, qualifying, waiting, waited>>
vars == <<sessionVars, processVars, journalVars, ibVars>>

NoTrade == 0

\* by_submit and by_poll count the shares the adapter has handed to the
\* session as fills, on either way.
Trade ==
    [side : Side, qty : Nat \ {0}, shares : Nat, price : Int, done : BOOLEAN,
     by_submit : Nat, by_poll : Nat]

TypeOK ==
    /\ SessionTypeOK
    /\ ProcessTypeOK
    /\ JournalTypeOK
    /\ enabled \in BOOLEAN
    /\ venue \in Seq(Trade)
    /\ trades \subseteq DOMAIN venue
    /\ qualifying \in BOOLEAN
    /\ waiting \in trades \cup {NoTrade}
    /\ waited \in 0..WaitSteps

(***************************************************************************)
(* The adapter.                                                            *)
(***************************************************************************)
GateIgnoringEnabled == connected

Gate == enabled /\ connected

ReportedCommission == CommissionReport

CommissionPaid == Abs(CommissionReport)

FillOfWholeOrder(trade) ==
    [side |-> trade.side, qty |-> trade.qty, price |-> trade.price,
     commission |-> CommissionPaid]

TradeToFill(trade) ==
    [side |-> trade.side, qty |-> trade.shares, price |-> trade.price,
     commission |-> CommissionPaid]

\* `filled and trade.fills`
Filled(trade) == trade.done /\ trade.shares > 0

RefuseOrder ==
    /\ waiting = NoTrade
    /\ ~qualifying
    /\ ~Gate
    /\ BrokerRejects
    /\ UNCHANGED ibVars

\* qualifyContracts asks the venue.
AskVenue ==
    /\ pc = "submit"
    /\ waiting = NoTrade
    /\ ~qualifying
    /\ Gate
    /\ qualifying' = TRUE
    /\ UNCHANGED <<sessionVars, journalVars, enabled, venue, trades, waiting,
                   waited>>

\* The contract does not qualify, or an exception ends the request or the
\* placing.
RefuseContract ==
    /\ qualifying
    /\ BrokerRejects
    /\ qualifying' = FALSE
    /\ UNCHANGED <<enabled, venue, trades, waiting, waited>>

NewTrade(order) ==
    [side |-> order.side, qty |-> order.qty, shares |-> 0, price |-> 0,
     done |-> FALSE, by_submit |-> 0, by_poll |-> 0]

PlaceOrder ==
    /\ qualifying
    /\ connected
    /\ venue' = Append(venue, NewTrade(adj))
    /\ waiting' = Len(venue) + 1
    /\ trades' = trades \cup {waiting'}
    /\ waited' = 0
    /\ qualifying' = FALSE
    /\ UNCHANGED <<sessionVars, journalVars, enabled>>

NextWaitNotCounting(steps) == steps

NextWait(steps) == steps + 1

WaitForFill ==
    /\ waiting # NoTrade
    /\ ~venue[waiting].done
    /\ waited < WaitSteps
    /\ waited' = NextWait(waited)
    /\ UNCHANGED <<sessionVars, journalVars, enabled, venue, trades, qualifying,
                   waiting>>

AnswerFilled ==
    /\ waiting # NoTrade
    /\ Filled(venue[waiting])
    /\ BrokerFills(TradeToFill(venue[waiting]))
    /\ venue' = [venue EXCEPT ![waiting].by_submit = @ + venue[waiting].shares]
    /\ waiting' = NoTrade
    /\ UNCHANGED <<enabled, trades, qualifying, waited>>

AnswerPending ==
    /\ waiting # NoTrade
    /\ ~Filled(venue[waiting])
    /\ venue[waiting].done \/ waited = WaitSteps
    /\ BrokerDefers
    /\ waiting' = NoTrade
    /\ UNCHANGED <<enabled, venue, trades, qualifying, waited>>

\* An exception out of a sleep ends the wait: not done, says _wait_done, even
\* when the events of that sleep have just ended the order.
WaitRaises ==
    /\ waiting # NoTrade
    /\ waited < WaitSteps
    /\ BrokerDefers
    /\ waiting' = NoTrade
    /\ UNCHANGED <<enabled, venue, trades, qualifying, waited>>

\* An exception while the fills of the trade are read: the order is refused,
\* although it was executed and stays in _trades.
AnswerError ==
    /\ waiting # NoTrade
    /\ Filled(venue[waiting])
    /\ BrokerRejects
    /\ waiting' = NoTrade
    /\ UNCHANGED <<enabled, venue, trades, qualifying, waited>>

(***************************************************************************)
(* poll_fills: the trades that are done leave _trades, those with shares   *)
(* as fills, in the order they were placed.                                *)
(***************************************************************************)
Finished == {id \in trades : venue[id].done}

Delivered == {id \in trades : Filled(venue[id])}

\* _trades keeps the order of insertion.
InOrderPlaced(ids) == \A m, n \in DOMAIN ids : m < n => ids[m] < ids[n]

TradesAfterPollKeepingAll == trades

TradesAfterPollKeepingNone == {}

TradesAfterPoll == trades \ Finished

PollTrades ==
    /\ connected
    /\ \E ids \in [1..Cardinality(Delivered) -> Delivered] :
         /\ InOrderPlaced(ids)
         /\ PollFills([n \in DOMAIN ids |-> TradeToFill(venue[ids[n]])])
    /\ trades' = TradesAfterPoll
    /\ venue' = [id \in DOMAIN venue |->
                    IF id \in Delivered
                    THEN [venue[id] EXCEPT !.by_poll = @ + venue[id].shares]
                    ELSE venue[id]]
    /\ UNCHANGED <<enabled, qualifying, waiting, waited>>

PollDisconnected ==
    /\ ~connected
    /\ PollFills(<<>>)
    /\ UNCHANGED ibVars

\* An exception while the fills of a trade are read, which nothing catches: no
\* trade has left _trades by then, and the fills of the others are lost to it.
PollTradesRaises ==
    /\ connected
    /\ Delivered # {}
    /\ PollRaises
    /\ UNCHANGED ibVars

(***************************************************************************)
(* The venue, while a call of the adapter runs the event loop.             *)
(***************************************************************************)
EventLoopRuns == pc \in {"poll", "submit"}

Listens == EventLoopRuns /\ connected

\* An execution may be reported after the end of its order.
VenueExecutes(id, shares, price) ==
    /\ Listens
    /\ venue[id].shares + shares <= venue[id].qty
    /\ venue[id].shares > 0 => price = venue[id].price
    /\ venue' = [venue EXCEPT ![id].shares = @ + shares, ![id].price = price]
    /\ UNCHANGED <<sessionVars, journalVars, enabled, trades, qualifying, waiting,
                   waited>>

VenueEnds(id) ==
    /\ Listens
    /\ ~venue[id].done
    /\ venue' = [venue EXCEPT ![id].done = TRUE]
    /\ UNCHANGED <<sessionVars, journalVars, enabled, trades, qualifying, waiting,
                   waited>>

ConnectionLost ==
    /\ Listens
    /\ connected' = FALSE
    /\ UNCHANGED <<pc, bookVars, riskVars, barVars, orderVars, equity, rejected,
                   journalVars, ibVars>>

(***************************************************************************)
(* The session.                                                            *)
(***************************************************************************)
Init ==
    /\ SessionInit
    /\ JournalInit
    /\ enabled \in EnabledValues
    /\ venue = <<>>
    /\ trades = {}
    /\ qualifying = FALSE
    /\ waiting = NoTrade
    /\ waited = 0

\* connect, which succeeds or not.
Connect ==
    /\ \E up \in BOOLEAN : Start(up, "live")
    /\ UNCHANGED ibVars

\* The turns of the loop that rest on neither an answer of the venue nor on an
\* exception of its own.
Turn ==
    \/ Connect
    \/ PollTrades
    \/ PollDisconnected
    \/ RefuseOrder
    \/ AskVenue
    \/ ~connected /\ RefuseContract
    \/ WaitForFill
    \/ AnswerFilled
    \/ AnswerPending
    \/ LoopStep /\ UNCHANGED ibVars

Raises == WaitRaises \/ AnswerError \/ PollTradesRaises

Step == Turn \/ PlaceOrder \/ RefuseContract \/ Raises

Venue ==
    \/ \E id \in DOMAIN venue :
         \/ \E shares \in 1..venue[id].qty, price \in VenuePrices :
              VenueExecutes(id, shares, price)
         \/ VenueEnds(id)
    \/ ConnectionLost

Next == (Step \/ Venue) /\ UNCHANGED processVars

\* The loop's thread always takes its next turn; no exception rescues it, and
\* the venue owes nothing, not even the answer qualifyContracts waits for.
Spec == Init /\ [][Next]_vars /\ WF_vars(Turn /\ UNCHANGED processVars)

(***************************************************************************)
(* What the adapter adds.                                                  *)
(***************************************************************************)
\* The docstring's second gate, and DESIGN.md's "IB disabled by default": an
\* adapter that is not enabled places nothing, whatever it is connected to.
DisabledNeverTrades == ~enabled => venue = <<>> /\ fills = <<>>

\* On each of the two ways an execution can take to the book, it is delivered
\* at most once: a trade is not polled again once it was delivered.
EachPathDeliversOnce ==
    \A id \in DOMAIN venue :
        {venue[id].by_submit, venue[id].by_poll} \subseteq 0..venue[id].shares

\* A poll stops watching an order only when the venue has ended it, and in the
\* same step hands over all the shares reported of it so far.
DropsWhatItDelivers ==
    [][\A id \in trades \ trades' :
          venue[id].done /\ venue'[id].by_poll = venue[id].shares]_vars

\* The sums of the first numbers of a list.
Sums(numbers) ==
    LET sum[n \in 0..Len(numbers)] ==
            IF n = 0 THEN 0 ELSE sum[n - 1] + numbers[n]
    IN sum

Total(numbers) == Sums(numbers)[Len(numbers)]

\* Shares towards the order's side.
Towards(side, shares) == IF side = "BUY" THEN shares ELSE -shares

SharesDelivered ==
    Total([id \in DOMAIN venue |->
             Towards(venue[id].side, venue[id].by_submit + venue[id].by_poll)])

SharesToCome == Total([n \in DOMAIN delayed |-> Signed(delayed[n])])

\* The book holds what the adapter delivered, no share more or less, once the
\* fills of the last poll are applied.
BookIsWhatWasDelivered == pf.pos.qty + SharesToCome = SharesDelivered

\* The session ends and leaves no connection open, whatever the venue does with
\* its orders, unless it waits for ever in the one request the code puts no bound
\* on, over a connection that holds.
EndsUnlessUnanswered == EndsDisconnected \/ <>[](qualifying /\ connected)

(***************************************************************************)
(* What broker.py says of fills.                                           *)
(***************************************************************************)
\* "live may return fill=None and deliver later via poll_fills": a fill comes
\* by submit or by poll_fills, so the book never holds more of an order than
\* the venue executed.
FillsArriveOnce ==
    \A id \in DOMAIN venue :
        venue[id].by_submit + venue[id].by_poll <= venue[id].shares

\* "poll_fills: drain any async fills (live)": what the venue has executed of an
\* order is delivered, or the adapter still watches the order.
NothingForgotten ==
    \A id \in DOMAIN venue \ trades :
        venue[id].by_submit + venue[id].by_poll >= venue[id].shares
==============================================================================
