--------------------------- MODULE IBSessionProofs ---------------------------
(***************************************************************************)
(* The session over the Interactive Brokers adapter, for every             *)
(* configuration, strategy and venue, and for any number of bars and       *)
(* orders.                                                                 *)
(***************************************************************************)
EXTENDS IBSession, SessionLemmas

AdapterType ==
    /\ enabled \in BOOLEAN
    /\ venue \in Seq(Trade)
    /\ trades \subseteq DOMAIN venue
    /\ qualifying \in BOOLEAN
    /\ waiting \in trades \cup {NoTrade}
    /\ waited \in 0..WaitSteps

\* What the adapter knows of an order: it has handed over nothing before the
\* order was done, nothing by poll while it is in _trades, nothing by submit
\* while submit waits for it, and never more than was executed.
TradeInv ==
    \A id \in DOMAIN venue :
        /\ venue[id].by_submit <= venue[id].shares
        /\ venue[id].by_poll <= venue[id].shares
        /\ ~venue[id].done => venue[id].by_submit = 0 /\ venue[id].by_poll = 0
        /\ id \in trades => venue[id].by_poll = 0
        /\ id \notin trades => venue[id].done
        /\ waiting = id => venue[id].by_submit = 0

WaitInv ==
    /\ waiting # NoTrade => pc = "submit"
    /\ qualifying => pc = "submit" /\ waiting = NoTrade

DisabledInv ==
    ~enabled => venue = <<>> /\ fills = <<>> /\ delayed = <<>> /\ ~qualifying

AdapterInv == AdapterType /\ TradeInv /\ WaitInv /\ DisabledInv

IndInv == SessionInv /\ ProcessTypeOK /\ RiskBeforeBroker /\ AdapterInv

LEMMA InitInv == Init => IndInv
<1> SUFFICES ASSUME Init
             PROVE  IndInv
  OBVIOUS
<1>1. SessionInv /\ ProcessTypeOK /\ RiskBeforeBroker
  BY SessionStarts, NewProcess DEF Init
<1>2. AdapterType
  <2>1. enabled \in BOOLEAN
    BY IBAssumption DEF Init
  <2>2. 0 \in 0..WaitSteps
    BY IBAssumption
  <2>3. qualifying \in BOOLEAN
    BY Zenon DEF Init
  <2>4. QED
    BY <2>1, <2>2, <2>3 DEF Init, AdapterType
<1>3. TradeInv /\ WaitInv /\ DisabledInv
  BY DEF Init, SessionInit, TradeInv, WaitInv, DisabledInv
<1>4. QED
  BY <1>1, <1>2, <1>3 DEF IndInv, AdapterInv

(***************************************************************************)
(* Updates of one order.                                                   *)
(***************************************************************************)
LEMMA TradeDelivered ==
    ASSUME NEW t \in Trade, NEW k \in Nat
    PROVE  /\ [t EXCEPT !.by_submit = k] \in Trade
           /\ [t EXCEPT !.by_poll = k] \in Trade
BY DEF Trade

LEMMA TradeExecuted ==
    ASSUME NEW t \in Trade, NEW k \in Nat, NEW p \in Int
    PROVE  /\ [t EXCEPT !.shares = k, !.price = p] \in Trade
           /\ [t EXCEPT !.shares = k, !.price = p].by_submit = t.by_submit
           /\ [t EXCEPT !.shares = k, !.price = p].by_poll = t.by_poll
BY DEF Trade

LEMMA TradeStillKnown ==
    ASSUME NEW t \in Trade, NEW k \in Nat, NEW p \in Int
    PROVE  /\ [t EXCEPT !.shares = k, !.price = p].shares = k
           /\ [t EXCEPT !.shares = k, !.price = p].done = t.done
BY DEF Trade

LEMMA TradeEnded ==
    ASSUME NEW t \in Trade
    PROVE  /\ [t EXCEPT !.done = TRUE] \in Trade
           /\ [t EXCEPT !.done = TRUE].done
           /\ [t EXCEPT !.done = TRUE].shares = t.shares
           /\ [t EXCEPT !.done = TRUE].by_submit = t.by_submit
           /\ [t EXCEPT !.done = TRUE].by_poll = t.by_poll
<1> DEFINE ended == [t EXCEPT !.done = TRUE]
<1>1. ended.done = TRUE
  BY DEF Trade
<1>2. /\ ended \in Trade /\ ended.shares = t.shares
      /\ ended.by_submit = t.by_submit /\ ended.by_poll = t.by_poll
  BY DEF Trade
<1>3. QED
  BY <1>1, <1>2, Zenon

LEMMA VenueUpdate ==
    ASSUME NEW v \in Seq(Trade), NEW id \in DOMAIN v, NEW t \in Trade
    PROVE  LET w == [v EXCEPT ![id] = t]
           IN /\ w \in Seq(Trade)
              /\ DOMAIN w = DOMAIN v
              /\ w[id] = t
              /\ \A i \in DOMAIN v : i # id => w[i] = v[i]
OBVIOUS

(***************************************************************************)
(* The fills the adapter hands over.                                       *)
(***************************************************************************)
LEMMA TradeToFillType ==
    ASSUME NEW trade \in Trade, trade.shares > 0
    PROVE  TradeToFill(trade) \in Fill
<1>1. CommissionPaid \in Nat
  BY IBAssumption DEF CommissionPaid, Abs
<1>2. QED
  BY <1>1 DEF TradeToFill, Trade, Fill

LEMMA DeliveredCount ==
    ASSUME AdapterType
    PROVE  /\ Cardinality(Delivered) \in Nat
           /\ venue = <<>> => Cardinality(Delivered) = 0
<1>1. Delivered \subseteq 1..Len(venue) /\ Len(venue) \in Nat
  BY DEF Delivered, AdapterType
<1>2. IsFiniteSet(Delivered)
  <2>1. IsFiniteSet(1..Len(venue))
    BY <1>1, FS_Interval
  <2>2. QED
    BY <1>1, <2>1, FS_Subset
<1>3. ASSUME venue = <<>>
      PROVE  Delivered = {}
  BY <1>1, <1>3
<1>4. QED
  BY <1>2, <1>3, FS_CardinalityType, FS_EmptySet

LEMMA PolledType ==
    ASSUME AdapterType,
           NEW ids \in [1..Cardinality(Delivered) -> Delivered]
    PROVE  [n \in DOMAIN ids |-> TradeToFill(venue[ids[n]])] \in Seq(Fill)
<1> DEFINE polled == [n \in DOMAIN ids |-> TradeToFill(venue[ids[n]])]
<1>1. ASSUME NEW n \in DOMAIN ids
      PROVE  TradeToFill(venue[ids[n]]) \in Fill
  <2>1. venue[ids[n]] \in Trade /\ venue[ids[n]].shares > 0
    BY DEF Delivered, Filled, AdapterType
  <2>2. QED
    BY <2>1, TradeToFillType
<1>2. polled \in [1..Cardinality(Delivered) -> Fill]
  BY <1>1
<1>3. QED
  BY <1>2, DeliveredCount

(***************************************************************************)
(* Each step of the adapter keeps the invariant of the adapter.            *)
(***************************************************************************)
LEMMA AdapterStays ==
    ASSUME AdapterInv, UNCHANGED ibVars,
           pc = "submit" /\ (waiting # NoTrade \/ qualifying) => pc' = "submit",
           ~enabled /\ venue = <<>> /\ fills = <<>> /\ delayed = <<>>
               => fills' = <<>> /\ delayed' = <<>>
    PROVE  AdapterInv'
<1>1. AdapterType' /\ TradeInv'
  BY DEF AdapterInv, AdapterType, TradeInv, ibVars
<1>2. WaitInv' /\ DisabledInv'
  BY DEF AdapterInv, WaitInv, DisabledInv, ibVars
<1>3. QED
  BY <1>1, <1>2 DEF AdapterInv

LEMMA AskVenueKeeps ==
    ASSUME IndInv, AskVenue
    PROVE  AdapterInv'
<1>1. UNCHANGED <<pc, fills, delayed, enabled, venue, trades, waiting, waited>>
      /\ pc = "submit" /\ waiting = NoTrade /\ enabled /\ qualifying' = TRUE
  BY DEF AskVenue, Gate, sessionVars, bookVars, barVars
<1>2. AdapterType' /\ TradeInv'
  BY <1>1 DEF IndInv, AdapterInv, AdapterType, TradeInv
<1>3. WaitInv' /\ DisabledInv'
  BY <1>1 DEF WaitInv, DisabledInv
<1>4. QED
  BY <1>2, <1>3 DEF AdapterInv

LEMMA RefuseContractKeeps ==
    ASSUME IndInv, RefuseContract
    PROVE  AdapterInv' /\ SessionInv'
<1>1. UNCHANGED <<fills, delayed, enabled, venue, trades, waiting, waited>>
      /\ waiting = NoTrade /\ qualifying' = FALSE
  BY DEF RefuseContract, BrokerRejects, Submitted, bookVars, barVars, IndInv,
     AdapterInv, WaitInv
<1>2. AdapterType' /\ TradeInv'
  BY <1>1 DEF IndInv, AdapterInv, AdapterType, TradeInv
<1>3. WaitInv' /\ DisabledInv'
  BY <1>1 DEF IndInv, AdapterInv, WaitInv, DisabledInv
<1>4. SessionInv'
  BY BrokerRejectsKeeps DEF RefuseContract, IndInv
<1>5. QED
  BY <1>2, <1>3, <1>4 DEF AdapterInv

LEMMA PlaceOrderKeeps ==
    ASSUME IndInv, PlaceOrder
    PROVE  AdapterInv'
<1> DEFINE id == Len(venue) + 1
<1>0. pc = "submit" /\ enabled
  BY DEF IndInv, AdapterInv, WaitInv, DisabledInv, PlaceOrder
<1>1. adj \in Order
  BY <1>0 DEF IndInv, SessionInv, StageInv
<1>2. NewTrade(adj) \in Trade
  BY <1>1 DEF NewTrade, Order, Trade
<1>3. /\ venue' \in Seq(Trade)
      /\ DOMAIN venue' = DOMAIN venue \cup {id}
      /\ venue'[id] = NewTrade(adj)
      /\ \A i \in DOMAIN venue : i # id /\ venue'[i] = venue[i]
      /\ id # NoTrade
  BY <1>2 DEF PlaceOrder, IndInv, AdapterInv, AdapterType, NoTrade
<1>4. trades' = trades \cup {id} /\ waiting' = id /\ waited' = 0
  BY DEF PlaceOrder
<1>5. AdapterType'
  <2>1. qualifying' \in BOOLEAN
    BY Zenon DEF PlaceOrder
  <2>2. UNCHANGED enabled
    BY DEF PlaceOrder
  <2>3. QED
    BY <1>3, <1>4, <2>1, <2>2, IBAssumption DEF IndInv, AdapterInv, AdapterType
<1>6. TradeInv'
  <2> SUFFICES ASSUME NEW i \in DOMAIN venue'
               PROVE  TradeInv!(i)'
    BY DEF TradeInv
  <2>1. CASE i = id
    BY <2>1, <1>3, <1>4 DEF NewTrade
  <2>2. CASE i # id
    BY <2>2, <1>3, <1>4 DEF IndInv, AdapterInv, TradeInv
  <2>3. QED
    BY <2>1, <2>2
<1>7. WaitInv' /\ DisabledInv'
  BY <1>0 DEF PlaceOrder, WaitInv, DisabledInv, sessionVars
<1>8. QED
  BY <1>5, <1>6, <1>7 DEF AdapterInv

LEMMA WaitForFillKeeps ==
    ASSUME IndInv, WaitForFill
    PROVE  AdapterInv'
<1>1. AdapterType'
  BY IBAssumption DEF WaitForFill, NextWait, IndInv, AdapterInv, AdapterType
<1>2. TradeInv' /\ WaitInv' /\ DisabledInv'
  BY DEF WaitForFill, IndInv, AdapterInv, TradeInv, WaitInv, DisabledInv,
     sessionVars, bookVars, barVars
<1>3. QED
  BY <1>1, <1>2 DEF AdapterInv

LEMMA AnswerFilledKeeps ==
    ASSUME IndInv, AnswerFilled
    PROVE  AdapterInv' /\ SessionInv'
<1> DEFINE trade == venue[waiting]
<1>1. waiting \in DOMAIN venue /\ trade \in Trade /\ trade.shares > 0 /\ trade.done
  BY DEF AnswerFilled, IndInv, AdapterInv, AdapterType, Filled
<1>2. trade.by_submit = 0
  BY <1>1 DEF IndInv, AdapterInv, TradeInv
<1> DEFINE answered == [trade EXCEPT !.by_submit = trade.shares]
<1>3. venue' = [venue EXCEPT ![waiting] = answered]
  <2>1. trade.by_submit + trade.shares = trade.shares
    BY <1>1, <1>2 DEF Trade
  <2>2. venue' = [venue EXCEPT ![waiting] =
                     [trade EXCEPT !.by_submit = trade.by_submit + trade.shares]]
    BY <1>1 DEF AnswerFilled
  <2>3. QED
    BY <2>1, <2>2
<1>4. /\ DOMAIN venue' = DOMAIN venue
      /\ venue' \in Seq(Trade)
      /\ venue'[waiting] = answered
      /\ \A i \in DOMAIN venue : i # waiting => venue'[i] = venue[i]
  <2>1. trade.shares \in Nat
    BY <1>1 DEF Trade
  <2>2. answered \in Trade
    BY <1>1, <2>1, TradeDelivered
  <2>3. venue \in Seq(Trade)
    BY DEF IndInv, AdapterInv, AdapterType
  <2> HIDE DEF answered
  <2>4. QED
    BY <1>1, <1>3, <2>2, <2>3, VenueUpdate
<1>5. UNCHANGED <<enabled, trades, qualifying, waited>> /\ waiting' = NoTrade
  BY DEF AnswerFilled
<1>6. AdapterType'
  BY <1>4, <1>5 DEF IndInv, AdapterInv, AdapterType
<1>7. TradeInv'
  <2> SUFFICES ASSUME NEW i \in DOMAIN venue'
               PROVE  TradeInv!(i)'
    BY DEF TradeInv
  <2>0. i # NoTrade
    BY <1>4 DEF IndInv, AdapterInv, AdapterType, NoTrade
  <2>1. CASE i = waiting
    BY <2>0, <2>1, <1>1, <1>4, <1>5 DEF Trade, IndInv, AdapterInv, TradeInv
  <2>2. CASE i # waiting
    BY <2>0, <2>2, <1>4, <1>5 DEF IndInv, AdapterInv, TradeInv
  <2>3. QED
    BY <2>1, <2>2
<1>8. WaitInv' /\ DisabledInv'
  <2>1. waiting # NoTrade
    BY DEF AnswerFilled
  <2>2. ~qualifying' /\ enabled' /\ waiting' = NoTrade
    BY <1>1, <1>5, <2>1 DEF IndInv, AdapterInv, WaitInv, DisabledInv
  <2>3. QED
    BY <2>2 DEF WaitInv, DisabledInv
<1>9. SessionInv'
  BY <1>1, TradeToFillType, BrokerFillsKeeps DEF AnswerFilled, IndInv
<1>10. QED
  BY <1>6, <1>7, <1>8, <1>9 DEF AdapterInv

\* The three answers that leave the trade to the polls.
Unanswered == AnswerPending \/ WaitRaises \/ AnswerError

LEMMA UnansweredKeeps ==
    ASSUME IndInv, Unanswered
    PROVE  AdapterInv' /\ SessionInv'
<1>1. /\ UNCHANGED <<enabled, venue, trades, qualifying, waited, fills, delayed>>
      /\ waiting # NoTrade /\ waiting' = NoTrade
  BY DEF Unanswered, AnswerPending, WaitRaises, AnswerError, BrokerDefers,
     BrokerRejects, Submitted, bookVars, barVars
<1>2. AdapterType'
  BY <1>1 DEF IndInv, AdapterInv, AdapterType
<1>3. TradeInv'
  <2>1. \A i \in DOMAIN venue : i # NoTrade
    BY DEF IndInv, AdapterInv, AdapterType, NoTrade
  <2>2. QED
    BY <1>1, <2>1 DEF IndInv, AdapterInv, TradeInv
<1>4. WaitInv' /\ DisabledInv'
  BY <1>1 DEF IndInv, AdapterInv, WaitInv, DisabledInv
<1>5. SessionInv'
  BY BrokerDefersKeeps, BrokerRejectsKeeps
  DEF Unanswered, AnswerPending, WaitRaises, AnswerError, IndInv
<1>6. QED
  BY <1>2, <1>3, <1>4, <1>5 DEF AdapterInv

LEMMA PollTradesKeeps ==
    ASSUME IndInv, PollTrades
    PROVE  AdapterInv' /\ SessionInv'
<1>1. PICK ids \in [1..Cardinality(Delivered) -> Delivered] :
           PollFills([n \in DOMAIN ids |-> TradeToFill(venue[ids[n]])])
  BY DEF PollTrades
<1> DEFINE polled == [n \in DOMAIN ids |-> TradeToFill(venue[ids[n]])]
<1>2. polled \in Seq(Fill)
  BY PolledType DEF IndInv, AdapterInv
<1>3. SessionInv'
  BY <1>1, <1>2, PollFillsKeeps DEF IndInv
<1>4. /\ DOMAIN venue' = DOMAIN venue
      /\ venue' \in Seq(Trade)
      /\ \A i \in DOMAIN venue :
            venue'[i] = IF i \in Delivered
                        THEN [venue[i] EXCEPT !.by_poll = @ + venue[i].shares]
                        ELSE venue[i]
  <2>1. \A i \in DOMAIN venue :
            [venue[i] EXCEPT !.by_poll = @ + venue[i].shares] \in Trade
    <3> SUFFICES ASSUME NEW i \in DOMAIN venue
                 PROVE  [venue[i] EXCEPT !.by_poll = @ + venue[i].shares] \in Trade
      OBVIOUS
    <3>1. venue[i] \in Trade
      BY DEF IndInv, AdapterInv, AdapterType
    <3>2. venue[i].by_poll + venue[i].shares \in Nat
      BY <3>1 DEF Trade
    <3>3. QED
      BY <3>1, <3>2, TradeDelivered
  <2>2. Len(venue) \in Nat /\ DOMAIN venue = 1..Len(venue)
    BY DEF IndInv, AdapterInv, AdapterType
  <2>3. venue' \in [1..Len(venue) -> Trade]
    BY <2>1, <2>2 DEF PollTrades, IndInv, AdapterInv, AdapterType
  <2>4. QED
    BY <2>2, <2>3 DEF PollTrades
<1>5. waiting = NoTrade /\ ~qualifying
  BY <1>1 DEF PollFills, IndInv, AdapterInv, WaitInv
<1>6. trades' = trades \ Finished /\ UNCHANGED <<enabled, qualifying, waiting, waited, fills>>
  BY <1>1 DEF PollTrades, TradesAfterPoll, PollFills, bookVars
<1>7. AdapterType'
  BY <1>4, <1>5, <1>6 DEF IndInv, AdapterInv, AdapterType
<1>8. TradeInv'
  <2> SUFFICES ASSUME NEW i \in DOMAIN venue'
               PROVE  TradeInv!(i)'
    BY DEF TradeInv
  <2>1. i \in DOMAIN venue /\ i # NoTrade /\ venue[i] \in Trade
    BY <1>4 DEF IndInv, AdapterInv, AdapterType, NoTrade
  <2>2. CASE i \in Delivered
    <3>1. i \in trades /\ venue[i].done /\ i \in Finished
      BY <2>2 DEF Delivered, Filled, Finished
    <3>2. venue[i].by_poll = 0
      BY <2>1, <3>1 DEF IndInv, AdapterInv, TradeInv
    <3>3. venue'[i] = [venue[i] EXCEPT !.by_poll = venue[i].shares]
      <4>1. venue[i].by_poll + venue[i].shares = venue[i].shares
        BY <2>1, <3>2 DEF Trade
      <4>2. venue'[i] = [venue[i] EXCEPT !.by_poll =
                            venue[i].by_poll + venue[i].shares]
        BY <2>1, <2>2, <1>4
      <4>3. QED
        BY <4>1, <4>2
    <3>4. QED
      BY <2>1, <3>1, <3>3, <1>5, <1>6 DEF Trade, IndInv, AdapterInv, TradeInv
  <2>3. CASE i \notin Delivered
    <3>1. venue'[i] = venue[i]
      BY <2>1, <2>3, <1>4
    <3>2. CASE i \in Finished
      <4>1. i \in trades /\ venue[i].done /\ venue[i].shares = 0
        BY <2>1, <2>3, <3>2 DEF Finished, Delivered, Filled, Trade
      <4>2. QED
        BY <2>1, <3>1, <3>2, <4>1, <1>5, <1>6 DEF IndInv, AdapterInv, TradeInv
    <3>3. CASE i \notin Finished
      BY <2>1, <3>1, <3>3, <1>5, <1>6 DEF IndInv, AdapterInv, TradeInv
    <3>4. QED
      BY <3>2, <3>3
  <2>4. QED
    BY <2>2, <2>3
<1>9. WaitInv'
  BY <1>5, <1>6 DEF WaitInv
<1>10. DisabledInv'
  <2> SUFFICES ASSUME ~enabled
               PROVE  venue' = <<>> /\ fills' = <<>> /\ delayed' = <<>>
    BY <1>5, <1>6 DEF DisabledInv
  <2>1. venue = <<>> /\ fills = <<>>
    BY DEF IndInv, AdapterInv, DisabledInv
  <2>2. Len(venue') = 0
    BY <2>1, <1>4 DEF IndInv, AdapterInv, AdapterType
  <2>3. Len(polled) = 0
    <3>1. DOMAIN ids = 1..0
      BY <2>1, DeliveredCount DEF IndInv, AdapterInv
    <3>2. QED
      BY <3>1, <1>2
  <2>4. venue' = <<>>
    BY <2>2, <1>4
  <2>5. polled = <<>>
    BY <2>3, <1>2
  <2>6. QED
    BY <2>1, <2>4, <2>5, <1>1, <1>6 DEF PollFills
<1>11. QED
  BY <1>3, <1>7, <1>8, <1>9, <1>10 DEF AdapterInv

LEMMA StepInv ==
    ASSUME IndInv, Step, UNCHANGED processVars
    PROVE  IndInv'
<1>0. ProcessTypeOK'
  BY ProcessStays DEF IndInv
<1> USE <1>0
<1>1. CASE Connect
  <2>1. SessionInv'
    BY <1>1, StartKeeps DEF Connect, IndInv, Mode
  <2>2. AdapterInv'
    BY <1>1, AdapterStays DEF Connect, IndInv, Start, bookVars, barVars
  <2>3. RiskBeforeBroker'
    BY <1>1 DEF Connect, Start, RiskBeforeBroker
  <2>4. QED
    BY <2>1, <2>2, <2>3 DEF IndInv
<1>2. CASE PollTrades
  BY <1>2, PollTradesKeeps DEF IndInv, PollTrades, PollFills, RiskBeforeBroker
<1>3. CASE PollDisconnected
  <2>1. <<>> \in Seq(Fill)
    OBVIOUS
  <2>2. SessionInv'
    BY <1>3, <2>1, PollFillsKeeps DEF PollDisconnected, IndInv
  <2>3. AdapterInv'
    BY <1>3, AdapterStays DEF PollDisconnected, PollFills, IndInv, bookVars
  <2>4. RiskBeforeBroker'
    BY <1>3 DEF PollDisconnected, PollFills, RiskBeforeBroker
  <2>5. QED
    BY <2>2, <2>3, <2>4 DEF IndInv
<1>4. CASE RefuseOrder
  <2>1. SessionInv'
    BY <1>4, BrokerRejectsKeeps DEF RefuseOrder, IndInv
  <2>2. AdapterInv'
    BY <1>4, AdapterStays
    DEF RefuseOrder, BrokerRejects, Submitted, IndInv, bookVars, barVars
  <2>3. RiskBeforeBroker'
    BY <1>4 DEF RefuseOrder, BrokerRejects, Submitted, RiskBeforeBroker
  <2>4. QED
    BY <2>1, <2>2, <2>3 DEF IndInv
<1>5. CASE AskVenue \/ PlaceOrder \/ WaitForFill
  <2>1. UNCHANGED <<sessionVars, journalVars>>
    BY <1>5 DEF AskVenue, PlaceOrder, WaitForFill
  <2>2. SessionInv'
    BY <2>1, StutterKeeps DEF IndInv
  <2>3. UNCHANGED <<pc, pf, killed, mark, adj>>
    BY <2>1 DEF sessionVars, bookVars, riskVars, barVars, orderVars
  <2>4. QED
    BY <1>5, <2>2, <2>3, GateStays, AskVenueKeeps, PlaceOrderKeeps,
       WaitForFillKeeps
    DEF IndInv
<1>6. CASE AnswerFilled
  BY <1>6, AnswerFilledKeeps
  DEF IndInv, AnswerFilled, BrokerFills, Submitted, RiskBeforeBroker
<1>7. CASE Unanswered
  BY <1>7, UnansweredKeeps
  DEF IndInv, Unanswered, AnswerPending, WaitRaises, AnswerError, BrokerDefers,
      BrokerRejects, Submitted, RiskBeforeBroker
<1>8. CASE LoopStep /\ UNCHANGED ibVars
  <2>1. SessionInv' /\ RiskBeforeBroker'
    BY <1>8, LoopStepKeeps, LoopStepKeepsGate DEF IndInv
  <2>2. pc = "submit" => pc' = "submit"
    BY <1>8, LoopStepAtBroker
  <2>3. delayed = <<>> => fills' = fills /\ delayed' = <<>>
    BY <1>8, LoopStepFills
  <2>4. AdapterInv'
    BY <1>8, <2>2, <2>3, AdapterStays DEF IndInv
  <2>5. QED
    BY <2>1, <2>4 DEF IndInv
<1>9. CASE RefuseContract
  BY <1>9, RefuseContractKeeps
  DEF IndInv, RefuseContract, BrokerRejects, Submitted, RiskBeforeBroker
<1>10. CASE PollTradesRaises
  <2>1. SessionInv'
    BY <1>10, PollRaisesKeeps DEF PollTradesRaises, IndInv
  <2>2. AdapterInv'
    BY <1>10, AdapterStays
    DEF PollTradesRaises, PollRaises, IndInv, bookVars, barVars
  <2>3. RiskBeforeBroker'
    BY <1>10 DEF PollTradesRaises, PollRaises, RiskBeforeBroker
  <2>4. QED
    BY <2>1, <2>2, <2>3 DEF IndInv
<1>11. QED
  BY <1>1, <1>2, <1>3, <1>4, <1>5, <1>6, <1>7, <1>8, <1>9, <1>10
  DEF Step, Turn, Raises, Unanswered

LEMMA VenueInv ==
    ASSUME IndInv, Venue, UNCHANGED processVars
    PROVE  IndInv'
<1>0. ProcessTypeOK'
  BY ProcessStays DEF IndInv
<1> USE <1>0
<1>1. CASE ConnectionLost
  <2>1. SessionInv'
    BY <1>1 DEF ConnectionLost, IndInv, SessionInv, SessionTypeOK, StageInv,
       JournalTypeOK, journalVars, bookVars, riskVars, barVars, orderVars
  <2>2. AdapterInv'
    BY <1>1, AdapterStays DEF ConnectionLost, IndInv, bookVars, barVars
  <2>3. RiskBeforeBroker'
    BY <1>1, GateStays DEF ConnectionLost, IndInv, bookVars, riskVars, barVars,
       orderVars
  <2>4. QED
    BY <2>1, <2>2, <2>3 DEF IndInv
<1>2. ASSUME NEW id \in DOMAIN venue, NEW t \in Trade,
             UNCHANGED <<sessionVars, journalVars, enabled, trades, qualifying,
                         waiting, waited>>,
             venue' = [venue EXCEPT ![id] = t],
             venue[id].done => t.done,
             venue[id].shares <= t.shares,
             t.by_submit = venue[id].by_submit,
             t.by_poll = venue[id].by_poll
      PROVE  IndInv'
  <2>1. SessionInv'
    BY <1>2, StutterKeeps DEF IndInv
  <2>2. UNCHANGED <<pc, pf, killed, mark, adj, fills, delayed>>
    BY <1>2 DEF sessionVars, bookVars, riskVars, barVars, orderVars
  <2>3. RiskBeforeBroker'
    BY <2>2, GateStays DEF IndInv
  <2>4. /\ venue' \in Seq(Trade)
        /\ DOMAIN venue' = DOMAIN venue
        /\ venue'[id] = t
        /\ \A i \in DOMAIN venue : i # id => venue'[i] = venue[i]
    BY <1>2 DEF IndInv, AdapterInv, AdapterType
  <2>5. AdapterType'
    BY <1>2, <2>4 DEF IndInv, AdapterInv, AdapterType
  <2>6. TradeInv'
    <3> SUFFICES ASSUME NEW i \in DOMAIN venue'
                 PROVE  TradeInv!(i)'
      BY DEF TradeInv
    <3>1. CASE i = id
      <4>1. venue[id] \in Trade
        BY DEF IndInv, AdapterInv, AdapterType
      <4>2. QED
        BY <3>1, <4>1, <1>2, <2>4 DEF Trade, IndInv, AdapterInv, TradeInv
    <3>2. CASE i # id
      BY <3>2, <1>2, <2>4 DEF IndInv, AdapterInv, TradeInv
    <3>3. QED
      BY <3>1, <3>2
  <2>7. WaitInv'
    BY <1>2, <2>2 DEF IndInv, AdapterInv, WaitInv
  <2>8. DisabledInv'
    <3>1. venue # <<>>
      BY <1>2
    <3>2. QED
      BY <3>1, <1>2 DEF IndInv, AdapterInv, DisabledInv
  <2>9. QED
    BY <2>1, <2>3, <2>5, <2>6, <2>7, <2>8 DEF IndInv, AdapterInv
<1>3. ASSUME NEW id \in DOMAIN venue,
             NEW shares \in 1..venue[id].qty, NEW price \in VenuePrices,
             VenueExecutes(id, shares, price)
      PROVE  IndInv'
  <2>1. venue[id] \in Trade
    BY DEF IndInv, AdapterInv, AdapterType
  <2> DEFINE executed == venue[id].shares + shares
             t == [venue[id] EXCEPT !.shares = executed, !.price = price]
  <2>2. executed \in Nat /\ price \in Int
    BY <2>1, IBAssumption DEF Trade
  <2>3. venue' = [venue EXCEPT ![id] = t]
    BY <1>3 DEF VenueExecutes
  <2> HIDE DEF executed
  <2>6. /\ t \in Trade /\ t.shares = executed
        /\ t.by_submit = venue[id].by_submit /\ t.by_poll = venue[id].by_poll
    BY <2>1, <2>2, TradeExecuted, TradeStillKnown
  <2>8. venue[id].done => t.done
    BY <2>1, <2>2, TradeStillKnown, Zenon
  <2>7. venue[id].shares <= executed
    BY <2>1 DEF executed, Trade
  <2>4. UNCHANGED <<sessionVars, journalVars, enabled, trades, qualifying, waiting,
                    waited>>
    BY <1>3 DEF VenueExecutes
  <2> HIDE DEF t
  <2>5. QED
    BY <2>6, <2>7, <2>8, <2>3, <2>4, <1>2
<1>4. ASSUME NEW id \in DOMAIN venue, VenueEnds(id)
      PROVE  IndInv'
  <2>1. venue[id] \in Trade
    BY DEF IndInv, AdapterInv, AdapterType
  <2> DEFINE t == [venue[id] EXCEPT !.done = TRUE]
  <2>2. /\ t \in Trade /\ t.done /\ venue[id].shares <= t.shares
        /\ t.by_submit = venue[id].by_submit /\ t.by_poll = venue[id].by_poll
    <3>1. /\ t.shares = venue[id].shares /\ venue[id].shares <= venue[id].shares
      BY <2>1, TradeEnded DEF Trade
    <3>2. QED
      BY <2>1, <3>1, TradeEnded
  <2>3. venue' = [venue EXCEPT ![id] = t]
    BY <1>4, <2>1 DEF VenueEnds, Trade
  <2>4. UNCHANGED <<sessionVars, journalVars, enabled, trades, qualifying, waiting,
                    waited>>
    BY <1>4 DEF VenueEnds
  <2> HIDE DEF t
  <2>5. QED
    BY <2>2, <2>3, <2>4, <1>2
<1>5. QED
  BY <1>1, <1>3, <1>4 DEF Venue

LEMMA NextInv == IndInv /\ [Next]_vars => IndInv'
<1> SUFFICES ASSUME IndInv, [Next]_vars
             PROVE  IndInv'
  OBVIOUS
<1>1. CASE Next
  BY <1>1, StepInv, VenueInv DEF Next
<1>2. CASE UNCHANGED vars
  <2>1. SessionInv'
    BY <1>2, StutterKeeps DEF vars, IndInv
  <2>2. UNCHANGED <<pc, pf, killed, mark, adj, fills, delayed>>
    BY <1>2 DEF vars, sessionVars, bookVars, riskVars, barVars, orderVars
  <2>3. AdapterInv'
    BY <1>2, <2>2, AdapterStays DEF vars, IndInv
  <2>4. ProcessTypeOK'
    BY <1>2, ProcessStays DEF vars, IndInv
  <2>5. QED
    BY <2>1, <2>2, <2>3, <2>4, GateStays DEF IndInv
<1>3. QED
  BY <1>1, <1>2

\* What run_feed knows of the session at each stage, and the adapter of each
\* order, whatever the venue reports.
THEOREM Invariance == Spec => []IndInv
BY InitInv, NextInv, PTL DEF Spec

\* The session and the adapter keep their shape; a commission paid is never
\* negative, whatever the sign of the report.
THEOREM TypeCorrect == Spec => []TypeOK
<1>1. IndInv => TypeOK
  BY DEF IndInv, SessionInv, AdapterInv, AdapterType, TypeOK
<1>2. QED
  BY <1>1, Invariance, PTL

\* Also with fills that come late, no order is placed past a breached limit of
\* the session's own book.
THEOREM RiskGate == Spec => []RiskBeforeBroker
<1>1. IndInv => RiskBeforeBroker
  BY DEF IndInv
<1>2. QED
  BY <1>1, Invariance, PTL

\* An adapter that is not enabled places no order and trades nothing.
THEOREM DisabledSafe == Spec => []DisabledNeverTrades
<1>1. IndInv => DisabledNeverTrades
  BY DEF IndInv, AdapterInv, DisabledInv, DisabledNeverTrades
<1>2. QED
  BY <1>1, Invariance, PTL

\* Each way to the book delivers no share of an order twice.
THEOREM PathsDeliverOnce == Spec => []EachPathDeliversOnce
<1>1. IndInv => EachPathDeliversOnce
  <2> SUFFICES ASSUME IndInv, NEW id \in DOMAIN venue
               PROVE  {venue[id].by_submit, venue[id].by_poll}
                        \subseteq 0..venue[id].shares
    BY DEF EachPathDeliversOnce
  <2>1. venue[id] \in Trade
    BY DEF IndInv, AdapterInv, AdapterType
  <2>2. venue[id].by_submit <= venue[id].shares /\ venue[id].by_poll <= venue[id].shares
    BY DEF IndInv, AdapterInv, TradeInv
  <2>3. QED
    BY <2>1, <2>2 DEF Trade
<1>2. QED
  BY <1>1, Invariance, PTL

\* The poll that drops an order has found it done, and delivers all its shares
\* reported by then, also when others are reported later.
THEOREM DropsDelivered == Spec => DropsWhatItDelivers
<1> DEFINE Dropped == \A id \in trades \ trades' :
                          venue[id].done /\ venue'[id].by_poll = venue[id].shares
<1>1. IndInv /\ [Next]_vars => [Dropped]_vars
  <2> SUFFICES ASSUME IndInv, Next, NEW id \in trades \ trades'
               PROVE  venue[id].done /\ venue'[id].by_poll = venue[id].shares
    BY DEF vars
  <2>1. PollTrades
    BY DEF Next, Step, Turn, Raises, Venue, Connect, PollDisconnected, RefuseOrder,
       AskVenue, RefuseContract, PlaceOrder, WaitForFill, AnswerFilled, AnswerPending,
       WaitRaises, AnswerError, PollTradesRaises, VenueExecutes, VenueEnds,
       ConnectionLost, ibVars
  <2>2. id \in Finished
    BY <2>1 DEF PollTrades, TradesAfterPoll
  <2>3. id \in DOMAIN venue /\ venue[id] \in Trade /\ venue[id].by_poll = 0
    BY DEF IndInv, AdapterInv, AdapterType, TradeInv
  <2>4. CASE id \in Delivered
    <3>1. venue'[id] = [venue[id] EXCEPT !.by_poll = venue[id].by_poll + venue[id].shares]
      BY <2>1, <2>3, <2>4 DEF PollTrades
    <3>2. QED
      BY <2>2, <2>3, <3>1 DEF Finished, Trade
  <2>5. CASE id \notin Delivered
    <3>1. venue'[id] = venue[id]
      BY <2>1, <2>3, <2>5 DEF PollTrades
    <3>2. QED
      BY <2>2, <2>3, <2>5, <3>1 DEF Finished, Delivered, Filled, Trade
  <2>6. QED
    BY <2>4, <2>5
<1>2. Spec => [][Dropped]_vars
  BY <1>1, Invariance, PTL DEF Spec
<1>3. QED
  BY <1>2 DEF DropsWhatItDelivers

\* No fill the venue still owes reaches the book after a KILL.
THEOREM KillFinality == Spec => KillIsFinal
<1>1. IndInv /\ [Next]_vars => [killed => Frozen]_sessionVars
  <2> SUFFICES ASSUME IndInv, Next, killed
               PROVE  [Frozen]_sessionVars
    BY DEF vars
  <2>1. CASE LoopStep
    BY <2>1, LoopStepFrozen DEF IndInv
  <2>2. CASE Venue
    BY <2>2 DEF Venue, VenueExecutes, VenueEnds, ConnectionLost, sessionVars,
       bookVars, riskVars, barVars, Frozen
  <2>3. CASE Step /\ ~LoopStep
    <3>1. pc \notin {"start", "poll", "submit"} /\ waiting = NoTrade /\ ~qualifying
      BY KilledStage DEF IndInv, AdapterInv, WaitInv
    <3>2. QED
      BY <2>3, <3>1 DEF Step, Turn, Raises, Connect, Start, PollTrades,
         PollDisconnected, PollFills, PollTradesRaises, PollRaises, RefuseOrder,
         BrokerRejects, Submitted, AskVenue, RefuseContract, PlaceOrder, WaitForFill,
         AnswerFilled, BrokerFills, AnswerPending, WaitRaises, AnswerError,
         BrokerDefers
  <2>4. QED
    BY <2>1, <2>2, <2>3 DEF Next
<1>2. Spec => [][killed => Frozen]_sessionVars
  BY <1>1, Invariance, PTL DEF Spec
<1>3. QED
  BY <1>2 DEF KillIsFinal, Frozen

(***************************************************************************)
(* The refinement.                                                         *)
(***************************************************************************)
LEMMA StepGuarded ==
    ASSUME IndInv, Step
    PROVE  [Guarded!Next]_(Guarded!bookVars)
<1>1. CASE AnswerFilled
  <2>1. venue[waiting] \in Trade /\ venue[waiting].shares > 0
    BY <1>1 DEF AnswerFilled, IndInv, AdapterInv, AdapterType, Filled
  <2>2. TradeToFill(venue[waiting]) \in Fill
    BY <2>1, TradeToFillType
  <2>3. ~killed /\ killed' = killed
    BY <1>1, KilledStage
    DEF AnswerFilled, BrokerFills, Submitted, riskVars, IndInv
  <2>4. QED
    BY <1>1, <2>2, <2>3, FillIsTrade DEF AnswerFilled, BrokerFills, IndInv
<1>2. CASE LoopStep
  BY <1>2, LoopStepGuarded DEF IndInv
<1>3. CASE \/ Connect
           \/ PollTrades \/ PollDisconnected \/ PollTradesRaises
           \/ RefuseOrder \/ AskVenue \/ RefuseContract \/ PlaceOrder
           \/ WaitForFill \/ Unanswered
  BY <1>3 DEF Connect, Start, PollTrades, PollDisconnected, PollFills,
     PollTradesRaises, PollRaises, RefuseOrder, BrokerRejects, Submitted,
     AskVenue, RefuseContract, PlaceOrder, WaitForFill, Unanswered,
     AnswerPending, WaitRaises, AnswerError, BrokerDefers, sessionVars,
     bookVars, riskVars, Guarded!bookVars
<1>4. QED
  BY <1>1, <1>2, <1>3 DEF Step, Turn, Raises, Unanswered

\* The session over the adapter implements the guarded book too: a late fill
\* is one more step of the ledger, and none arrives after a kill.
THEOREM Refinement == Spec => ImplementsGuardedBook
<1>1. Init => Guarded!Init
  BY BookStartsGuarded DEF Init
<1>2. IndInv /\ [Next]_vars => [Guarded!Next]_(Guarded!bookVars)
  <2> SUFFICES ASSUME IndInv, [Next]_vars
               PROVE  [Guarded!Next]_(Guarded!bookVars)
    OBVIOUS
  <2>1. CASE Step
    BY <2>1, StepGuarded
  <2>2. CASE Venue
    BY <2>2 DEF Venue, VenueExecutes, VenueEnds, ConnectionLost, sessionVars,
       bookVars, riskVars, Guarded!bookVars
  <2>3. CASE UNCHANGED vars
    BY <2>3 DEF vars, sessionVars, bookVars, riskVars, Guarded!bookVars
  <2>4. QED
    BY <2>1, <2>2, <2>3 DEF Next
<1>3. QED
  BY <1>1, <1>2, Invariance, PTL DEF Spec, ImplementsGuardedBook, Guarded!Spec

(***************************************************************************)
(* The journal and its restore.                                            *)
(***************************************************************************)
JournalInv == RestoreInv /\ PrefixInv

LEMMA FillJournal ==
    ASSUME IndInv, JournalInv, UNCHANGED processVars, AnswerFilled
    PROVE  JournalInv'
<1> DEFINE fill == TradeToFill(venue[waiting])
<1>1. venue[waiting] \in Trade /\ venue[waiting].shares > 0
  BY DEF AnswerFilled, IndInv, AdapterInv, AdapterType, Filled
<1>2. fill \in Fill
  BY <1>1, TradeToFillType
<1>3. BrokerFills(fill) /\ BookFill(fill) /\ UNCHANGED <<session_id, rejected>>
  BY DEF AnswerFilled, BrokerFills, processVars
<1> HIDE DEF fill
<1>4. RestoreInv'
  BY <1>2, <1>3, BrokerFillsRestore DEF IndInv, JournalInv
<1>5. PrefixInv'
  BY <1>2, <1>3, BookFillPrefix DEF IndInv, JournalInv
<1>6. QED
  BY <1>4, <1>5 DEF JournalInv

\* What is polled is not in the journal yet: its rows follow one by one.
LEMMA PollJournal ==
    ASSUME IndInv, JournalInv, UNCHANGED processVars,
           NEW polled \in Seq(Fill), PollFills(polled)
    PROVE  JournalInv'
<1>1. UNCHANGED <<session_id, journalVars, fills, rejected>>
  BY DEF PollFills, bookVars, processVars
<1>2. QED
  BY <1>1, PollFillsRestore, PrefixKeptByNothing DEF IndInv, JournalInv

LEMMA StepJournal ==
    ASSUME IndInv, JournalInv, UNCHANGED processVars, Step
    PROVE  JournalInv'
<1>1. SessionInv /\ ProcessTypeOK
  BY DEF IndInv
<1>2. CASE Connect
  BY <1>1, <1>2, StartRestore, StartPrefix DEF Connect, JournalInv, Mode
<1>3. CASE PollTrades
  <2>1. PICK ids \in [1..Cardinality(Delivered) -> Delivered] :
             PollFills([n \in DOMAIN ids |-> TradeToFill(venue[ids[n]])])
    BY <1>3 DEF PollTrades
  <2> DEFINE polled == [n \in DOMAIN ids |-> TradeToFill(venue[ids[n]])]
  <2>2. polled \in Seq(Fill) /\ PollFills(polled)
    BY <2>1, PolledType DEF IndInv, AdapterInv
  <2> HIDE DEF polled
  <2>3. QED
    BY <2>2, PollJournal
<1>4. CASE PollDisconnected
  <2>1. <<>> \in Seq(Fill)
    OBVIOUS
  <2>2. QED
    BY <1>4, <2>1, PollJournal DEF PollDisconnected
<1>5. CASE RefuseOrder \/ RefuseContract \/ AnswerError
  <2>1. BrokerRejects /\ UNCHANGED session_id
    BY <1>5 DEF RefuseOrder, RefuseContract, AnswerError, processVars
  <2>2. QED
    BY <1>1, <2>1, BrokerRejectsRestore, BrokerRejectsPrefix DEF JournalInv
<1>6. CASE AnswerPending \/ WaitRaises
  <2>1. BrokerDefers /\ UNCHANGED <<session_id, journalVars, fills, rejected>>
    BY <1>6 DEF AnswerPending, WaitRaises, BrokerDefers, bookVars, processVars
  <2>2. QED
    BY <1>1, <2>1, BrokerDefersRestore, PrefixKeptByNothing DEF JournalInv
<1>7. CASE AskVenue \/ PlaceOrder \/ WaitForFill
  <2>1. UNCHANGED <<sessionVars, processVars, journalVars>>
    BY <1>7 DEF AskVenue, PlaceOrder, WaitForFill
  <2>2. UNCHANGED <<session_id, journalVars, fills, rejected>>
    BY <2>1 DEF sessionVars, processVars, bookVars
  <2>3. QED
    BY <2>1, <2>2, RestoreStays, PrefixKeptByNothing DEF JournalInv
<1>8. CASE LoopStep
  BY <1>1, <1>8, LoopStepRestore, LoopStepPrefix DEF JournalInv
<1>9. CASE PollTradesRaises
  <2>1. PollRaises /\ UNCHANGED <<session_id, journalVars, fills, rejected>>
    BY <1>9 DEF PollTradesRaises, PollRaises, bookVars, processVars
  <2>2. QED
    BY <1>1, <2>1, PollRaisesRestore, PrefixKeptByNothing DEF JournalInv
<1>10. QED
  BY <1>2, <1>3, <1>4, <1>5, <1>6, <1>7, <1>8, <1>9, FillJournal
  DEF Step, Turn, Raises

\* Nothing the venue does reaches the journal, also not the end of the
\* connection.
LEMMA VenueJournal ==
    ASSUME IndInv, JournalInv, UNCHANGED processVars, Venue
    PROVE  JournalInv'
<1>1. /\ UNCHANGED <<pc, pf, fills, rejected, journalVars, journal, jdisabled>>
      /\ UNCHANGED <<session_id, forced, start_index>>
  BY DEF Venue, VenueExecutes, VenueEnds, ConnectionLost, sessionVars, bookVars,
     journalVars, processVars
<1>2. RestoreInv'
  BY <1>1 DEF JournalInv, RestoreInv, TellsNow, Tells, OnDisk, JournalledKills
<1>3. PrefixInv'
  BY <1>1, PrefixKeptByNothing DEF JournalInv
<1>4. QED
  BY <1>2, <1>3 DEF JournalInv

\* What the rows on disk say of the session, while fills come late and the
\* disk may fail.
THEOREM JournalInvariance == Spec => []JournalInv
<1>1. Init => JournalInv
  BY RestoreStarts, PrefixStarts DEF Init, JournalInv
<1>2. IndInv /\ JournalInv /\ [Next]_vars => JournalInv'
  <2> SUFFICES ASSUME IndInv, JournalInv, [Next]_vars
               PROVE  JournalInv'
    OBVIOUS
  <2>1. CASE Next
    BY <2>1, StepJournal, VenueJournal DEF Next
  <2>2. CASE UNCHANGED vars
    <3>1. UNCHANGED <<sessionVars, processVars, journalVars>>
      BY <2>2 DEF vars
    <3>2. UNCHANGED <<session_id, journalVars, fills, rejected>>
      BY <3>1 DEF sessionVars, processVars, bookVars
    <3>3. QED
      BY <3>1, <3>2, RestoreStays, PrefixKeptByNothing DEF JournalInv
  <2>3. QED
    BY <2>1, <2>2
<1>3. QED
  BY <1>1, <1>2, Invariance, PTL DEF Spec

\* Fills that come late, errors of the adapter and a lost connection never
\* part the live book from the one a restore rebuilds of the journal.
THEOREM RestoreCorrect == Spec => []RestoreRebuildsBook
<1>1. IndInv /\ JournalInv => RestoreRebuildsBook
  <2>1. CASE jdisabled
    BY <2>1 DEF RestoreRebuildsBook
  <2>2. CASE ~jdisabled
    BY <2>2, RestoreIsTold DEF IndInv, JournalInv, PrefixInv
  <2>3. QED
    BY <2>1, <2>2
<1>2. QED
  BY <1>1, Invariance, JournalInvariance, PTL

\* Also with late fills, a failing disk keeps a beginning of the story.
THEOREM JournalPrefix == Spec => []JournalIsPrefix
<1>1. JournalInv => JournalIsPrefix
  BY DEF JournalInv, PrefixInv
<1>2. QED
  BY <1>1, JournalInvariance, PTL

(***************************************************************************)
(* Sums of lists of whole numbers.                                         *)
(***************************************************************************)
Numbers(list, m) == Len(list) = m /\ \A n \in 1..m : list[n] \in Int

AddsUp(f, list, m) == f[0] = 0 /\ \A n \in 1..m : f[n] = f[n - 1] + list[n]

LEMMA SumsAddUp ==
    ASSUME NEW list, NEW m \in Nat, Numbers(list, m)
    PROVE  AddsUp(Sums(list), list, m)
<1> DEFINE rec(f) == f = [n \in 0..Len(list) |->
                            IF n = 0 THEN 0 ELSE f[n - 1] + list[n]]
<1>1. Len(list) = m /\ \A n \in 1..m : list[n] \in Int
  BY DEF Numbers
<1>2. PICK whole : whole = Int
  OBVIOUS
<1>10. PICK zero \in whole : zero = 0
  BY <1>2
<1>11. PICK step \in [1..m -> [whole -> whole]] :
        \A n \in 1..m, before \in whole : step[n][before] = before + list[n]
  <2> DEFINE s == [n \in 1..m |-> [before \in whole |-> before + list[n]]]
  <2>1. s \in [1..m -> [whole -> whole]]
    BY <1>1, <1>2
  <2>2. QED
    BY <2>1
<1>3. PICK f \in [0..m -> whole] :
        f[0] = zero /\ \A n \in 1..m : f[n] = step[n][f[n - 1]]
  BY FiniteRecursion
<1>4. rec(f)
  <2>1. \A n \in 0..m : n # 0 => n \in 1..m /\ n - 1 \in 0..m
    OBVIOUS
  <2>2. \A n \in 0..m : n # 0 => f[n] = f[n - 1] + list[n]
    BY <1>3, <1>11, <2>1
  <2>3. QED
    BY <1>1, <1>3, <1>10, <2>2
<1> DEFINE sum == Sums(list)
<1>5. sum = CHOOSE g : rec(g)
  BY DEF Sums
<1> HIDE DEF sum
<1>6. rec(sum)
  BY <1>4, <1>5
<1>7. sum[0] = 0 /\ \A n \in 1..m : sum[n] = sum[n - 1] + list[n]
  <2>1. sum = [n \in 0..m |-> IF n = 0 THEN 0 ELSE sum[n - 1] + list[n]]
    BY <1>1, <1>6
  <2>2. \A n \in 0..m : sum[n] = IF n = 0 THEN 0 ELSE sum[n - 1] + list[n]
    BY <2>1, Zenon
  <2>3. 0 \in 0..m /\ \A n \in 1..m : n \in 0..m /\ n # 0
    OBVIOUS
  <2>4. QED
    BY <2>2, <2>3
<1>8. AddsUp(sum, list, m)
  BY <1>7 DEF AddsUp
<1>9. QED
  BY <1>8 DEF sum

\* There is one way of adding the numbers one after the other.
LEMMA SumsAreOne ==
    ASSUME NEW list, NEW m \in Nat, NEW f, NEW g,
           AddsUp(f, list, m), AddsUp(g, list, m)
    PROVE  \A n \in 0..m : f[n] = g[n]
<1>1. f[0] = g[0]
  BY DEF AddsUp
<1>2. \A n \in 1..m : f[n - 1] = g[n - 1] => f[n] = g[n]
  BY DEF AddsUp
<1>3. QED
  BY <1>1, <1>2, SameSteps, Zenon

LEMMA TotalIs ==
    ASSUME NEW list, NEW m \in Nat, Numbers(list, m), NEW f, AddsUp(f, list, m)
    PROVE  Total(list) = f[m]
<1>1. \A n \in 0..m : Sums(list)[n] = f[n]
  BY SumsAddUp, SumsAreOne
<1>2. QED
  BY <1>1 DEF Total, Numbers

LEMMA SumsType ==
    ASSUME NEW list, NEW m \in Nat, Numbers(list, m), NEW f, AddsUp(f, list, m)
    PROVE  \A n \in 0..m : f[n] \in Int
<1> DEFINE typed == {n \in 0..m : f[n] \in Int}
<1>1. 0 \in typed
  BY DEF AddsUp
<1>2. \A n \in 1..m : n - 1 \in typed => n \in typed
  <2> SUFFICES ASSUME NEW n \in 1..m, f[n - 1] \in Int
               PROVE  f[n] \in Int
    OBVIOUS
  <2>1. f[n] = f[n - 1] + list[n] /\ list[n] \in Int
    BY DEF AddsUp, Numbers
  <2>2. QED
    BY <2>1
<1> HIDE DEF typed
<1>3. \A n \in 0..m : n \in typed
  BY <1>1, <1>2, IntervalInduction
<1>4. QED
  BY <1>3 DEF typed

LEMMA TotalType ==
    ASSUME NEW list, NEW m \in Nat, Numbers(list, m)
    PROVE  Total(list) \in Int /\ (m = 0 => Total(list) = 0)
<1>1. AddsUp(Sums(list), list, m) /\ Total(list) = Sums(list)[m]
  BY SumsAddUp DEF Total, Numbers
<1>2. m \in 0..m
  OBVIOUS
<1>3. QED
  BY <1>1, <1>2, SumsType DEF AddsUp

LEMMA TotalSame ==
    ASSUME NEW one, NEW two, NEW m \in Nat, Numbers(one, m), Numbers(two, m),
           \A n \in 1..m : two[n] = one[n]
    PROVE  Total(two) = Total(one)
<1>1. AddsUp(Sums(one), one, m)
  BY SumsAddUp
<1>2. AddsUp(Sums(one), two, m)
  BY <1>1 DEF AddsUp
<1>3. QED
  BY <1>1, <1>2, TotalIs

LEMMA TotalLonger ==
    ASSUME NEW one, NEW two, NEW m \in Nat, Numbers(one, m), Numbers(two, m + 1),
           \A n \in 1..m : two[n] = one[n]
    PROVE  Total(two) = Total(one) + two[m + 1]
<1>1. PICK k \in Nat : k = m + 1
  OBVIOUS
<1>2. Numbers(two, k)
  BY <1>1
<1>3. PICK f : f = Sums(two)
  OBVIOUS
<1>4. AddsUp(f, two, k)
  BY <1>2, <1>3, SumsAddUp
<1>5. AddsUp(f, one, m)
  BY <1>1, <1>4 DEF AddsUp
<1>6. Total(two) = f[k] /\ Total(one) = f[m]
  BY <1>2, <1>4, <1>5, TotalIs
<1>7. f[k] = f[m] + two[k]
  BY <1>1, <1>4 DEF AddsUp
<1>8. QED
  BY <1>1, <1>6, <1>7

LEMMA TotalFirst ==
    ASSUME NEW one, NEW two, NEW m \in Nat, Numbers(one, m + 1), Numbers(two, m),
           \A n \in 1..m : two[n] = one[n + 1]
    PROVE  Total(one) = one[1] + Total(two)
<1>1. PICK k \in Nat : k = m + 1
  OBVIOUS
<1>2. Numbers(one, k)
  BY <1>1
<1>3. PICK sum : sum = Sums(one)
  OBVIOUS
<1>4. AddsUp(sum, one, k)
  BY <1>2, <1>3, SumsAddUp
<1>5. PICK first \in Int : first = one[1]
  BY <1>1, <1>2 DEF Numbers
<1>6. \A n \in 0..k : sum[n] \in Int
  BY <1>2, <1>4, SumsType
<1> DEFINE f == [n \in 0..m |-> sum[n + 1] - first]
<1>7. f[0] = 0
  <2>1. sum[1] = sum[0] + one[1] /\ sum[0] = 0
    <3>1. 1 \in 1..k /\ 1 - 1 = 0
      BY <1>1
    <3>2. QED
      BY <1>4, <3>1 DEF AddsUp
  <2>2. QED
    BY <1>5, <2>1
<1>8. \A n \in 1..m : f[n] = f[n - 1] + two[n]
  <2> SUFFICES ASSUME NEW n \in 1..m
               PROVE  f[n] = f[n - 1] + two[n]
    OBVIOUS
  <2>1. n + 1 \in 1..k /\ (n + 1) - 1 = n /\ (n - 1) + 1 = n
        /\ n \in 0..m /\ n - 1 \in 0..m /\ n \in 0..k
    BY <1>1
  <2>2. sum[n + 1] = sum[n] + one[n + 1]
    BY <1>4, <2>1 DEF AddsUp
  <2>3. f[n] = sum[n + 1] - first /\ f[n - 1] = sum[n] - first
    BY <2>1
  <2>4. sum[n] \in Int /\ one[n + 1] \in Int /\ two[n] = one[n + 1]
    BY <1>2, <1>6, <2>1 DEF Numbers
  <2>5. QED
    BY <2>2, <2>3, <2>4
<1>9. f[m] = sum[k] - first
  BY <1>1
<1> HIDE DEF f
<1>10. AddsUp(f, two, m)
  BY <1>7, <1>8 DEF AddsUp
<1>11. Total(two) = f[m] /\ Total(one) = sum[k]
  BY <1>2, <1>4, <1>10, TotalIs
<1>12. sum[k] \in Int
  BY <1>1, <1>6
<1>13. QED
  BY <1>5, <1>9, <1>11, <1>12

LEMMA TotalChanged ==
    ASSUME NEW one, NEW two, NEW m \in Nat, Numbers(one, m), Numbers(two, m),
           NEW i \in 1..m, NEW x \in Int,
           two[i] = one[i] + x,
           \A n \in 1..m : n # i => two[n] = one[n]
    PROVE  Total(two) = Total(one) + x
<1>1. PICK sum : sum = Sums(one)
  OBVIOUS
<1>2. AddsUp(sum, one, m)
  BY <1>1, SumsAddUp
<1>3. \A n \in 0..m : sum[n] \in Int
  BY <1>2, SumsType
<1> DEFINE f == [n \in 0..m |-> sum[n] + (IF i <= n THEN x ELSE 0)]
<1>4. f[0] = 0
  BY <1>2 DEF AddsUp
<1>5. \A n \in 1..m : f[n] = f[n - 1] + two[n]
  <2> SUFFICES ASSUME NEW n \in 1..m
               PROVE  f[n] = f[n - 1] + two[n]
    OBVIOUS
  <2>1. n \in 0..m /\ n - 1 \in 0..m
    OBVIOUS
  <2>2. /\ sum[n] = sum[n - 1] + one[n] /\ sum[n - 1] \in Int /\ one[n] \in Int
        /\ two[n] = one[n] + (IF n = i THEN x ELSE 0)
    <3>1. sum[n] = sum[n - 1] + one[n]
      BY <1>2 DEF AddsUp
    <3>2. sum[n - 1] \in Int /\ one[n] \in Int
      BY <1>3, <2>1 DEF Numbers
    <3>3. QED
      BY <3>1, <3>2
  <2>3. /\ f[n] = sum[n] + (IF i <= n THEN x ELSE 0)
        /\ f[n - 1] = sum[n - 1] + (IF i <= n - 1 THEN x ELSE 0)
    BY <2>1
  <2> HIDE DEF f
  <2>4. QED
    BY <2>2, <2>3
<1>6. f[m] = sum[m] + x
  OBVIOUS
<1> HIDE DEF f
<1>7. AddsUp(f, two, m)
  BY <1>4, <1>5 DEF AddsUp
<1>8. Total(two) = f[m] /\ Total(one) = sum[m]
  BY <1>2, <1>7, TotalIs
<1>9. QED
  BY <1>6, <1>8

Apart(ids, k) == \A i, j \in 1..k : i # j => ids[i] # ids[j]

RaisedBy(one, two, part, ids, m, k) ==
    /\ \A n \in 1..k : two[ids[n]] = one[ids[n]] + part[n]
    /\ \A i \in 1..m : (\A n \in 1..k : ids[n] # i) => two[i] = one[i]

\* A list that is another one with some places raised, each by one number of a
\* third list, in whatever order.
LEMMA TotalRaised ==
    ASSUME NEW m \in Nat, NEW k \in Nat, NEW one, NEW two, NEW part,
           Numbers(one, m), Numbers(two, m), Numbers(part, k),
           NEW ids \in [1..k -> 1..m],
           Apart(ids, k), RaisedBy(one, two, part, ids, m, k)
    PROVE  Total(two) = Total(one) + Total(part)
<1> DEFINE e(j) == [i \in 1..m |-> IF \E n \in 1..j : ids[n] = i THEN two[i] ELSE one[i]]
           T == [j \in 0..k |-> Total(e(j)) - Total(one)]
<1>1. /\ Len(one) = m /\ Len(two) = m
      /\ \A i \in 1..m : one[i] \in Int /\ two[i] \in Int
      /\ \A n \in 1..k : part[n] \in Int
  BY DEF Numbers
<1>0. /\ \A i, j \in 1..k : i # j => ids[i] # ids[j]
      /\ \A n \in 1..k : two[ids[n]] = one[ids[n]] + part[n]
      /\ \A i \in 1..m : (\A n \in 1..k : ids[n] # i) => two[i] = one[i]
  BY DEF Apart, RaisedBy
<1>2. ASSUME NEW j \in 0..k
      PROVE  Numbers(e(j), m)
  <2>1. e(j) \in [1..m -> Int]
    BY <1>1
  <2> HIDE DEF e
  <2>2. Len(e(j)) = m /\ \A i \in 1..m : e(j)[i] \in Int
    BY <2>1
  <2>3. QED
    BY <2>2 DEF Numbers
<1>3. Total(e(0)) = Total(one)
  <2>1. \A i \in 1..m : e(0)[i] = one[i]
    OBVIOUS
  <2>2. Numbers(e(0), m)
    <3>1. 0 \in 0..k
      OBVIOUS
    <3> HIDE DEF e
    <3>2. QED
      BY <1>2, <3>1
  <2> HIDE DEF e
  <2>3. QED
    BY <2>1, <2>2, TotalSame
<1>4. Total(e(k)) = Total(two)
  <2>1. \A i \in 1..m : e(k)[i] = two[i]
    BY <1>0
  <2>2. Numbers(e(k), m)
    <3>1. k \in 0..k
      OBVIOUS
    <3> HIDE DEF e
    <3>2. QED
      BY <1>2, <3>1
  <2> HIDE DEF e
  <2>3. QED
    BY <2>1, <2>2, TotalSame
<1>5. \A j \in 1..k : Total(e(j)) = Total(e(j - 1)) + part[j]
  <2> SUFFICES ASSUME NEW j \in 1..k
               PROVE  Total(e(j)) = Total(e(j - 1)) + part[j]
    OBVIOUS
  <2>1. PICK i \in 1..m : i = ids[j]
    OBVIOUS
  <2>2. j \in 0..k /\ j - 1 \in 0..k
    OBVIOUS
  <2>3. \A n \in 1..(j - 1) : n \in 1..k /\ n # j
    OBVIOUS
  <2>4. e(j)[i] = two[i]
    BY <2>1
  <2>5. e(j - 1)[i] = one[i]
    <3>1. \A n \in 1..(j - 1) : ids[n] # i
      BY <1>0, <2>1, <2>3
    <3>2. QED
      BY <3>1
  <2>6. two[i] = one[i] + part[j]
    BY <1>0, <2>1
  <2>7. \A n \in 1..m : n # i => e(j)[n] = e(j - 1)[n]
    <3> SUFFICES ASSUME NEW n \in 1..m, n # i
                 PROVE  (\E l \in 1..j : ids[l] = n) <=> (\E l \in 1..(j - 1) : ids[l] = n)
      OBVIOUS
    <3>1. \A l \in 1..j : l # j => l \in 1..(j - 1)
      OBVIOUS
    <3>2. \A l \in 1..(j - 1) : l \in 1..j
      OBVIOUS
    <3>3. QED
      BY <2>1, <3>1, <3>2
  <2>8. Numbers(e(j), m) /\ Numbers(e(j - 1), m) /\ part[j] \in Int
    BY <1>1, <1>2, <2>2
  <2>9. PICK after : after = e(j)
    OBVIOUS
  <2>10. PICK before : before = e(j - 1)
    OBVIOUS
  <2> HIDE DEF e
  <2>11. after[i] = before[i] + part[j] /\ \A n \in 1..m : n # i => after[n] = before[n]
    BY <2>4, <2>5, <2>6, <2>7, <2>9, <2>10
  <2>12. Numbers(after, m) /\ Numbers(before, m)
    BY <2>8, <2>9, <2>10
  <2>13. Total(after) = Total(before) + part[j]
    BY <2>8, <2>11, <2>12, TotalChanged
  <2>14. QED
    BY <2>9, <2>10, <2>13
<1>6. \A j \in 0..k : Total(e(j)) \in Int
  BY <1>2, TotalType
<1>7. Total(one) \in Int
  BY TotalType
<1> HIDE DEF e
<1>8. T[0] = 0 /\ T[k] = Total(two) - Total(one)
  BY <1>3, <1>4, <1>7
<1>9. \A j \in 1..k : T[j] = T[j - 1] + part[j]
  <2> SUFFICES ASSUME NEW j \in 1..k
               PROVE  T[j] = T[j - 1] + part[j]
    OBVIOUS
  <2>1. j \in 0..k /\ j - 1 \in 0..k
    OBVIOUS
  <2>2. T[j] = Total(e(j)) - Total(one) /\ T[j - 1] = Total(e(j - 1)) - Total(one)
    BY <2>1
  <2>3. Total(e(j - 1)) \in Int /\ part[j] \in Int
    BY <1>1, <1>6, <2>1
  <2>4. Total(e(j)) = Total(e(j - 1)) + part[j]
    BY <1>5
  <2>5. QED
    BY <1>7, <2>2, <2>3, <2>4
<1> HIDE DEF T
<1>10. AddsUp(T, part, k)
  BY <1>8, <1>9 DEF AddsUp
<1>11. Total(part) = T[k]
  BY <1>10, TotalIs
<1>12. Total(two) \in Int
  BY TotalType
<1>13. QED
  BY <1>7, <1>8, <1>11, <1>12

(***************************************************************************)
(* The book and what was delivered.                                        *)
(***************************************************************************)
HandedOver(orders) ==
    [id \in DOMAIN orders |->
       Towards(orders[id].side, orders[id].by_submit + orders[id].by_poll)]

ToCome(polled) == [n \in DOMAIN polled |-> Signed(polled[n])]

LEMMA HandedOverIs ==
    ASSUME NEW orders \in Seq(Trade)
    PROVE  /\ Numbers(HandedOver(orders), Len(orders))
           /\ \A id \in 1..Len(orders) :
                HandedOver(orders)[id]
                  = Towards(orders[id].side, orders[id].by_submit + orders[id].by_poll)
<1> DEFINE list == HandedOver(orders)
<1>1. \A id \in 1..Len(orders) :
         /\ Towards(orders[id].side, orders[id].by_submit + orders[id].by_poll) \in Int
         /\ list[id] = Towards(orders[id].side, orders[id].by_submit + orders[id].by_poll)
  <2>1. \A id \in 1..Len(orders) : orders[id] \in Trade
    OBVIOUS
  <2>2. \A t \in Trade : Towards(t.side, t.by_submit + t.by_poll) \in Int
    BY DEF Towards, Trade
  <2>3. DOMAIN orders = 1..Len(orders)
    OBVIOUS
  <2>4. QED
    BY <2>1, <2>2, <2>3 DEF HandedOver
<1>2. list \in [1..Len(orders) -> Int] /\ Len(orders) \in Nat
  <2>1. list = [id \in 1..Len(orders) |->
                 Towards(orders[id].side, orders[id].by_submit + orders[id].by_poll)]
    BY DEF HandedOver
  <2> HIDE DEF list
  <2>2. QED
    BY <1>1, <2>1
<1> HIDE DEF list
<1>3. Numbers(list, Len(orders))
  BY <1>2 DEF Numbers
<1>4. QED
  BY <1>1, <1>3 DEF list

LEMMA ToComeIs ==
    ASSUME NEW polled \in Seq(Fill)
    PROVE  /\ Numbers(ToCome(polled), Len(polled))
           /\ \A n \in 1..Len(polled) : ToCome(polled)[n] = Signed(polled[n])
<1> DEFINE list == ToCome(polled)
<1>1. \A n \in 1..Len(polled) : Signed(polled[n]) \in Int
  <2>1. \A n \in 1..Len(polled) : polled[n] \in Fill
    OBVIOUS
  <2>2. \A fill \in Fill : Signed(fill) \in Int
    BY DEF Signed, Fill
  <2>3. QED
    BY <2>1, <2>2
<1>2. list = [n \in 1..Len(polled) |-> Signed(polled[n])] /\ Len(polled) \in Nat
  BY DEF ToCome
<1> HIDE DEF list
<1>3. list \in [1..Len(polled) -> Int]
  BY <1>1, <1>2
<1>4. Numbers(list, Len(polled))
  BY <1>2, <1>3 DEF Numbers
<1>5. QED
  BY <1>2, <1>4 DEF list

\* Fills wait in the list of the poll only until the strategy is called.
LateOnly == pc # "delayed" => delayed = <<>>

BookInv == BookIsWhatWasDelivered /\ LateOnly

LEMMA BookMatches ==
    BookIsWhatWasDelivered
      <=> pf.pos.qty + Total(ToCome(delayed)) = Total(HandedOver(venue))
BY DEF BookIsWhatWasDelivered, SharesToCome, SharesDelivered, ToCome, HandedOver

LEMMA BookTyped ==
    ASSUME IndInv
    PROVE  /\ pf \in PortfolioState /\ pf.pos \in Position /\ pf.pos.qty \in Int
           /\ delayed \in Seq(Fill) /\ venue \in Seq(Trade)
           /\ Len(delayed) \in Nat /\ Len(venue) \in Nat
           /\ Total(ToCome(delayed)) \in Int /\ Total(HandedOver(venue)) \in Int
<1>1. /\ pf \in PortfolioState /\ pf.pos \in Position /\ pf.pos.qty \in Int
      /\ delayed \in Seq(Fill) /\ venue \in Seq(Trade)
  BY DEF IndInv, SessionInv, SessionTypeOK, AdapterInv, AdapterType, PortfolioState,
     Position
<1>2. Len(delayed) \in Nat /\ Len(venue) \in Nat
  BY <1>1
<1>3. QED
  BY <1>1, <1>2, ToComeIs, HandedOverIs, TotalType

(***************************************************************************)
(* What an update of the orders or of the fills to come adds to its total. *)
(***************************************************************************)
SameHandedOver(one, two, m) ==
    \A id \in 1..m : /\ two[id].side = one[id].side
                     /\ two[id].by_submit = one[id].by_submit
                     /\ two[id].by_poll = one[id].by_poll

LEMMA HandedOverSame ==
    ASSUME NEW one \in Seq(Trade), NEW two \in Seq(Trade),
           NEW m \in Nat, m = Len(one), m = Len(two), SameHandedOver(one, two, m)
    PROVE  Total(HandedOver(two)) = Total(HandedOver(one))
<1>1. Numbers(HandedOver(one), m) /\ Numbers(HandedOver(two), m)
  BY HandedOverIs
<1>2. \A id \in 1..m : HandedOver(two)[id] = HandedOver(one)[id]
  BY HandedOverIs DEF SameHandedOver
<1>3. QED
  BY <1>1, <1>2, TotalSame

LEMMA HandedOverLonger ==
    ASSUME NEW one \in Seq(Trade), NEW t \in Trade, t.by_submit = 0, t.by_poll = 0
    PROVE  Total(HandedOver(Append(one, t))) = Total(HandedOver(one))
<1>1. PICK m \in Nat : m = Len(one)
  OBVIOUS
<1>2. PICK two \in Seq(Trade) : two = Append(one, t)
  <2>1. Append(one, t) \in Seq(Trade)
    OBVIOUS
  <2>2. QED
    BY <2>1
<1>3. /\ Len(two) = m + 1
      /\ two[m + 1] = t
      /\ \A id \in 1..m : two[id] = one[id]
  BY <1>1, <1>2
<1>4. Numbers(HandedOver(one), m) /\ Numbers(HandedOver(two), m + 1)
  BY <1>1, <1>3, HandedOverIs
<1>5. \A id \in 1..m : HandedOver(two)[id] = HandedOver(one)[id]
  <2>1. \A id \in 1..m : id \in 1..Len(one) /\ id \in 1..Len(two)
    BY <1>1, <1>3
  <2>2. QED
    BY <1>3, <2>1, HandedOverIs
<1>6. HandedOver(two)[m + 1] = 0
  <2>1. m + 1 \in 1..Len(two)
    BY <1>3
  <2>2. HandedOver(two)[m + 1] = Towards(t.side, t.by_submit + t.by_poll)
    BY <1>3, <2>1, HandedOverIs
  <2>3. t.by_submit + t.by_poll = 0
    OBVIOUS
  <2>4. Towards(t.side, 0) = 0
    <3>1. PICK none \in Int : none <= 0 /\ none >= 0
      OBVIOUS
    <3>2. -none = none
      BY <3>1
    <3>3. Towards(t.side, none) = none
      BY <3>2, Zenon DEF Towards
    <3>4. none = 0
      BY <3>1
    <3>5. QED
      BY <3>3, <3>4
  <2>5. QED
    BY <2>2, <2>3, <2>4
<1>7. Total(HandedOver(two)) = Total(HandedOver(one)) + HandedOver(two)[m + 1]
  BY <1>4, <1>5, TotalLonger
<1>8. Total(HandedOver(one)) \in Int
  BY <1>4, TotalType
<1>9. QED
  BY <1>2, <1>6, <1>7, <1>8

LEMMA ToComeFirst ==
    ASSUME NEW polled \in Seq(Fill), polled # <<>>
    PROVE  Total(ToCome(polled)) = Signed(Head(polled)) + Total(ToCome(Tail(polled)))
<1>1. PICK m \in Nat : Len(polled) = m + 1
  <2>1. Len(polled) \in Nat /\ Len(polled) # 0
    OBVIOUS
  <2>2. Len(polled) - 1 \in Nat /\ Len(polled) = (Len(polled) - 1) + 1
    BY <2>1
  <2>3. QED
    BY <2>2
<1>2. PICK rest \in Seq(Fill) : rest = Tail(polled)
  <2>1. Tail(polled) \in Seq(Fill)
    OBVIOUS
  <2>2. QED
    BY <2>1
<1>3. /\ Len(rest) = m
      /\ \A n \in 1..m : rest[n] = polled[n + 1]
      /\ Head(polled) = polled[1]
  BY <1>1, <1>2
<1>4. Numbers(ToCome(polled), m + 1) /\ Numbers(ToCome(rest), m)
  BY <1>1, <1>3, ToComeIs
<1>5. \A n \in 1..m : ToCome(rest)[n] = ToCome(polled)[n + 1]
  <2>1. \A n \in 1..m : n \in 1..Len(rest) /\ n + 1 \in 1..Len(polled)
    BY <1>1, <1>3
  <2>2. QED
    BY <1>3, <2>1, ToComeIs
<1>6. ToCome(polled)[1] = Signed(Head(polled))
  <2>1. 1 \in 1..Len(polled)
    BY <1>1
  <2>2. QED
    BY <1>3, <2>1, ToComeIs
<1>7. QED
  BY <1>2, <1>4, <1>5, <1>6, TotalFirst

(***************************************************************************)
(* Each step keeps the book and what was delivered the same.               *)
(***************************************************************************)
LEMMA BookStays ==
    ASSUME IndInv, BookInv, venue' \in Seq(Trade), Len(venue') = Len(venue),
           SameHandedOver(venue, venue', Len(venue)),
           pf'.pos = pf.pos, delayed' = delayed, pc # "delayed" \/ pc' = "delayed"
             \/ delayed = <<>>
    PROVE  BookInv'
<1>1. Total(HandedOver(venue')) = Total(HandedOver(venue))
  <2>1. PICK m \in Nat : m = Len(venue)
    BY BookTyped
  <2>2. QED
    BY <2>1, BookTyped, HandedOverSame
<1>2. BookIsWhatWasDelivered
  BY DEF BookInv
<1>3. pf.pos.qty + Total(ToCome(delayed)) = Total(HandedOver(venue))
  BY <1>2, BookMatches
<1>4. pf'.pos.qty + Total(ToCome(delayed')) = Total(HandedOver(venue'))
  BY <1>1, <1>3
<1>5. BookIsWhatWasDelivered'
  BY <1>4 DEF BookIsWhatWasDelivered, SharesToCome, SharesDelivered, ToCome, HandedOver
<1>6. LateOnly'
  BY DEF BookInv, LateOnly
<1>7. QED
  BY <1>5, <1>6 DEF BookInv

LEMMA ApplyDelayedBook ==
    ASSUME IndInv, BookInv, ApplyDelayed, UNCHANGED ibVars
    PROVE  BookInv'
<1> DEFINE fill == Head(delayed)
<1>1. fill \in Fill
  BY BookTyped DEF ApplyDelayed
<1>2. pf' = ApplyFill(pf, fill) /\ delayed' = Tail(delayed) /\ venue' = venue
      /\ pc' = pc /\ pc = "delayed"
  BY DEF ApplyDelayed, BookFill, ibVars
<1>3. pf'.pos.qty = pf.pos.qty + Signed(fill) /\ Signed(fill) \in Int
  <2>1. pf'.pos = PositionAfter(pf.pos, fill)
    BY <1>1, <1>2, BookTyped, ApplyFillType
  <2>2. Signed(fill) \in Int
    BY <1>1 DEF Signed, Fill
  <2> HIDE DEF fill
  <2>3. QED
    BY <1>1, <2>1, <2>2, BookTyped, PositionMovesByFill
<1>4. Total(ToCome(delayed)) = Signed(fill) + Total(ToCome(delayed'))
  BY <1>2, BookTyped, ToComeFirst DEF ApplyDelayed
<1>5. Total(ToCome(delayed')) \in Int
  <2>1. Tail(delayed) \in Seq(Fill) /\ Len(Tail(delayed)) \in Nat
    BY BookTyped DEF ApplyDelayed
  <2>2. QED
    BY <1>2, <2>1, ToComeIs, TotalType
<1>6. pf.pos.qty + Total(ToCome(delayed)) = Total(HandedOver(venue))
  BY BookMatches DEF BookInv
<1> HIDE DEF fill
<1>7. pf'.pos.qty + Total(ToCome(delayed')) = Total(HandedOver(venue'))
  BY <1>2, <1>3, <1>4, <1>5, <1>6, BookTyped
<1>8. BookIsWhatWasDelivered'
  BY <1>7 DEF BookIsWhatWasDelivered, SharesToCome, SharesDelivered, ToCome, HandedOver
<1>9. QED
  BY <1>2, <1>8 DEF BookInv, LateOnly

LEMMA PlaceOrderBook ==
    ASSUME IndInv, BookInv, PlaceOrder
    PROVE  BookInv'
<1>0. pc = "submit"
  BY DEF IndInv, AdapterInv, WaitInv, PlaceOrder
<1>1. NewTrade(adj) \in Trade
  BY <1>0 DEF IndInv, SessionInv, StageInv, NewTrade, Order, Trade
<1>2. UNCHANGED <<pc, pf, delayed>>
  BY DEF PlaceOrder, sessionVars, bookVars, barVars
<1>3. Total(HandedOver(venue')) = Total(HandedOver(venue))
  <2>1. PICK t \in Trade : t = NewTrade(adj)
    BY <1>1
  <2>2. t.by_submit = 0 /\ t.by_poll = 0 /\ venue' = Append(venue, t)
    BY <2>1 DEF NewTrade, PlaceOrder
  <2>3. QED
    BY <2>2, BookTyped, HandedOverLonger
<1>4. pf.pos.qty + Total(ToCome(delayed)) = Total(HandedOver(venue))
  BY BookMatches DEF BookInv
<1>5. BookIsWhatWasDelivered'
  BY <1>2, <1>3, <1>4
  DEF BookIsWhatWasDelivered, SharesToCome, SharesDelivered, ToCome, HandedOver
<1>6. QED
  BY <1>2, <1>5 DEF BookInv, LateOnly

\* What the shares of a trade are worth as a fill, they are worth as shares
\* handed over.
LEMMA TowardsIsSigned ==
    ASSUME NEW trade \in Trade
    PROVE  /\ Signed(TradeToFill(trade)) = Towards(trade.side, trade.shares)
           /\ Towards(trade.side, trade.shares) \in Int
           /\ \A n \in Int : Towards(trade.side, n + trade.shares)
                = Towards(trade.side, n) + Towards(trade.side, trade.shares)
<1>1. TradeToFill(trade).side = trade.side /\ TradeToFill(trade).qty = trade.shares
  BY DEF TradeToFill
<1>2. trade.shares \in Int
  BY DEF Trade
<1>3. Signed(TradeToFill(trade)) = Towards(trade.side, trade.shares)
  BY <1>1 DEF Signed, Towards
<1>4. CASE trade.side = "BUY"
  BY <1>2, <1>3, <1>4 DEF Towards
<1>5. CASE trade.side # "BUY"
  BY <1>2, <1>3, <1>5 DEF Towards
<1>6. QED
  BY <1>4, <1>5

LEMMA AnswerFilledBook ==
    ASSUME IndInv, BookInv, AnswerFilled
    PROVE  BookInv'
<1> DEFINE trade == venue[waiting]
           fill == TradeToFill(trade)
           part == Towards(trade.side, trade.shares)
<1>1. waiting \in DOMAIN venue /\ trade \in Trade /\ trade.shares > 0
  BY DEF AnswerFilled, IndInv, AdapterInv, AdapterType, Filled
<1>2. fill \in Fill /\ Signed(fill) = part /\ part \in Int
  BY <1>1, TradeToFillType, TowardsIsSigned
<1>3. pf' = ApplyFill(pf, fill) /\ delayed' = delayed /\ pc = "submit"
  BY DEF AnswerFilled, BrokerFills, BookFill, Submitted, barVars
<1>4. pf'.pos.qty = pf.pos.qty + part
  <2>1. pf'.pos = PositionAfter(pf.pos, fill)
    BY <1>2, <1>3, BookTyped, ApplyFillType
  <2> HIDE DEF fill, part
  <2>2. QED
    BY <1>2, <2>1, BookTyped, PositionMovesByFill
<1>5. PICK answered \in Trade : answered = [trade EXCEPT !.by_submit = @ + trade.shares]
  <2>1. trade.by_submit + trade.shares \in Nat
    BY <1>1 DEF Trade
  <2>2. QED
    BY <1>1, <2>1, TradeDelivered
<1>6. /\ venue' \in Seq(Trade)
      /\ DOMAIN venue' = DOMAIN venue
      /\ venue'[waiting] = answered
      /\ \A i \in DOMAIN venue : i # waiting => venue'[i] = venue[i]
  <2>1. venue' = [venue EXCEPT ![waiting] = answered]
    BY <1>1, <1>5 DEF AnswerFilled
  <2>2. QED
    BY <1>1, <2>1, BookTyped, VenueUpdate
<1>7. /\ answered.side = trade.side
      /\ answered.by_submit = trade.by_submit + trade.shares
      /\ answered.by_poll = trade.by_poll
  BY <1>1, <1>5 DEF Trade
<1>8. Total(HandedOver(venue')) = Total(HandedOver(venue)) + part
  <2>1. PICK m \in Nat : m = Len(venue)
    BY BookTyped
  <2>2. m = Len(venue') /\ waiting \in 1..m
    BY <1>1, <1>6, <2>1, BookTyped
  <2>3. Numbers(HandedOver(venue), m) /\ Numbers(HandedOver(venue'), m)
    BY <1>6, <2>1, <2>2, BookTyped, HandedOverIs
  <2>4. \A i \in 1..m : i # waiting => HandedOver(venue')[i] = HandedOver(venue)[i]
    <3> SUFFICES ASSUME NEW i \in 1..m, i # waiting
                 PROVE  HandedOver(venue')[i] = HandedOver(venue)[i]
      OBVIOUS
    <3>1. i \in DOMAIN venue /\ i \in 1..Len(venue) /\ i \in 1..Len(venue')
      <4>1. venue \in Seq(Trade)
        BY BookTyped
      <4>2. DOMAIN venue = 1..Len(venue)
        BY <4>1
      <4>3. QED
        BY <2>1, <2>2, <4>2
    <3>2. venue'[i] = venue[i]
      BY <1>6, <3>1
    <3>3. HandedOver(venue')[i]
            = Towards(venue'[i].side, venue'[i].by_submit + venue'[i].by_poll)
      BY <1>6, <3>1, HandedOverIs
    <3>4. HandedOver(venue)[i]
            = Towards(venue[i].side, venue[i].by_submit + venue[i].by_poll)
      BY <3>1, BookTyped, HandedOverIs
    <3>5. QED
      BY <3>2, <3>3, <3>4
  <2>5. HandedOver(venue')[waiting] = HandedOver(venue)[waiting] + part
    <3>1. HandedOver(venue')[waiting]
            = Towards(trade.side, (trade.by_submit + trade.shares) + trade.by_poll)
      BY <1>6, <1>7, <2>2, HandedOverIs
    <3>2. HandedOver(venue)[waiting]
            = Towards(trade.side, trade.by_submit + trade.by_poll)
      BY <2>1, <2>2, BookTyped, HandedOverIs
    <3>3. /\ trade.by_submit + trade.by_poll \in Int
          /\ (trade.by_submit + trade.shares) + trade.by_poll
               = (trade.by_submit + trade.by_poll) + trade.shares
      BY <1>1 DEF Trade
    <3>4. QED
      BY <1>1, <3>1, <3>2, <3>3, TowardsIsSigned
  <2> HIDE DEF part
  <2>6. QED
    BY <1>2, <2>2, <2>3, <2>4, <2>5, TotalChanged
<1>9. pf.pos.qty + Total(ToCome(delayed)) = Total(HandedOver(venue))
  BY BookMatches DEF BookInv
<1> HIDE DEF part
<1>10. pf'.pos.qty + Total(ToCome(delayed')) = Total(HandedOver(venue'))
  BY <1>2, <1>3, <1>4, <1>8, <1>9, BookTyped
<1>11. BookIsWhatWasDelivered'
  BY <1>10 DEF BookIsWhatWasDelivered, SharesToCome, SharesDelivered, ToCome, HandedOver
<1>12. LateOnly'
  BY <1>3 DEF BookInv, LateOnly
<1>13. QED
  BY <1>11, <1>12 DEF BookInv

\* A list without repetition of as many members as a set has, has them all.
LEMMA ListsThemAll ==
    ASSUME NEW S, IsFiniteSet(S), NEW k \in Nat, k = Cardinality(S),
           NEW ids \in [1..k -> S], Apart(ids, k)
    PROVE  \A s \in S : \E n \in 1..k : ids[n] = s
<1>1. ids \in Injection(1..k, S)
  BY DEF Injection, IsInjective, Apart
<1>2. Cardinality(1..k) = k
  BY FS_Interval
<1>3. ids \in Surjection(1..k, S)
  BY <1>1, <1>2, FS_Injection
<1>4. QED
  BY <1>3 DEF Surjection

LEMMA HandedOverPolled ==
    ASSUME IndInv, PollTrades,
           NEW k \in Nat, k = Cardinality(Delivered),
           NEW ids \in [1..k -> Delivered], InOrderPlaced(ids),
           NEW polled \in Seq(Fill),
           polled = [n \in DOMAIN ids |-> TradeToFill(venue[ids[n]])],
           venue' \in Seq(Trade), Len(venue') = Len(venue)
    PROVE  Total(HandedOver(venue')) = Total(HandedOver(venue)) + Total(ToCome(polled))
<1>1. PICK m \in Nat : m = Len(venue)
  BY BookTyped
<1>2. DOMAIN venue = 1..m /\ \A i \in 1..m : venue[i] \in Trade
  <2>1. venue \in Seq(Trade)
    BY BookTyped
  <2>2. QED
    BY <1>1, <2>1
<1>3. Delivered \subseteq 1..m /\ IsFiniteSet(Delivered)
  <2>1. Delivered \subseteq 1..m
    BY <1>2 DEF Delivered, IndInv, AdapterInv, AdapterType
  <2>2. IsFiniteSet(1..m)
    BY FS_Interval
  <2>3. QED
    BY <2>1, <2>2, FS_Subset
<1>4. ids \in [1..k -> 1..m] /\ DOMAIN ids = 1..k
  BY <1>3
<1>5. Apart(ids, k)
  <2> SUFFICES ASSUME NEW i \in 1..k, NEW j \in 1..k, i # j
               PROVE  ids[i] # ids[j]
    BY DEF Apart
  <2>1. ids[i] \in 1..m /\ ids[j] \in 1..m
    BY <1>4
  <2>2. CASE i < j
    BY <1>4, <2>1, <2>2 DEF InOrderPlaced
  <2>3. CASE j < i
    BY <1>4, <2>1, <2>3 DEF InOrderPlaced
  <2>4. QED
    BY <2>2, <2>3
<1>6. \A i \in Delivered : \E n \in 1..k : ids[n] = i
  <2>1. PICK found : found = Delivered
    OBVIOUS
  <2>2. IsFiniteSet(found) /\ k = Cardinality(found) /\ ids \in [1..k -> found]
    BY <1>3, <2>1
  <2>3. \A i \in found : \E n \in 1..k : ids[n] = i
    BY <1>5, <2>2, ListsThemAll
  <2>4. QED
    BY <2>1, <2>3
<1>7. \A i \in 1..m : venue'[i] = IF i \in Delivered
                                 THEN [venue[i] EXCEPT !.by_poll = @ + venue[i].shares]
                                 ELSE venue[i]
  BY <1>2 DEF PollTrades
<1>8. Numbers(HandedOver(venue), m) /\ Numbers(HandedOver(venue'), m)
  BY <1>1, BookTyped, HandedOverIs
<1>9. \A i \in 1..m :
        /\ HandedOver(venue)[i]
             = Towards(venue[i].side, venue[i].by_submit + venue[i].by_poll)
        /\ HandedOver(venue')[i]
             = Towards(venue'[i].side, venue'[i].by_submit + venue'[i].by_poll)
  <2>1. venue \in Seq(Trade)
    BY BookTyped
  <2>2. QED
    BY <1>1, <2>1, HandedOverIs
<1>10. Len(polled) = k /\ \A n \in 1..k : polled[n] = TradeToFill(venue[ids[n]])
  BY <1>4
<1>11. /\ Numbers(ToCome(polled), k)
       /\ \A n \in 1..k : ToCome(polled)[n] = Signed(TradeToFill(venue[ids[n]]))
  BY <1>10, ToComeIs
<1>12. \A n \in 1..k : HandedOver(venue')[ids[n]]
                         = HandedOver(venue)[ids[n]] + ToCome(polled)[n]
  <2> SUFFICES ASSUME NEW n \in 1..k
               PROVE  HandedOver(venue')[ids[n]]
                        = HandedOver(venue)[ids[n]] + ToCome(polled)[n]
    OBVIOUS
  <2>1. PICK i \in 1..m : i = ids[n] /\ i \in Delivered
    BY <1>4
  <2>2. PICK t \in Trade : t = venue[i]
    BY <1>2
  <2>3. venue'[i] = [t EXCEPT !.by_poll = t.by_poll + t.shares]
    BY <1>7, <2>1, <2>2
  <2>4. /\ venue'[i].side = t.side
        /\ venue'[i].by_submit = t.by_submit
        /\ venue'[i].by_poll = t.by_poll + t.shares
    BY <2>3 DEF Trade
  <2>5. /\ t.by_submit + t.by_poll \in Int
        /\ t.by_submit + (t.by_poll + t.shares) = (t.by_submit + t.by_poll) + t.shares
    BY DEF Trade
  <2>6. HandedOver(venue')[i] = Towards(t.side, (t.by_submit + t.by_poll) + t.shares)
    BY <1>9, <2>4, <2>5
  <2>7. HandedOver(venue)[i] = Towards(t.side, t.by_submit + t.by_poll)
    BY <1>9, <2>2
  <2>8. ToCome(polled)[n] = Towards(t.side, t.shares)
    BY <1>11, <2>1, <2>2, TowardsIsSigned
  <2>9. QED
    BY <2>1, <2>5, <2>6, <2>7, <2>8, TowardsIsSigned
<1>13. \A i \in 1..m : (\A n \in 1..k : ids[n] # i)
                         => HandedOver(venue')[i] = HandedOver(venue)[i]
  <2> SUFFICES ASSUME NEW i \in 1..m, \A n \in 1..k : ids[n] # i
               PROVE  HandedOver(venue')[i] = HandedOver(venue)[i]
    OBVIOUS
  <2>1. i \notin Delivered
    BY <1>6
  <2>2. venue'[i] = venue[i]
    BY <1>7, <2>1
  <2>3. QED
    BY <1>9, <2>2
<1>14. RaisedBy(HandedOver(venue), HandedOver(venue'), ToCome(polled), ids, m, k)
  BY <1>12, <1>13 DEF RaisedBy
<1>15. QED
  BY <1>4, <1>5, <1>8, <1>11, <1>14, TotalRaised

LEMMA PollTradesBook ==
    ASSUME IndInv, BookInv, PollTrades, venue' \in Seq(Trade), Len(venue') = Len(venue)
    PROVE  BookInv'
<1>1. PICK k \in Nat : k = Cardinality(Delivered)
  BY DeliveredCount DEF IndInv, AdapterInv
<1>2. PICK ids \in [1..k -> Delivered] :
         /\ InOrderPlaced(ids)
         /\ PollFills([n \in DOMAIN ids |-> TradeToFill(venue[ids[n]])])
  BY <1>1 DEF PollTrades
<1>3. PICK polled \in Seq(Fill) :
         polled = [n \in DOMAIN ids |-> TradeToFill(venue[ids[n]])]
  <2>1. [n \in DOMAIN ids |-> TradeToFill(venue[ids[n]])] \in Seq(Fill)
    BY <1>1, PolledType DEF IndInv, AdapterInv
  <2>2. QED
    BY <2>1
<1>4. pc = "poll" /\ pc' = "delayed" /\ delayed' = polled /\ pf' = pf
  BY <1>2, <1>3 DEF PollFills, bookVars
<1>5. delayed = <<>>
  BY <1>4 DEF BookInv, LateOnly
<1>6. Total(ToCome(delayed)) = 0
  <2>1. Len(delayed) = 0
    BY <1>5
  <2>2. QED
    BY <2>1, BookTyped, ToComeIs, TotalType
<1>7. Total(HandedOver(venue')) = Total(HandedOver(venue)) + Total(ToCome(polled))
  BY <1>1, <1>2, <1>3, HandedOverPolled
<1>8. pf.pos.qty + Total(ToCome(delayed)) = Total(HandedOver(venue))
  BY BookMatches DEF BookInv
<1>9. Total(ToCome(polled)) \in Int
  <2>1. Len(polled) \in Nat
    OBVIOUS
  <2>2. QED
    BY <2>1, ToComeIs, TotalType
<1>10. pf'.pos.qty + Total(ToCome(delayed')) = Total(HandedOver(venue'))
  BY <1>4, <1>6, <1>7, <1>8, <1>9, BookTyped
<1>11. BookIsWhatWasDelivered'
  BY <1>10 DEF BookIsWhatWasDelivered, SharesToCome, SharesDelivered, ToCome, HandedOver
<1>12. QED
  BY <1>4, <1>11 DEF BookInv, LateOnly

LEMMA BookUntouched ==
    ASSUME IndInv, BookInv, venue' = venue, pf'.pos = pf.pos, delayed' = delayed,
           pc # "delayed" \/ pc' = "delayed" \/ delayed = <<>>
    PROVE  BookInv'
<1>1. venue' \in Seq(Trade) /\ Len(venue') = Len(venue)
  BY BookTyped
<1>2. SameHandedOver(venue, venue', Len(venue))
  BY DEF SameHandedOver
<1>3. QED
  BY <1>1, <1>2, BookStays

LEMMA OneOrderBook ==
    ASSUME IndInv, BookInv, NEW id \in DOMAIN venue, NEW t \in Trade,
           venue' = [venue EXCEPT ![id] = t],
           t.side = venue[id].side,
           t.by_submit = venue[id].by_submit,
           t.by_poll = venue[id].by_poll,
           UNCHANGED <<pc, pf, delayed>>
    PROVE  BookInv'
<1>1. /\ venue' \in Seq(Trade)
      /\ DOMAIN venue' = DOMAIN venue
      /\ venue'[id] = t
      /\ \A i \in DOMAIN venue : i # id => venue'[i] = venue[i]
  BY BookTyped, VenueUpdate
<1>2. venue \in Seq(Trade)
  BY BookTyped
<1>3. Len(venue') = Len(venue) /\ DOMAIN venue = 1..Len(venue)
  BY <1>1, <1>2
<1>4. SameHandedOver(venue, venue', Len(venue))
  <2> SUFFICES ASSUME NEW i \in 1..Len(venue)
               PROVE  /\ venue'[i].side = venue[i].side
                      /\ venue'[i].by_submit = venue[i].by_submit
                      /\ venue'[i].by_poll = venue[i].by_poll
    BY DEF SameHandedOver
  <2>1. CASE i = id
    BY <1>1, <2>1
  <2>2. CASE i # id
    BY <1>1, <1>3, <2>2
  <2>3. QED
    BY <2>1, <2>2
<1>5. pf'.pos = pf.pos /\ delayed' = delayed
      /\ (pc # "delayed" \/ pc' = "delayed" \/ delayed = <<>>)
  OBVIOUS
<1>6. QED
  BY <1>1, <1>3, <1>4, <1>5, BookStays

LEMMA VenueBook ==
    ASSUME IndInv, BookInv, Venue
    PROVE  BookInv'
<1>1. CASE ConnectionLost
  BY <1>1, BookUntouched
  DEF ConnectionLost, bookVars, barVars, ibVars, Listens, EventLoopRuns
<1>2. ASSUME NEW id \in DOMAIN venue,
             NEW shares \in 1..venue[id].qty, NEW price \in VenuePrices,
             VenueExecutes(id, shares, price)
      PROVE  BookInv'
  <2>1. venue[id] \in Trade
    BY BookTyped
  <2> DEFINE executed == venue[id].shares + shares
             t == [venue[id] EXCEPT !.shares = executed, !.price = price]
  <2>2. executed \in Nat /\ price \in Int
    BY <2>1, IBAssumption DEF Trade
  <2>3. venue' = [venue EXCEPT ![id] = t]
    BY <1>2 DEF VenueExecutes
  <2>4. UNCHANGED <<pc, pf, delayed>>
    BY <1>2 DEF VenueExecutes, sessionVars, bookVars, barVars
  <2> HIDE DEF executed
  <2>5. t \in Trade /\ t.by_submit = venue[id].by_submit /\ t.by_poll = venue[id].by_poll
    BY <2>1, <2>2, TradeExecuted
  <2>6. t.side = venue[id].side
    BY <2>1 DEF Trade
  <2> HIDE DEF t
  <2>7. QED
    BY <2>3, <2>4, <2>5, <2>6, OneOrderBook
<1>3. ASSUME NEW id \in DOMAIN venue, VenueEnds(id)
      PROVE  BookInv'
  <2>1. venue[id] \in Trade
    BY BookTyped
  <2> DEFINE t == [venue[id] EXCEPT !.done = TRUE]
  <2>2. /\ t \in Trade
        /\ t.side = venue[id].side
        /\ t.by_submit = venue[id].by_submit
        /\ t.by_poll = venue[id].by_poll
    BY <2>1 DEF Trade
  <2>3. venue' = [venue EXCEPT ![id] = t] /\ UNCHANGED <<pc, pf, delayed>>
    BY <1>3, <2>1 DEF VenueEnds, Trade, sessionVars, bookVars, barVars
  <2> HIDE DEF t
  <2>4. QED
    BY <2>2, <2>3, OneOrderBook
<1>4. QED
  BY <1>1, <1>2, <1>3 DEF Venue

LEMMA LoopStepBook ==
    ASSUME IndInv, BookInv, LoopStep, UNCHANGED ibVars
    PROVE  BookInv'
<1>1. CASE ApplyDelayed
  BY <1>1, ApplyDelayedBook
<1>2. CASE ~ApplyDelayed
  <2>1. pf'.pos = pf.pos
    BY <1>2, LoopStepKeepsBook DEF IndInv
  <2>2. delayed' = delayed /\ (pc # "delayed" \/ pc' = "delayed" \/ delayed = <<>>)
    BY <1>2 DEF LoopStep, NextBar, OnBar, StrategyRaises, RejectOrder, RecordKill,
       Approve, EndBar, FeedEnds, Finish, Terminated, sessionVars, barVars, Stopped
  <2>3. QED
    BY <2>1, <2>2, BookUntouched DEF ibVars
<1>3. QED
  BY <1>1, <1>2

LEMMA StepBook ==
    ASSUME IndInv, BookInv, Step, IndInv'
    PROVE  BookInv'
<1>1. CASE \/ Connect \/ PollTradesRaises \/ AskVenue
           \/ RefuseOrder \/ RefuseContract
           \/ WaitForFill
           \/ Unanswered
  <2>1. /\ UNCHANGED <<venue, pf, delayed>>
        /\ pc # "delayed" \/ pc' = "delayed" \/ delayed = <<>>
    BY <1>1 DEF Connect, Start, PollTradesRaises, PollRaises, AskVenue, RefuseOrder,
       RefuseContract, WaitForFill, Unanswered, AnswerPending, WaitRaises,
       AnswerError, BrokerDefers, BrokerRejects, Submitted, sessionVars, bookVars,
       barVars, ibVars
  <2>2. QED
    BY <2>1, BookUntouched
<1>2. CASE PollTrades
  <2>1. venue' \in Seq(Trade)
    BY DEF IndInv, AdapterInv, AdapterType
  <2>2. DOMAIN venue' = DOMAIN venue
    BY <1>2 DEF PollTrades
  <2>3. Len(venue') = Len(venue)
    BY <2>1, <2>2, BookTyped
  <2>4. QED
    BY <1>2, <2>1, <2>3, PollTradesBook
<1>3. CASE PollDisconnected
  <2>1. pc = "poll" /\ delayed' = <<>> /\ UNCHANGED <<venue, pf>>
    BY <1>3 DEF PollDisconnected, PollFills, bookVars, ibVars
  <2>2. delayed = <<>>
    BY <2>1 DEF BookInv, LateOnly
  <2>3. QED
    BY <2>1, <2>2, BookUntouched
<1>4. CASE PlaceOrder
  BY <1>4, PlaceOrderBook
<1>5. CASE AnswerFilled
  BY <1>5, AnswerFilledBook
<1>6. CASE LoopStep /\ UNCHANGED ibVars
  BY <1>6, LoopStepBook
<1>7. QED
  BY <1>1, <1>2, <1>3, <1>4, <1>5, <1>6 DEF Step, Turn, Raises, Unanswered

LEMMA BookStarts ==
    ASSUME Init
    PROVE  BookInv
<1>1. pf.pos.qty = 0 /\ delayed = <<>> /\ venue = <<>>
  BY DEF Init, SessionInit, FreshBook, FlatPosition
<1>2. Total(ToCome(delayed)) = 0
  <2>1. <<>> \in Seq(Fill) /\ Len(<<>>) = 0
    OBVIOUS
  <2>2. QED
    BY <1>1, <2>1, ToComeIs, TotalType
<1>3. Total(HandedOver(venue)) = 0
  <2>1. <<>> \in Seq(Trade) /\ Len(<<>>) = 0
    OBVIOUS
  <2>2. QED
    BY <1>1, <2>1, HandedOverIs, TotalType
<1>4. QED
  BY <1>1, <1>2, <1>3, BookMatches DEF BookInv, LateOnly

\* The position is the shares of every fill the adapter has handed over, from
\* either way and in whatever order they came, but for the fills of the last
\* poll the loop has not applied yet.
THEOREM BookDelivered == Spec => []BookIsWhatWasDelivered
<1>1. Init => BookInv
  BY BookStarts
<1>2. IndInv /\ IndInv' /\ BookInv /\ [Next]_vars => BookInv'
  <2> SUFFICES ASSUME IndInv, IndInv', BookInv, [Next]_vars
               PROVE  BookInv'
    OBVIOUS
  <2>1. CASE Step
    BY <2>1, StepBook
  <2>2. CASE Venue
    BY <2>2, VenueBook
  <2>3. CASE UNCHANGED vars
    BY <2>3, BookUntouched DEF vars, sessionVars, bookVars, barVars, ibVars
  <2>4. QED
    BY <2>1, <2>2, <2>3 DEF Next
<1>3. BookInv => BookIsWhatWasDelivered
  BY DEF BookInv
<1>4. QED
  BY <1>1, <1>2, <1>3, Invariance, PTL DEF Spec
==============================================================================
