-------------------------- MODULE PaperSessionProofs -------------------------
(***************************************************************************)
(* The paper and stub sessions, for every risk and cost configuration,     *)
(* starting cash, set of prices and strategy, and for any number of bars.  *)
(***************************************************************************)
EXTENDS PaperSession, SessionLemmas

IndInv ==
    SessionInv /\ ProcessTypeOK /\ broker \in Brokers /\ RiskBeforeBroker

LEMMA InitInv == Init => IndInv
BY SessionStarts, NewProcess DEF Init, IndInv

LEMMA SubmitKeeps ==
    ASSUME SessionInv, ProcessTypeOK, Submit
    PROVE  SessionInv'
<1>1. CASE BrokerFills(PaperFill)
  <2>1. adj \in Order /\ mark \in Int
    BY <1>1 DEF SessionInv, SessionTypeOK, StageInv, BrokerFills, Submitted
  <2>2. PaperFill \in Fill
    BY <2>1, AdvType, ExecuteType DEF PaperFill
  <2>3. QED
    BY <1>1, <2>2, BrokerFillsKeeps
<1>2. CASE BrokerRejects
  BY <1>2, BrokerRejectsKeeps
<1>3. QED
  BY <1>1, <1>2 DEF Submit

LEMMA StepInv ==
    ASSUME IndInv, Step
    PROVE  SessionInv' /\ RiskBeforeBroker'
<1> USE DEF IndInv
<1>1. CASE Start(TRUE, ModeOf(broker))
  <2>1. ModeOf(broker) \in Mode
    BY DEF ModeOf, Mode
  <2>2. QED
    BY <1>1, <2>1, StartKeeps DEF Start, RiskBeforeBroker
<1>2. CASE PollFills(<<>>)
  <2>1. <<>> \in Seq(Fill)
    OBVIOUS
  <2>2. QED
    BY <1>2, <2>1, PollFillsKeeps DEF PollFills, RiskBeforeBroker
<1>3. CASE Submit
  <2>1. pc' = "orders"
    BY <1>3 DEF Submit, BrokerFills, BrokerRejects, Submitted
  <2>2. QED
    BY <1>3, <2>1, SubmitKeeps DEF RiskBeforeBroker
<1>4. CASE LoopStep
  BY <1>4, LoopStepKeeps, LoopStepKeepsGate
<1>5. QED
  BY <1>1, <1>2, <1>3, <1>4 DEF Step

LEMMA NextInv == IndInv /\ [Next]_vars => IndInv'
<1> SUFFICES ASSUME IndInv, [Next]_vars
             PROVE  IndInv'
  OBVIOUS
<1>1. CASE Next
  BY <1>1, StepInv, ProcessStays DEF Next, IndInv
<1>2. CASE UNCHANGED vars
  <2>1. SessionInv'
    BY <1>2, StutterKeeps DEF vars, IndInv
  <2>2. UNCHANGED <<pc, pf, killed, mark, adj, broker>>
    BY <1>2 DEF vars, sessionVars, bookVars, riskVars, barVars, orderVars
  <2>3. ProcessTypeOK'
    BY <1>2, ProcessStays DEF vars, IndInv
  <2>4. QED
    BY <2>1, <2>2, <2>3, GateStays DEF IndInv
<1>3. QED
  BY <1>1, <1>2

\* What run_feed knows of the session at each of its stages.
THEOREM Invariance == Spec => []IndInv
BY InitInv, NextInv, PTL DEF Spec

\* The state of the session, its book and its journal keep their shape.
THEOREM TypeCorrect == Spec => []TypeOK
<1>1. IndInv => TypeOK
  BY DEF IndInv, SessionInv, TypeOK
<1>2. QED
  BY <1>1, Invariance, PTL

\* No order reaches a broker past a breached limit, in any configuration.
THEOREM RiskGate == Spec => []RiskBeforeBroker
<1>1. IndInv => RiskBeforeBroker
  BY DEF IndInv
<1>2. QED
  BY <1>1, Invariance, PTL

\* Nothing is traded and no bar is taken after the first KILL verdict.
THEOREM KillFinality == Spec => KillIsFinal
<1>1. IndInv /\ [Next]_vars => [killed => Frozen]_sessionVars
  <2> SUFFICES ASSUME IndInv, Next, killed
               PROVE  Frozen
    BY DEF vars
  <2>1. ~Start(TRUE, ModeOf(broker)) /\ ~PollFills(<<>>) /\ ~Submit
    BY KilledStage DEF IndInv, Start, PollFills, Submit, BrokerFills,
       BrokerRejects, Submitted
  <2>2. LoopStep
    BY <2>1 DEF Next, Step
  <2>3. QED
    BY <2>2, LoopStepFrozen DEF IndInv
<1>2. Spec => [][killed => Frozen]_sessionVars
  BY <1>1, Invariance, PTL DEF Spec
<1>3. QED
  BY <1>2 DEF KillIsFinal, Frozen

(***************************************************************************)
(* The live stub.                                                          *)
(***************************************************************************)
StubInv ==
    broker = "live_stub" => /\ fills = <<>> /\ delayed = <<>>
                            /\ pf.cash = StartingCash
                            /\ pf.pos = FlatPosition

\* A live session without a wired venue never trades, whatever the strategy
\* asks and however long it runs.
THEOREM StubSafe == Spec => []StubNeverTrades
<1>1. Init => StubInv
  BY DEF Init, SessionInit, StubInv, FreshBook
<1>2. IndInv /\ StubInv /\ [Next]_vars => StubInv'
  <2> SUFFICES ASSUME IndInv, StubInv, [Next]_vars, broker' = "live_stub"
               PROVE  StubInv'
    BY DEF StubInv
  <2>1. broker = "live_stub" /\ fills = <<>> /\ delayed = <<>>
        /\ pf.cash = StartingCash /\ pf.pos = FlatPosition
    BY DEF StubInv, Next, vars
  <2>2. CASE Start(TRUE, ModeOf(broker)) \/ PollFills(<<>>) \/ UNCHANGED vars
    BY <2>1, <2>2 DEF Start, PollFills, vars, sessionVars, bookVars, barVars,
       StubInv
  <2>3. CASE Submit
    BY <2>1, <2>3 DEF Submit, FillsAtOnce, BrokerRejects, Submitted, bookVars,
       barVars, StubInv
  <2>4. CASE LoopStep
    <3>1. ~ApplyDelayed
      BY <2>1 DEF ApplyDelayed
    <3>2. QED
      BY <2>1, <2>4, <3>1, LoopStepKeepsBook, LoopStepFills DEF IndInv, StubInv
  <2>5. QED
    BY <2>2, <2>3, <2>4 DEF Next, Step
<1>3. StubInv => StubNeverTrades
  BY DEF StubInv, StubNeverTrades
<1>4. QED
  BY <1>1, <1>2, <1>3, Invariance, PTL DEF Spec

(***************************************************************************)
(* The drawdown's peak.                                                    *)
(***************************************************************************)
\* A paper fill never makes the book worth more at the close it fills at.
LEMMA FillNeverGains ==
    ASSUME NEW book \in PortfolioState, NEW order \in Order,
           NEW mid \in Nat, NEW adv \in Nat \cup {NoAdv}
    PROVE  Equity(ApplyFill(book, Execute(order, mid, adv)), mid)
             <= Equity(book, mid)
<1> DEFINE fill == Execute(order, mid, adv)
           shift == PriceShift(order.qty, mid, adv)
           after == ApplyFill(book, fill)
<1>1. order.qty \in Nat \ {0} /\ order.side \in {"BUY", "SELL"}
  BY DEF Order, Side
<1>2. fill \in Fill
  BY ExecuteType
<1>3. shift \in Nat
  BY <1>1, PriceShiftType
<1>4. /\ fill.side = order.side
      /\ fill.qty = order.qty
      /\ fill.price = IF order.side = "BUY" THEN mid + shift ELSE mid - shift
      /\ fill.commission \in Nat
  BY <1>2 DEF Execute, FillPrice, Fill
<1>5. book.cash \in Int /\ book.pos \in Position /\ book.pos.qty \in Int
  BY DEF PortfolioState, Position
<1>6. /\ after.cash = CashAfter(book.cash, fill)
      /\ after.pos = PositionAfter(book.pos, fill)
  BY DEF ApplyFill, PortfolioState
<1> HIDE DEF fill, shift, after
<1>7. /\ after.cash = book.cash - Signed(fill) * fill.price - fill.commission
      /\ after.pos.qty = book.pos.qty + Signed(fill)
  BY <1>2, <1>5, <1>6, CashMovesByFill, PositionMovesByFill
<1>8. CASE order.side = "BUY"
  <2>1. /\ after.cash = book.cash - order.qty * (mid + shift) - fill.commission
        /\ after.pos.qty = book.pos.qty + order.qty
    BY <1>4, <1>7, <1>8 DEF Signed
  <2>2. Equity(after, mid)
          = Equity(book, mid) - order.qty * shift - fill.commission
    BY <2>1, <1>1, <1>3, <1>4, <1>5 DEF Equity
  <2>3. order.qty * shift \in Nat /\ Equity(book, mid) \in Int
    BY <1>1, <1>3, EquityType
  <2>4. QED
    BY <2>2, <2>3, <1>4 DEF after, fill
<1>9. CASE order.side = "SELL"
  <2>1. /\ after.cash = book.cash + order.qty * (mid - shift) - fill.commission
        /\ after.pos.qty = book.pos.qty - order.qty
    <3>1. Signed(fill) = -order.qty /\ fill.price = mid - shift
      BY <1>4, <1>9 DEF Signed
    <3>2. (-order.qty) * (mid - shift) = -(order.qty * (mid - shift))
      BY <1>1, <1>3
    <3>3. QED
      BY <3>1, <3>2, <1>1, <1>3, <1>4, <1>5, <1>7
  <2>2. Equity(after, mid)
          = Equity(book, mid) - order.qty * shift - fill.commission
    BY <2>1, <1>1, <1>3, <1>4, <1>5 DEF Equity
  <2>3. order.qty * shift \in Nat /\ Equity(book, mid) \in Int
    BY <1>1, <1>3, EquityType
  <2>4. QED
    BY <2>2, <2>3, <1>4 DEF after, fill
<1>10. QED
  BY <1>1, <1>8, <1>9

\* Inside the loop the book is never worth more than the peak, at the close of
\* the last bar.
BarPeak ==
    /\ delayed = <<>>
    /\ bar_count > 0 => Equity(pf, mark) <= pf.peak_equity

PeakRises == pf.peak_equity <= pf'.peak_equity

LEMMA PeakStays ==
    ASSUME BarPeak, UNCHANGED <<bar_count, delayed, mark>>,
           pf' = pf \/ pf' = [pf EXCEPT !.kills = @ + 1],
           pf \in PortfolioState
    PROVE  BarPeak' /\ PeakRises
<1>1. /\ pf'.cash = pf.cash
      /\ pf'.pos = pf.pos
      /\ pf'.peak_equity = pf.peak_equity
      /\ pf.peak_equity \in Int
  BY DEF PortfolioState
<1>2. QED
  BY <1>1 DEF BarPeak, PeakRises, Equity

LEMMA NextBarPeak ==
    ASSUME IndInv, BarPeak, NEW mid \in Int, NEW new_day \in BOOLEAN,
           NextBar(mid, new_day)
    PROVE  BarPeak' /\ PeakRises
<1> DEFINE rolled == RollDay(pf, mid, new_day)
<1>1. pf \in PortfolioState
  BY DEF IndInv, SessionInv, SessionTypeOK
<1>2. /\ rolled.cash = pf.cash
      /\ rolled.pos = pf.pos
      /\ rolled.peak_equity = pf.peak_equity
      /\ rolled \in PortfolioState
  BY <1>1, EquityType DEF RollDay, PortfolioState
<1>3. pf' = UpdatePeaks(rolled, mid) /\ mark' = mid /\ UNCHANGED delayed
  BY DEF NextBar
<1> HIDE DEF rolled
<1>4. Equity(rolled, mid) = Equity(pf, mid) /\ Equity(pf, mid) \in Int
  BY <1>1, <1>2, EquityType DEF Equity
<1>5. /\ pf'.cash = pf.cash
      /\ pf'.pos = pf.pos
      /\ pf'.peak_equity = Greatest(pf.peak_equity, Equity(pf, mid))
  BY <1>2, <1>3, <1>4 DEF UpdatePeaks, PortfolioState
<1>6. /\ pf.peak_equity \in Int
      /\ pf.peak_equity <= pf'.peak_equity
      /\ Equity(pf, mid) <= pf'.peak_equity
  BY <1>1, <1>4, <1>5 DEF Greatest, PortfolioState
<1>7. Equity(pf', mid) <= pf'.peak_equity
  BY <1>5, <1>6 DEF Equity
<1>8. QED
  BY <1>3, <1>6, <1>7 DEF BarPeak, PeakRises, Equity

LEMMA SubmitPeak ==
    ASSUME IndInv, BarPeak, Submit
    PROVE  BarPeak' /\ PeakRises
<1>1. CASE BrokerFills(PaperFill)
  <2>1. /\ pf' = ApplyFill(pf, PaperFill)
        /\ UNCHANGED <<bar_count, delayed, mark>>
        /\ pc = "submit"
    BY <1>1 DEF BrokerFills, BookFill, Submitted, barVars
  <2>2. pf \in PortfolioState /\ adj \in Order /\ mark \in Nat /\ bar_count > 0
    BY <2>1 DEF IndInv, SessionInv, SessionTypeOK, StageInv, RiskBeforeBroker
  <2>3. Equity(ApplyFill(pf, PaperFill), mark) <= Equity(pf, mark)
    BY <2>2, AdvType, FillNeverGains DEF PaperFill
  <2>4. pf'.peak_equity = pf.peak_equity /\ pf.peak_equity \in Int
    BY <2>1, <2>2 DEF ApplyFill, PortfolioState
  <2>5. Equity(pf, mark) <= pf.peak_equity
    BY <2>2 DEF BarPeak
  <2>6. pf' \in PortfolioState
    BY <1>1, SubmitKeeps DEF IndInv, SessionInv, SessionTypeOK
  <2>7. Equity(pf', mark) <= pf'.peak_equity
    <3>1. Equity(pf', mark) \in Int /\ Equity(pf, mark) \in Int
      BY <2>2, <2>6, EquityType
    <3>2. QED
      BY <2>1, <2>3, <2>4, <2>5, <3>1
  <2>8. QED
    BY <2>1, <2>4, <2>7 DEF BarPeak, PeakRises, Equity
<1>2. CASE BrokerRejects
  <2>1. UNCHANGED <<bar_count, delayed, mark, pf>>
    BY <1>2 DEF BrokerRejects, Submitted, bookVars, barVars
  <2>2. QED
    BY <2>1, PeakStays DEF IndInv, SessionInv, SessionTypeOK
<1>3. QED
  BY <1>1, <1>2 DEF Submit

LEMMA StepPeak ==
    ASSUME IndInv, BarPeak, Step
    PROVE  BarPeak' /\ PeakRises
<1>1. pf \in PortfolioState
  BY DEF IndInv, SessionInv, SessionTypeOK
<1>2. CASE Start(TRUE, ModeOf(broker))
  BY <1>1, <1>2, PeakStays DEF Start, bookVars, barVars
<1>3. CASE PollFills(<<>>)
  BY <1>1, <1>3, PeakStays DEF PollFills, BarPeak, bookVars
<1>4. CASE Submit
  BY <1>4, SubmitPeak
<1>5. CASE \E mid \in Prices, new_day \in BOOLEAN : NextBar(mid, new_day)
  BY <1>5, SessionAssumption, NextBarPeak
<1>6. CASE \/ \E orders \in OrderLists : OnBar(orders)
           \/ StrategyRaises \/ RejectOrder \/ RecordKill \/ Approve \/ EndBar
           \/ FeedEnds \/ Finish \/ Terminated
  <2>1. /\ UNCHANGED <<bar_count, delayed, mark>>
        /\ pf' = pf \/ pf' = [pf EXCEPT !.kills = @ + 1]
    BY <1>6 DEF OnBar, StrategyRaises, RejectOrder, RecordKill, Approve,
       EndBar, FeedEnds, Finish, Terminated, sessionVars, bookVars, barVars
  <2>2. QED
    BY <1>1, <2>1, PeakStays
<1>7. ~ApplyDelayed
  BY DEF BarPeak, ApplyDelayed
<1>8. QED
  BY <1>2, <1>3, <1>4, <1>5, <1>6, <1>7 DEF Step, LoopStep

PeakInv == PeakDominatesCurve /\ BarPeak

\* The only new point of the curve is the book at the close of its bar.
LEMMA StepCurve ==
    ASSUME IndInv, Step
    PROVE  \/ equity' = equity
           \/ equity' = Append(equity, Equity(pf, mark)) /\ bar_count > 0
<1>1. CASE EndBar
  BY <1>1 DEF EndBar, IndInv, SessionInv, StageInv
<1>2. CASE LoopStep /\ ~EndBar
  BY <1>2 DEF LoopStep, NextBar, ApplyDelayed, OnBar, StrategyRaises,
     RejectOrder, RecordKill, Approve, FeedEnds, Finish, Terminated, sessionVars
<1>3. CASE ~LoopStep
  BY <1>3 DEF Step, Start, PollFills, Submit, BrokerFills, BrokerRejects,
     Submitted
<1>4. QED
  BY <1>1, <1>2, <1>3

\* On paper, no point of the equity curve is above the peak the drawdown is
\* measured from, for every cost configuration: update_peaks may run before
\* the fills of the bar because no fill gains.
THEOREM PeakCorrect == Spec => []PeakDominatesCurve
<1>1. Init => PeakInv
  BY SessionAssumption
  DEF Init, SessionInit, PeakInv, BarPeak, PeakDominatesCurve, FreshBook
<1>2. IndInv /\ PeakInv /\ [Next]_vars => PeakInv'
  <2> SUFFICES ASSUME IndInv, PeakInv, [Next]_vars
               PROVE  PeakInv'
    OBVIOUS
  <2>1. CASE Next
    <3>1. BarPeak' /\ PeakRises
      BY <2>1, StepPeak DEF Next, PeakInv
    <3>2. /\ equity \in Seq(Int)
          /\ pf.peak_equity \in Int /\ pf'.peak_equity \in Int
      <4>1. SessionInv'
        BY <2>1, StepInv DEF Next
      <4>2. QED
        BY <4>1 DEF IndInv, SessionInv, SessionTypeOK, PortfolioState
    <3>3. \A n \in DOMAIN equity : equity[n] <= pf'.peak_equity
      <4>1. \A n \in DOMAIN equity : equity[n] \in Int /\ equity[n] <= pf.peak_equity
        BY <3>2 DEF PeakInv, PeakDominatesCurve
      <4>2. QED
        BY <3>1, <3>2, <4>1 DEF PeakRises
    <3>4. CASE equity' = equity
      BY <3>1, <3>3, <3>4 DEF PeakInv, PeakDominatesCurve
    <3>5. CASE equity' = Append(equity, Equity(pf, mark)) /\ bar_count > 0
      <4>1. Equity(pf, mark) \in Int /\ Equity(pf, mark) <= pf'.peak_equity
        <5>1. Equity(pf, mark) \in Int
          BY EquityType DEF IndInv, SessionInv, SessionTypeOK
        <5>2. QED
          BY <3>1, <3>2, <3>5, <5>1 DEF PeakRises, PeakInv, BarPeak
      <4>2. /\ DOMAIN equity' = 1..(Len(equity) + 1)
            /\ equity'[Len(equity) + 1] = Equity(pf, mark)
            /\ \A n \in DOMAIN equity : equity'[n] = equity[n]
        BY <3>2, <3>5, <4>1
      <4>3. 1..(Len(equity) + 1) = DOMAIN equity \cup {Len(equity) + 1}
        BY <3>2
      <4>4. \A n \in DOMAIN equity' : equity'[n] <= pf'.peak_equity
        BY <3>3, <4>1, <4>2, <4>3
      <4>5. QED
        BY <3>1, <4>4 DEF PeakInv, PeakDominatesCurve
    <3>6. QED
      BY <2>1, <3>4, <3>5, StepCurve DEF Next
  <2>2. CASE UNCHANGED vars
    BY <2>2 DEF vars, sessionVars, bookVars, barVars, PeakInv, BarPeak,
       PeakDominatesCurve, Equity
  <2>3. QED
    BY <2>1, <2>2
<1>3. PeakInv => PeakDominatesCurve
  BY DEF PeakInv
<1>4. QED
  BY <1>1, <1>2, <1>3, Invariance, PTL DEF Spec

(***************************************************************************)
(* The refinement.                                                         *)
(***************************************************************************)
LEMMA StepGuarded ==
    ASSUME IndInv, Step
    PROVE  [Guarded!Next]_(Guarded!bookVars)
<1>1. CASE Start(TRUE, ModeOf(broker)) \/ PollFills(<<>>) \/ BrokerRejects
  BY <1>1 DEF Start, PollFills, BrokerRejects, Submitted, bookVars, riskVars,
     Guarded!bookVars
<1>2. CASE BrokerFills(PaperFill)
  <2>1. /\ adj \in Order
        /\ mark \in Int
        /\ ~killed /\ killed' = killed
    BY <1>2 DEF IndInv, SessionInv, SessionTypeOK, StageInv, BrokerFills,
       Submitted, riskVars
  <2>2. PaperFill \in Fill
    BY <2>1, AdvType, ExecuteType DEF PaperFill
  <2>3. QED
    BY <1>2, <2>1, <2>2, FillIsTrade DEF IndInv, BrokerFills
<1>3. CASE LoopStep
  BY <1>3, LoopStepGuarded DEF IndInv
<1>4. QED
  BY <1>1, <1>2, <1>3 DEF Step, Submit

\* A paper or stub session implements the guarded book: whatever the orders,
\* prices and limits, its cash and position move by its fills alone, and by
\* none after a kill.
THEOREM Refinement == Spec => ImplementsGuardedBook
<1>1. Init => Guarded!Init
  BY BookStartsGuarded DEF Init
<1>2. IndInv /\ [Next]_vars => [Guarded!Next]_(Guarded!bookVars)
  <2> SUFFICES ASSUME IndInv, [Next]_vars
               PROVE  [Guarded!Next]_(Guarded!bookVars)
    OBVIOUS
  <2>1. CASE Next
    BY <2>1, StepGuarded DEF Next
  <2>2. CASE UNCHANGED vars
    BY <2>2 DEF vars, sessionVars, bookVars, riskVars, Guarded!bookVars
  <2>3. QED
    BY <2>1, <2>2
<1>3. QED
  BY <1>1, <1>2, Invariance, PTL DEF Spec, ImplementsGuardedBook, Guarded!Spec

(***************************************************************************)
(* The journal and its restore.                                            *)
(***************************************************************************)
JournalInv == RestoreInv /\ PrefixInv /\ TaleInv /\ CurveInv

LEMMA JournalStarts == Init => JournalInv
BY RestoreStarts, PrefixStarts, TaleStarts, CurveStarts DEF Init, JournalInv

LEMMA StartJournal ==
    ASSUME IndInv, JournalInv, UNCHANGED processVars, Start(TRUE, ModeOf(broker))
    PROVE  JournalInv'
<1>1. TRUE \in BOOLEAN /\ ModeOf(broker) \in Mode
  BY DEF ModeOf, Mode
<1>2. RestoreInv'
  BY <1>1, StartRestore DEF IndInv, JournalInv
<1>3. PrefixInv'
  BY <1>1, StartPrefix DEF IndInv, JournalInv
<1>4. TaleInv'
  BY <1>1, StartTale DEF IndInv, JournalInv
<1>5. CurveInv'
  BY <1>1, StartCurve DEF IndInv, JournalInv
<1>6. QED
  BY <1>2, <1>3, <1>4, <1>5 DEF JournalInv

LEMMA PollJournal ==
    ASSUME IndInv, JournalInv, UNCHANGED processVars, PollFills(<<>>)
    PROVE  JournalInv'
<1>1. RestoreInv'
  <2>1. <<>> \in Seq(Fill)
    OBVIOUS
  <2>2. QED
    BY <2>1, PollFillsRestore DEF IndInv, JournalInv
<1>2. /\ UNCHANGED <<session_id, forced, start_index, journalVars, fills, rejected,
                     kill_reason, equity, bar_count>>
      /\ pc = "poll" /\ pc' = "delayed"
  BY DEF PollFills, bookVars, riskVars, processVars
<1>3. PrefixInv'
  BY <1>2, PrefixKeptByNothing DEF JournalInv
<1>4. TaleInv'
  BY <1>2, TaleKeptByNothing DEF JournalInv, Stopped
<1>5. CurveInv'
  <2>1. (pc' \in {"start", "feed"}) = FALSE
    BY <1>2
  <2>2. pc' \in InBar => Len(equity) = bar_count'
    BY <1>2 DEF JournalInv, CurveInv, InBar
  <2>3. QED
    BY <1>2, <2>1, <2>2, CurveKeptByNothing DEF JournalInv
<1>6. QED
  BY <1>1, <1>3, <1>4, <1>5 DEF JournalInv

LEMMA SubmitJournal ==
    ASSUME IndInv, JournalInv, UNCHANGED processVars, Submit
    PROVE  JournalInv'
<1>1. SessionInv /\ ProcessTypeOK /\ (~jdisabled => Untorn(journal))
  BY DEF IndInv, JournalInv, PrefixInv
<1>2. /\ UNCHANGED <<session_id, forced, kill_reason, start_index, equity, bar_count>>
      /\ pc = "submit" /\ pc' = "orders"
  BY DEF Submit, BrokerFills, BrokerRejects, Submitted, processVars, riskVars,
     barVars
<1>3. CASE BrokerFills(PaperFill)
  <2>1. adj \in Order /\ mark \in Int
    BY <1>1, <1>3 DEF SessionInv, SessionTypeOK, StageInv, BrokerFills, Submitted
  <2>2. PaperFill \in Fill
    BY <2>1, AdvType, ExecuteType DEF PaperFill
  <2>3. BookFill(PaperFill) /\ UNCHANGED rejected
    BY <1>3 DEF BrokerFills
  <2>4. RestoreInv'
    BY <1>1, <1>3, <2>2, BrokerFillsRestore DEF JournalInv
  <2>5. PrefixInv'
    BY <1>1, <1>2, <2>2, <2>3, BookFillPrefix DEF JournalInv
  <2>6. TaleInv'
    BY <1>1, <1>2, <2>2, <2>3, BookFillTale DEF JournalInv, Stopped
  <2>7. CurveInv'
    BY <1>1, <1>2, <2>2, <2>3, BookFillCurve DEF JournalInv, InBar
  <2>8. QED
    BY <2>4, <2>5, <2>6, <2>7 DEF JournalInv
<1>4. CASE BrokerRejects
  BY <1>1, <1>2, <1>4, BrokerRejectsRestore, BrokerRejectsPrefix,
     BrokerRejectsTale, RefusalCurve DEF JournalInv
<1>5. QED
  BY <1>3, <1>4 DEF Submit

LEMMA NextJournal ==
    ASSUME IndInv, JournalInv, [Next]_vars
    PROVE  JournalInv'
<1>1. CASE Next
  <2>1. UNCHANGED processVars
    BY <1>1 DEF Next
  <2>2. CASE LoopStep
    <3>1. SessionInv /\ ProcessTypeOK /\ (~jdisabled => Untorn(journal))
      BY DEF IndInv, JournalInv, PrefixInv
    <3>2. QED
      BY <2>1, <2>2, <3>1, LoopStepRestore, LoopStepPrefix, LoopStepTale,
         LoopStepCurve DEF JournalInv
  <2>3. QED
    BY <1>1, <2>1, <2>2, StartJournal, PollJournal, SubmitJournal DEF Next, Step
<1>2. CASE UNCHANGED vars
  <2>1. UNCHANGED <<sessionVars, processVars, journalVars>>
    BY <1>2 DEF vars
  <2>2. RestoreInv'
    BY <2>1, RestoreStays DEF JournalInv
  <2>3. UNCHANGED <<session_id, forced, start_index, journalVars, journal, jdisabled,
                    fills, rejected, kill_reason, equity, bar_count, pc>>
    BY <2>1 DEF sessionVars, processVars, journalVars, bookVars, riskVars, barVars
  <2>4. PrefixInv'
    BY <2>3, PrefixKeptByNothing DEF JournalInv
  <2>5. TaleInv' /\ CurveInv'
    BY <2>3 DEF JournalInv, TaleInv, CurveInv
  <2>6. QED
    BY <2>2, <2>4, <2>5 DEF JournalInv
<1>3. QED
  BY <1>1, <1>2

\* What the rows on disk say of the session at each of its stages: its book,
\* its fills and rejections, its ending and the points of its curve.
THEOREM JournalInvariance == Spec => []JournalInv
BY JournalStarts, NextJournal, Invariance, PTL DEF Spec

\* At every step of a session, restore_from_journal rebuilds the live book,
\* fills and kill from the rows on disk, however long the session and whatever
\* it trades.
THEOREM RestoreCorrect == Spec => []RestoreRebuildsBook
<1>1. IndInv /\ JournalInv => RestoreRebuildsBook
  <2>1. CASE jdisabled
    BY <2>1 DEF RestoreRebuildsBook
  <2>2. CASE ~jdisabled
    BY <2>2, RestoreIsTold DEF IndInv, JournalInv, PrefixInv
  <2>3. QED
    BY <2>1, <2>2
<1>2. QED
  BY <1>1, Invariance, JournalInvariance, PTL

\* A disk that fails at any write leaves the beginning of the session's story.
THEOREM JournalPrefix == Spec => []JournalIsPrefix
<1>1. JournalInv => JournalIsPrefix
  BY DEF JournalInv, PrefixInv
<1>2. QED
  BY <1>1, JournalInvariance, PTL

\* The rows come in the order of the session: its start first, its end last, a
\* kill after the reject it follows from, and the right reason at the end.
THEOREM JournalTale == Spec => []JournalTellsSession
<1>1. JournalInv => JournalTellsSession
  BY TaleIsTold DEF JournalInv
<1>2. QED
  BY <1>1, JournalInvariance, PTL

\* The bar an equity row names is the bar whose point of the curve it repeats.
THEOREM CurveRows == Spec => []EquityRowsMatchCurve
<1>1. JournalInv => EquityRowsMatchCurve
  BY CurveIsMatched DEF JournalInv
<1>2. QED
  BY <1>1, JournalInvariance, PTL
==============================================================================
