---------------------------- MODULE ResearchProofs ----------------------------
(***************************************************************************)
(* PaperEngine simulates a paper session, and within one date a segment of *)
(* the harness simulates PaperEngine, for every configuration of risk and  *)
(* costs, every list of orders and any number of bars.                     *)
(*                                                                         *)
(* The session takes its orders one by one and the other two take a bar's  *)
(* orders at once.  While the session is inside a bar, the engine is where *)
(* the session will be once it has taken the orders still in its queue.    *)
(***************************************************************************)
EXTENDS Research, PaperSessionProofs

\* The session's run, as the engine keeps its own.
Running == [pf |-> pf, killed |-> killed, fills |-> fills, equity |-> equity]

RunsTyped ==
    /\ engine \in BarRun
    /\ segment \in BarRun
    /\ days \in Nat

\* Where the session is says how long its curve is and why it left the loop,
\* and the order at the broker is the head of the queue as the gate let it pass.
LoopInv ==
    /\ start_index = 0
    /\ pc \in {"start", "feed", "finally", "done"} \cup InBar
    /\ Len(equity) = bar_count + (IF pc \in InBar THEN 0 ELSE 1)
    /\ kill_reason # "none" => killed /\ bar_count > 0
    /\ pc \in {"finally", "done"} /\ kill_reason = "none" => bar_count = NBars
    /\ delayed = <<>>
    /\ pc = "submit" => Ok(Decision) /\ adj = Adjusted(Head(queue), Decision)

SameResult(run, other) ==
    /\ run.fills = other.fills
    /\ run.pf.cash = other.pf.cash
    /\ run.pf.pos = other.pf.pos
    /\ run.killed = other.killed

EngineLevel == Alike(Running, engine) /\ engine.equity = equity

EngineAhead ==
    /\ Alike(AfterOrders(Running, mark, queue, Adv), engine)
    /\ engine.equity = Append(equity, Equity(engine.pf, mark))

EngineDone ==
    /\ SameResult(engine, Running)
    /\ IsPrefix(equity, engine.equity)
    /\ ~killed => engine.equity = equity

EngineInv ==
    broker = "paper" /\ BarVolume > 0 =>
        /\ pc \in {"start", "feed", "poll", "delayed", "finally"} => EngineLevel
        /\ pc \in {"orders", "kill", "submit"} => EngineAhead
        /\ pc = "done" => EngineDone

\* Before the first date nothing was traded, and the first roll of the day
\* finds the day's reference where it is.
SegmentInv ==
    /\ days <= 1 => Alike(segment, engine) /\ segment.equity = engine.equity
    /\ days = 0 => /\ bar_count = 0
                   /\ Untouched(engine, StartingCash)
                   /\ Len(engine.equity) = 1

ResearchInv == IndInv /\ RunsTyped /\ LoopInv /\ EngineInv /\ SegmentInv

(***************************************************************************)
(* The start of a bar.                                                     *)
(***************************************************************************)
LEMMA RawAdvType == RawAdv \in Nat \cup {NoAdv}
BY SessionAssumption DEF RawAdv

LEMMA StartBarIs ==
    ASSUME NEW run \in BarRun, NEW mid \in Int, NEW new_day \in BOOLEAN
    PROVE  /\ StartBar(run, mid, new_day) \in BarRun
           /\ StartBar(run, mid, new_day).pf
                = UpdatePeaks(RollDay(run.pf, mid, new_day), mid)
           /\ StartBar(run, mid, new_day).pf.cash = run.pf.cash
           /\ StartBar(run, mid, new_day).pf.pos = run.pf.pos
           /\ StartBar(run, mid, new_day).killed = run.killed
           /\ StartBar(run, mid, new_day).fills = run.fills
           /\ StartBar(run, mid, new_day).equity = run.equity
<1> DEFINE rolled == RollDay(run.pf, mid, new_day)
           book == UpdatePeaks(rolled, mid)
<1>1. run.pf \in PortfolioState
  BY DEF BarRun
<1>2. rolled \in PortfolioState /\ rolled.cash = run.pf.cash /\ rolled.pos = run.pf.pos
  BY <1>1, RollDayType
<1> HIDE DEF rolled
<1>3. book \in PortfolioState /\ book.cash = rolled.cash /\ book.pos = rolled.pos
  BY <1>2, UpdatePeaksType
<1>4. StartBar(run, mid, new_day) = [run EXCEPT !.pf = book]
  BY DEF StartBar, rolled
<1> HIDE DEF book
<1>5. QED
  BY <1>2, <1>3, <1>4 DEF BarRun, book, rolled

LEMMA StartSegmentBarIs ==
    ASSUME NEW run \in BarRun, NEW mid \in Int
    PROVE  /\ StartSegmentBar(run, mid) \in BarRun
           /\ StartSegmentBar(run, mid).pf = UpdatePeaks(run.pf, mid)
           /\ StartSegmentBar(run, mid).killed = run.killed
           /\ StartSegmentBar(run, mid).fills = run.fills
           /\ StartSegmentBar(run, mid).equity = run.equity
<1> DEFINE book == UpdatePeaks(run.pf, mid)
<1>1. book \in PortfolioState
  BY UpdatePeaksType DEF BarRun
<1>2. StartSegmentBar(run, mid) = [run EXCEPT !.pf = book]
  BY DEF StartSegmentBar
<1> HIDE DEF book
<1>3. QED
  BY <1>1, <1>2 DEF BarRun, book

LEMMA UpdatePeaksSameToRisk ==
    ASSUME NEW book \in PortfolioState, NEW other \in PortfolioState,
           SameToRisk(book, other), NEW mid \in Int
    PROVE  SameToRisk(UpdatePeaks(book, mid), UpdatePeaks(other, mid))
<1>1. Equity(book, mid) = Equity(other, mid)
  BY DEF SameToRisk, Equity
<1>2. QED
  BY <1>1, UpdatePeaksType DEF SameToRisk

LEMMA RollDaySameToRisk ==
    ASSUME NEW book \in PortfolioState, NEW other \in PortfolioState,
           SameToRisk(book, other), NEW mid \in Int, NEW new_day \in BOOLEAN
    PROVE  SameToRisk(RollDay(book, mid, new_day), RollDay(other, mid, new_day))
<1>1. Equity(book, mid) = Equity(other, mid)
  BY DEF SameToRisk, Equity
<1>2. QED
  BY <1>1, RollDayType DEF SameToRisk

LEMMA StartBarAlike ==
    ASSUME NEW run \in BarRun, NEW other \in BarRun, Alike(run, other),
           NEW mid \in Int, NEW new_day \in BOOLEAN
    PROVE  Alike(StartBar(run, mid, new_day), StartBar(other, mid, new_day))
<1>1. run.pf \in PortfolioState /\ other.pf \in PortfolioState
  BY DEF BarRun
<1>2. /\ RollDay(run.pf, mid, new_day) \in PortfolioState
      /\ RollDay(other.pf, mid, new_day) \in PortfolioState
      /\ SameToRisk(RollDay(run.pf, mid, new_day), RollDay(other.pf, mid, new_day))
  BY <1>1, RollDayType, RollDaySameToRisk DEF Alike
<1>3. SameToRisk(UpdatePeaks(RollDay(run.pf, mid, new_day), mid),
                 UpdatePeaks(RollDay(other.pf, mid, new_day), mid))
  BY <1>2, UpdatePeaksSameToRisk
<1>4. QED
  BY <1>3, StartBarIs DEF Alike

(***************************************************************************)
(* The session.                                                            *)
(***************************************************************************)
LEMMA SessionTyped ==
    ASSUME IndInv
    PROVE  /\ Running \in BarRun
           /\ pf \in PortfolioState /\ killed \in BOOLEAN
           /\ fills \in Seq(Fill) /\ equity \in Seq(Int)
           /\ mark \in Int /\ queue \in Seq(Order)
           /\ bar_count \in Nat /\ NBars \in Nat /\ bar_count <= NBars
<1>1. /\ pf \in PortfolioState /\ killed \in BOOLEAN
      /\ fills \in Seq(Fill) /\ equity \in Seq(Int)
      /\ mark \in Int /\ queue \in Seq(Order)
      /\ bar_count \in Nat /\ NBars \in Nat /\ bar_count <= NBars
  BY SessionAssumption DEF IndInv, SessionInv, SessionTypeOK
<1>2. QED
  BY <1>1 DEF Running, BarRun

\* Every step of the three runs is a step of the session or leaves it alone.
LEMMA ResearchStepIs ==
    ASSUME ResearchNext
    PROVE  \/ /\ UNCHANGED <<broker, processVars>>
              /\ \/ \E mid \in Prices, new_day \in BOOLEAN : AllOpenBar(mid, new_day)
                 \/ \E orders \in OrderLists : AllTakeOrders(orders)
                 \/ SessionGoesOn /\ UNCHANGED <<engine, segment, days>>
              /\ Step
           \/ /\ UNCHANGED vars
              /\ \E mid \in Prices, new_day \in BOOLEAN, orders \in OrderLists :
                    OthersTakeBar(mid, new_day, orders)
BY DEF ResearchNext, AllOpenBar, AllTakeOrders, SessionGoesOn, Step, LoopStep,
   OthersTakeBar

LEMMA SessionStays ==
    ASSUME LoopInv, EngineInv, SegmentInv, RunsTyped, UNCHANGED researchVars
    PROVE  LoopInv' /\ EngineInv' /\ SegmentInv' /\ RunsTyped'
<1>1. /\ UNCHANGED <<pc, bar_count, mark, pf, killed, kill_reason, delayed,
                     queue, adj, fills, equity, start_index, broker>>
      /\ UNCHANGED <<engine, segment, days>>
  BY DEF researchVars, vars, sessionVars, bookVars, riskVars, barVars, orderVars,
     processVars
<1>2. Running' = Running /\ Decision' = Decision
  BY <1>1 DEF Running, Decision
<1>3. LoopInv'
  BY <1>1, <1>2 DEF LoopInv
<1>4. EngineInv'
  <2>1. EngineLevel' = EngineLevel /\ EngineAhead' = EngineAhead /\ EngineDone' = EngineDone
    BY <1>1, <1>2 DEF EngineLevel, EngineAhead, EngineDone
  <2>2. QED
    BY <1>1, <2>1 DEF EngineInv
<1>5. SegmentInv' /\ RunsTyped'
  BY <1>1 DEF SegmentInv, RunsTyped
<1>6. QED
  BY <1>3, <1>4, <1>5

\* A verdict that kills arms the switch and gives its reason.
LEMMA RejectOrderLoop ==
    ASSUME IndInv, LoopInv, RejectOrder, UNCHANGED start_index
    PROVE  LoopInv'
<1>1. /\ pc = "orders" /\ pc' \in {"orders", "kill"}
      /\ UNCHANGED <<bar_count, equity, delayed>>
      /\ bar_count > 0
  BY DEF RejectOrder, barVars, IndInv, SessionInv, StageInv
<1>2. (kill_reason' # "none") => killed'
  BY DEF RejectOrder, KilledAfter, LoopInv
<1>3. QED
  BY <1>1, <1>2 DEF LoopInv, InBar

LEMMA SessionLoop ==
    ASSUME IndInv, LoopInv, UNCHANGED start_index,
           \/ \E mid \in Prices, new_day \in BOOLEAN : NextBar(mid, new_day)
           \/ \E orders \in OrderLists : OnBar(orders)
           \/ SessionGoesOn
    PROVE  LoopInv'
<1>1. /\ bar_count \in Nat /\ NBars \in Nat /\ bar_count <= NBars
      /\ start_index = 0
      /\ equity \in Seq(Int)
  BY SessionTyped DEF LoopInv
<1>2. CASE \E mid \in Prices, new_day \in BOOLEAN : NextBar(mid, new_day)
  BY <1>1, <1>2 DEF NextBar, LoopInv, InBar, riskVars
<1>3. CASE \E orders \in OrderLists : OnBar(orders)
  BY <1>1, <1>3 DEF OnBar, LoopInv, InBar, riskVars, barVars
<1>4. CASE Start(TRUE, ModeOf(broker))
  BY <1>1, <1>4 DEF Start, LoopInv, InBar, riskVars, barVars
<1>5. CASE PollFills(<<>>)
  BY <1>1, <1>5 DEF PollFills, LoopInv, InBar, riskVars
<1>6. CASE RejectOrder
  BY <1>6, RejectOrderLoop
<1>7. CASE RecordKill
  BY <1>1, <1>7 DEF RecordKill, LoopInv, InBar, riskVars, barVars
<1>8. CASE Approve
  <2>1. Decision' = Decision /\ queue' = queue
    BY <1>8 DEF Approve, Decision, bookVars, riskVars, barVars
  <2>2. QED
    BY <1>1, <1>8, <2>1 DEF Approve, LoopInv, InBar, riskVars, barVars
<1>9. CASE Submit
  BY <1>1, <1>9 DEF Submit, BrokerFills, BrokerRejects, Submitted, LoopInv,
     InBar, riskVars, barVars
<1>10. CASE EndBar
  <2>1. Equity(pf, mark) \in Int
    BY SessionTyped, EquityType
  <2>2. Len(equity') = Len(equity) + 1
    BY <1>1, <1>10, <2>1 DEF EndBar
  <2>3. QED
    BY <1>1, <1>10, <2>2
    DEF EndBar, StageAfterBar, LoopInv, InBar, riskVars, barVars, IndInv, SessionInv
<1>11. CASE FeedEnds
  BY <1>1, <1>11 DEF FeedEnds, BarsLeft, LoopInv, InBar, riskVars, barVars
<1>12. CASE Finish
  BY <1>1, <1>12 DEF Finish, StageAtEnd, LoopInv, InBar, riskVars, barVars
<1>13. CASE Terminated
  <2>1. Decision' = Decision /\ queue' = queue
    BY <1>13 DEF Terminated, Decision, sessionVars, bookVars, riskVars, barVars, orderVars
  <2>2. QED
    BY <1>1, <1>13, <2>1 DEF Terminated, Stopped, sessionVars, LoopInv, InBar, riskVars,
       barVars, orderVars
<1>14. QED
  BY <1>2, <1>3, <1>4, <1>5, <1>6, <1>7, <1>8, <1>9, <1>10, <1>11, <1>12, <1>13
  DEF SessionGoesOn

(***************************************************************************)
(* The engine and the session.                                             *)
(***************************************************************************)
LEMMA AlikeTransitive ==
    ASSUME NEW a, NEW b, NEW c, Alike(a, b), Alike(b, c)
    PROVE  Alike(a, c)
BY DEF Alike, SameToRisk

LEMMA AlikeSymmetric ==
    ASSUME NEW a, NEW b, Alike(a, b)
    PROVE  Alike(b, a)
BY DEF Alike, SameToRisk

\* The session at an order's end is alike to a run that took the order.
LEMMA OrderTakenAhead ==
    ASSUME NEW run \in BarRun, NEW next \in BarRun, NEW mid \in Int,
           NEW orders \in Seq(Order), orders # <<>>, NEW adv \in Nat \cup {NoAdv},
           Alike(next, TakeOrder(run, Head(orders), mid, adv)),
           NEW other, Alike(AfterOrders(run, mid, orders, adv), other)
    PROVE  Alike(AfterOrders(next, mid, Tail(orders), adv), other)
<1> DEFINE taken == TakeOrder(run, Head(orders), mid, adv)
<1>1. Head(orders) \in Order /\ Tail(orders) \in Seq(Order)
  OBVIOUS
<1>2. taken \in BarRun
  BY <1>1, TakeOrderType
<1> HIDE DEF taken
<1>3. Alike(AfterOrders(next, mid, Tail(orders), adv),
            AfterOrders(taken, mid, Tail(orders), adv))
  BY <1>1, <1>2, AfterOrdersAlike DEF taken
<1>4. AfterOrders(run, mid, orders, adv) = AfterOrders(taken, mid, Tail(orders), adv)
  BY FirstOrderFirst DEF taken
<1>5. Alike(AfterOrders(taken, mid, Tail(orders), adv), other)
  BY <1>4
<1>6. QED
  BY <1>3, <1>5, AlikeTransitive

LEMMA BarOpensLevel ==
    ASSUME IndInv, RunsTyped, EngineLevel, NEW mid \in Int, NEW new_day \in BOOLEAN,
           NextBar(mid, new_day), BarOpens(mid, new_day)
    PROVE  EngineLevel'
<1>1. Running \in BarRun /\ engine \in BarRun
  BY SessionTyped DEF RunsTyped
<1>2. Running' = StartBar(Running, mid, new_day)
  BY DEF NextBar, Running, StartBar, riskVars
<1>3. engine' = StartBar(engine, mid, new_day)
  BY DEF BarOpens
<1>4. Alike(Running', engine')
  BY <1>1, <1>2, <1>3, StartBarAlike DEF EngineLevel
<1>5. equity' = equity
  BY DEF NextBar
<1>6. engine'.equity = engine.equity
  BY <1>1, <1>3, StartBarIs
<1>7. QED
  BY <1>4, <1>5, <1>6 DEF EngineLevel

LEMMA OrdersPutAhead ==
    ASSUME IndInv, RunsTyped, EngineLevel, Adv = RawAdv, NEW orders \in Seq(Order),
           AllTakeOrders(orders)
    PROVE  EngineAhead'
<1>1. Running \in BarRun /\ engine \in BarRun /\ mark \in Int
  BY SessionTyped DEF RunsTyped
<1>2. PICK after : after = AfterOrders(engine, mark, orders, RawAdv)
  OBVIOUS
<1>3. /\ Running' = Running /\ queue' = orders /\ mark' = mark /\ Adv' = Adv
      /\ engine' = TradeBar(engine, mark, orders, RawAdv)
      /\ equity' = equity
  BY DEF AllTakeOrders, OnBar, Running, bookVars, riskVars, barVars, Adv
<1>4. Alike(AfterOrders(Running, mark, orders, RawAdv), after)
  BY <1>1, <1>2, RawAdvType, AfterOrdersAlike DEF EngineLevel
<1>5. /\ engine'.pf = after.pf
      /\ engine'.killed = after.killed
      /\ engine'.fills = after.fills
      /\ engine'.equity = Append(engine.equity, Equity(after.pf, mark))
  BY <1>1, <1>2, <1>3, RawAdvType, TradeBarIs DEF AfterOrders
<1>6. Alike(after, engine')
  BY <1>5, Zenon DEF Alike, SameToRisk
<1>7. Alike(AfterOrders(Running, mark, orders, RawAdv), engine')
  BY <1>4, <1>6, AlikeTransitive
<1>8. Alike(AfterOrders(Running', mark', queue', Adv'), engine')
  BY <1>3, <1>7
<1>9. engine'.equity = Append(equity', Equity(engine'.pf, mark'))
  BY <1>3, <1>5 DEF EngineLevel
<1>10. QED
  BY <1>8, <1>9 DEF EngineAhead

\* Refused, in the session and in the engine.
LEMMA RejectOrderAhead ==
    ASSUME IndInv, SessionInv', EngineAhead, RejectOrder, UNCHANGED engine
    PROVE  EngineAhead'
<1>1. /\ Running \in BarRun /\ mark \in Int /\ queue \in Seq(Order)
      /\ pf \in PortfolioState /\ killed \in BOOLEAN
  BY SessionTyped
<1>2. Running' \in BarRun
  BY DEF SessionInv, SessionTypeOK, Running, BarRun
<1>3. /\ queue # <<>> /\ ~Ok(Decision)
      /\ killed' = KilledAfter(killed, Decision)
      /\ queue' = Tail(queue)
      /\ pf' = pf \/ pf' = [pf EXCEPT !.kills = @ + 1]
      /\ UNCHANGED <<fills, mark, equity>>
      /\ Adv' = Adv
  BY DEF RejectOrder, barVars, Adv
<1>4. PICK order \in Order : order = Head(queue)
  BY <1>1, <1>3
<1>5. Decision = Check(Running.killed, order, Running.pf, mark, 0)
  BY <1>4 DEF Decision, Running
<1>6. PICK taken : taken = TakeOrder(Running, order, mark, Adv)
  OBVIOUS
<1>7. taken = [Running EXCEPT !.killed = Running.killed \/ Decision.verdict = "KILL"]
  BY <1>1, <1>3, <1>4, <1>5, <1>6, AdvType, TakeOrderIs
<1>8. /\ taken.pf = pf
      /\ taken.fills = fills
      /\ taken.killed <=> (killed \/ Decision.verdict = "KILL")
  BY <1>7 DEF Running
<1>9. Alike(Running', taken)
  <2>1. SameToRisk(pf', pf)
    BY <1>1, <1>3 DEF SameToRisk, PortfolioState
  <2>2. killed' = taken.killed
    <3>1. taken \in BarRun
      BY <1>1, <1>4, <1>6, AdvType, TakeOrderType
    <3>2. taken.killed \in BOOLEAN
      BY <3>1 DEF BarRun
    <3>3. QED
      BY <1>3, <1>8, <3>2 DEF KilledAfter
  <2>3. QED
    BY <1>3, <1>8, <2>1, <2>2 DEF Alike, Running
<1>10. Alike(AfterOrders(Running', mark, Tail(queue), Adv), engine)
  BY <1>1, <1>2, <1>3, <1>4, <1>6, <1>9, AdvType, OrderTakenAhead DEF EngineAhead
<1>11. QED
  BY <1>3, <1>10 DEF EngineAhead

\* Filled at once, by the paper broker and by the engine, at the same price.
LEMMA SubmitAhead ==
    ASSUME IndInv, SessionInv', LoopInv, EngineAhead, broker = "paper", Submit,
           UNCHANGED engine
    PROVE  EngineAhead'
<1>1. /\ Running \in BarRun /\ mark \in Int /\ queue \in Seq(Order)
      /\ fills \in Seq(Fill)
  BY SessionTyped
<1>2. Running' \in BarRun
  BY DEF SessionInv, SessionTypeOK, Running, BarRun
<1>3. BrokerFills(PaperFill)
  BY DEF Submit, FillsAtOnce
<1>4. /\ queue # <<>> /\ Ok(Decision) /\ adj = Adjusted(Head(queue), Decision)
      /\ pf' = ApplyFill(pf, PaperFill) /\ fills' = Append(fills, PaperFill)
      /\ queue' = Tail(queue)
      /\ UNCHANGED <<killed, mark, equity>>
      /\ Adv' = Adv
  BY <1>3 DEF BrokerFills, BookFill, Submitted, LoopInv, IndInv, SessionInv,
     StageInv, riskVars, barVars, Adv
<1>5. PICK order \in Order : order = Head(queue)
  BY <1>1, <1>4
<1>6. Decision = Check(Running.killed, order, Running.pf, mark, 0)
  BY <1>5 DEF Decision, Running
<1>7. PICK fill : fill = PaperFill
  OBVIOUS
<1>8. fill = Execute(Adjusted(order, Decision), mark, Adv)
  BY <1>4, <1>5, <1>7 DEF PaperFill
<1>9. PICK taken : taken = TakeOrder(Running, order, mark, Adv)
  OBVIOUS
<1>10. fill \in Fill /\ taken = FillOrder(Running, fill)
  BY <1>1, <1>4, <1>5, <1>6, <1>8, <1>9, AdvType, TakeOrderIs
<1>11. /\ taken.pf = ApplyFill(Running.pf, fill)
       /\ taken.fills = Append(Running.fills, fill)
       /\ taken.killed = Running.killed
  BY <1>1, <1>10, FillOrderType
<1>12. Alike(Running', taken)
  BY <1>4, <1>7, <1>11 DEF Alike, SameToRisk, Running
<1>13. Alike(AfterOrders(Running', mark, Tail(queue), Adv), engine)
  BY <1>1, <1>2, <1>4, <1>5, <1>9, <1>12, AdvType, OrderTakenAhead DEF EngineAhead
<1>14. QED
  BY <1>4, <1>13 DEF EngineAhead

\* With no order left the session is where the engine has been waiting.
LEMMA EndBarLevel ==
    ASSUME IndInv, EngineAhead, EndBar, UNCHANGED engine
    PROVE  EngineLevel'
<1>1. Running \in BarRun /\ mark \in Int /\ queue = <<>>
  BY SessionTyped DEF EndBar
<1>2. AfterOrders(Running, mark, queue, Adv) = Running
  <2>1. <<>> \in Seq(Order)
    OBVIOUS
  <2>2. QED
    BY <1>1, <2>1, AdvType, AfterOrdersType
<1>3. Alike(Running, engine) /\ engine.equity = Append(equity, Equity(engine.pf, mark))
  BY <1>2 DEF EngineAhead
<1>4. Equity(engine.pf, mark) = Equity(pf, mark)
  BY <1>3 DEF Alike, SameToRisk, Equity, Running
<1>5. Alike(Running', engine')
  BY <1>3 DEF EndBar, Alike, Running, bookVars, riskVars
<1>6. QED
  BY <1>3, <1>4, <1>5 DEF EngineLevel, EndBar

\* Nothing the two have in common changes.
LEMMA LevelStays ==
    ASSUME EngineLevel, UNCHANGED <<pf, killed, fills, equity, engine>>
    PROVE  EngineLevel'
BY DEF EngineLevel, Running

LEMMA AheadStays ==
    ASSUME EngineAhead,
           UNCHANGED <<pf, killed, fills, equity, engine, mark, queue>>
    PROVE  EngineAhead'
BY DEF EngineAhead, Running, Adv

\* Once the session is over the other two go on only after a kill, and then
\* the engine trades nothing more.
LEMMA FinishDone ==
    ASSUME IndInv, EngineLevel, UNCHANGED <<pf, killed, fills, equity, engine>>
    PROVE  EngineDone'
<1>1. IsPrefix(equity, equity)
  BY SessionTyped, PrefixTrivial
<1>2. EngineDone
  BY <1>1 DEF EngineLevel, EngineDone, SameResult, Alike, SameToRisk, Running
<1>3. QED
  BY <1>2 DEF EngineDone, SameResult, Running

LEMMA DoneStays ==
    ASSUME EngineDone, UNCHANGED <<pf, killed, fills, equity, engine>>
    PROVE  EngineDone'
BY DEF EngineDone, SameResult, Running

LEMMA OthersTrade ==
    ASSUME IndInv, RunsTyped, LoopInv, EngineDone,
           NEW mid \in Int, NEW new_day \in BOOLEAN, NEW orders \in Seq(Order),
           OthersTakeBar(mid, new_day, orders)
    PROVE  EngineDone'
<1>1. /\ engine \in BarRun /\ equity \in Seq(Int) /\ fills \in Seq(Fill)
      /\ bar_count \in Nat /\ NBars \in Nat /\ killed \in BOOLEAN
  BY SessionTyped DEF RunsTyped
<1>2. /\ pc = "done" /\ BarsTaken < NBars
      /\ engine' = TradeBar(StartBar(engine, mid, new_day), mid, orders, RawAdv)
      /\ UNCHANGED <<pf, killed, fills, equity>>
  BY DEF OthersTakeBar, vars, sessionVars, bookVars, riskVars
<1>3. killed
  <2> SUFFICES ASSUME ~killed
               PROVE  FALSE
    OBVIOUS
  <2>1. bar_count = NBars /\ Len(equity) = bar_count + 1
    BY <1>2 DEF LoopInv, InBar
  <2>2. engine.equity = equity
    BY DEF EngineDone
  <2>3. QED
    BY <1>1, <1>2, <2>1, <2>2 DEF BarsTaken
<1>4. PICK opened : opened = StartBar(engine, mid, new_day)
  OBVIOUS
<1>5. /\ opened \in BarRun
      /\ opened.killed = engine.killed
      /\ opened.fills = engine.fills
      /\ opened.equity = engine.equity
      /\ opened.pf.cash = engine.pf.cash
      /\ opened.pf.pos = engine.pf.pos
  BY <1>1, <1>4, StartBarIs
<1>6. engine.killed = killed
  BY DEF EngineDone, SameResult, Running
<1>7. engine' = TradeBar(opened, mid, orders, RawAdv)
  BY <1>2, <1>4
<1>8. engine'.killed /\ engine'.fills = opened.fills /\ engine'.pf = opened.pf
  BY <1>3, <1>5, <1>6, <1>7, RawAdvType, KilledRunStops
<1>9. PICK after : after = Trading(opened, mid, orders, RawAdv)[Len(orders)]
  OBVIOUS
<1>10. /\ after \in BarRun /\ engine' \in BarRun
       /\ engine'.equity = Append(opened.equity, Equity(after.pf, mid))
  <2>1. /\ after \in BarRun /\ TradeBar(opened, mid, orders, RawAdv) \in BarRun
        /\ TradeBar(opened, mid, orders, RawAdv).equity
             = Append(opened.equity, Equity(after.pf, mid))
    BY <1>5, <1>9, RawAdvType, TradeBarIs
  <2>2. QED
    BY <1>7, <2>1
<1>11. Equity(after.pf, mid) \in Int
  BY <1>10, EquityType DEF BarRun
<1>12. PICK point \in Int : point = Equity(after.pf, mid)
  BY <1>11
<1>13. IsPrefix(equity, engine'.equity)
  <2>1. engine.equity \in Seq(Int) /\ IsPrefix(equity, engine.equity)
    BY <1>1 DEF BarRun, EngineDone
  <2>2. IsPrefix(equity, Append(engine.equity, point))
    BY <1>1, <1>12, <2>1, PrefixLonger
  <2>3. QED
    BY <1>5, <1>10, <1>12, <2>2
<1>14. engine'.killed = killed
  <2>1. engine'.killed \in BOOLEAN
    BY <1>10 DEF BarRun
  <2>2. QED
    BY <1>1, <1>3, <1>8, <2>1
<1>15. SameResult(engine', Running')
  BY <1>2, <1>5, <1>8, <1>14 DEF SameResult, Running, EngineDone
<1>16. QED
  BY <1>2, <1>3, <1>13, <1>15 DEF EngineDone

LEMMA SessionEngine ==
    ASSUME IndInv, SessionInv', RunsTyped, LoopInv, EngineInv,
           UNCHANGED <<broker, engine>>, SessionGoesOn
    PROVE  EngineInv'
<1> SUFFICES ASSUME broker = "paper", BarVolume > 0
             PROVE  /\ pc' \in {"start", "feed", "poll", "delayed", "finally"} => EngineLevel'
                    /\ pc' \in {"orders", "kill", "submit"} => EngineAhead'
                    /\ pc' = "done" => EngineDone'
  BY DEF EngineInv
<1>1. /\ pc \in {"start", "feed", "poll", "delayed", "finally"} => EngineLevel
      /\ pc \in {"orders", "kill", "submit"} => EngineAhead
      /\ pc = "done" => EngineDone
  BY DEF EngineInv
<1>2. CASE Start(TRUE, ModeOf(broker))
  BY <1>1, <1>2, LevelStays DEF Start, bookVars, riskVars
<1>3. CASE PollFills(<<>>)
  BY <1>1, <1>3, LevelStays DEF PollFills, bookVars, riskVars
<1>4. CASE RejectOrder
  BY <1>1, <1>4, RejectOrderAhead DEF RejectOrder
<1>5. CASE RecordKill
  BY <1>1, <1>5, AheadStays DEF RecordKill, bookVars, riskVars, barVars, orderVars
<1>6. CASE Approve
  BY <1>1, <1>6, AheadStays DEF Approve, bookVars, riskVars, barVars
<1>7. CASE Submit
  <2>1. pc = "submit" /\ pc' = "orders"
    BY <1>7 DEF Submit, BrokerFills, BrokerRejects, Submitted
  <2>2. QED
    BY <1>1, <1>7, <2>1, SubmitAhead
<1>8. CASE EndBar
  <2>1. pc = "orders" /\ pc' \in {"feed", "finally"}
    BY <1>8 DEF EndBar, StageAfterBar
  <2>2. QED
    BY <1>1, <1>8, <2>1, EndBarLevel
<1>9. CASE FeedEnds
  BY <1>1, <1>9, LevelStays DEF FeedEnds, bookVars, riskVars
<1>10. CASE Finish
  <2>1. pc = "finally" /\ pc' = "done"
    BY <1>10 DEF Finish, StageAtEnd, LoopInv, InBar
  <2>2. UNCHANGED <<pf, killed, fills, equity>>
    BY <1>10 DEF Finish, bookVars, riskVars
  <2>3. QED
    BY <1>1, <2>1, <2>2, FinishDone
<1>11. CASE Terminated
  <2>1. pc = "done" /\ pc' = "done"
    BY <1>11 DEF Terminated, Stopped, sessionVars, LoopInv, InBar
  <2>2. UNCHANGED <<pf, killed, fills, equity>>
    BY <1>11 DEF Terminated, sessionVars, bookVars, riskVars
  <2>3. QED
    BY <1>1, <2>1, <2>2, DoneStays
<1>12. QED
  BY <1>2, <1>3, <1>4, <1>5, <1>6, <1>7, <1>8, <1>9, <1>10, <1>11 DEF SessionGoesOn

(***************************************************************************)
(* The segment and the engine.                                             *)
(***************************************************************************)
\* The roll of the first date finds the reference where it is.
LEMMA FirstRoll ==
    ASSUME NEW run \in BarRun, Untouched(run, StartingCash), NEW mid \in Int,
           NEW new_day \in BOOLEAN
    PROVE  SameToRisk(RollDay(run.pf, mid, new_day), run.pf)
<1>1. StartingCash \in Int /\ run.pf \in PortfolioState
  BY SessionAssumption DEF BarRun
<1>2. Equity(run.pf, mid) = StartingCash
  BY <1>1, UntouchedEquity
<1>3. QED
  BY <1>1, <1>2, RollDayType DEF SameToRisk, Untouched

LEMMA BarOpensAlike ==
    ASSUME RunsTyped, SegmentInv, NEW mid \in Int, NEW new_day \in BOOLEAN,
           days + (IF new_day THEN 1 ELSE 0) <= 1
    PROVE  /\ Alike(StartSegmentBar(segment, mid), StartBar(engine, mid, new_day))
           /\ StartSegmentBar(segment, mid).equity = StartBar(engine, mid, new_day).equity
<1>1. /\ engine \in BarRun /\ segment \in BarRun
      /\ engine.pf \in PortfolioState /\ segment.pf \in PortfolioState
      /\ days \in Nat /\ days <= 1
  BY DEF RunsTyped, BarRun
<1>2. Alike(segment, engine) /\ segment.equity = engine.equity
  BY <1>1 DEF SegmentInv
<1>3. PICK rolled \in PortfolioState : rolled = RollDay(engine.pf, mid, new_day)
  BY <1>1, RollDayType
<1>4. SameToRisk(segment.pf, rolled)
  <2>1. CASE new_day
    <3>1. days = 0
      BY <1>1, <2>1
    <3>2. SameToRisk(rolled, engine.pf)
      BY <1>1, <1>3, <3>1, FirstRoll DEF SegmentInv
    <3>3. QED
      BY <1>2, <3>2 DEF Alike, SameToRisk
  <2>2. CASE ~new_day
    BY <1>2, <1>3, <2>2 DEF RollDay, Alike
  <2>3. QED
    BY <2>1, <2>2
<1>5. SameToRisk(UpdatePeaks(segment.pf, mid), UpdatePeaks(rolled, mid))
  BY <1>1, <1>3, <1>4, UpdatePeaksSameToRisk
<1>6. QED
  BY <1>1, <1>2, <1>3, <1>5, StartBarIs, StartSegmentBarIs DEF Alike

LEMMA OpenSegment ==
    ASSUME RunsTyped, SegmentInv, NEW mid \in Int, NEW new_day \in BOOLEAN,
           NextBar(mid, new_day), BarOpens(mid, new_day)
    PROVE  SegmentInv'
<1>1. /\ days \in Nat /\ days' = days + (IF new_day THEN 1 ELSE 0)
      /\ engine' = StartBar(engine, mid, new_day)
      /\ segment' = StartSegmentBar(segment, mid)
  BY DEF BarOpens, RunsTyped
<1>2. days' # 0
  BY <1>1 DEF NextBar, SegmentInv
<1>3. QED
  BY <1>1, <1>2, BarOpensAlike DEF SegmentInv

LEMMA TradeSegment ==
    ASSUME IndInv, RunsTyped, SegmentInv, NEW orders \in Seq(Order),
           AllTakeOrders(orders)
    PROVE  SegmentInv'
<1>1. mark \in Int /\ engine \in BarRun /\ segment \in BarRun /\ days \in Nat
  BY SessionTyped DEF RunsTyped
<1>2. /\ engine' = TradeBar(engine, mark, orders, RawAdv)
      /\ segment' = TradeBar(segment, mark, orders, RawAdv)
      /\ days' = days
      /\ bar_count > 0
  BY DEF AllTakeOrders, OnBar, IndInv, SessionInv, StageInv
<1>3. days # 0
  BY <1>2, SessionTyped DEF SegmentInv
<1>4. ASSUME days <= 1
      PROVE  Alike(segment', engine') /\ segment'.equity = engine'.equity
  <2>1. Alike(segment, engine) /\ segment.equity = engine.equity
    BY <1>4 DEF SegmentInv
  <2>2. QED
    BY <1>1, <1>2, <2>1, RawAdvType, TradeBarAlike
<1>5. QED
  BY <1>2, <1>3, <1>4 DEF SegmentInv

\* A session that is over has begun a date, or there was no bar at all.
LEMMA OthersSegment ==
    ASSUME IndInv, RunsTyped, LoopInv, SegmentInv,
           NEW mid \in Int, NEW new_day \in BOOLEAN, NEW orders \in Seq(Order),
           OthersTakeBar(mid, new_day, orders)
    PROVE  SegmentInv'
<1>1. /\ engine \in BarRun /\ segment \in BarRun /\ days \in Nat
      /\ bar_count \in Nat /\ NBars \in Nat
  BY SessionTyped DEF RunsTyped
<1>2. days # 0
  <2> SUFFICES ASSUME days = 0
               PROVE  FALSE
    OBVIOUS
  <2>1. bar_count = 0 /\ Len(engine.equity) = 1
    BY DEF SegmentInv
  <2>2. pc = "done" /\ NBars > 0
    BY <1>1, <2>1 DEF OthersTakeBar, BarsTaken
  <2>3. QED
    BY <1>1, <2>1, <2>2 DEF LoopInv
<1>3. PICK opened : opened = StartBar(engine, mid, new_day)
  OBVIOUS
<1>4. PICK begun : begun = StartSegmentBar(segment, mid)
  OBVIOUS
<1>5. /\ engine' = TradeBar(opened, mid, orders, RawAdv)
      /\ segment' = TradeBar(begun, mid, orders, RawAdv)
      /\ days' = days + (IF new_day THEN 1 ELSE 0)
  BY <1>3, <1>4 DEF OthersTakeBar
<1>6. opened \in BarRun /\ begun \in BarRun
  BY <1>1, <1>3, <1>4, StartBarIs, StartSegmentBarIs
<1>7. ASSUME days' <= 1
      PROVE  Alike(segment', engine') /\ segment'.equity = engine'.equity
  <2>1. Alike(begun, opened) /\ begun.equity = opened.equity
    BY <1>3, <1>4, <1>5, <1>7, BarOpensAlike
  <2>2. QED
    BY <1>5, <1>6, <2>1, RawAdvType, TradeBarAlike
<1>8. days' # 0
  BY <1>1, <1>2, <1>5
<1>9. QED
  BY <1>7, <1>8 DEF SegmentInv

(***************************************************************************)
(* The three runs together.                                                *)
(***************************************************************************)
LEMMA ResearchStarts == ResearchInit => ResearchInv
<1> SUFFICES ASSUME ResearchInit
             PROVE  ResearchInv
  OBVIOUS
<1>1. IndInv
  BY InitInv DEF ResearchInit
<1>2. StartingCash \in Int
  BY SessionAssumption
<1>3. RunsTyped
  BY <1>2, FreshRunType DEF ResearchInit, RunsTyped
<1>4. LoopInv
  BY DEF ResearchInit, Init, SessionInit, LoopInv, InBar
<1>5. /\ Alike(Running, engine) /\ engine.equity = equity
      /\ pc = "start"
  BY DEF ResearchInit, Init, SessionInit, Running, FreshRun, Alike, SameToRisk
<1>6. EngineInv
  BY <1>5 DEF EngineInv, EngineLevel
<1>7. SegmentInv
  BY <1>2 DEF ResearchInit, Init, SessionInit, SegmentInv, FreshRun, FreshBook,
     FlatPosition, Untouched, Alike, SameToRisk
<1>8. QED
  BY <1>1, <1>3, <1>4, <1>6, <1>7 DEF ResearchInv

LEMMA OpenKeeps ==
    ASSUME ResearchInv, SessionInv', NEW mid \in Prices, NEW new_day \in BOOLEAN,
           AllOpenBar(mid, new_day), UNCHANGED <<broker, processVars>>
    PROVE  RunsTyped' /\ LoopInv' /\ EngineInv' /\ SegmentInv'
<1> USE DEF ResearchInv
<1>1. mid \in Int
  BY SessionAssumption
<1>2. NextBar(mid, new_day) /\ BarOpens(mid, new_day) /\ UNCHANGED start_index
  BY DEF AllOpenBar, processVars
<1>3. RunsTyped'
  BY <1>1, <1>2, StartBarIs, StartSegmentBarIs DEF BarOpens, RunsTyped
<1>4. LoopInv'
  BY <1>2, SessionLoop
<1>5. EngineInv'
  <2>1. pc = "feed" /\ pc' = "poll" /\ broker' = broker
    BY <1>2 DEF NextBar
  <2>2. EngineLevel => EngineLevel'
    BY <1>1, <1>2, BarOpensLevel
  <2>3. QED
    BY <2>1, <2>2 DEF EngineInv
<1>6. SegmentInv'
  BY <1>1, <1>2, OpenSegment
<1>7. QED
  BY <1>3, <1>4, <1>5, <1>6

LEMMA OrdersKeep ==
    ASSUME ResearchInv, SessionInv', NEW orders \in OrderLists,
           AllTakeOrders(orders), UNCHANGED <<broker, processVars>>
    PROVE  RunsTyped' /\ LoopInv' /\ EngineInv' /\ SegmentInv'
<1> USE DEF ResearchInv
<1>1. orders \in Seq(Order)
  BY SessionAssumption
<1>2. OnBar(orders) /\ UNCHANGED start_index
  BY DEF AllTakeOrders, processVars
<1>3. RunsTyped'
  <2>1. mark \in Int
    BY SessionTyped
  <2>2. \A run \in BarRun : TradeBar(run, mark, orders, RawAdv) \in BarRun
    BY <1>1, <2>1, RawAdvType, TradeBarIs
  <2>3. QED
    BY <2>2 DEF AllTakeOrders, RunsTyped
<1>4. LoopInv'
  BY <1>2, SessionLoop
<1>5. EngineInv'
  <2>1. pc = "delayed" /\ pc' = "orders" /\ broker' = broker
    BY <1>2 DEF OnBar
  <2>2. BarVolume > 0 => Adv = RawAdv
    BY DEF Adv, RawAdv
  <2>3. BarVolume > 0 /\ EngineLevel => EngineAhead'
    BY <1>1, <2>2, OrdersPutAhead
  <2>4. QED
    BY <2>1, <2>3 DEF EngineInv
<1>6. SegmentInv'
  BY <1>1, TradeSegment
<1>7. QED
  BY <1>3, <1>4, <1>5, <1>6

LEMMA OthersKeep ==
    ASSUME ResearchInv, NEW mid \in Prices, NEW new_day \in BOOLEAN,
           NEW orders \in OrderLists, OthersTakeBar(mid, new_day, orders)
    PROVE  RunsTyped' /\ LoopInv' /\ EngineInv' /\ SegmentInv'
<1> USE DEF ResearchInv
<1>1. orders \in Seq(Order) /\ mid \in Int
  BY SessionAssumption
<1>2. UNCHANGED <<pc, bar_count, mark, pf, killed, kill_reason, delayed, queue,
                  adj, fills, equity, start_index, broker>>
  BY DEF OthersTakeBar, vars, sessionVars, bookVars, riskVars, barVars, orderVars,
     processVars
<1>3. RunsTyped'
  <2>1. \A run \in BarRun : TradeBar(run, mid, orders, RawAdv) \in BarRun
    BY <1>1, RawAdvType, TradeBarIs
  <2>2. /\ StartBar(engine, mid, new_day) \in BarRun
        /\ StartSegmentBar(segment, mid) \in BarRun
    BY <1>1, StartBarIs, StartSegmentBarIs DEF RunsTyped
  <2>3. days' \in Nat
    BY DEF OthersTakeBar, RunsTyped
  <2>4. QED
    BY <2>1, <2>2, <2>3 DEF OthersTakeBar, RunsTyped
<1>4. LoopInv'
  BY <1>2 DEF LoopInv, Decision
<1>5. EngineInv'
  <2>1. pc = "done"
    BY DEF OthersTakeBar
  <2>2. EngineDone => EngineDone'
    BY <1>1, OthersTrade
  <2>3. QED
    BY <1>2, <2>1, <2>2 DEF EngineInv
<1>6. SegmentInv'
  BY <1>1, OthersSegment
<1>7. QED
  BY <1>3, <1>4, <1>5, <1>6

LEMMA GoesOnKeeps ==
    ASSUME ResearchInv, SessionInv', SessionGoesOn,
           UNCHANGED <<engine, segment, days>>, UNCHANGED <<broker, processVars>>
    PROVE  RunsTyped' /\ LoopInv' /\ EngineInv' /\ SegmentInv'
<1> USE DEF ResearchInv
<1>1. RunsTyped'
  BY DEF RunsTyped
<1>2. UNCHANGED start_index
  BY DEF processVars
<1>3. LoopInv'
  BY <1>2, SessionLoop
<1>4. EngineInv'
  BY SessionEngine
<1>5. SegmentInv'
  <2>1. bar_count' = bar_count
    BY DEF SessionGoesOn, Start, PollFills, RejectOrder, RecordKill, Approve, Submit,
       BrokerFills, BrokerRejects, Submitted, EndBar, FeedEnds, Finish, Terminated,
       sessionVars, barVars
  <2>2. QED
    BY <2>1 DEF SegmentInv
<1>6. QED
  BY <1>1, <1>3, <1>4, <1>5

LEMMA ResearchKeeps == ResearchInv /\ [ResearchNext]_researchVars => ResearchInv'
<1> SUFFICES ASSUME ResearchInv, [ResearchNext]_researchVars
             PROVE  ResearchInv'
  OBVIOUS
<1>1. [Next]_vars
  BY ResearchStepIs DEF Next, researchVars
<1>2. IndInv' /\ SessionInv'
  BY <1>1, NextInv DEF ResearchInv, IndInv
<1>3. CASE UNCHANGED researchVars
  BY <1>2, <1>3, SessionStays DEF ResearchInv
<1>4. CASE ResearchNext
  BY <1>2, <1>4, ResearchStepIs, OpenKeeps, OrdersKeep, OthersKeep, GoesOnKeeps
  DEF ResearchInv
<1>5. QED
  BY <1>3, <1>4

\* At every step the engine is where the session will be once its queue is
\* taken, and within one date the segment is where the engine is.
THEOREM ResearchInvariance == ResearchSpec => []ResearchInv
BY ResearchStarts, ResearchKeeps, PTL DEF ResearchSpec

\* A result of the engine is one a paper session of the same strategy reaches:
\* between two bars the two have the same fills, book and equity, for every
\* configuration, strategy and frame whose bars have a volume.
THEOREM EngineCorrect == ResearchSpec => []EngineTradesLikeSession
<1>1. ResearchInv => EngineTradesLikeSession
  <2> SUFFICES ASSUME ResearchInv, broker = "paper", BarVolume > 0, BetweenBars
               PROVE  /\ SameResult(engine, Running)
                      /\ IsPrefix(equity, engine.equity)
    BY DEF EngineTradesLikeSession, SameResult, Running
  <2>1. pc \in {"feed", "finally", "done"}
    BY DEF BetweenBars, Stopped, ResearchInv, LoopInv, InBar
  <2>2. CASE pc = "done"
    BY <2>2 DEF ResearchInv, EngineInv, EngineDone
  <2>3. CASE pc \in {"feed", "finally"}
    <3>1. EngineLevel
      BY <2>3 DEF ResearchInv, EngineInv
    <3>2. IsPrefix(equity, equity)
      BY SessionTyped, PrefixTrivial DEF ResearchInv
    <3>3. QED
      BY <3>1, <3>2 DEF EngineLevel, Alike, SameToRisk, SameResult
  <2>4. QED
    BY <2>1, <2>2, <2>3
<1>2. QED
  BY <1>1, ResearchInvariance, PTL

\* As long as the frame has not reached a second date, the harness, which has no
\* day roll, trades exactly like the engine.
THEOREM SegmentCorrect == ResearchSpec => []SegmentAgreesWithinDay
<1>1. ResearchInv => SegmentAgreesWithinDay
  BY DEF ResearchInv, SegmentInv, SegmentAgreesWithinDay, SegmentTradesLikeEngine,
     Alike
<1>2. QED
  BY <1>1, ResearchInvariance, PTL

\* After its first KILL verdict the engine fills nothing for the rest of the
\* frame, over every number of dates.
THEOREM EngineKillFinality == ResearchSpec => KillHaltsEngine
<1>1. ResearchInv /\ [ResearchNext]_researchVars =>
        [engine.killed => engine'.killed /\ engine'.fills = engine.fills]_researchVars
  <2> SUFFICES ASSUME ResearchInv, ResearchNext, engine.killed
               PROVE  engine'.killed /\ engine'.fills = engine.fills
    OBVIOUS
  <2>1. engine \in BarRun /\ mark \in Int
    BY SessionTyped DEF ResearchInv, RunsTyped
  <2>2. ASSUME NEW run \in BarRun, run.killed, NEW mid \in Int, NEW orders \in OrderLists
        PROVE  /\ TradeBar(run, mid, orders, RawAdv).killed
               /\ TradeBar(run, mid, orders, RawAdv).fills = run.fills
    <3>1. orders \in Seq(Order)
      BY SessionAssumption
    <3>2. QED
      BY <2>2, <3>1, RawAdvType, KilledRunStops
  <2>3. ASSUME NEW mid \in Prices, NEW new_day \in BOOLEAN
        PROVE  /\ mid \in Int
               /\ StartBar(engine, mid, new_day) \in BarRun
               /\ StartBar(engine, mid, new_day).killed
               /\ StartBar(engine, mid, new_day).fills = engine.fills
    BY <2>1, SessionAssumption, StartBarIs
  <2>4. CASE \E mid \in Prices, new_day \in BOOLEAN : AllOpenBar(mid, new_day)
    BY <2>3, <2>4 DEF AllOpenBar, BarOpens
  <2>5. CASE \E orders \in OrderLists : AllTakeOrders(orders)
    BY <2>1, <2>2, <2>5 DEF AllTakeOrders
  <2>6. CASE \E mid \in Prices, new_day \in BOOLEAN, orders \in OrderLists :
                OthersTakeBar(mid, new_day, orders)
    BY <2>2, <2>3, <2>6 DEF OthersTakeBar
  <2>7. QED
    BY <2>4, <2>5, <2>6, ResearchStepIs
<1>2. QED
  BY <1>1, ResearchInvariance, PTL DEF ResearchSpec, KillHaltsEngine
==============================================================================
