------------------------------ MODULE Research -------------------------------
(***************************************************************************)
(* One strategy over one frame on its three ways to a result: a paper      *)
(* session, PaperEngine, and a segment of the harness that trades the      *)
(* whole frame (run with walk_forward=False).  Each has its own book and   *)
(* RiskEngine; the three take the bars and the orders in step.             *)
(*                                                                         *)
(* A session leaves its loop at the end of the bar that killed it, and the *)
(* other two go on to the end of the frame.  The strategy answers the same *)
(* orders on all three: it is asked about the same bar, and the properties *)
(* compare the runs up to the first difference of their books.             *)
(***************************************************************************)
EXTENDS PaperSession, BarLoop

VARIABLES engine,    \* PaperEngine's run
          segment,   \* the harness's run
          days       \* dates begun so far

researchVars == <<vars, engine, segment, days>>

\* `float(row["volume"])`: a volume of zero is not replaced.
RawAdv == BarVolume

BarsTaken == Len(engine.equity) - 1

(***************************************************************************)
(* The steps.                                                              *)
(***************************************************************************)
BarOpens(mid, new_day) ==
    /\ engine' = StartBar(engine, mid, new_day)
    /\ segment' = StartSegmentBar(segment, mid)
    /\ days' = days + (IF new_day THEN 1 ELSE 0)

AllOpenBar(mid, new_day) == NextBar(mid, new_day) /\ BarOpens(mid, new_day)

AllTakeOrders(orders) ==
    /\ OnBar(orders)
    /\ engine' = TradeBar(engine, mark, orders, RawAdv)
    /\ segment' = TradeBar(segment, mark, orders, RawAdv)
    /\ UNCHANGED days

SessionGoesOn ==
    \/ Start(TRUE, ModeOf(broker))
    \/ PollFills(<<>>)
    \/ RejectOrder
    \/ RecordKill
    \/ Approve
    \/ Submit
    \/ EndBar
    \/ FeedEnds
    \/ Finish
    \/ Terminated

\* The bars a killed session no longer takes.
OthersTakeBar(mid, new_day, orders) ==
    /\ pc = "done"
    /\ BarsTaken < NBars
    /\ engine' = TradeBar(StartBar(engine, mid, new_day), mid, orders, RawAdv)
    /\ segment' = TradeBar(StartSegmentBar(segment, mid), mid, orders, RawAdv)
    /\ days' = days + (IF new_day THEN 1 ELSE 0)
    /\ UNCHANGED vars

ResearchInit ==
    /\ Init
    /\ engine = FreshRun(StartingCash)
    /\ segment = FreshRun(StartingCash)
    /\ days = 0

ResearchNext ==
    \/ /\ \/ \E mid \in Prices, new_day \in BOOLEAN : AllOpenBar(mid, new_day)
          \/ \E orders \in OrderLists : AllTakeOrders(orders)
          \/ SessionGoesOn /\ UNCHANGED <<engine, segment, days>>
       /\ UNCHANGED <<broker, processVars>>
    \/ \E mid \in Prices, new_day \in BOOLEAN, orders \in OrderLists :
          OthersTakeBar(mid, new_day, orders)

ResearchSpec == ResearchInit /\ [][ResearchNext]_researchVars

(***************************************************************************)
(* What the three have in common.                                          *)
(***************************************************************************)
BetweenBars == pc \in {"feed", "finally"} \cup Stopped

\* A paper session and the engine trade alike on bars with a volume: between
\* two bars they have the same fills, the same book and the same equity, and the
\* engine has no fill in the bars a killed session no longer takes.
EngineTradesLikeSession ==
    broker = "paper" /\ BarVolume > 0 /\ BetweenBars =>
        /\ engine.fills = fills
        /\ engine.pf.cash = pf.cash
        /\ engine.pf.pos = pf.pos
        /\ engine.killed = killed
        /\ IsPrefix(equity, engine.equity)

\* "Kill switches halt new risk for the remainder of the run": neither a new
\* date nor a recovered equity starts the engine again.
KillHaltsEngine ==
    [][engine.killed => engine'.killed /\ engine'.fills = engine.fills]_researchVars

\* Within one date the harness trades like the engine.
SegmentTradesLikeEngine ==
    segment.fills = engine.fills /\ segment.equity = engine.equity

SegmentAgreesWithinDay == days <= 1 => SegmentTradesLikeEngine
==============================================================================
