------------------------------- MODULE BarLoop -------------------------------
(***************************************************************************)
(* The two bar loops that trade without a broker: PaperEngine.run of       *)
(* execution/paper.py and _run_segment of eval/harness.py.  Both call      *)
(* RiskEngine.check, CostModel.execute and apply_fill for every order; the *)
(* segment has no day roll.                                                *)
(*                                                                         *)
(* A run is the book, the kill switch, the fills and the equity curve.     *)
(* state.kills and the list of refused orders are left out, and a segment  *)
(* leaves equity_high_water at zero: neither loop reads any of them.       *)
(***************************************************************************)
EXTENDS RiskEngine, CostModel, Sequences

BarRun ==
    [pf : PortfolioState, killed : BOOLEAN, fills : Seq(Fill), equity : Seq(Int)]

FreshRun(cash) ==
    [pf |-> FreshBook(cash), killed |-> FALSE, fills |-> <<>>,
     equity |-> <<cash>>]

(***************************************************************************)
(* One order: refused, which may arm the switch, or filled at once.        *)
(***************************************************************************)
Refuse(run, decision) ==
    [run EXCEPT !.killed = KilledAfter(@, decision)]

FillOrder(run, fill) ==
    [run EXCEPT !.pf = ApplyFill(@, fill), !.fills = Append(@, fill)]

TakeOrder(run, order, mid, adv) ==
    LET decision == Check(run.killed, order, run.pf, mid, 0)
    IN IF Ok(decision)
       THEN FillOrder(run, Execute(Adjusted(order, decision), mid, adv))
       ELSE Refuse(run, decision)

(***************************************************************************)
(* One bar, up to the call of the strategy and from its orders on.         *)
(***************************************************************************)
StartBarInOneDay(run, mid, new_day) ==
    [run EXCEPT !.pf = UpdatePeaks(@, mid)]

StartBar(run, mid, new_day) ==
    [run EXCEPT !.pf = UpdatePeaks(RollDay(@, mid, new_day), mid)]

StartSegmentBarWithoutPeaks(run, mid) == run

StartSegmentBar(run, mid) == [run EXCEPT !.pf = UpdatePeaks(@, mid)]

\* The run after the first n orders of the bar.
Trading(run, mid, orders, adv) ==
    LET after[n \in 0..Len(orders)] ==
            IF n = 0 THEN run ELSE TakeOrder(after[n - 1], orders[n], mid, adv)
    IN after

TradeBar(run, mid, orders, adv) ==
    LET after == Trading(run, mid, orders, adv)[Len(orders)]
    IN [after EXCEPT !.equity = Append(@, Equity(after.pf, mid))]
==============================================================================
