----------------------------- MODULE RiskEngine ------------------------------
(***************************************************************************)
(* RiskEngine.check of risk/engine.py, with its kill switch: the gate      *)
(* every order passes before a broker sees it.                             *)
(*                                                                         *)
(* Limits are percentages of equity.  The code divides by equity and by    *)
(* the mark; here the comparisons are multiplied out, so they are exact,   *)
(* and a quantity the engine computes is rounded down to whole lots.       *)
(* RiskConfig.max_net_exposure is left out: no code reads it.              *)
(***************************************************************************)
EXTENDS Portfolio

CONSTANT RiskCfg     \* the risk section of the configuration

RiskConfig ==
    [max_position_pct : Nat, max_gross_exposure : Nat,
     max_daily_loss_pct : Nat, max_drawdown_pct : Nat,
     risk_per_trade_pct : Nat,
     kill_on_daily_breach : BOOLEAN, kill_on_drawdown_breach : BOOLEAN]

ASSUME RiskCfgAssumption == RiskCfg \in RiskConfig

Verdict == {"ALLOW", "REDUCE", "REJECT", "KILL"}
KillReason == {"daily loss", "drawdown", "kill switch active"}

RiskDecision ==
    [verdict : Verdict, allowed_qty : Nat, reason : KillReason \cup {"none"}]

Allow(qty) == [verdict |-> "ALLOW", allowed_qty |-> qty, reason |-> "none"]
Reduce(qty) == [verdict |-> "REDUCE", allowed_qty |-> qty, reason |-> "none"]
Reject == [verdict |-> "REJECT", allowed_qty |-> 0, reason |-> "none"]
Kill(reason) == [verdict |-> "KILL", allowed_qty |-> 0, reason |-> reason]

\* RiskDecision.ok
Ok(decision) ==
    decision.verdict \in {"ALLOW", "REDUCE"} /\ decision.allowed_qty > 0

(***************************************************************************)
(* The account-wide limits.                                                *)
(***************************************************************************)
DailyLossBreached(pf, mark) ==
    /\ pf.day_start_equity > 0
    /\ 100 * (Equity(pf, mark) - pf.day_start_equity)
         <= -(RiskCfg.max_daily_loss_pct * pf.day_start_equity)

DrawdownBreached(pf, mark) ==
    IF pf.peak_equity <= 0
    THEN RiskCfg.max_drawdown_pct = 0
    ELSE 100 * Greatest(0, pf.peak_equity - Equity(pf, mark))
           >= RiskCfg.max_drawdown_pct * pf.peak_equity

(***************************************************************************)
(* The limits on one position.                                             *)
(***************************************************************************)
QtyAfter(pf, order) == pf.pos.qty + Signed(order)

MaxQty(pf, mark) ==
    (RiskCfg.max_position_pct * Equity(pf, mark)) \div (100 * mark)

OverPositionLimit(pf, order, mark) ==
    Abs(QtyAfter(pf, order)) * 100 * mark
        > RiskCfg.max_position_pct * Equity(pf, mark)

PositionRoomIgnoresHolding(pf, order, mark) == MaxQty(pf, mark)

\* How far the position may move towards the order's side: up to the limit
\* for a purchase, down to the short limit for a sale.
PositionRoom(pf, order, mark) ==
    Greatest(0, IF order.side = "BUY"
                THEN MaxQty(pf, mark) - pf.pos.qty
                ELSE pf.pos.qty + MaxQty(pf, mark))

Increasing(pf, order) ==
    \/ pf.pos.qty >= 0 /\ order.side = "BUY"
    \/ pf.pos.qty <= 0 /\ order.side = "SELL"

Gross(pf, mark) == Abs(pf.pos.qty * mark)

OverGrossLimit(pf, order, mark) ==
    100 * (Gross(pf, mark) + order.qty * mark)
        > RiskCfg.max_gross_exposure * Equity(pf, mark)

GrossRoom(pf, mark) ==
    Greatest(0, RiskCfg.max_gross_exposure * Equity(pf, mark)
                  - 100 * Gross(pf, mark)) \div (100 * mark)

\* The lots that lose the risk budget over two volatilities; vol is the
\* volatility in percent, 0 when the caller gives none.
VolQty(pf, mark, vol) ==
    (RiskCfg.risk_per_trade_pct * Equity(pf, mark)) \div (2 * vol * mark)

VolSized(pf, order, mark, vol) ==
    /\ vol > 0
    /\ RiskCfg.risk_per_trade_pct > 0
    /\ VolQty(pf, mark, vol) < order.qty

(***************************************************************************)
(* check, in the order of its early returns.                               *)
(***************************************************************************)
LimitTo(qty) == IF qty <= 0 THEN Reject ELSE Reduce(qty)

CheckPosition(order, pf, mark, vol) ==
    IF OverPositionLimit(pf, order, mark)
        THEN LimitTo(PositionRoom(pf, order, mark))
    ELSE IF Increasing(pf, order) /\ OverGrossLimit(pf, order, mark)
        THEN LimitTo(GrossRoom(pf, mark))
    ELSE IF VolSized(pf, order, mark, vol)
        THEN Reduce(VolQty(pf, mark, vol))
    ELSE Allow(order.qty)

CheckAccount(order, pf, mark, vol) ==
    IF Equity(pf, mark) <= 0
        THEN Reject
    ELSE IF DailyLossBreached(pf, mark)
        THEN IF RiskCfg.kill_on_daily_breach THEN Kill("daily loss") ELSE Reject
    ELSE IF DrawdownBreached(pf, mark)
        THEN IF RiskCfg.kill_on_drawdown_breach THEN Kill("drawdown") ELSE Reject
    ELSE IF mark <= 0
        THEN Reject
    ELSE CheckPosition(order, pf, mark, vol)

CheckIgnoringSwitch(killed, order, pf, mark, vol) ==
    CheckAccount(order, pf, mark, vol)

Check(killed, order, pf, mark, vol) ==
    IF killed THEN Kill("kill switch active")
              ELSE CheckAccount(order, pf, mark, vol)

\* The order the caller goes on with: the decision's quantity replaces its own.
Adjusted(order, decision) == [order EXCEPT !.qty = decision.allowed_qty]

\* _killed after a check: the switch is armed exactly when the verdict is
\* KILL, and only reset_kill releases it.
KilledAfter(killed, decision) == killed \/ decision.verdict = "KILL"

ResetNothing(killed) == killed

ResetKill(killed) == FALSE
==============================================================================
