----------------------------- MODULE MCResearch ------------------------------
EXTENDS Research

CONSTANT MaxOrders

MCOrders == {[side |-> "BUY", qty |-> 9], [side |-> "SELL", qty |-> 9]}

MCOrderLists == UNION {[1..n -> MCOrders] : n \in 0..MaxOrders}

\* The daily limit is the tighter one, so that its reference decides.
MCRisk ==
    [max_position_pct |-> 50, max_gross_exposure |-> 40,
     max_daily_loss_pct |-> 5, max_drawdown_pct |-> 15,
     risk_per_trade_pct |-> 1,
     kill_on_daily_breach |-> TRUE, kill_on_drawdown_breach |-> TRUE]

MCCost ==
    [commission_per_share |-> 1, commission_min |-> 2, commission_bps |-> 0,
     spread_bps |-> 200, slippage_bps |-> 100, impact_coeff |-> 200,
     adv_fallback |-> 64]
==============================================================================
