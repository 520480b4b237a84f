----------------------------- MODULE MCRecovery ------------------------------
EXTENDS Recovery

\* One order a bar: a purchase to the limit, or a sale that may flip it.
MCOrderLists ==
    {<<[side |-> "BUY", qty |-> 9]>>, <<[side |-> "SELL", qty |-> 9]>>}

MCRisk ==
    [max_position_pct |-> 50, max_gross_exposure |-> 40,
     max_daily_loss_pct |-> 5, max_drawdown_pct |-> 10,
     risk_per_trade_pct |-> 1,
     kill_on_daily_breach |-> TRUE, kill_on_drawdown_breach |-> TRUE]

MCCost ==
    [commission_per_share |-> 1, commission_min |-> 2, commission_bps |-> 0,
     spread_bps |-> 200, slippage_bps |-> 100, impact_coeff |-> 200,
     adv_fallback |-> 16]
==============================================================================
