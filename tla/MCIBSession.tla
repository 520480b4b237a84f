----------------------------- MODULE MCIBSession -----------------------------
EXTENDS IBSession

\* Two lots are bought, which may execute one by one; the order of a bar may
\* still be in flight when the next bar sends its own.
MCOrderLists ==
    {<<>>, <<[side |-> "BUY", qty |-> 2]>>, <<[side |-> "SELL", qty |-> 1]>>}

MCRisk ==
    [max_position_pct |-> 50, max_gross_exposure |-> 40,
     max_daily_loss_pct |-> 5, max_drawdown_pct |-> 10,
     risk_per_trade_pct |-> 1,
     kill_on_daily_breach |-> TRUE, kill_on_drawdown_breach |-> TRUE]

\* The session's cost model: nothing of it reaches the venue.
MCCost ==
    [commission_per_share |-> 1, commission_min |-> 2, commission_bps |-> 0,
     spread_bps |-> 200, slippage_bps |-> 100, impact_coeff |-> 200,
     adv_fallback |-> 16]

\* A rebate: a report below zero, of which the adapter takes the magnitude.
MCCommissionReport == -1
==============================================================================
