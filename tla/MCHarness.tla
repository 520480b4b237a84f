------------------------------ MODULE MCHarness ------------------------------
EXTENDS Harness

CONSTANTS MaxBars,           \* bound on the frames a strategy trades
          MaxBarsExpanding   \* bound on the frames of expanding windows

MCFrame(n, first) ==
    [i \in 1..n |-> IF i % 2 = 1 THEN first ELSE 180 - first]

MCFrames == {MCFrame(n, first) : n \in 2..MaxBarsExpanding, first \in {80, 100}}

MCSettings ==
    [n : 2..MaxBars, train_size : 1..2, test_size : 1..2,
     purge : 0..2, embargo : 0..1, expanding : {FALSE}]
    \cup
    [n : 2..MaxBarsExpanding, train_size : 1..2, test_size : 1..2,
     purge : 0..2, embargo : 0..1, expanding : {TRUE}]

MCOrderLists ==
    {<<>>, <<[side |-> "BUY", qty |-> 9]>>, <<[side |-> "SELL", qty |-> 9]>>}

MCRisk ==
    [max_position_pct |-> 50, max_gross_exposure |-> 40,
     max_daily_loss_pct |-> 5, max_drawdown_pct |-> 10,
     risk_per_trade_pct |-> 1,
     kill_on_daily_breach |-> TRUE, kill_on_drawdown_breach |-> TRUE]

MCCost ==
    [commission_per_share |-> 1, commission_min |-> 2, commission_bps |-> 0,
     spread_bps |-> 200, slippage_bps |-> 100, impact_coeff |-> 200,
     adv_fallback |-> 64]
==============================================================================
