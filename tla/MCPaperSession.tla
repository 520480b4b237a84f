--------------------------- MODULE MCPaperSession ----------------------------
EXTENDS PaperSession

\* Against a limit of half the equity: a purchase and a sale that are cut to
\* the limit (the sale flips a long position), and a sale of one lot.
Buy == [side |-> "BUY", qty |-> 9]
Sell == [side |-> "SELL", qty |-> 9]
SellOne == [side |-> "SELL", qty |-> 1]

\* Bars without orders, with one, and with two: opened and flipped at once, and
\* an order after one that may be refused, cut or a kill.
MCOrderLists == {<<>>, <<Buy>>, <<Buy, Sell>>, <<Sell, SellOne>>}

MCSingleOrders == {<<>>, <<Buy>>, <<Sell>>, <<SellOne>>}

MCRisk ==
    [max_position_pct |-> 50, max_gross_exposure |-> 40,
     max_daily_loss_pct |-> 5, max_drawdown_pct |-> 10,
     risk_per_trade_pct |-> 1,
     kill_on_daily_breach |-> TRUE, kill_on_drawdown_breach |-> TRUE]

MCCost ==
    [commission_per_share |-> 1, commission_min |-> 2, commission_bps |-> 0,
     spread_bps |-> 200, slippage_bps |-> 100, impact_coeff |-> 200,
     adv_fallback |-> 16]
==============================================================================
