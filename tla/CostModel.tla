------------------------------ MODULE CostModel ------------------------------
(***************************************************************************)
(* CostModel of cost/model.py: what a fill costs.  Half the quoted spread, *)
(* a base slippage and a square-root market impact move the price against  *)
(* the order, and a commission with a floor is paid on top.                *)
(*                                                                         *)
(* Prices are whole ticks: the price shift and a percentage commission are *)
(* rounded down to the tick, the square root to two digits.                *)
(***************************************************************************)
EXTENDS Portfolio, FiniteSets

CONSTANT CostCfg     \* the cost section of the configuration

CostConfig ==
    [commission_per_share : Nat, commission_min : Nat,
     commission_bps : Nat,     \* commission_pct, in basis points
     spread_bps : Nat, slippage_bps : Nat, impact_coeff : Nat,
     adv_fallback : Nat]

ASSUME CostCfgAssumption == CostCfg \in CostConfig

\* adv=None: the caller knows no volume.
NoAdv == -1

\* 100 * sqrt(qty / volume): the number of r >= 1 with r/100 below the root.
SqrtShareOfVolume(qty, volume) ==
    Cardinality({r \in 1..(100 * qty) : r * r * volume <= 10000 * qty})

ImpactBps(qty, adv) ==
    LET volume == IF adv = NoAdv THEN CostCfg.adv_fallback ELSE adv
    IN IF CostCfg.impact_coeff > 0 /\ volume > 0
       THEN (CostCfg.impact_coeff * SqrtShareOfVolume(qty, volume)) \div 100
       ELSE 0

\* Twice the total cost in basis points: the spread counts by half.
TotalBpsTwice(qty, adv) ==
    CostCfg.spread_bps + 2 * (CostCfg.slippage_bps + ImpactBps(qty, adv))

PriceShift(qty, mid, adv) == (mid * TotalBpsTwice(qty, adv)) \div 20000

FillPriceFavourable(order, mid, adv) ==
    IF order.side = "BUY"
    THEN mid - PriceShift(order.qty, mid, adv)
    ELSE mid + PriceShift(order.qty, mid, adv)

FillPrice(order, mid, adv) ==
    IF order.side = "BUY"
    THEN mid + PriceShift(order.qty, mid, adv)
    ELSE mid - PriceShift(order.qty, mid, adv)

Commission(qty, price) ==
    Greatest(CostCfg.commission_min,
             IF CostCfg.commission_bps > 0
             THEN (qty * price * CostCfg.commission_bps) \div 10000
             ELSE qty * CostCfg.commission_per_share)

\* execute, for mid > 0; estimate raises for any other mid.
Execute(order, mid, adv) ==
    LET price == FillPrice(order, mid, adv)
    IN [side |-> order.side, qty |-> order.qty, price |-> price,
        commission |-> Commission(order.qty, price)]
==============================================================================
