------------------------------ MODULE Portfolio ------------------------------
(***************************************************************************)
(* The book of one traded symbol: Position and PortfolioState of           *)
(* core/types.py and apply_fill of core/portfolio.py.                      *)
(*                                                                         *)
(* A session rewrites every order to the symbol of its feed, so its book   *)
(* holds one position; a symbol with no entry in state.positions reads as  *)
(* the flat position.  Cash, prices and commissions are integers (ticks),  *)
(* share quantities are integers (lots).  An average price is an exact     *)
(* fraction: the code divides, and the accounting identities are about     *)
(* what that division keeps.                                               *)
(***************************************************************************)
EXTENDS Integers

Abs(k) == IF k < 0 THEN -k ELSE k
Least(a, b) == IF a < b THEN a ELSE b
Greatest(a, b) == IF a < b THEN b ELSE a

(***************************************************************************)
(* Fractions.                                                              *)
(***************************************************************************)
Frac == [n : Int, d : Nat \ {0}]

Whole(k) == [n |-> k, d |-> 1]
Plus(f, g) == [n |-> f.n * g.d + g.n * f.d, d |-> f.d * g.d]
SameValue(f, g) == f.n * g.d = g.n * f.d

(***************************************************************************)
(* Orders, fills and the book.                                             *)
(***************************************************************************)
Side == {"BUY", "SELL"}
Order == [side : Side, qty : Nat \ {0}]
Fill == [side : Side, qty : Nat \ {0}, price : Int, commission : Nat]

Signed(order) == IF order.side = "BUY" THEN order.qty ELSE -order.qty

Position == [qty : Int, avg_price : Frac, realized_pnl : Frac]
FlatPosition ==
    [qty |-> 0, avg_price |-> Whole(0), realized_pnl |-> Whole(0)]

PortfolioState ==
    [cash : Int, pos : Position, peak_equity : Int, equity_high_water : Int,
     day_start_equity : Int, kills : Nat]

\* A fresh book: run_feed and restore_from_journal start from the same one.
FreshBook(cash) ==
    [cash |-> cash, pos |-> FlatPosition, peak_equity |-> cash,
     equity_high_water |-> cash, day_start_equity |-> cash, kills |-> 0]

Equity(pf, mark) == pf.cash + pf.pos.qty * mark

UpdatePeaksHighWaterOnly(pf, mark) ==
    [pf EXCEPT !.equity_high_water = Greatest(@, Equity(pf, mark))]

UpdatePeaks(pf, mark) ==
    [pf EXCEPT !.peak_equity = Greatest(@, Equity(pf, mark)),
               !.equity_high_water = Greatest(@, Equity(pf, mark))]

\* The bar loops start a day's loss afresh at the first close of a date.
RollDay(pf, mark, new_day) ==
    IF new_day THEN [pf EXCEPT !.day_start_equity = Equity(pf, mark)] ELSE pf

(***************************************************************************)
(* apply_fill.  A fill opens a flat position, increases one of its own     *)
(* direction, or closes all or part of an opposite one; what a close       *)
(* leaves over opens the other way at the fill's price.                    *)
(***************************************************************************)
SameDirection(pos, fill) ==
    \/ pos.qty > 0 /\ Signed(fill) > 0
    \/ pos.qty < 0 /\ Signed(fill) < 0

AveragePriceWithoutAbs(pos, fill) ==
    [n |-> pos.avg_price.n * Abs(pos.qty)
             + fill.price * fill.qty * pos.avg_price.d,
     d |-> pos.avg_price.d * (pos.qty + Signed(fill))]

AveragePrice(pos, fill) ==
    [n |-> pos.avg_price.n * Abs(pos.qty)
             + fill.price * fill.qty * pos.avg_price.d,
     d |-> pos.avg_price.d * Abs(pos.qty + Signed(fill))]

CloseQty(pos, fill) == Least(Abs(pos.qty), fill.qty)

\* What the closed lots earn over their average price.
ClosedPnl(pos, fill) ==
    LET gain == fill.price * pos.avg_price.d - pos.avg_price.n
    IN [n |-> CloseQty(pos, fill) * (IF pos.qty > 0 THEN gain ELSE -gain),
        d |-> pos.avg_price.d]

Realized(pos, fill) ==
    IF pos.qty = 0 \/ SameDirection(pos, fill)
    THEN Whole(0)
    ELSE ClosedPnl(pos, fill)

PriceAfterCloseKeepsAverage(pos, fill) ==
    IF Abs(pos.qty) # fill.qty THEN pos.avg_price ELSE Whole(0)

\* The price carried by what remains after a close.
PriceAfterClose(pos, fill) ==
    IF Abs(pos.qty) > fill.qty THEN pos.avg_price
    ELSE IF Abs(pos.qty) < fill.qty THEN Whole(fill.price)
    ELSE Whole(0)

QtyAfterCloseWithoutResidual(pos, fill) ==
    LET remaining == Abs(pos.qty) - CloseQty(pos, fill)
    IN IF pos.qty > 0 THEN remaining ELSE -remaining

QtyAfterClose(pos, fill) ==
    LET closed == CloseQty(pos, fill)
        remaining == Abs(pos.qty) - closed
        residual == fill.qty - closed
    IN IF remaining > 0
         THEN IF pos.qty > 0 THEN remaining ELSE -remaining
       ELSE IF residual > 0
         THEN IF fill.side = "BUY" THEN residual ELSE -residual
       ELSE 0

PositionAfter(pos, fill) ==
    IF pos.qty = 0
        THEN [pos EXCEPT !.qty = Signed(fill), !.avg_price = Whole(fill.price)]
    ELSE IF SameDirection(pos, fill)
        THEN [pos EXCEPT !.qty = @ + Signed(fill),
                         !.avg_price = AveragePrice(pos, fill)]
    ELSE [qty |-> QtyAfterClose(pos, fill),
          avg_price |-> PriceAfterClose(pos, fill),
          realized_pnl |-> Plus(pos.realized_pnl, ClosedPnl(pos, fill))]

CashAfter(cash, fill) ==
    IF fill.side = "BUY"
    THEN cash - (fill.qty * fill.price + fill.commission)
    ELSE cash + (fill.qty * fill.price - fill.commission)

ApplyFill(pf, fill) ==
    [pf EXCEPT !.pos = PositionAfter(@, fill), !.cash = CashAfter(@, fill)]

TradePnlBeforeCommission(pf, fill) == Realized(pf.pos, fill)

\* apply_fill's return value: the trade's profit net of its commission.
TradePnl(pf, fill) ==
    Plus(Realized(pf.pos, fill), Whole(-fill.commission))

(***************************************************************************)
(* What the book is worth at its own prices.                               *)
(***************************************************************************)
BookValue(pf) ==
    Plus(Whole(pf.cash),
         [n |-> pf.pos.qty * pf.pos.avg_price.n, d |-> pf.pos.avg_price.d])
==============================================================================
