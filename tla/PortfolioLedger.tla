--------------------------- MODULE PortfolioLedger ---------------------------
(***************************************************************************)
(* apply_fill under every sequence of fills: the three callers (the paper  *)
(* engine, the session, the restore of a journal) feed it whatever the     *)
(* strategy and the venue produce.                                         *)
(***************************************************************************)
EXTENDS Portfolio

CONSTANTS StartingCash,   \* cash of the fresh book
          Fills,          \* the fills a run may apply
          MaxFills        \* bound on the number of fills of a run

ASSUME LedgerAssumption ==
    /\ StartingCash \in Nat \ {0}
    /\ Fills \subseteq Fill
    /\ MaxFills \in Nat

VARIABLES pf,          \* the PortfolioState
          trade_pnl,   \* sum of what apply_fill returned (trade_pnls)
          paid,        \* sum of the commissions
          traded,      \* sum of the signed quantities
          applied      \* number of fills applied

vars == <<pf, trade_pnl, paid, traded, applied>>

TypeOK ==
    /\ pf \in PortfolioState
    /\ trade_pnl \in Frac
    /\ paid \in Nat
    /\ traded \in Int
    /\ applied \in Nat

Init ==
    /\ pf = FreshBook(StartingCash)
    /\ trade_pnl = Whole(0)
    /\ paid = 0
    /\ traded = 0
    /\ applied = 0

Apply(fill) ==
    /\ applied < MaxFills
    /\ pf' = ApplyFill(pf, fill)
    /\ trade_pnl' = Plus(trade_pnl, TradePnl(pf, fill))
    /\ paid' = paid + fill.commission
    /\ traded' = traded + Signed(fill)
    /\ applied' = applied + 1

Next == \E fill \in Fills : Apply(fill)

Spec == Init /\ [][Next]_vars

(***************************************************************************)
(* The position is the sum of what was bought and sold, however the fills  *)
(* opened, increased, reduced, closed or flipped it.                       *)
(***************************************************************************)
PositionIsNetTraded == pf.pos.qty = traded

(***************************************************************************)
(* The profits apply_fill reports add up to the change of the book's value *)
(* at its own average price; for a flat book, to the change of its cash.   *)
(* A wrong average on an increase, or one kept across a flip, breaks it.   *)
(***************************************************************************)
PnlExplainsBook ==
    SameValue(BookValue(pf), Plus(Whole(StartingCash), trade_pnl))

(***************************************************************************)
(* The position's realized_pnl and the trade profits differ by exactly the *)
(* commissions: neither counts a close twice nor misses one.               *)
(***************************************************************************)
RealizedLessCommissions ==
    SameValue(trade_pnl, Plus(pf.pos.realized_pnl, Whole(-paid)))
==============================================================================
