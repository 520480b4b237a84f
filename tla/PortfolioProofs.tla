--------------------------- MODULE PortfolioProofs ---------------------------
(***************************************************************************)
(* Every sequence of fills: the invariants of PortfolioLedger, for every   *)
(* starting cash, every set of fills and every length of the run.          *)
(***************************************************************************)
EXTENDS PortfolioLedger, TradeLemmas

\* Every run of fills leaves a book of the right shape.
THEOREM TypeCorrect == Spec => []TypeOK
<1>1. Init => TypeOK
  BY LedgerAssumption, FreshBookType, WholeType DEF Init, TypeOK
<1>2. TypeOK /\ [Next]_vars => TypeOK'
  <2> SUFFICES ASSUME TypeOK, [Next]_vars
               PROVE  TypeOK'
    OBVIOUS
  <2>1. CASE Next
    <3>1. PICK fill \in Fills : Apply(fill)
      BY <2>1 DEF Next
    <3>2. fill \in Fill
      BY LedgerAssumption
    <3>3. pf' \in PortfolioState
      BY <3>1, <3>2, ApplyFillType DEF Apply, TypeOK
    <3>4. trade_pnl' \in Frac
      BY <3>1, <3>2, TradePnlType, PlusType DEF Apply, TypeOK
    <3>5. paid' \in Nat /\ traded' \in Int /\ applied' \in Nat
      BY <3>1, <3>2, SignedType DEF Apply, TypeOK, Fill
    <3>6. QED
      BY <3>3, <3>4, <3>5 DEF TypeOK
  <2>2. CASE UNCHANGED vars
    BY <2>2 DEF vars, TypeOK
  <2>3. QED
    BY <2>1, <2>2
<1>3. QED
  BY <1>1, <1>2, PTL DEF Spec

\* The position is what was bought less what was sold.
THEOREM PositionCorrect == Spec => []PositionIsNetTraded
<1>1. Init => PositionIsNetTraded
  BY DEF Init, PositionIsNetTraded, FreshBook, FlatPosition
<1>2. TypeOK /\ PositionIsNetTraded /\ [Next]_vars => PositionIsNetTraded'
  <2> SUFFICES ASSUME TypeOK, PositionIsNetTraded, [Next]_vars
               PROVE  PositionIsNetTraded'
    OBVIOUS
  <2>1. CASE Next
    <3>1. PICK fill \in Fills : Apply(fill)
      BY <2>1 DEF Next
    <3>2. fill \in Fill /\ pf.pos \in Position
      BY LedgerAssumption DEF TypeOK, PortfolioState
    <3>3. pf'.pos.qty = pf.pos.qty + Signed(fill)
      BY <3>1, <3>2, ApplyFillType, PositionMovesByFill DEF Apply, TypeOK
    <3>4. QED
      BY <3>1, <3>3 DEF Apply, PositionIsNetTraded
  <2>2. CASE UNCHANGED vars
    BY <2>2 DEF vars, PositionIsNetTraded
  <2>3. QED
    BY <2>1, <2>2
<1>3. QED
  BY <1>1, <1>2, TypeCorrect, PTL DEF Spec

\* The trade profits explain the whole change of the book, in any run.
THEOREM PnlCorrect == Spec => []PnlExplainsBook
<1>1. Init => PnlExplainsBook
  <2> SUFFICES ASSUME Init
               PROVE  PnlExplainsBook
    OBVIOUS
  <2>1. BookValue(pf) = [n |-> StartingCash * 1 + 0 * 0, d |-> 1]
    <3>1. pf \in PortfolioState
      BY LedgerAssumption, FreshBookType DEF Init
    <3>2. QED
      BY <3>1, BookValueIs DEF Init, FreshBook, FlatPosition, Whole
  <2>2. Plus(Whole(StartingCash), trade_pnl)
          = [n |-> StartingCash * 1 + 0 * 1, d |-> 1 * 1]
    BY DEF Init, Plus, Whole
  <2>3. QED
    BY <2>1, <2>2, LedgerAssumption DEF PnlExplainsBook, SameValue
<1>2. TypeOK /\ PnlExplainsBook /\ [Next]_vars => PnlExplainsBook'
  <2> SUFFICES ASSUME TypeOK, PnlExplainsBook, [Next]_vars
               PROVE  PnlExplainsBook'
    OBVIOUS
  <2>1. CASE Next
    <3>1. PICK fill \in Fills : Apply(fill)
      BY <2>1 DEF Next
    <3>2. fill \in Fill /\ pf \in PortfolioState /\ trade_pnl \in Frac
      BY LedgerAssumption DEF TypeOK
    <3> DEFINE start == Whole(StartingCash)
               pnl == TradePnl(pf, fill)
    <3>3. start \in Frac /\ pnl \in Frac
      BY <3>2, LedgerAssumption, WholeType, TradePnlType
    <3>4. SameValue(BookValue(pf'), Plus(BookValue(pf), pnl))
      BY <3>1, <3>2, FillKeepsBooks DEF Apply
    <3>5. SameValue(Plus(BookValue(pf), pnl), Plus(Plus(start, trade_pnl), pnl))
      BY <3>2, <3>3, BookValueType, PlusType, PlusCongruent DEF PnlExplainsBook
    <3>6. Plus(Plus(start, trade_pnl), pnl) = Plus(start, trade_pnl')
      BY <3>1, <3>2, <3>3, PlusAssociative DEF Apply
    <3>7. BookValue(pf') \in Frac
      BY <3>1, <3>2, ApplyFillType, BookValueType DEF Apply
    <3>8. QED
      <4>1. /\ Plus(BookValue(pf), pnl) \in Frac
            /\ Plus(Plus(start, trade_pnl), pnl) \in Frac
        BY <3>2, <3>3, BookValueType, PlusType
      <4>2. SameValue(BookValue(pf'), Plus(Plus(start, trade_pnl), pnl))
        BY <3>4, <3>5, <3>7, <4>1, SameValueTransitive
      <4>3. QED
        BY <3>6, <4>2 DEF PnlExplainsBook
  <2>2. CASE UNCHANGED vars
    BY <2>2 DEF vars, PnlExplainsBook
  <2>3. QED
    BY <2>1, <2>2
<1>3. QED
  BY <1>1, <1>2, TypeCorrect, PTL DEF Spec

\* realized_pnl, summed by the position, and the trade profits, summed by the
\* caller, agree up to the commissions in any run.
THEOREM RealizedCorrect == Spec => []RealizedLessCommissions
<1>1. Init => RealizedLessCommissions
  BY DEF Init, RealizedLessCommissions, FreshBook, FlatPosition, Whole, Plus,
         SameValue
<1>2. TypeOK /\ RealizedLessCommissions /\ [Next]_vars
        => RealizedLessCommissions'
  <2> SUFFICES ASSUME TypeOK, RealizedLessCommissions, [Next]_vars
               PROVE  RealizedLessCommissions'
    OBVIOUS
  <2>1. CASE Next
    <3>1. PICK fill \in Fills : Apply(fill)
      BY <2>1 DEF Next
    <3>2. /\ fill \in Fill
          /\ pf \in PortfolioState
          /\ pf.pos \in Position
          /\ pf.pos.realized_pnl \in Frac
          /\ trade_pnl \in Frac
          /\ paid \in Int
          /\ fill.commission \in Int
      BY <3>1, LedgerAssumption DEF TypeOK, PortfolioState, Position, Fill
    <3> DEFINE real == pf.pos.realized_pnl
               gain == Realized(pf.pos, fill)
               before == Whole(-paid)
               fee == Whole(-fill.commission)
    <3>3. gain \in Frac
      BY <3>2, ClosedPnlType, WholeType DEF Realized
    <3>4. before \in Frac /\ fee \in Frac
      BY <3>2, WholeType
    <3>5. pf'.pos.realized_pnl = Plus(real, gain)
      <4>1. pf'.pos = PositionAfter(pf.pos, fill)
        BY <3>1, <3>2, ApplyFillType DEF Apply
      <4>2. PositionAfter(pf.pos, fill).realized_pnl = Plus(real, gain)
        BY <3>2, RealizedMovesByFill
      <4>3. QED
        BY <4>1, <4>2
    <3>6. Whole(-paid') = Plus(before, fee)
      BY <3>1, <3>2 DEF Apply, Plus, Whole
    <3>7. trade_pnl' = Plus(trade_pnl, Plus(gain, fee))
      BY <3>1 DEF Apply, TradePnl
    <3> HIDE DEF real, gain, before, fee
    <3>8. real \in Frac
      BY <3>2 DEF real
    <3>9. SameValue(trade_pnl, Plus(real, before))
      BY DEF RealizedLessCommissions, real, before
    <3>10. SameValue(Plus(trade_pnl, Plus(gain, fee)),
                     Plus(Plus(real, before), Plus(gain, fee)))
      BY <3>2, <3>3, <3>4, <3>8, <3>9, PlusType, PlusCongruent
    <3>11. Plus(Plus(real, before), Plus(gain, fee))
             = Plus(Plus(real, gain), Plus(before, fee))
      BY <3>3, <3>4, <3>8, PlusExchange
    <3>12. QED
      BY <3>5, <3>6, <3>7, <3>10, <3>11 DEF RealizedLessCommissions
  <2>2. CASE UNCHANGED vars
    BY <2>2 DEF vars, RealizedLessCommissions
  <2>3. QED
    BY <2>1, <2>2
<1>3. QED
  BY <1>1, <1>2, TypeCorrect, PTL DEF Spec
==============================================================================
