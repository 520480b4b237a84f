----------------------------- MODULE TradeLemmas -----------------------------
(***************************************************************************)
(* Lemmas about the operators the bar loops are built from, for every      *)
(* configuration, book, mark, order and fill: apply_fill and its accounting*)
(* identity, RiskEngine.check, the cost model, and the folds over the orders*)
(* of a bar.  They rest on an induction principle stated in terms of sets. *)
(***************************************************************************)
EXTENDS BarLoop, FiniteSetTheorems, TLAPS

(***************************************************************************)
(* Induction over the natural numbers, and what it says of a recursive     *)
(* function over the first m numbers: it exists as soon as each step stays *)
(* in some set.                                                            *)
(***************************************************************************)
\* A set that holds 0 and with each number the next holds all of them: the
\* numbers up to n it lacks could be mapped one down, into fewer.
LEMMA NatSetInduction ==
    ASSUME NEW S, 0 \in S, \A n \in Nat : n \in S => n + 1 \in S
    PROVE  \A n \in Nat : n \in S
<1> SUFFICES ASSUME NEW n \in Nat, n \notin S
             PROVE  FALSE
  OBVIOUS
<1> DEFINE missing == {m \in 0..n : m \notin S}
           rest == missing \ {n}
           down == [m \in missing |-> m - 1]
<1>1. IsFiniteSet(missing) /\ n \in missing
  <2>1. IsFiniteSet(0..n)
    BY FS_Interval
  <2>2. QED
    BY <2>1, FS_Subset
<1>2. \A m \in missing : m - 1 \in rest
  <2> TAKE m \in missing
  <2>1. m # 0
    OBVIOUS
  <2>2. m - 1 \in Nat /\ m - 1 \in 0..n /\ m - 1 # n
    BY <2>1
  <2>3. m - 1 \notin S
    BY <2>2
  <2>4. QED
    BY <2>2, <2>3
<1>3. down \in Injection(missing, rest)
  <2>1. down \in [missing -> rest]
    BY <1>2
  <2>2. \A a, b \in missing : down[a] = down[b] => a = b
    OBVIOUS
  <2>3. QED
    BY <2>1, <2>2 DEF Injection, IsInjective
<1>4. IsFiniteSet(rest) /\ Cardinality(rest) = Cardinality(missing) - 1
  BY <1>1, FS_RemoveElement
<1>5. Cardinality(missing) <= Cardinality(rest)
  BY <1>1, <1>3, <1>4, FS_Injection
<1>6. QED
  BY <1>1, <1>4, <1>5, FS_CardinalityType

LEMMA IntervalInduction ==
    ASSUME NEW m \in Nat, NEW S, 0 \in S,
           \A n \in 1..m : n - 1 \in S => n \in S
    PROVE  \A n \in 0..m : n \in S
<1> DEFINE T == {n \in Nat : n <= m => n \in S}
<1>1. 0 \in T
  OBVIOUS
<1>2. \A n \in Nat : n \in T => n + 1 \in T
  <2> SUFFICES ASSUME NEW n \in Nat, n \in T, n + 1 <= m
               PROVE  n + 1 \in S
    OBVIOUS
  <2>1. n + 1 \in 1..m /\ (n + 1) - 1 = n
    OBVIOUS
  <2>2. n \in S
    OBVIOUS
  <2>3. QED
    BY <2>1, <2>2
<1> HIDE DEF T
<1>3. \A n \in Nat : n \in T
  BY <1>1, <1>2, NatSetInduction
<1>4. QED
  BY <1>3 DEF T

LEMMA FiniteRecursion ==
    ASSUME NEW S, NEW base \in S, NEW m \in Nat,
           NEW step \in [1..m -> [S -> S]]
    PROVE  \E f \in [0..m -> S] :
             /\ f[0] = base
             /\ \A n \in 1..m : f[n] = step[n][f[n - 1]]
<1> DEFINE rec(k, f) == /\ f[0] = base
                        /\ \A n \in 1..k : f[n] = step[n][f[n - 1]]
           reached == {k \in 0..m : \E f \in [0..k -> S] : rec(k, f)}
<1>1. 0 \in reached
  <2> DEFINE f == [n \in 0..0 |-> base]
  <2>1. f \in [0..0 -> S] /\ rec(0, f)
    OBVIOUS
  <2> HIDE DEF f, rec
  <2>2. QED
    BY <2>1
<1>2. \A k \in 1..m : k - 1 \in reached => k \in reached
  <2> SUFFICES ASSUME NEW k \in 1..m, k - 1 \in reached
               PROVE  k \in reached
    OBVIOUS
  <2>1. PICK f \in [0..(k - 1) -> S] : rec(k - 1, f)
    OBVIOUS
  <2> DEFINE g == [n \in 0..k |-> IF n = k THEN step[k][f[k - 1]] ELSE f[n]]
  <2>2. step[k][f[k - 1]] \in S
    <3>1. f[k - 1] \in S
      OBVIOUS
    <3>2. step[k] \in [S -> S]
      OBVIOUS
    <3>3. QED
      BY <3>1, <3>2
  <2>3. g \in [0..k -> S]
    BY <2>2
  <2>4. \A n \in 1..k : g[n] = step[n][g[n - 1]]
    <3> TAKE n \in 1..k
    <3>1. g[n - 1] = f[n - 1]
      OBVIOUS
    <3>2. CASE n = k
      BY <3>1, <3>2
    <3>3. CASE n # k
      <4>1. n \in 1..(k - 1) /\ g[n] = f[n]
        BY <3>3
      <4>2. QED
        BY <2>1, <3>1, <4>1
    <3>4. QED
      BY <3>2, <3>3
  <2>5. rec(k, g)
    BY <2>1, <2>4
  <2> HIDE DEF g, rec
  <2>6. QED
    BY <2>3, <2>5
<1> HIDE DEF reached
<1>3. \A k \in 0..m : k \in reached
  BY <1>1, <1>2, IntervalInduction
<1>4. QED
  BY <1>3 DEF reached

\* Two functions that start alike and whose steps agree are alike.
LEMMA SameSteps ==
    ASSUME NEW m \in Nat, NEW f, NEW g, f[0] = g[0],
           \A n \in 1..m : f[n - 1] = g[n - 1] => f[n] = g[n]
    PROVE  \A n \in 0..m : f[n] = g[n]
<1> DEFINE same == {n \in 0..m : f[n] = g[n]}
<1>1. 0 \in same /\ \A n \in 1..m : n - 1 \in same => n \in same
  OBVIOUS
<1> HIDE DEF same
<1>2. \A n \in 0..m : n \in same
  BY <1>1, IntervalInduction
<1>3. QED
  BY <1>2 DEF same

LEMMA SameSequence ==
    ASSUME NEW S, NEW s \in Seq(S), NEW t \in Seq(S), Len(s) = Len(t),
           \A n \in 1..Len(s) : s[n] = t[n]
    PROVE  s = t
OBVIOUS

LEMMA Pair ==
    ASSUME NEW S, NEW a \in S, NEW b \in S
    PROVE  <<a>> \o <<b>> = <<a, b>>
<1> DEFINE joined == <<a>> \o <<b>>
           pair == <<a, b>>
<1>1. pair \in Seq(S) /\ Len(pair) = 2 /\ pair[1] = a /\ pair[2] = b
  OBVIOUS
<1>2. joined \in Seq(S) /\ Len(joined) = 2 /\ joined[1] = a /\ joined[2] = b
  OBVIOUS
<1> HIDE DEF joined, pair
<1>3. joined = pair
  BY <1>1, <1>2, SameSequence
<1>4. QED
  BY <1>3 DEF joined, pair

LEMMA LongerByOne ==
    ASSUME NEW S, NEW s \in Seq(S), NEW a \in S, NEW t \in Seq(S),
           Len(t) = Len(s) + 1, t[Len(s) + 1] = a,
           \A n \in 1..Len(s) : t[n] = s[n]
    PROVE  t = Append(s, a)
OBVIOUS

\* A set of indices that is not empty has a last one.
LEMMA LastIndex ==
    ASSUME NEW m \in Nat, NEW I \in SUBSET (1..m), I # {}
    PROVE  \E i \in I : \A j \in I : i >= j
<1> DEFINE bounded == {k \in 0..m : (\A j \in I : j <= k)
                                      => \E i \in I : \A j \in I : i >= j}
<1>1. 0 \in bounded
  <2>1. PICK j \in I : TRUE
    OBVIOUS
  <2>2. ~(j <= 0)
    OBVIOUS
  <2>3. QED
    BY <2>2
<1>2. \A k \in 1..m : k - 1 \in bounded => k \in bounded
  <2> SUFFICES ASSUME NEW k \in 1..m, k - 1 \in bounded, \A j \in I : j <= k
               PROVE  \E i \in I : \A j \in I : i >= j
    OBVIOUS
  <2>1. CASE k \in I
    BY <2>1
  <2>2. CASE k \notin I
    <3>1. \A j \in I : j <= k - 1
      BY <2>2
    <3>2. QED
      BY <3>1
  <2>3. QED
    BY <2>1, <2>2
<1> HIDE DEF bounded
<1>3. m \in bounded
  BY <1>1, <1>2, IntervalInduction
<1>4. QED
  BY <1>3 DEF bounded

(***************************************************************************)
(* Fractions.                                                              *)
(***************************************************************************)
LEMMA PlusType ==
    ASSUME NEW f \in Frac, NEW g \in Frac
    PROVE  Plus(f, g) \in Frac
<1>1. f.d * g.d \in Nat \ {0}
  BY DEF Frac
<1>2. f.n * g.d + g.n * f.d \in Int
  BY DEF Frac
<1>3. QED
  BY <1>1, <1>2 DEF Plus, Frac

LEMMA WholeType == \A k \in Int : Whole(k) \in Frac
BY DEF Whole, Frac

\* A factor common to both sides cancels.
LEMMA Cancel ==
    ASSUME NEW a \in Int, NEW b \in Int, NEW c \in Nat \ {0}, a * c = b * c
    PROVE  a = b
OBVIOUS

LEMMA SameValueTransitive ==
    ASSUME NEW f \in Frac, NEW g \in Frac, NEW h \in Frac,
           SameValue(f, g), SameValue(g, h)
    PROVE  SameValue(f, h)
<1> DEFINE a == f.n * h.d
           b == h.n * f.d
<1>1. f.n * g.d = g.n * f.d /\ g.n * h.d = h.n * g.d
  BY DEF SameValue
<1>2. f.n \in Int /\ g.n \in Int /\ h.n \in Int
  BY DEF Frac
<1>3. f.d \in Nat \ {0} /\ g.d \in Nat \ {0} /\ h.d \in Nat \ {0}
  BY DEF Frac
<1>4. a * g.d = (f.n * g.d) * h.d
  BY <1>2, <1>3
<1>5. (g.n * f.d) * h.d = (g.n * h.d) * f.d
  BY <1>2, <1>3
<1>6. (h.n * g.d) * f.d = b * g.d
  BY <1>2, <1>3
<1>7. a * g.d = b * g.d
  BY <1>1, <1>4, <1>5, <1>6
<1>8. a \in Int /\ b \in Int
  BY <1>2, <1>3
<1> HIDE DEF a, b
<1>9. a = b
  BY <1>3, <1>7, <1>8, Cancel
<1>10. QED
  BY <1>9 DEF a, b, SameValue

LEMMA SameValueReflexive == \A f \in Frac : SameValue(f, f)
BY DEF SameValue

LEMMA PlusCongruent ==
    ASSUME NEW f \in Frac, NEW g \in Frac, NEW t \in Frac, SameValue(f, g)
    PROVE  SameValue(Plus(f, t), Plus(g, t))
<1> DEFINE u == t.d * t.d
           w == t.n * t.d
<1>1. f.n * g.d = g.n * f.d
  BY DEF SameValue
<1>2. f.n \in Int /\ g.n \in Int /\ t.n \in Int
  BY DEF Frac
<1>3. f.d \in Int /\ g.d \in Int /\ t.d \in Int
  BY DEF Frac
<1>4. (f.n * t.d + t.n * f.d) * (g.d * t.d) = (f.n * g.d) * u + (f.d * g.d) * w
  BY <1>2, <1>3
<1>5. (g.n * t.d + t.n * g.d) * (f.d * t.d) = (g.n * f.d) * u + (f.d * g.d) * w
  BY <1>2, <1>3
<1>6. QED
  BY <1>1, <1>4, <1>5 DEF SameValue, Plus

LEMMA PlusAssociative ==
    ASSUME NEW f \in Frac, NEW g \in Frac, NEW h \in Frac
    PROVE  Plus(Plus(f, g), h) = Plus(f, Plus(g, h))
<1>1. f.n \in Int /\ g.n \in Int /\ h.n \in Int
  BY DEF Frac
<1>2. f.d \in Int /\ g.d \in Int /\ h.d \in Int
  BY DEF Frac
<1>3. (f.n * g.d + g.n * f.d) * h.d + h.n * (f.d * g.d)
        = f.n * (g.d * h.d) + (g.n * h.d + h.n * g.d) * f.d
  BY <1>1, <1>2
<1>4. (f.d * g.d) * h.d = f.d * (g.d * h.d)
  BY <1>2
<1>5. QED
  BY <1>3, <1>4 DEF Plus

LEMMA PlusCommutes ==
    ASSUME NEW f \in Frac, NEW g \in Frac
    PROVE  Plus(f, g) = Plus(g, f)
<1>1. f.n \in Int /\ g.n \in Int /\ f.d \in Int /\ g.d \in Int
  BY DEF Frac
<1>2. f.n * g.d + g.n * f.d = g.n * f.d + f.n * g.d /\ f.d * g.d = g.d * f.d
  BY <1>1
<1>3. QED
  BY <1>2 DEF Plus

LEMMA PlusExchange ==
    ASSUME NEW f \in Frac, NEW g \in Frac, NEW h \in Frac, NEW k \in Frac
    PROVE  Plus(Plus(f, g), Plus(h, k)) = Plus(Plus(f, h), Plus(g, k))
<1>1. Plus(Plus(f, g), Plus(h, k)) = Plus(f, Plus(Plus(g, h), k))
  BY PlusAssociative, PlusType
<1>2. Plus(Plus(f, h), Plus(g, k)) = Plus(f, Plus(Plus(h, g), k))
  BY PlusAssociative, PlusType
<1>3. Plus(g, h) = Plus(h, g)
  BY PlusCommutes
<1>4. QED
  BY <1>1, <1>2, <1>3

(***************************************************************************)
(* apply_fill.                                                             *)
(***************************************************************************)
LEMMA SignedType ==
    ASSUME NEW fill \in Fill
    PROVE  /\ Signed(fill) \in Int
           /\ Signed(fill) # 0
           /\ Abs(Signed(fill)) = fill.qty
BY DEF Fill, Signed, Side, Abs

\* A fill moves the position by its signed quantity, in all of its cases.
LEMMA PositionMovesByFill ==
    ASSUME NEW pos \in Position, NEW fill \in Fill
    PROVE  PositionAfter(pos, fill).qty = pos.qty + Signed(fill)
<1>1. /\ pos.qty \in Int
      /\ fill.qty \in Nat \ {0}
      /\ fill.side \in {"BUY", "SELL"}
  BY DEF Position, Fill, Side
<1>2. CASE pos.qty = 0
  BY <1>1, <1>2 DEF PositionAfter, Position, Signed
<1>3. CASE pos.qty # 0 /\ SameDirection(pos, fill)
  BY <1>1, <1>3 DEF PositionAfter, Position
<1>4. CASE pos.qty # 0 /\ ~SameDirection(pos, fill)
  <2>1. PositionAfter(pos, fill).qty = QtyAfterClose(pos, fill)
    BY <1>4 DEF PositionAfter
  <2>2. CASE fill.side = "BUY"
    BY <1>1, <1>4, <2>1, <2>2
    DEF SameDirection, Signed, QtyAfterClose, CloseQty, Abs, Least
  <2>3. CASE fill.side = "SELL"
    BY <1>1, <1>4, <2>1, <2>3
    DEF SameDirection, Signed, QtyAfterClose, CloseQty, Abs, Least
  <2>4. QED
    BY <1>1, <2>2, <2>3
<1>5. QED
  BY <1>2, <1>3, <1>4

LEMMA CashMovesByFill ==
    ASSUME NEW cash \in Int, NEW fill \in Fill
    PROVE  CashAfter(cash, fill)
             = cash - Signed(fill) * fill.price - fill.commission
BY DEF CashAfter, Signed, Fill, Side

LEMMA AveragePriceType ==
    ASSUME NEW pos \in Position, NEW fill \in Fill, SameDirection(pos, fill)
    PROVE  AveragePrice(pos, fill) \in Frac
<1>1. /\ pos.qty \in Int
      /\ pos.avg_price \in Frac
      /\ fill.price \in Int
      /\ fill.qty \in Nat \ {0}
  BY DEF Position, Fill
<1>2. Signed(fill) \in Int
  BY SignedType
<1>3. Abs(pos.qty) \in Nat /\ Abs(pos.qty + Signed(fill)) \in Nat \ {0}
  BY <1>1, <1>2 DEF Abs, SameDirection
<1>4. pos.avg_price.n \in Int /\ pos.avg_price.d \in Nat \ {0}
  BY <1>1 DEF Frac
<1>5. pos.avg_price.d * Abs(pos.qty + Signed(fill)) \in Nat \ {0}
  BY <1>3, <1>4
<1>6. pos.avg_price.n * Abs(pos.qty) + fill.price * fill.qty * pos.avg_price.d
        \in Int
  BY <1>1, <1>3, <1>4
<1>7. QED
  BY <1>5, <1>6 DEF AveragePrice, Frac

LEMMA ClosedPnlType ==
    ASSUME NEW pos \in Position, NEW fill \in Fill
    PROVE  ClosedPnl(pos, fill) \in Frac
<1>1. /\ pos.qty \in Int
      /\ pos.avg_price \in Frac
      /\ fill.price \in Int
      /\ fill.qty \in Nat \ {0}
  BY DEF Position, Fill
<1>2. pos.avg_price.n \in Int /\ pos.avg_price.d \in Nat \ {0}
  BY <1>1 DEF Frac
<1>3. CloseQty(pos, fill) \in Int
  BY <1>1 DEF CloseQty, Least, Abs
<1> DEFINE gain == fill.price * pos.avg_price.d - pos.avg_price.n
<1>4. gain \in Int
  BY <1>1, <1>2
<1>5. CloseQty(pos, fill) * gain \in Int /\ CloseQty(pos, fill) * (-gain) \in Int
  BY <1>3, <1>4
<1>6. QED
  BY <1>2, <1>5 DEF ClosedPnl, Frac

LEMMA PositionAfterType ==
    ASSUME NEW pos \in Position, NEW fill \in Fill
    PROVE  PositionAfter(pos, fill) \in Position
<1>1. /\ pos.qty \in Int
      /\ pos.avg_price \in Frac
      /\ pos.realized_pnl \in Frac
      /\ pos = [qty |-> pos.qty, avg_price |-> pos.avg_price,
                realized_pnl |-> pos.realized_pnl]
      /\ fill.price \in Int
  BY DEF Position, Fill
<1>2. pos.qty + Signed(fill) \in Int /\ Signed(fill) \in Int
  BY <1>1, SignedType
<1>3. CASE pos.qty = 0
  BY <1>1, <1>2, <1>3, WholeType DEF PositionAfter, Position
<1>4. CASE pos.qty # 0 /\ SameDirection(pos, fill)
  BY <1>1, <1>2, <1>4, AveragePriceType DEF PositionAfter, Position
<1>5. CASE pos.qty # 0 /\ ~SameDirection(pos, fill)
  <2>1. PositionAfter(pos, fill)
          = [qty |-> QtyAfterClose(pos, fill),
             avg_price |-> PriceAfterClose(pos, fill),
             realized_pnl |-> Plus(pos.realized_pnl, ClosedPnl(pos, fill))]
    BY <1>5 DEF PositionAfter
  <2>2. QtyAfterClose(pos, fill) \in Int
    BY <1>2, <2>1, PositionMovesByFill
  <2>3. PriceAfterClose(pos, fill) \in Frac
    BY <1>1, WholeType DEF PriceAfterClose
  <2>4. Plus(pos.realized_pnl, ClosedPnl(pos, fill)) \in Frac
    BY <1>1, ClosedPnlType, PlusType
  <2>5. QED
    BY <2>1, <2>2, <2>3, <2>4 DEF Position
<1>6. QED
  BY <1>3, <1>4, <1>5

\* The position books what the fill realizes, and nothing when it closes none.
LEMMA RealizedMovesByFill ==
    ASSUME NEW pos \in Position, NEW fill \in Fill
    PROVE  PositionAfter(pos, fill).realized_pnl
             = Plus(pos.realized_pnl, Realized(pos, fill))
<1>1. /\ pos.realized_pnl \in Frac
      /\ pos = [qty |-> pos.qty, avg_price |-> pos.avg_price,
                realized_pnl |-> pos.realized_pnl]
  BY DEF Position
<1>2. CASE pos.qty = 0 \/ SameDirection(pos, fill)
  <2>1. PositionAfter(pos, fill).realized_pnl = pos.realized_pnl
    BY <1>1, <1>2 DEF PositionAfter
  <2>2. Plus(pos.realized_pnl, Whole(0)) = pos.realized_pnl
    <3>1. /\ pos.realized_pnl.n \in Int
          /\ pos.realized_pnl.d \in Int
          /\ pos.realized_pnl = [n |-> pos.realized_pnl.n,
                                 d |-> pos.realized_pnl.d]
      BY <1>1 DEF Frac
    <3>2. /\ pos.realized_pnl.n * 1 + 0 * pos.realized_pnl.d
               = pos.realized_pnl.n
          /\ pos.realized_pnl.d * 1 = pos.realized_pnl.d
      BY <3>1
    <3>3. QED
      BY <3>1, <3>2 DEF Plus, Whole
  <2>3. QED
    BY <1>2, <2>1, <2>2 DEF Realized
<1>3. CASE pos.qty # 0 /\ ~SameDirection(pos, fill)
  BY <1>3 DEF PositionAfter, Realized
<1>4. QED
  BY <1>2, <1>3

LEMMA ApplyFillType ==
    ASSUME NEW book \in PortfolioState, NEW fill \in Fill
    PROVE  /\ ApplyFill(book, fill) \in PortfolioState
           /\ ApplyFill(book, fill).pos = PositionAfter(book.pos, fill)
           /\ ApplyFill(book, fill).cash = CashAfter(book.cash, fill)
           /\ ApplyFill(book, fill).peak_equity = book.peak_equity
           /\ ApplyFill(book, fill).kills = book.kills
<1>1. PositionAfter(book.pos, fill) \in Position
  BY PositionAfterType DEF PortfolioState
<1>2. CashAfter(book.cash, fill) \in Int
  BY DEF PortfolioState, CashAfter, Fill, Side
<1>3. QED
  BY <1>1, <1>2 DEF ApplyFill, PortfolioState

(***************************************************************************)
(* The accounting identity of one fill, in integers: c the cash, q the     *)
(* position, n/d the average price, k the signed quantity, p the price and *)
(* m the commission of the fill.                                           *)
(***************************************************************************)
LEMMA TradePnlType ==
    ASSUME NEW book \in PortfolioState, NEW fill \in Fill
    PROVE  TradePnl(book, fill) \in Frac
<1>1. Realized(book.pos, fill) \in Frac
  BY ClosedPnlType, WholeType DEF Realized, PortfolioState
<1>2. Whole(-fill.commission) \in Frac
  BY WholeType DEF Fill
<1>3. QED
  BY <1>1, <1>2, PlusType DEF TradePnl

LEMMA BookValueType ==
    ASSUME NEW book \in PortfolioState
    PROVE  BookValue(book) \in Frac
<1>1. book.cash \in Int /\ book.pos.qty \in Int /\ book.pos.avg_price \in Frac
  BY DEF PortfolioState, Position
<1>2. [n |-> book.pos.qty * book.pos.avg_price.n, d |-> book.pos.avg_price.d]
        \in Frac
  BY <1>1 DEF Frac
<1>3. QED
  BY <1>1, <1>2, WholeType, PlusType DEF BookValue

\* The numerator and denominator of a book's value.
LEMMA BookValueIs ==
    ASSUME NEW book \in PortfolioState
    PROVE  BookValue(book) =
             [n |-> book.cash * book.pos.avg_price.d
                      + book.pos.qty * book.pos.avg_price.n,
              d |-> book.pos.avg_price.d]
<1>1. book.cash \in Int /\ book.pos.qty \in Int /\ book.pos.avg_price \in Frac
  BY DEF PortfolioState, Position
<1>2. book.pos.avg_price.n \in Int /\ book.pos.avg_price.d \in Int
  BY <1>1 DEF Frac
<1>3. /\ book.pos.qty * book.pos.avg_price.n \in Int
      /\ 1 * book.pos.avg_price.d = book.pos.avg_price.d
  BY <1>1, <1>2
<1>4. QED
  BY <1>3 DEF BookValue, Plus, Whole

LEMMA OpeningKeepsBooks ==
    ASSUME NEW book \in PortfolioState, NEW fill \in Fill, book.pos.qty = 0
    PROVE  SameValue(BookValue(ApplyFill(book, fill)),
                     Plus(BookValue(book), TradePnl(book, fill)))
<1> DEFINE c == book.cash
           d == book.pos.avg_price.d
           k == Signed(fill)
           p == fill.price
           m == fill.commission
           after == ApplyFill(book, fill)
<1>1. /\ c \in Int /\ d \in Int /\ k \in Int /\ p \in Int /\ m \in Int
      /\ book.pos.avg_price.n \in Int
      /\ book.pos \in Position
  BY SignedType DEF PortfolioState, Position, Frac, Fill
<1>2. after \in PortfolioState /\ after.cash = c - k * p - m
  BY ApplyFillType, CashMovesByFill DEF PortfolioState
<1>3. after.pos.qty = k /\ after.pos.avg_price = Whole(p)
  <2>1. after.pos = PositionAfter(book.pos, fill)
    BY ApplyFillType
  <2>2. QED
    BY <1>1, <2>1 DEF PositionAfter, Position
<1>4. BookValue(after) = [n |-> c - m, d |-> 1]
  <2>1. (c - k * p - m) * 1 + k * p = c - m
    BY <1>1
  <2> HIDE DEF after, c, k, m, p
  <2>2. QED
    BY <1>2, <1>3, <2>1, BookValueIs DEF Whole
<1>5. TradePnl(book, fill) = [n |-> -m, d |-> 1]
  <2>1. 0 * 1 + (-m) * 1 = -m /\ 1 * 1 = 1
    BY <1>1
  <2>2. QED
    BY <2>1 DEF TradePnl, Realized, Plus, Whole
<1>6. BookValue(book) = [n |-> c * d, d |-> d]
  <2>1. c * d + 0 * book.pos.avg_price.n = c * d
    BY <1>1
  <2>2. QED
    BY <2>1, BookValueIs
<1>7. (c - m) * (d * 1) = ((c * d) * 1 + (-m) * d) * 1
  BY <1>1
<1> HIDE DEF after, c, d, k, m, p
<1>8. QED
  BY <1>4, <1>5, <1>6, <1>7 DEF SameValue, Plus, after

LEMMA IncreasingKeepsBooks ==
    ASSUME NEW book \in PortfolioState, NEW fill \in Fill,
           SameDirection(book.pos, fill)
    PROVE  SameValue(BookValue(ApplyFill(book, fill)),
                     Plus(BookValue(book), TradePnl(book, fill)))
<1> DEFINE c == book.cash
           q == book.pos.qty
           n == book.pos.avg_price.n
           d == book.pos.avg_price.d
           k == Signed(fill)
           p == fill.price
           m == fill.commission
           after == ApplyFill(book, fill)
           t == n * Abs(q) + p * fill.qty * d
           e == d * Abs(q + k)
<1>1. /\ c \in Int /\ q \in Int /\ n \in Int /\ d \in Int
      /\ k \in Int /\ p \in Int /\ m \in Int
      /\ book.pos \in Position
      /\ q # 0
      /\ fill.qty \in Int
  BY SignedType DEF PortfolioState, Position, Frac, Fill, SameDirection
<1>2. after \in PortfolioState /\ after.cash = c - k * p - m
  BY ApplyFillType, CashMovesByFill DEF PortfolioState
<1>3. after.pos.qty = q + k /\ after.pos.avg_price = [n |-> t, d |-> e]
  <2>1. after.pos = PositionAfter(book.pos, fill)
    BY ApplyFillType
  <2>2. QED
    BY <1>1, <2>1 DEF PositionAfter, Position, AveragePrice
<1>4. BookValue(after) = [n |-> (c - k * p - m) * e + (q + k) * t, d |-> e]
  <2> HIDE DEF after, c, k, m, p, q, e, t
  <2>1. QED
    BY <1>2, <1>3, BookValueIs
<1>5. TradePnl(book, fill) = [n |-> -m, d |-> 1]
  <2>1. 0 * 1 + (-m) * 1 = -m /\ 1 * 1 = 1
    BY <1>1
  <2>2. QED
    BY <2>1 DEF TradePnl, Realized, Plus, Whole
<1>6. BookValue(book) = [n |-> c * d + q * n, d |-> d]
  BY BookValueIs
<1>7. (q + k) * t = Abs(q + k) * (n * q + p * k * d)
  <2>1. \/ /\ Abs(q) = q /\ fill.qty = k /\ Abs(q + k) = q + k
        \/ /\ Abs(q) = -q /\ fill.qty = -k /\ Abs(q + k) = -(q + k)
    BY <1>1 DEF SameDirection, Signed, Abs, Fill, Side
  <2>2. CASE Abs(q) = q /\ fill.qty = k /\ Abs(q + k) = q + k
    <3>1. (q + k) * (n * q + p * k * d) = (q + k) * (n * q + p * k * d)
      OBVIOUS
    <3>2. QED
      BY <2>2
  <2>3. CASE Abs(q) = -q /\ fill.qty = -k /\ Abs(q + k) = -(q + k)
    <3>1. (q + k) * (n * (-q) + p * (-k) * d)
            = (-(q + k)) * (n * q + p * k * d)
      BY <1>1
    <3>2. QED
      BY <2>3, <3>1
  <2>4. QED
    BY <2>1, <2>2, <2>3
<1>8. Abs(q + k) \in Int
  BY <1>1 DEF Abs
<1>9. ((c - k * p - m) * e + (q + k) * t) * (d * 1)
        = ((c * d + q * n) * 1 + (-m) * d) * e
  <2> DEFINE a == Abs(q + k)
             w == (q + k) * t
  <2>1. w = a * (n * q + p * k * d)
    BY <1>7
  <2>2. a \in Int
    BY <1>8
  <2> HIDE DEF a
  <2>3. ((c - k * p - m) * (d * a) + a * (n * q + p * k * d)) * (d * 1)
          = ((c * d + q * n) * 1 + (-m) * d) * (d * a)
    BY <1>1, <2>2
  <2>4. e = d * a
    BY DEF a
  <2> HIDE DEF w, e, c, d, k, m, p, q, n
  <2>5. QED
    BY <2>1, <2>3, <2>4 DEF w
<1> HIDE DEF after, c, d, k, m, p, q, n, t, e
<1>10. QED
  BY <1>4, <1>5, <1>6, <1>9 DEF SameValue, Plus, after

\* A close realizes, per closed lot, the distance from the average price.
LEMMA ClosingKeepsBooks ==
    ASSUME NEW book \in PortfolioState, NEW fill \in Fill,
           book.pos.qty # 0, ~SameDirection(book.pos, fill)
    PROVE  SameValue(BookValue(ApplyFill(book, fill)),
                     Plus(BookValue(book), TradePnl(book, fill)))
<1> DEFINE c == book.cash
           q == book.pos.qty
           n == book.pos.avg_price.n
           d == book.pos.avg_price.d
           k == Signed(fill)
           p == fill.price
           m == fill.commission
           after == ApplyFill(book, fill)
           price == PriceAfterClose(book.pos, fill)
           pnl == ClosedPnl(book.pos, fill).n
<1>1. /\ c \in Int /\ q \in Int /\ n \in Int /\ d \in Int
      /\ k \in Int /\ p \in Int /\ m \in Int
      /\ fill.qty \in Int
      /\ book.pos \in Position
      /\ book.pos.avg_price \in Frac
  BY SignedType DEF PortfolioState, Position, Frac, Fill
<1>2. after \in PortfolioState /\ after.cash = c - k * p - m
  BY ApplyFillType, CashMovesByFill DEF PortfolioState
<1>3. after.pos.qty = q + k /\ after.pos.avg_price = price
  <2>1. after.pos = PositionAfter(book.pos, fill)
    BY ApplyFillType
  <2>2. after.pos.avg_price = price
    BY <2>1 DEF PositionAfter
  <2>3. QED
    BY <1>1, <2>1, <2>2, PositionMovesByFill
<1>4. BookValue(after)
        = [n |-> (c - k * p - m) * price.d + (q + k) * price.n, d |-> price.d]
  <2> HIDE DEF after, c, k, m, p, q, price
  <2>1. QED
    BY <1>2, <1>3, BookValueIs
<1>5. ClosedPnl(book.pos, fill).d = d
  BY DEF ClosedPnl
<1>6. TradePnl(book, fill) = [n |-> pnl + (-m) * d, d |-> d]
  <2>1. pnl \in Int
    BY <1>1, ClosedPnlType DEF Frac
  <2>2. pnl * 1 + (-m) * d = pnl + (-m) * d /\ d * 1 = d
    BY <1>1, <2>1
  <2> HIDE DEF pnl, m, d
  <2>3. QED
    BY <1>5, <2>2 DEF TradePnl, Realized, Plus, Whole, pnl, m
<1>7. BookValue(book) = [n |-> c * d + q * n, d |-> d]
  BY BookValueIs
<1>8. \/ /\ price = book.pos.avg_price
         /\ pnl = (-k) * (p * d - n)
      \/ /\ price = [n |-> p, d |-> 1] \/ q + k = 0
         /\ price.d = 1
         /\ pnl = q * (p * d - n)
  <2> DEFINE gain == p * d - n
  <2>1. gain \in Int
    BY <1>1
  <2>2. pnl = CloseQty(book.pos, fill) * (IF q > 0 THEN gain ELSE -gain)
    BY DEF ClosedPnl
  <2>3. \/ q > 0 /\ k = -fill.qty
        \/ q < 0 /\ k = fill.qty
    BY <1>1 DEF SameDirection, Signed, Fill, Side
  <2>4. CASE Abs(q) > fill.qty
    <3>1. price = book.pos.avg_price
      BY <2>4 DEF PriceAfterClose
    <3>2. CloseQty(book.pos, fill) = fill.qty
      BY <1>1, <2>4 DEF CloseQty, Least, Abs
    <3>3. pnl = (-k) * gain
      <4> HIDE DEF gain, pnl, k, q
      <4>1. CASE q > 0 /\ k = -fill.qty
        BY <1>1, <2>1, <2>2, <3>2, <4>1
      <4>2. CASE q < 0 /\ k = fill.qty
        BY <1>1, <2>1, <2>2, <3>2, <4>2
      <4>3. QED
        BY <2>3, <4>1, <4>2
    <3>4. QED
      BY <3>1, <3>3
  <2>5. CASE Abs(q) <= fill.qty
    <3>1. CloseQty(book.pos, fill) = Abs(q)
      BY <1>1, <2>5 DEF CloseQty, Least, Abs
    <3>2. pnl = q * gain
      <4> HIDE DEF gain, pnl, k
      <4>1. CASE q > 0
        BY <1>1, <2>1, <2>2, <3>1, <4>1 DEF Abs
      <4>2. CASE q < 0
        BY <1>1, <2>1, <2>2, <3>1, <4>2 DEF Abs
      <4>3. QED
        BY <2>3, <4>1, <4>2
    <3>3. price.d = 1 /\ (price = [n |-> p, d |-> 1] \/ q + k = 0)
      <4>1. CASE Abs(q) = fill.qty
        BY <1>1, <2>3, <4>1 DEF PriceAfterClose, Whole, Abs
      <4>2. CASE Abs(q) < fill.qty
        BY <1>1, <4>2 DEF PriceAfterClose, Whole, Abs
      <4>3. QED
        BY <1>1, <2>5, <4>1, <4>2 DEF Abs
    <3>4. QED
      BY <3>2, <3>3
  <2>6. QED
    BY <1>1, <2>4, <2>5 DEF Abs
<1>9. price.n \in Int
  BY <1>1, WholeType DEF PriceAfterClose, Frac, Fill, Whole
<1> HIDE DEF price, pnl, c, q, n, d, k, p, m
<1>10. ((c - k * p - m) * price.d + (q + k) * price.n) * (d * d)
        = ((c * d + q * n) * d + (pnl + (-m) * d) * d) * price.d
  <2>1. CASE price = book.pos.avg_price /\ pnl = (-k) * (p * d - n)
    <3>1. ((c - k * p - m) * d + (q + k) * n) * (d * d)
            = ((c * d + q * n) * d + ((-k) * (p * d - n) + (-m) * d) * d) * d
      BY <1>1
    <3>2. price.n = n /\ price.d = d
      BY <2>1 DEF n, d
    <3>3. QED
      BY <2>1, <3>1, <3>2
  <2>2. CASE /\ price = [n |-> p, d |-> 1]
             /\ pnl = q * (p * d - n)
    <3>1. ((c - k * p - m) * 1 + (q + k) * p) * (d * d)
            = ((c * d + q * n) * d + (q * (p * d - n) + (-m) * d) * d) * 1
      BY <1>1
    <3>2. price.n = p /\ price.d = 1
      BY <2>2
    <3>3. QED
      BY <2>2, <3>1, <3>2
  <2>3. CASE q + k = 0 /\ price.d = 1 /\ pnl = q * (p * d - n)
    <3>1. k = -q
      BY <1>1, <2>3
    <3>2. ((c - (-q) * p - m) * 1 + 0 * price.n) * (d * d)
            = ((c * d + q * n) * d + (q * (p * d - n) + (-m) * d) * d) * 1
      BY <1>1, <1>9
    <3>3. QED
      BY <2>3, <3>1, <3>2
  <2>4. QED
    BY <1>8, <2>1, <2>2, <2>3
<1> HIDE DEF after
<1>11. QED
  BY <1>4, <1>6, <1>7, <1>10 DEF SameValue, Plus, after

LEMMA FreshBookType ==
    ASSUME NEW cash \in Int
    PROVE  FreshBook(cash) \in PortfolioState
BY WholeType DEF FreshBook, PortfolioState, FlatPosition, Position

\* apply_fill's return value is exactly what the fill changes the book's
\* value by, at the average price the book carries before and after it.
THEOREM FillKeepsBooks ==
    ASSUME NEW book \in PortfolioState, NEW fill \in Fill
    PROVE  SameValue(BookValue(ApplyFill(book, fill)),
                     Plus(BookValue(book), TradePnl(book, fill)))
BY OpeningKeepsBooks, IncreasingKeepsBooks, ClosingKeepsBooks

(***************************************************************************)
(* RiskEngine.check.                                                       *)
(***************************************************************************)
\* Rounding down stays below the quotient.
LEMMA DivBelow ==
    ASSUME NEW a \in Int, NEW b \in Nat \ {0}
    PROVE  /\ a \div b \in Int
           /\ b * (a \div b) <= a
           /\ a < b * (a \div b) + b
OBVIOUS

LEMMA EquityType ==
    ASSUME NEW book \in PortfolioState, NEW mark \in Int
    PROVE  Equity(book, mark) \in Int
BY DEF PortfolioState, Position, Equity

LEMMA PositionRoomType ==
    ASSUME NEW book \in PortfolioState, NEW order \in Order,
           NEW mark \in Nat \ {0}
    PROVE  /\ MaxQty(book, mark) \in Int
           /\ MaxQty(book, mark) * (100 * mark)
                <= RiskCfg.max_position_pct * Equity(book, mark)
           /\ PositionRoom(book, order, mark) \in Nat
<1>1. RiskCfg.max_position_pct * Equity(book, mark) \in Int
  BY RiskCfgAssumption, EquityType DEF RiskConfig
<1>2. 100 * mark \in Nat \ {0}
  OBVIOUS
<1>3. /\ MaxQty(book, mark) \in Int
      /\ (100 * mark) * MaxQty(book, mark)
           <= RiskCfg.max_position_pct * Equity(book, mark)
  BY <1>1, <1>2, DivBelow DEF MaxQty
<1>4. PositionRoom(book, order, mark) \in Nat
  BY <1>3 DEF PositionRoom, Greatest, PortfolioState, Position
<1>5. QED
  BY <1>3, <1>4

LEMMA GrossRoomType ==
    ASSUME NEW book \in PortfolioState, NEW mark \in Nat \ {0}
    PROVE  /\ Gross(book, mark) \in Nat
           /\ GrossRoom(book, mark) \in Int
           /\ GrossRoom(book, mark) * (100 * mark)
                <= Greatest(0, RiskCfg.max_gross_exposure * Equity(book, mark)
                                 - 100 * Gross(book, mark))
<1> DEFINE room == Greatest(0, RiskCfg.max_gross_exposure * Equity(book, mark)
                                 - 100 * Gross(book, mark))
<1>1. RiskCfg.max_gross_exposure * Equity(book, mark) \in Int
  BY RiskCfgAssumption, EquityType DEF RiskConfig
<1>2. book.pos.qty * mark \in Int
  BY DEF PortfolioState, Position
<1>3. Gross(book, mark) \in Nat
  BY <1>2 DEF Gross, Abs
<1>4. room \in Int
  BY <1>1, <1>3 DEF Greatest
<1>5. 100 * mark \in Nat \ {0}
  OBVIOUS
<1> HIDE DEF room
<1>6. room \div (100 * mark) \in Int /\ (100 * mark) * (room \div (100 * mark)) <= room
  BY <1>4, <1>5, DivBelow
<1>7. GrossRoom(book, mark) = room \div (100 * mark)
  BY DEF GrossRoom, room
<1>8. QED
  BY <1>3, <1>6, <1>7 DEF room

LEMMA CheckPositionType ==
    ASSUME NEW book \in PortfolioState, NEW order \in Order,
           NEW mark \in Nat \ {0}, NEW vol \in Nat,
           Equity(book, mark) > 0
    PROVE  CheckPosition(order, book, mark, vol) \in RiskDecision
<1>1. \A qty \in Int : LimitTo(qty) \in RiskDecision
  BY DEF LimitTo, Reject, Reduce, RiskDecision, Verdict
<1>2. LimitTo(PositionRoom(book, order, mark)) \in RiskDecision
  BY <1>1, PositionRoomType
<1>3. LimitTo(GrossRoom(book, mark)) \in RiskDecision
  BY <1>1, GrossRoomType
<1>4. ASSUME VolSized(book, order, mark, vol)
      PROVE  Reduce(VolQty(book, mark, vol)) \in RiskDecision
  <2> DEFINE budget == RiskCfg.risk_per_trade_pct * Equity(book, mark)
             risk == 2 * vol * mark
  <2>1. vol \in Nat \ {0}
    BY <1>4 DEF VolSized
  <2>2. risk \in Nat \ {0}
    BY <2>1
  <2>3. budget \in Nat
    BY RiskCfgAssumption, EquityType DEF RiskConfig
  <2>4. VolQty(book, mark, vol) = budget \div risk
    BY DEF VolQty
  <2> HIDE DEF budget, risk
  <2>5. budget \div risk \in Nat
    BY <2>2, <2>3
  <2>6. QED
    BY <2>4, <2>5 DEF Reduce, RiskDecision, Verdict
<1>5. Allow(order.qty) \in RiskDecision
  BY DEF Allow, RiskDecision, Verdict, Order
<1>6. QED
  BY <1>2, <1>3, <1>4, <1>5 DEF CheckPosition

\* A decision always has one of the four verdicts and a quantity.
LEMMA CheckType ==
    ASSUME NEW killed, NEW book \in PortfolioState, NEW order \in Order,
           NEW mark \in Int, NEW vol \in Nat
    PROVE  Check(killed, order, book, mark, vol) \in RiskDecision
<1>1. Reject \in RiskDecision
  BY DEF Reject, RiskDecision, Verdict
<1>2. /\ Kill("daily loss") \in RiskDecision
      /\ Kill("drawdown") \in RiskDecision
      /\ Kill("kill switch active") \in RiskDecision
  BY DEF Kill, RiskDecision, Verdict, KillReason
<1>3. ASSUME Equity(book, mark) > 0, mark > 0
      PROVE  CheckPosition(order, book, mark, vol) \in RiskDecision
  BY <1>3, CheckPositionType
<1>4. CheckAccount(order, book, mark, vol) \in RiskDecision
  <2>1. Equity(book, mark) \in Int
    BY EquityType
  <2>2. CASE Equity(book, mark) <= 0 \/ mark <= 0
    BY <1>1, <1>2, <2>2 DEF CheckAccount
  <2>3. CASE ~(Equity(book, mark) <= 0 \/ mark <= 0)
    <3>1. CheckPosition(order, book, mark, vol) \in RiskDecision
      BY <1>3, <2>1, <2>3
    <3>2. QED
      BY <1>1, <1>2, <3>1 DEF CheckAccount
  <2>4. QED
    BY <2>2, <2>3
<1>5. QED
  BY <1>2, <1>4 DEF Check

\* A KILL verdict names its reason.
LEMMA KillHasReason ==
    ASSUME NEW killed, NEW book, NEW order, NEW mark, NEW vol,
           Check(killed, order, book, mark, vol).verdict = "KILL"
    PROVE  Check(killed, order, book, mark, vol).reason \in KillReason
<1>1. \A qty : LimitTo(qty).verdict # "KILL" /\ Reduce(qty).verdict # "KILL"
               /\ Allow(qty).verdict # "KILL"
  BY DEF LimitTo, Reject, Reduce, Allow
<1>2. CheckPosition(order, book, mark, vol).verdict # "KILL"
  BY <1>1 DEF CheckPosition
<1>3. Reject.verdict # "KILL"
  BY DEF Reject
<1>4. /\ Kill("daily loss").reason \in KillReason
      /\ Kill("drawdown").reason \in KillReason
      /\ Kill("kill switch active").reason \in KillReason
  BY DEF Kill, KillReason
<1>5. QED
  BY <1>2, <1>3, <1>4 DEF Check, CheckAccount

(***************************************************************************)
(* What the gate lets through.                                             *)
(***************************************************************************)
LEMMA OkCheckIsChecked ==
    ASSUME NEW killed, NEW book, NEW order, NEW mark \in Int, NEW vol,
           Equity(book, mark) \in Int,
           Ok(Check(killed, order, book, mark, vol))
    PROVE  /\ ~killed
           /\ mark > 0
           /\ Equity(book, mark) > 0
           /\ ~DailyLossBreached(book, mark)
           /\ ~DrawdownBreached(book, mark)
           /\ Check(killed, order, book, mark, vol)
                = CheckPosition(order, book, mark, vol)
<1>1. ~Ok(Reject) /\ \A reason : ~Ok(Kill(reason))
  BY DEF Ok, Reject, Kill
<1>2. ~killed
  BY <1>1 DEF Check
<1>3. Check(killed, order, book, mark, vol) = CheckAccount(order, book, mark, vol)
  BY <1>2 DEF Check
<1>4. /\ ~(Equity(book, mark) <= 0)
      /\ ~DailyLossBreached(book, mark)
      /\ ~DrawdownBreached(book, mark)
      /\ ~(mark <= 0)
  BY <1>1, <1>3 DEF CheckAccount
<1>5. QED
  BY <1>2, <1>3, <1>4 DEF CheckAccount

\* The quantity the gate allows leads to a position within the limit, also
\* when the gate changed it.
LEMMA OkCheckKeepsLimit ==
    ASSUME NEW book \in PortfolioState, NEW order \in Order,
           NEW mark \in Nat \ {0},
           Equity(book, mark) > 0,
           NEW decision, decision = CheckPosition(order, book, mark, 0),
           Ok(decision)
    PROVE  /\ Adjusted(order, decision) \in Order
           /\ ~OverPositionLimit(book, Adjusted(order, decision), mark)
<1> DEFINE q == book.pos.qty
           limit == RiskCfg.max_position_pct * Equity(book, mark)
           lots == MaxQty(book, mark)
           room == PositionRoom(book, order, mark)
           adj == Adjusted(order, decision)
<1>1. /\ q \in Int /\ limit \in Int /\ limit >= 0
      /\ order.qty \in Nat \ {0}
      /\ order.side \in {"BUY", "SELL"}
  BY RiskCfgAssumption, EquityType
  DEF RiskConfig, PortfolioState, Position, Order, Side
<1>2. decision \in RiskDecision
  BY CheckPositionType
<1>3. decision.allowed_qty \in Nat \ {0}
  BY <1>2 DEF Ok, RiskDecision
<1>4. /\ adj.side = order.side
      /\ adj.qty = decision.allowed_qty
      /\ adj \in Order
  BY <1>3 DEF Adjusted, Order
<1>5. ASSUME Abs(QtyAfter(book, adj)) * 100 * mark <= limit
      PROVE  ~OverPositionLimit(book, adj, mark)
  <2>1. Abs(QtyAfter(book, adj)) * 100 * mark \in Int
    BY <1>1, <1>3, <1>4 DEF QtyAfter, Signed, Abs
  <2> HIDE DEF adj
  <2>2. QED
    BY <1>1, <1>5, <2>1 DEF OverPositionLimit
<1>6. CASE OverPositionLimit(book, order, mark)
  <2>1. decision = LimitTo(room)
    BY <1>6 DEF CheckPosition
  <2>2. decision.allowed_qty = room /\ room > 0
    BY <1>3, <2>1, PositionRoomType DEF LimitTo, Reject, Reduce
  <2>3. Abs(QtyAfter(book, adj)) = Abs(lots) /\ lots \in Int
    BY <1>1, <1>4, <2>2, PositionRoomType
    DEF PositionRoom, Greatest, QtyAfter, Signed, Abs
  <2>4. lots >= 0
    <3> DEFINE unit == 100 * mark
    <3>1. unit \in Nat \ {0}
      OBVIOUS
    <3>2. lots = limit \div unit
      BY DEF MaxQty
    <3> HIDE DEF limit, unit
    <3>3. limit \div unit >= 0
      BY <1>1, <3>1
    <3>4. QED
      BY <3>2, <3>3
  <2>5. lots * (100 * mark) <= limit
    BY PositionRoomType
  <2> HIDE DEF lots, limit, adj
  <2>6. Abs(QtyAfter(book, adj)) * 100 * mark <= limit
    BY <2>3, <2>4, <2>5 DEF Abs
  <2>7. QED
    BY <1>4, <1>5, <2>6 DEF adj
<1>7. CASE ~OverPositionLimit(book, order, mark)
  <2>1. Abs(QtyAfter(book, order)) * 100 * mark <= limit
    BY <1>1, <1>7 DEF OverPositionLimit, QtyAfter, Signed, Abs
  <2>2. CASE Increasing(book, order) /\ OverGrossLimit(book, order, mark)
    <3>1. decision = LimitTo(GrossRoom(book, mark))
      BY <1>7, <2>2 DEF CheckPosition
    <3>2. adj.qty = GrossRoom(book, mark) /\ GrossRoom(book, mark) > 0
      BY <1>3, <1>4, <3>1, GrossRoomType DEF LimitTo, Reject, Reduce
    <3>3. GrossRoom(book, mark) < order.qty
      <4> DEFINE gross == RiskCfg.max_gross_exposure * Equity(book, mark)
                 held == Gross(book, mark)
                 lot == 100 * mark
                 free == GrossRoom(book, mark)
      <4>1. gross \in Int /\ held \in Nat /\ free \in Int /\ lot \in Nat \ {0}
        BY RiskCfgAssumption, EquityType, GrossRoomType DEF RiskConfig
      <4>2. free * lot <= Greatest(0, gross - 100 * held) /\ free > 0
        BY <3>2, GrossRoomType
      <4>3. 100 * (held + order.qty * mark) > gross
        BY <2>2 DEF OverGrossLimit
      <4>4. 100 * (held + order.qty * mark) = 100 * held + order.qty * lot
        BY <1>1, <4>1
      <4> HIDE DEF gross, held, lot, free
      <4>5. free * lot > 0
        BY <4>1, <4>2
      <4>6. free * lot <= gross - 100 * held
        BY <4>1, <4>2, <4>5 DEF Greatest
      <4>7. order.qty * lot \in Int /\ free * lot \in Int
        BY <1>1, <4>1
      <4>8. free * lot < order.qty * lot
        BY <4>1, <4>3, <4>4, <4>6, <4>7
      <4>9. free < order.qty
        BY <1>1, <4>1, <4>8
      <4>10. QED
        BY <4>9 DEF free
    <3>4. /\ Abs(QtyAfter(book, adj)) <= Abs(QtyAfter(book, order))
          /\ Abs(QtyAfter(book, adj)) \in Nat
          /\ Abs(QtyAfter(book, order)) \in Nat
      BY <1>1, <1>3, <1>4, <2>2, <3>2, <3>3
      DEF Increasing, QtyAfter, Signed, Abs
    <3> HIDE DEF adj, limit
    <3>5. Abs(QtyAfter(book, adj)) * 100 * mark <= limit
      <4> DEFINE x == Abs(QtyAfter(book, adj))
                 y == Abs(QtyAfter(book, order))
      <4>1. x \in Nat /\ y \in Nat /\ x <= y /\ y * 100 * mark <= limit
        BY <2>1, <3>4
      <4> HIDE DEF x, y
      <4>2. x * 100 * mark <= y * 100 * mark
        BY <4>1
      <4>3. limit \in Int
        BY <1>1
      <4>4. x * 100 * mark <= limit
        BY <4>1, <4>2, <4>3
      <4>5. QED
        BY <4>4 DEF x
    <3>6. QED
      BY <1>4, <1>5, <3>5 DEF adj
  <2>3. CASE ~(Increasing(book, order) /\ OverGrossLimit(book, order, mark))
    <3>1. decision = Allow(order.qty)
      BY <1>7, <2>3 DEF CheckPosition, VolSized
    <3>2. adj.qty = order.qty
      BY <1>4, <3>1 DEF Allow
    <3>3. QtyAfter(book, adj) = QtyAfter(book, order)
      BY <1>4, <3>2 DEF QtyAfter, Signed
    <3>4. QED
      BY <1>4, <1>7, <3>3 DEF OverPositionLimit
  <2>4. QED
    BY <2>2, <2>3
<1>8. QED
  BY <1>6, <1>7

(***************************************************************************)
(* The cost model.                                                         *)
(***************************************************************************)
LEMMA ImpactType ==
    ASSUME NEW qty \in Nat \ {0}, NEW adv \in Nat \cup {NoAdv}
    PROVE  ImpactBps(qty, adv) \in Nat
<1> DEFINE volume == IF adv = NoAdv THEN CostCfg.adv_fallback ELSE adv
           digits == {r \in 1..(100 * qty) : r * r * volume <= 10000 * qty}
<1>1. IsFiniteSet(digits) /\ Cardinality(digits) \in Nat
  <2>1. IsFiniteSet(1..(100 * qty))
    BY FS_Interval
  <2>2. QED
    BY <2>1, FS_Subset, FS_CardinalityType
<1>2. SqrtShareOfVolume(qty, volume) \in Nat
  BY <1>1 DEF SqrtShareOfVolume
<1>3. CostCfg.impact_coeff \in Nat
  BY CostCfgAssumption DEF CostConfig
<1> HIDE DEF volume
<1>4. ImpactBps(qty, adv)
        = IF CostCfg.impact_coeff > 0 /\ volume > 0
          THEN (CostCfg.impact_coeff * SqrtShareOfVolume(qty, volume)) \div 100
          ELSE 0
  BY DEF ImpactBps, volume
<1> DEFINE scaled == CostCfg.impact_coeff * SqrtShareOfVolume(qty, volume)
<1>5. scaled \in Nat
  BY <1>2, <1>3
<1> HIDE DEF scaled
<1>6. scaled \div 100 \in Nat
  BY <1>5
<1>7. QED
  BY <1>4, <1>6 DEF scaled

LEMMA CommissionType ==
    ASSUME NEW qty \in Nat \ {0}, NEW price \in Int
    PROVE  Commission(qty, price) \in Nat
<1>1. /\ CostCfg.commission_min \in Nat
      /\ CostCfg.commission_bps \in Nat
      /\ CostCfg.commission_per_share \in Nat
  BY CostCfgAssumption DEF CostConfig
<1> DEFINE scaled == qty * price * CostCfg.commission_bps
           share == scaled \div 10000
           flat == qty * CostCfg.commission_per_share
<1>2. scaled \in Int /\ flat \in Int
  BY <1>1
<1>3. share \in Int
  <2> HIDE DEF scaled
  <2> QED
    BY <1>2
<1>4. Commission(qty, price)
        = Greatest(CostCfg.commission_min,
                   IF CostCfg.commission_bps > 0 THEN share ELSE flat)
  BY DEF Commission
<1> HIDE DEF share, flat
<1>5. QED
  BY <1>1, <1>2, <1>3, <1>4 DEF Greatest

LEMMA ExecuteType ==
    ASSUME NEW order \in Order, NEW mid \in Int, NEW adv \in Nat \cup {NoAdv}
    PROVE  Execute(order, mid, adv) \in Fill
<1>1. order.qty \in Nat \ {0} /\ order.side \in Side
  BY DEF Order
<1>2. CostCfg.spread_bps \in Nat /\ CostCfg.slippage_bps \in Nat
  BY CostCfgAssumption DEF CostConfig
<1>3. TotalBpsTwice(order.qty, adv) \in Int
  <2>1. ImpactBps(order.qty, adv) \in Nat
    BY <1>1, ImpactType
  <2>2. QED
    BY <1>2, <2>1 DEF TotalBpsTwice
<1>4. PriceShift(order.qty, mid, adv) \in Int
  <2>1. mid * TotalBpsTwice(order.qty, adv) \in Int
    BY <1>3
  <2>2. QED
    BY <2>1 DEF PriceShift
<1>5. FillPrice(order, mid, adv) \in Int
  BY <1>4 DEF FillPrice
<1>6. Commission(order.qty, FillPrice(order, mid, adv)) \in Nat
  BY <1>1, <1>5, CommissionType
<1>7. QED
  BY <1>1, <1>5, <1>6 DEF Execute, Fill

\* The cost model only ever worsens the price: the total cost is not negative.
LEMMA PriceShiftType ==
    ASSUME NEW qty \in Nat \ {0}, NEW mid \in Nat, NEW adv \in Nat \cup {NoAdv}
    PROVE  PriceShift(qty, mid, adv) \in Nat
<1> DEFINE bps == TotalBpsTwice(qty, adv)
           shifted == mid * bps
<1>1. bps \in Nat
  <2>1. CostCfg.spread_bps \in Nat /\ CostCfg.slippage_bps \in Nat
    BY CostCfgAssumption DEF CostConfig
  <2>2. QED
    BY <2>1, ImpactType DEF TotalBpsTwice
<1> HIDE DEF bps
<1>2. shifted \in Nat
  BY <1>1
<1> HIDE DEF shifted
<1>3. shifted \div 20000 \in Nat
  BY <1>2
<1>4. QED
  BY <1>3 DEF PriceShift, shifted, bps

(***************************************************************************)
(* The bars of the two loops.                                              *)
(***************************************************************************)
LEMMA FreshRunType ==
    ASSUME NEW cash \in Int
    PROVE  FreshRun(cash) \in BarRun
<1>1. FreshBook(cash) \in PortfolioState
  BY FreshBookType
<1>2. <<cash>> \in Seq(Int)
  OBVIOUS
<1>3. QED
  BY <1>1, <1>2 DEF FreshRun, BarRun

LEMMA UpdatePeaksType ==
    ASSUME NEW book \in PortfolioState, NEW mark \in Int
    PROVE  /\ UpdatePeaks(book, mark) \in PortfolioState
           /\ UpdatePeaks(book, mark).pos = book.pos
           /\ UpdatePeaks(book, mark).cash = book.cash
           /\ UpdatePeaks(book, mark).day_start_equity = book.day_start_equity
           /\ UpdatePeaks(book, mark).peak_equity
                = Greatest(book.peak_equity, Equity(book, mark))
<1>1. Equity(book, mark) \in Int
  BY EquityType
<1>2. QED
  BY <1>1 DEF UpdatePeaks, PortfolioState, Greatest

LEMMA RollDayType ==
    ASSUME NEW book \in PortfolioState, NEW mark \in Int, NEW new_day \in BOOLEAN
    PROVE  /\ RollDay(book, mark, new_day) \in PortfolioState
           /\ RollDay(book, mark, new_day).pos = book.pos
           /\ RollDay(book, mark, new_day).cash = book.cash
           /\ RollDay(book, mark, new_day).peak_equity = book.peak_equity
           /\ RollDay(book, mark, new_day).day_start_equity
                = IF new_day THEN Equity(book, mark) ELSE book.day_start_equity
<1>1. Equity(book, mark) \in Int
  BY EquityType
<1>2. QED
  BY <1>1 DEF RollDay, PortfolioState

\* An order of a bar is refused, or filled once, at the price the cost model
\* gives for the quantity the engine allows.
LEMMA TakeOrderIs ==
    ASSUME NEW run \in BarRun, NEW order \in Order, NEW mid \in Int,
           NEW adv \in Nat \cup {NoAdv},
           NEW decision, decision = Check(run.killed, order, run.pf, mid, 0)
    PROVE  /\ decision \in RiskDecision
           /\ ~Ok(decision) =>
                TakeOrder(run, order, mid, adv)
                  = [run EXCEPT !.killed = run.killed \/ decision.verdict = "KILL"]
           /\ Ok(decision) =>
                /\ ~run.killed
                /\ Adjusted(order, decision) \in Order
                /\ Execute(Adjusted(order, decision), mid, adv) \in Fill
                /\ TakeOrder(run, order, mid, adv)
                     = FillOrder(run, Execute(Adjusted(order, decision), mid, adv))
<1>1. run.pf \in PortfolioState
  BY DEF BarRun
<1>2. decision \in RiskDecision
  BY <1>1, CheckType
<1>3. ASSUME Ok(decision)
      PROVE  /\ ~run.killed
             /\ Adjusted(order, decision) \in Order
             /\ Execute(Adjusted(order, decision), mid, adv) \in Fill
  <2>1. Equity(run.pf, mid) \in Int
    BY <1>1, EquityType
  <2>2. /\ ~run.killed /\ mid > 0 /\ Equity(run.pf, mid) > 0
        /\ decision = CheckPosition(order, run.pf, mid, 0)
    BY <1>3, <2>1, OkCheckIsChecked
  <2>3. Adjusted(order, decision) \in Order
    BY <1>1, <1>3, <2>2, OkCheckKeepsLimit
  <2>4. QED
    BY <2>2, <2>3, ExecuteType
<1>4. QED
  BY <1>2, <1>3 DEF TakeOrder, Refuse, KilledAfter

LEMMA FillOrderType ==
    ASSUME NEW run \in BarRun, NEW fill \in Fill
    PROVE  /\ FillOrder(run, fill) \in BarRun
           /\ FillOrder(run, fill).pf = ApplyFill(run.pf, fill)
           /\ FillOrder(run, fill).fills = Append(run.fills, fill)
           /\ FillOrder(run, fill).killed = run.killed
           /\ FillOrder(run, fill).equity = run.equity
<1>1. ApplyFill(run.pf, fill) \in PortfolioState
  BY ApplyFillType DEF BarRun
<1>2. Append(run.fills, fill) \in Seq(Fill)
  BY DEF BarRun
<1>3. FillOrder(run, fill)
        = [run EXCEPT !.pf = ApplyFill(run.pf, fill),
                      !.fills = Append(run.fills, fill)]
  BY DEF FillOrder
<1> DEFINE longer == Append(run.fills, fill)
           book == ApplyFill(run.pf, fill)
<1> HIDE DEF longer, book
<1>4. QED
  BY <1>1, <1>2, <1>3 DEF BarRun, longer, book

LEMMA TakeOrderType ==
    ASSUME NEW run \in BarRun, NEW order \in Order, NEW mid \in Int,
           NEW adv \in Nat \cup {NoAdv}
    PROVE  /\ TakeOrder(run, order, mid, adv) \in BarRun
           /\ TakeOrder(run, order, mid, adv).equity = run.equity
<1> DEFINE decision == Check(run.killed, order, run.pf, mid, 0)
<1> HIDE DEF decision
<1>1. decision = Check(run.killed, order, run.pf, mid, 0)
  BY DEF decision
<1>2. CASE Ok(decision)
  BY <1>1, <1>2, TakeOrderIs, FillOrderType
<1>3. CASE ~Ok(decision)
  <2>1. TakeOrder(run, order, mid, adv)
          = [run EXCEPT !.killed = run.killed \/ decision.verdict = "KILL"]
    BY <1>1, <1>3, TakeOrderIs
  <2>2. (run.killed \/ decision.verdict = "KILL") \in BOOLEAN
    OBVIOUS
  <2>3. QED
    BY <2>1, <2>2 DEF BarRun
<1>4. QED
  BY <1>2, <1>3

\* The orders of a bar are taken one after the other, each on what the ones
\* before it left.
LEMMA TradingOfList ==
    ASSUME NEW run \in BarRun, NEW mid \in Int, NEW orders, Len(orders) \in Nat,
           \A n \in 1..Len(orders) : orders[n] \in Order, NEW adv \in Nat \cup {NoAdv}
    PROVE  /\ Trading(run, mid, orders, adv)[0] = run
           /\ \A n \in 1..Len(orders) :
                Trading(run, mid, orders, adv)[n]
                  = TakeOrder(Trading(run, mid, orders, adv)[n - 1], orders[n],
                              mid, adv)
           /\ \A n \in 0..Len(orders) : Trading(run, mid, orders, adv)[n] \in BarRun
<1> DEFINE rec(f) == f = [n \in 0..Len(orders) |->
                            IF n = 0 THEN run
                            ELSE TakeOrder(f[n - 1], orders[n], mid, adv)]
<1>1. PICK m \in Nat : m = Len(orders)
  OBVIOUS
<1>2. \A n \in 1..m : orders[n] \in Order
  BY <1>1
<1>3. \A n \in 1..m, before \in BarRun :
         TakeOrder(before, orders[n], mid, adv) \in BarRun
  BY <1>2, TakeOrderType
<1>4. PICK step \in [1..m -> [BarRun -> BarRun]] :
        \A n \in 1..m, before \in BarRun :
           step[n][before] = TakeOrder(before, orders[n], mid, adv)
  <2> DEFINE s == [n \in 1..m |->
                     [before \in BarRun |-> TakeOrder(before, orders[n], mid, adv)]]
  <2>1. s \in [1..m -> [BarRun -> BarRun]]
    BY <1>3
  <2>2. QED
    BY <2>1
<1>5. PICK f \in [0..m -> BarRun] :
        f[0] = run /\ \A n \in 1..m : f[n] = step[n][f[n - 1]]
  BY FiniteRecursion
<1>6. rec(f)
  <2>1. \A n \in 0..m : n # 0 => n \in 1..m /\ n - 1 \in 0..m
    OBVIOUS
  <2>2. \A n \in 0..m : n # 0 => f[n] = TakeOrder(f[n - 1], orders[n], mid, adv)
    BY <1>4, <1>5, <2>1
  <2>3. QED
    BY <1>1, <1>5, <2>2
<1> DEFINE after == Trading(run, mid, orders, adv)
<1>7. after = CHOOSE g : rec(g)
  BY DEF Trading
<1> HIDE DEF after
<1>8. rec(after)
  BY <1>6, <1>7
<1>9. /\ after[0] = run
      /\ \A n \in 1..m : after[n] = TakeOrder(after[n - 1], orders[n], mid, adv)
  BY <1>1, <1>8
<1>10. \A n \in 0..m : after[n] \in BarRun
  <2> DEFINE typed == {n \in 0..m : after[n] \in BarRun}
  <2>1. 0 \in typed
    BY <1>9
  <2>2. \A n \in 1..m : n - 1 \in typed => n \in typed
    <3> SUFFICES ASSUME NEW n \in 1..m, after[n - 1] \in BarRun
                 PROVE  after[n] \in BarRun
      OBVIOUS
    <3>1. QED
      BY <1>3, <1>9
  <2> HIDE DEF typed
  <2>3. \A n \in 0..m : n \in typed
    BY <2>1, <2>2, IntervalInduction
  <2>4. QED
    BY <2>3 DEF typed
<1>11. QED
  BY <1>1, <1>9, <1>10 DEF after

LEMMA TradingDef ==
    ASSUME NEW run \in BarRun, NEW mid \in Int, NEW orders \in Seq(Order),
           NEW adv \in Nat \cup {NoAdv}
    PROVE  /\ Trading(run, mid, orders, adv)[0] = run
           /\ \A n \in 1..Len(orders) :
                Trading(run, mid, orders, adv)[n]
                  = TakeOrder(Trading(run, mid, orders, adv)[n - 1], orders[n],
                              mid, adv)
           /\ \A n \in 0..Len(orders) : Trading(run, mid, orders, adv)[n] \in BarRun
<1>1. Len(orders) \in Nat /\ \A n \in 1..Len(orders) : orders[n] \in Order
  OBVIOUS
<1>2. QED
  BY <1>1, TradingOfList

\* What every order of the bar keeps is kept by all of them.
LEMMA TradingKeeps ==
    ASSUME NEW run \in BarRun, NEW mid \in Int, NEW orders \in Seq(Order),
           NEW adv \in Nat \cup {NoAdv},
           NEW S, run \in S,
           \A before \in BarRun, order \in Order :
             before \in S => TakeOrder(before, order, mid, adv) \in S
    PROVE  \A n \in 0..Len(orders) : Trading(run, mid, orders, adv)[n] \in S
<1> DEFINE m == Len(orders)
           after == Trading(run, mid, orders, adv)
           kept == {n \in 0..m : after[n] \in S}
<1>1. /\ m \in Nat
      /\ after[0] = run
      /\ \A n \in 1..m : after[n] = TakeOrder(after[n - 1], orders[n], mid, adv)
      /\ \A n \in 0..m : after[n] \in BarRun
  BY TradingDef
<1>2. \A n \in 1..m : orders[n] \in Order
  OBVIOUS
<1> HIDE DEF m, after
<1>3. 0 \in kept
  BY <1>1
<1>4. \A n \in 1..m : n - 1 \in kept => n \in kept
  <2> SUFFICES ASSUME NEW n \in 1..m, after[n - 1] \in S
               PROVE  after[n] \in S
    BY <1>1
  <2>1. n - 1 \in 0..m
    BY <1>1
  <2>2. after[n] = TakeOrder(after[n - 1], orders[n], mid, adv)
    BY <1>1
  <2>3. QED
    BY <1>1, <1>2, <2>1, <2>2
<1> HIDE DEF kept
<1>5. \A n \in 0..m : n \in kept
  BY <1>1, <1>3, <1>4, IntervalInduction
<1>6. QED
  BY <1>5 DEF kept, m, after

LEMMA TradeBarIs ==
    ASSUME NEW run \in BarRun, NEW mid \in Int, NEW orders \in Seq(Order),
           NEW adv \in Nat \cup {NoAdv}, NEW after,
           after = Trading(run, mid, orders, adv)[Len(orders)]
    PROVE  /\ after \in BarRun
           /\ after.equity = run.equity
           /\ TradeBar(run, mid, orders, adv) \in BarRun
           /\ TradeBar(run, mid, orders, adv).pf = after.pf
           /\ TradeBar(run, mid, orders, adv).killed = after.killed
           /\ TradeBar(run, mid, orders, adv).fills = after.fills
           /\ TradeBar(run, mid, orders, adv).equity
                = Append(run.equity, Equity(after.pf, mid))
<1> DEFINE same == {r \in BarRun : r.equity = run.equity}
<1>1. Len(orders) \in 0..Len(orders)
  OBVIOUS
<1>2. \A before \in BarRun, order \in Order :
         before \in same => TakeOrder(before, order, mid, adv) \in same
  BY TakeOrderType
<1>3. run \in same
  OBVIOUS
<1> HIDE DEF same
<1>4. after \in same
  BY <1>1, <1>2, <1>3, TradingKeeps
<1>5. after \in BarRun /\ after.equity = run.equity
  BY <1>4 DEF same
<1>6. Equity(after.pf, mid) \in Int
  BY <1>5, EquityType DEF BarRun
<1>7. TradeBar(run, mid, orders, adv)
        = [after EXCEPT !.equity = Append(@, Equity(after.pf, mid))]
  BY DEF TradeBar
<1>8. Append(run.equity, Equity(after.pf, mid)) \in Seq(Int)
  BY <1>6 DEF BarRun
<1>9. QED
  BY <1>5, <1>7, <1>8 DEF BarRun

\* A bar without orders is marked and nothing else.
LEMMA TradeNothing ==
    ASSUME NEW run \in BarRun, NEW mid \in Int, NEW adv \in Nat \cup {NoAdv}
    PROVE  TradeBar(run, mid, <<>>, adv)
             = [run EXCEPT !.equity = Append(run.equity, Equity(run.pf, mid))]
<1>1. <<>> \in Seq(Order) /\ Len(<<>>) = 0
  OBVIOUS
<1>2. Trading(run, mid, <<>>, adv)[0] = run
  BY <1>1, TradingDef
<1>3. QED
  BY <1>1, <1>2 DEF TradeBar

\* Once the switch is armed the orders of a bar change nothing but the curve.
LEMMA KilledRunStops ==
    ASSUME NEW run \in BarRun, NEW mid \in Int, NEW orders \in Seq(Order),
           NEW adv \in Nat \cup {NoAdv}, run.killed
    PROVE  /\ TradeBar(run, mid, orders, adv).killed
           /\ TradeBar(run, mid, orders, adv).fills = run.fills
           /\ TradeBar(run, mid, orders, adv).pf = run.pf
<1> DEFINE S == {r \in BarRun : r.killed /\ r.fills = run.fills /\ r.pf = run.pf}
           after == Trading(run, mid, orders, adv)[Len(orders)]
<1>1. \A before \in BarRun, order \in Order :
         before \in S => TakeOrder(before, order, mid, adv) \in S
  <2> SUFFICES ASSUME NEW before \in BarRun, NEW order \in Order, before \in S
               PROVE  TakeOrder(before, order, mid, adv) \in S
    OBVIOUS
  <2> DEFINE decision == Check(before.killed, order, before.pf, mid, 0)
             next == TakeOrder(before, order, mid, adv)
  <2>1. ~Ok(decision)
    BY DEF Check, Ok, Kill
  <2>2. next = [before EXCEPT !.killed = before.killed \/ decision.verdict = "KILL"]
    BY <2>1, TakeOrderIs
  <2>3. next \in BarRun
    BY TakeOrderType
  <2> HIDE DEF next, decision
  <2>4. next.killed /\ next.fills = before.fills /\ next.pf = before.pf
    BY <2>2 DEF BarRun
  <2>5. QED
    BY <2>3, <2>4 DEF next
<1>2. run \in S /\ Len(orders) \in 0..Len(orders)
  OBVIOUS
<1> HIDE DEF S
<1>3. after \in S
  BY <1>1, <1>2, TradingKeeps
<1>4. after.killed /\ after.fills = run.fills /\ after.pf = run.pf
  BY <1>3 DEF S
<1> HIDE DEF after
<1>5. after = Trading(run, mid, orders, adv)[Len(orders)]
  BY DEF after
<1>6. QED
  BY <1>4, <1>5, TradeBarIs

(***************************************************************************)
(* Two runs that differ in nothing a check or a fill reads take the same   *)
(* orders in the same way.                                                 *)
(***************************************************************************)
SameToRisk(book, other) ==
    /\ book.cash = other.cash
    /\ book.pos = other.pos
    /\ book.peak_equity = other.peak_equity
    /\ book.day_start_equity = other.day_start_equity

Alike(run, other) ==
    /\ SameToRisk(run.pf, other.pf)
    /\ run.killed = other.killed
    /\ run.fills = other.fills

LEMMA CheckSameToRisk ==
    ASSUME NEW book, NEW other, SameToRisk(book, other), NEW killed, NEW order,
           NEW mark, NEW vol
    PROVE  Check(killed, order, book, mark, vol)
             = Check(killed, order, other, mark, vol)
<1>1. Equity(book, mark) = Equity(other, mark)
  BY DEF SameToRisk, Equity
<1>2. /\ DailyLossBreached(book, mark) <=> DailyLossBreached(other, mark)
      /\ DrawdownBreached(book, mark) <=> DrawdownBreached(other, mark)
  BY <1>1, Zenon DEF SameToRisk, DailyLossBreached, DrawdownBreached
<1>3. MaxQty(book, mark) = MaxQty(other, mark)
  BY <1>1, Zenon DEF MaxQty
<1>4. QtyAfter(book, order) = QtyAfter(other, order)
  BY DEF SameToRisk, QtyAfter
<1>5. OverPositionLimit(book, order, mark) <=> OverPositionLimit(other, order, mark)
  BY <1>1, <1>4, Zenon DEF OverPositionLimit
<1>6. PositionRoom(book, order, mark) = PositionRoom(other, order, mark)
  BY <1>3, Zenon DEF SameToRisk, PositionRoom
<1>7. Increasing(book, order) <=> Increasing(other, order)
  BY Zenon DEF SameToRisk, Increasing
<1>8. Gross(book, mark) = Gross(other, mark)
  BY Zenon DEF SameToRisk, Gross
<1>9. OverGrossLimit(book, order, mark) <=> OverGrossLimit(other, order, mark)
  BY <1>1, <1>8, Zenon DEF OverGrossLimit
<1>10. GrossRoom(book, mark) = GrossRoom(other, mark)
  BY <1>1, <1>8, Zenon DEF GrossRoom
<1>11. VolQty(book, mark, vol) = VolQty(other, mark, vol)
  BY <1>1, Zenon DEF VolQty
<1>12. VolSized(book, order, mark, vol) <=> VolSized(other, order, mark, vol)
  BY <1>11, Zenon DEF VolSized
<1>13. CheckPosition(order, book, mark, vol) = CheckPosition(order, other, mark, vol)
  BY <1>5, <1>6, <1>7, <1>9, <1>10, <1>11, <1>12, SMT DEF CheckPosition
<1>14. CheckAccount(order, book, mark, vol) = CheckAccount(order, other, mark, vol)
  BY <1>1, <1>2, <1>13, ZenonT(60) DEF CheckAccount
<1>15. QED
  BY <1>14 DEF Check

LEMMA ApplyFillSameToRisk ==
    ASSUME NEW book \in PortfolioState, NEW other \in PortfolioState,
           SameToRisk(book, other), NEW fill \in Fill
    PROVE  SameToRisk(ApplyFill(book, fill), ApplyFill(other, fill))
BY DEF SameToRisk, ApplyFill, PortfolioState

LEMMA TakeOrderAlike ==
    ASSUME NEW run \in BarRun, NEW other \in BarRun, Alike(run, other),
           NEW order \in Order, NEW mid \in Int, NEW adv \in Nat \cup {NoAdv}
    PROVE  Alike(TakeOrder(run, order, mid, adv), TakeOrder(other, order, mid, adv))
<1>1. run.pf \in PortfolioState /\ other.pf \in PortfolioState
  BY DEF BarRun
<1>2. PICK decision : decision = Check(run.killed, order, run.pf, mid, 0)
  OBVIOUS
<1>3. decision = Check(other.killed, order, other.pf, mid, 0)
  BY <1>2, CheckSameToRisk DEF Alike
<1>4. CASE Ok(decision)
  <2>1. PICK fill : fill = Execute(Adjusted(order, decision), mid, adv)
    OBVIOUS
  <2>2. /\ fill \in Fill
        /\ TakeOrder(run, order, mid, adv) = FillOrder(run, fill)
        /\ TakeOrder(other, order, mid, adv) = FillOrder(other, fill)
    BY <1>2, <1>3, <1>4, <2>1, TakeOrderIs
  <2>3. SameToRisk(ApplyFill(run.pf, fill), ApplyFill(other.pf, fill))
    BY <1>1, <2>2, ApplyFillSameToRisk DEF Alike
  <2>4. /\ FillOrder(run, fill).pf = ApplyFill(run.pf, fill)
        /\ FillOrder(run, fill).fills = Append(run.fills, fill)
        /\ FillOrder(run, fill).killed = run.killed
        /\ FillOrder(other, fill).pf = ApplyFill(other.pf, fill)
        /\ FillOrder(other, fill).fills = Append(other.fills, fill)
        /\ FillOrder(other, fill).killed = other.killed
    BY <2>2, FillOrderType
  <2>5. QED
    BY <2>2, <2>3, <2>4, Zenon DEF Alike
<1>5. CASE ~Ok(decision)
  <2>1. /\ TakeOrder(run, order, mid, adv)
             = [run EXCEPT !.killed = run.killed \/ decision.verdict = "KILL"]
        /\ TakeOrder(other, order, mid, adv)
             = [other EXCEPT !.killed = other.killed \/ decision.verdict = "KILL"]
    BY <1>2, <1>3, <1>5, TakeOrderIs
  <2>2. QED
    BY <2>1 DEF Alike, BarRun
<1>6. QED
  BY <1>4, <1>5

\* What a bar's orders leave of a run, taken one after the other.
AfterOrders(run, mid, orders, adv) == Trading(run, mid, orders, adv)[Len(orders)]

LEMMA AfterOrdersType ==
    ASSUME NEW run \in BarRun, NEW mid \in Int, NEW orders \in Seq(Order),
           NEW adv \in Nat \cup {NoAdv}
    PROVE  /\ AfterOrders(run, mid, orders, adv) \in BarRun
           /\ orders = <<>> => AfterOrders(run, mid, orders, adv) = run
<1>1. Len(orders) \in 0..Len(orders) /\ (orders = <<>> => Len(orders) = 0)
  OBVIOUS
<1>2. QED
  BY <1>1, TradingDef DEF AfterOrders

LEMMA AfterOrdersAlike ==
    ASSUME NEW run \in BarRun, NEW other \in BarRun, Alike(run, other),
           NEW mid \in Int, NEW orders \in Seq(Order),
           NEW adv \in Nat \cup {NoAdv}
    PROVE  Alike(AfterOrders(run, mid, orders, adv), AfterOrders(other, mid, orders, adv))
<1> DEFINE m == Len(orders)
           one == Trading(run, mid, orders, adv)
           two == Trading(other, mid, orders, adv)
           alike == {n \in 0..m : Alike(one[n], two[n])}
<1>1. /\ m \in Nat
      /\ one[0] = run
      /\ \A n \in 1..m : one[n] = TakeOrder(one[n - 1], orders[n], mid, adv)
      /\ \A n \in 0..m : one[n] \in BarRun
  BY TradingDef
<1>2. /\ two[0] = other
      /\ \A n \in 1..m : two[n] = TakeOrder(two[n - 1], orders[n], mid, adv)
      /\ \A n \in 0..m : two[n] \in BarRun
  BY TradingDef
<1>3. \A n \in 1..m : orders[n] \in Order
  OBVIOUS
<1> HIDE DEF m, one, two
<1>4. 0 \in alike
  BY <1>1, <1>2
<1>5. \A n \in 1..m : n - 1 \in alike => n \in alike
  <2> SUFFICES ASSUME NEW n \in 1..m, Alike(one[n - 1], two[n - 1])
               PROVE  Alike(one[n], two[n])
    BY <1>1
  <2>1. n - 1 \in 0..m
    BY <1>1
  <2>2. QED
    BY <1>1, <1>2, <1>3, <2>1, TakeOrderAlike
<1> HIDE DEF alike
<1>6. \A n \in 0..m : n \in alike
  BY <1>1, <1>4, <1>5, IntervalInduction
<1>7. Alike(one[m], two[m])
  BY <1>1, <1>6 DEF alike
<1>8. QED
  BY <1>7 DEF AfterOrders, one, two, m

\* The first order can be taken ahead of the others.
LEMMA FirstOrderFirst ==
    ASSUME NEW run \in BarRun, NEW mid \in Int, NEW orders \in Seq(Order),
           NEW adv \in Nat \cup {NoAdv}, orders # <<>>
    PROVE  AfterOrders(run, mid, orders, adv)
             = AfterOrders(TakeOrder(run, Head(orders), mid, adv), mid,
                           Tail(orders), adv)
<1> DEFINE first == TakeOrder(run, Head(orders), mid, adv)
           rest == Tail(orders)
           m == Len(rest)
           all == Trading(run, mid, orders, adv)
           f == [n \in 0..m |-> all[n + 1]]
           g == Trading(first, mid, rest, adv)
<1>1. /\ rest \in Seq(Order) /\ m \in Nat /\ Len(orders) = m + 1
      /\ Head(orders) = orders[1] /\ orders[1] \in Order
      /\ \A n \in 1..m : rest[n] = orders[n + 1]
  OBVIOUS
<1>2. first \in BarRun
  BY <1>1, TakeOrderType
<1> HIDE DEF first, rest
<1>3. /\ all[0] = run
      /\ \A n \in 1..(m + 1) : all[n] = TakeOrder(all[n - 1], orders[n], mid, adv)
  <2>1. \A n \in 1..Len(orders) :
           all[n] = TakeOrder(all[n - 1], orders[n], mid, adv)
    BY TradingDef
  <2>2. QED
    BY <1>1, <2>1, TradingDef
<1>4. /\ g[0] = first
      /\ \A n \in 1..m : g[n] = TakeOrder(g[n - 1], rest[n], mid, adv)
  BY <1>1, <1>2, TradingDef
<1> HIDE DEF m, all, g
<1>5. f[0] = g[0]
  <2>1. all[1] = TakeOrder(all[0], orders[1], mid, adv)
    <3>1. 1 \in 1..(m + 1) /\ 1 - 1 = 0
      BY <1>1
    <3>2. QED
      BY <1>3, <3>1
  <2>2. f[0] = all[1]
    BY <1>1
  <2>3. QED
    BY <1>1, <1>3, <1>4, <2>1, <2>2 DEF first
<1>6. \A n \in 1..m : f[n - 1] = g[n - 1] => f[n] = g[n]
  <2> SUFFICES ASSUME NEW n \in 1..m, f[n - 1] = g[n - 1]
               PROVE  f[n] = g[n]
    OBVIOUS
  <2>1. n + 1 \in 1..(m + 1) /\ (n + 1) - 1 = n /\ (n - 1) + 1 = n
          /\ n \in 0..m /\ n - 1 \in 0..m
    BY <1>1
  <2>2. f[n] = all[n + 1] /\ f[n - 1] = all[n]
    BY <2>1
  <2>3. all[n + 1] = TakeOrder(all[n], orders[n + 1], mid, adv)
    BY <1>3, <2>1
  <2>4. QED
    BY <1>1, <1>4, <2>2, <2>3
<1> HIDE DEF f
<1>7. \A n \in 0..m : f[n] = g[n]
  <2>1. m \in Nat
    BY <1>1
  <2>2. QED
    BY <1>5, <1>6, <2>1, SameSteps, Zenon
<1>8. f[m] = g[m] /\ f[m] = all[m + 1]
  BY <1>1, <1>7 DEF f
<1>9. QED
  BY <1>1, <1>8 DEF AfterOrders, all, g, m, first, rest

LEMMA TradeBarAlike ==
    ASSUME NEW run \in BarRun, NEW other \in BarRun, Alike(run, other),
           NEW mid \in Int, NEW orders \in Seq(Order),
           NEW adv \in Nat \cup {NoAdv}
    PROVE  /\ Alike(TradeBar(run, mid, orders, adv), TradeBar(other, mid, orders, adv))
           /\ run.equity = other.equity =>
                TradeBar(run, mid, orders, adv).equity
                  = TradeBar(other, mid, orders, adv).equity
<1> DEFINE one == AfterOrders(run, mid, orders, adv)
           two == AfterOrders(other, mid, orders, adv)
<1>1. Alike(one, two)
  BY AfterOrdersAlike
<1>2. /\ TradeBar(run, mid, orders, adv).pf = one.pf
      /\ TradeBar(run, mid, orders, adv).killed = one.killed
      /\ TradeBar(run, mid, orders, adv).fills = one.fills
      /\ TradeBar(run, mid, orders, adv).equity
           = Append(run.equity, Equity(one.pf, mid))
  BY TradeBarIs DEF AfterOrders
<1>3. /\ TradeBar(other, mid, orders, adv).pf = two.pf
      /\ TradeBar(other, mid, orders, adv).killed = two.killed
      /\ TradeBar(other, mid, orders, adv).fills = two.fills
      /\ TradeBar(other, mid, orders, adv).equity
           = Append(other.equity, Equity(two.pf, mid))
  BY TradeBarIs DEF AfterOrders
<1> HIDE DEF one, two
<1>4. Equity(one.pf, mid) = Equity(two.pf, mid)
  BY <1>1 DEF Alike, SameToRisk, Equity
<1>5. QED
  BY <1>1, <1>2, <1>3, <1>4, Zenon DEF Alike

(***************************************************************************)
(* A run that has not filled anything is worth its starting cash, and no   *)
(* limit above zero is breached by it.                                     *)
(***************************************************************************)
LimitsAboveZero == RiskCfg.max_daily_loss_pct > 0 /\ RiskCfg.max_drawdown_pct > 0

Untouched(run, cash) ==
    /\ run.pf.cash = cash
    /\ run.pf.pos.qty = 0
    /\ run.pf.peak_equity = cash
    /\ run.pf.day_start_equity = cash

FlatUntilFilled(run, cash) ==
    run.fills = <<>> => /\ Untouched(run, cash)
                        /\ LimitsAboveZero => ~run.killed

LEMMA UntouchedEquity ==
    ASSUME NEW run \in BarRun, NEW cash \in Int, Untouched(run, cash), NEW mid \in Int
    PROVE  Equity(run.pf, mid) = cash
BY DEF Untouched, Equity

LEMMA UntouchedNotKilled ==
    ASSUME NEW run \in BarRun, NEW cash \in Nat \ {0}, Untouched(run, cash),
           LimitsAboveZero, ~run.killed, NEW order, NEW mid \in Int
    PROVE  Check(run.killed, order, run.pf, mid, 0).verdict # "KILL"
<1>1. Equity(run.pf, mid) = cash
  BY UntouchedEquity
<1>2. /\ RiskCfg.max_daily_loss_pct \in Nat \ {0}
      /\ RiskCfg.max_drawdown_pct \in Nat \ {0}
  BY RiskCfgAssumption DEF RiskConfig, LimitsAboveZero
<1>3. ~DailyLossBreached(run.pf, mid)
  <2>1. RiskCfg.max_daily_loss_pct * cash > 0
    BY <1>2
  <2>2. QED
    BY <1>1, <1>2, <2>1 DEF DailyLossBreached, Untouched
<1>4. ~DrawdownBreached(run.pf, mid)
  <2>1. RiskCfg.max_drawdown_pct * cash > 0
    BY <1>2
  <2>2. QED
    BY <1>1, <1>2, <2>1 DEF DrawdownBreached, Untouched, Greatest
<1>5. CheckPosition(order, run.pf, mid, 0).verdict # "KILL"
  <2>1. \A qty : LimitTo(qty).verdict # "KILL"
    BY DEF LimitTo, Reject, Reduce
  <2>2. QED
    BY <2>1 DEF CheckPosition, Reduce, Allow
<1>6. Reject.verdict # "KILL"
  BY DEF Reject
<1>7. Check(run.killed, order, run.pf, mid, 0) = CheckAccount(order, run.pf, mid, 0)
  BY DEF Check
<1>8. CheckAccount(order, run.pf, mid, 0)
        \in {Reject, CheckPosition(order, run.pf, mid, 0)}
  BY <1>3, <1>4 DEF CheckAccount
<1>9. QED
  BY <1>5, <1>6, <1>7, <1>8

LEMMA TakeOrderFlat ==
    ASSUME NEW cash \in Nat \ {0}, NEW run \in BarRun, FlatUntilFilled(run, cash),
           NEW order \in Order, NEW mid \in Int, NEW adv \in Nat \cup {NoAdv}
    PROVE  FlatUntilFilled(TakeOrder(run, order, mid, adv), cash)
<1>1. PICK decision : decision = Check(run.killed, order, run.pf, mid, 0)
  OBVIOUS
<1>2. CASE Ok(decision)
  <2>1. PICK fill : fill = Execute(Adjusted(order, decision), mid, adv)
    OBVIOUS
  <2>2. fill \in Fill /\ TakeOrder(run, order, mid, adv) = FillOrder(run, fill)
    BY <1>1, <1>2, <2>1, TakeOrderIs
  <2>3. TakeOrder(run, order, mid, adv).fills = Append(run.fills, fill)
    BY <2>2, FillOrderType
  <2>4. Append(run.fills, fill) # <<>>
    BY <2>2 DEF BarRun
  <2>5. QED
    BY <2>3, <2>4 DEF FlatUntilFilled
<1>3. CASE ~Ok(decision)
  <2>1. TakeOrder(run, order, mid, adv)
          = [run EXCEPT !.killed = run.killed \/ decision.verdict = "KILL"]
    BY <1>1, <1>3, TakeOrderIs
  <2>2. PICK next : next = TakeOrder(run, order, mid, adv)
    OBVIOUS
  <2>3. next.fills = run.fills /\ next.pf = run.pf
    BY <2>1, <2>2 DEF BarRun
  <2>4. next.killed <=> (run.killed \/ decision.verdict = "KILL")
    BY <2>1, <2>2 DEF BarRun
  <2>5. ASSUME run.fills = <<>>
        PROVE  Untouched(next, cash) /\ (LimitsAboveZero => ~next.killed)
    <3>1. Untouched(run, cash) /\ (LimitsAboveZero => ~run.killed)
      BY <2>5 DEF FlatUntilFilled
    <3>2. LimitsAboveZero => decision.verdict # "KILL"
      BY <1>1, <3>1, UntouchedNotKilled
    <3>3. QED
      BY <2>3, <2>4, <3>1, <3>2 DEF Untouched
  <2>6. QED
    BY <2>2, <2>3, <2>5 DEF FlatUntilFilled
<1>4. QED
  BY <1>2, <1>3

LEMMA TradeBarFlat ==
    ASSUME NEW cash \in Nat \ {0}, NEW run \in BarRun, FlatUntilFilled(run, cash),
           NEW mid \in Int, NEW orders \in Seq(Order), NEW adv \in Nat \cup {NoAdv}
    PROVE  FlatUntilFilled(TradeBar(run, mid, orders, adv), cash)
<1> DEFINE S == {r \in BarRun : FlatUntilFilled(r, cash)}
<1>1. \A before \in BarRun, order \in Order :
         before \in S => TakeOrder(before, order, mid, adv) \in S
  BY TakeOrderFlat, TakeOrderType
<1>2. run \in S /\ Len(orders) \in 0..Len(orders)
  OBVIOUS
<1> HIDE DEF S
<1>3. PICK after : after = Trading(run, mid, orders, adv)[Len(orders)]
  OBVIOUS
<1>4. after \in S
  BY <1>1, <1>2, <1>3, TradingKeeps
<1>5. FlatUntilFilled(after, cash)
  BY <1>4 DEF S
<1>6. /\ TradeBar(run, mid, orders, adv).pf = after.pf
      /\ TradeBar(run, mid, orders, adv).killed = after.killed
      /\ TradeBar(run, mid, orders, adv).fills = after.fills
  BY <1>3, TradeBarIs
<1>7. QED
  BY <1>5, <1>6, Zenon DEF FlatUntilFilled, Untouched
==============================================================================
