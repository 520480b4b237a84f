---------------------------- MODULE HarnessProofs -----------------------------
(***************************************************************************)
(* The windows of the walk-forward splits, for every frame length and all  *)
(* sizes, the generator alone and as the harness uses it; and what makes   *)
(* the result of a fold its own, for every frame, strategy and risk        *)
(* configuration.                                                          *)
(***************************************************************************)
EXTENDS Harness, TradeLemmas

(***************************************************************************)
(* The properties as they are do not survive a step: that the next windows *)
(* are fresh takes the place where they start, after all that was yielded. *)
(***************************************************************************)
YieldedBeforeStart ==
    \A k \in DOMAIN splits : splits[k].test_to + setting.embargo <= start

WindowInv ==
    /\ SplitTypeOK
    /\ YieldedBeforeStart
    /\ WindowsInFrame
    /\ TestsAreFresh

\* The windows of a split lie at or after its start, apart from an expanding
\* training window, which begins with the frame.
LEMMA NextWindows ==
    ASSUME SplitTypeOK, ~NothingToTrain
    PROVE  /\ NextSplit \in Split
           /\ NextSplit.train_from < NextSplit.train_to
           /\ NextSplit.test_from - NextSplit.train_to = 2 * setting.purge
           /\ NextSplit.test_to = NextSplit.test_from + setting.test_size
           /\ start <= NextSplit.test_from
           /\ ~setting.expanding => NextSplit.train_from = start
           /\ NextStart \in Nat
           /\ NextStart = NextSplit.test_to + setting.embargo
           /\ setting.n \in Nat /\ setting.test_size \in Nat \ {0}
           /\ setting.purge \in Nat /\ setting.embargo \in Nat
<1>1. /\ setting.n \in Nat /\ setting.train_size \in Nat \ {0}
      /\ setting.test_size \in Nat \ {0} /\ setting.purge \in Nat
      /\ setting.embargo \in Nat /\ setting.expanding \in BOOLEAN
      /\ fold \in Nat /\ start \in Nat
    BY DEF SplitTypeOK, Setting
<1>2. fold * setting.test_size \in Nat
    BY <1>1, SMT
<1>3. TrainEnd \in Nat /\ TrainEnd >= start + setting.train_size
    BY <1>1, <1>2 DEF TrainEnd
<1>4. TrainTo \in Nat /\ TrainFrom \in Nat
    BY <1>1, <1>3 DEF TrainTo, TrainFrom
<1>5. TrainFrom < TrainTo
    BY <1>4 DEF NothingToTrain
<1>6. TrainTo = TrainEnd - setting.purge
    BY <1>1, <1>3, <1>4, <1>5 DEF TrainTo
<1>7. /\ TestStart \in Nat /\ TestStart = TrainEnd + setting.purge
      /\ TestEnd \in Nat /\ TestEnd = TestStart + setting.test_size
      /\ NextStart \in Nat /\ NextStart = TestEnd + setting.embargo
    BY <1>1, <1>3 DEF TestStart, TestEnd, NextStart
<1>8. /\ NextSplit \in Split
      /\ NextSplit.train_from = TrainFrom /\ NextSplit.train_to = TrainTo
      /\ NextSplit.test_from = TestStart /\ NextSplit.test_to = TestEnd
    BY <1>4, <1>7 DEF NextSplit, Split
<1>9. ~setting.expanding => TrainFrom = start
    BY DEF TrainFrom
<1> QED
    BY <1>1, <1>3, <1>4, <1>5, <1>6, <1>7, <1>8, <1>9

\* The empty list of splits has all the properties.
LEMMA WindowsInit == SplitInit => WindowInv
<1> SUFFICES ASSUME SplitInit PROVE WindowInv
    OBVIOUS
<1>1. SplitTypeOK
    <2>1. setting \in Setting
        BY SettingsAssumption DEF SplitInit
    <2>2. fold \in Nat /\ start \in Nat /\ exhausted \in BOOLEAN
        BY DEF SplitInit
    <2>3. splits \in Seq(Split)
        BY DEF SplitInit
    <2> QED
        BY <2>1, <2>2, <2>3 DEF SplitTypeOK
<1>2. DOMAIN splits = {}
    BY DEF SplitInit
<1> QED
    BY <1>1, <1>2
    DEF WindowInv, YieldedBeforeStart, WindowsInFrame, TestsAreFresh

\* A step of the generator keeps them.
LEMMA WindowsStep == WindowInv /\ [SplitNext]_splitVars => WindowInv'
<1> SUFFICES ASSUME WindowInv, [SplitNext]_splitVars PROVE WindowInv'
    OBVIOUS
<1>1. CASE UNCHANGED splitVars
    BY <1>1
    DEF splitVars, WindowInv, SplitTypeOK, YieldedBeforeStart, WindowsInFrame,
        TestsAreFresh
<1>2. CASE Return
    BY <1>2
    DEF Return, WindowInv, SplitTypeOK, YieldedBeforeStart, WindowsInFrame,
        TestsAreFresh
<1>3. CASE YieldSplit
    <2> DEFINE s == NextSplit
               len == Len(splits)
    <2>1. /\ SplitTypeOK /\ ~NothingToTrain /\ splits' = Append(splits, s)
          /\ setting' = setting /\ start' = NextStart /\ fold' = fold + 1
          /\ exhausted' = exhausted
        BY <1>3 DEF YieldSplit, WindowInv
    <2>2. s.test_to <= setting.n
        <3>1. s.test_to = TestEnd
            BY DEF NextSplit
        <3>2. s.test_to \in Nat /\ setting.n \in Nat
            BY <2>1, NextWindows DEF Split
        <3>3. ~(TestEnd > setting.n)
            BY <1>3 DEF YieldSplit, FrameUsedUp
        <3> QED
            BY <3>1, <3>2, <3>3
    <2>3. /\ s \in Split
          /\ s.train_from < s.train_to
          /\ s.test_from - s.train_to = 2 * setting.purge
          /\ s.test_to = s.test_from + setting.test_size
          /\ start <= s.test_from
          /\ ~setting.expanding => s.train_from = start
          /\ NextStart \in Nat
          /\ NextStart = s.test_to + setting.embargo
        BY <2>1, NextWindows
    <2>4. /\ setting.n \in Nat /\ setting.test_size \in Nat \ {0}
          /\ setting.purge \in Nat /\ setting.embargo \in Nat
        BY <2>1, NextWindows
    <2> HIDE DEF s
    <2>5. splits \in Seq(Split) /\ start \in Nat /\ fold \in Nat
        BY <2>1 DEF SplitTypeOK
    <2>6. /\ splits' \in Seq(Split) /\ Len(splits') = len + 1
          /\ DOMAIN splits' = 1..(len + 1) /\ DOMAIN splits = 1..len
          /\ \A k \in 1..len : splits'[k] = splits[k] /\ splits[k] \in Split
          /\ splits'[len + 1] = s /\ len \in Nat
        BY <2>1, <2>3, <2>5
    <2> DEFINE Bars(split) == /\ split.train_from \in Nat /\ split.train_to \in Nat
                              /\ split.test_from \in Nat /\ split.test_to \in Nat
    <2>7. Bars(s) /\ \A k \in 1..len : Bars(splits[k])
        <3>1. \A split \in Split : Bars(split)
            BY DEF Split
        <3> QED
            BY <3>1, <2>3, <2>6
    <2>8. SplitTypeOK'
        BY <2>1, <2>3, <2>5, <2>6 DEF SplitTypeOK
    <2>9. YieldedBeforeStart'
        <3> SUFFICES ASSUME NEW k \in 1..(len + 1)
                     PROVE  splits'[k].test_to + setting.embargo <= NextStart
            BY <2>1, <2>6 DEF YieldedBeforeStart
        <3>1. CASE k = len + 1
            BY <3>1, <2>3, <2>4, <2>6, <2>7
        <3>2. CASE k \in 1..len
            <4>1. splits[k].test_to + setting.embargo <= start
                BY <3>2, <2>6 DEF WindowInv, YieldedBeforeStart
            <4>2. splits'[k] = splits[k] /\ splits[k].test_to \in Nat
                BY <3>2, <2>6, <2>7
            <4>3. start <= NextStart
                BY <2>3, <2>4, <2>5, <2>7
            <4> QED
                BY <4>1, <4>2, <4>3, <2>3, <2>4, <2>5
        <3> QED
            BY <3>1, <3>2, <2>6
    <2>10. WindowsInFrame'
        <3> SUFFICES ASSUME NEW k \in 1..(len + 1)
                     PROVE  /\ splits'[k].train_from < splits'[k].train_to
                            /\ splits'[k].test_from < splits'[k].test_to
                            /\ splits'[k].test_to <= setting.n
            BY <2>1, <2>6 DEF WindowsInFrame
        <3>1. CASE k = len + 1
            BY <3>1, <2>2, <2>3, <2>4, <2>6, <2>7
        <3>2. CASE k \in 1..len
            BY <3>2, <2>6 DEF WindowInv, WindowsInFrame
        <3> QED
            BY <3>1, <3>2, <2>6
    <2>11. TestsAreFresh'
        <3> SUFFICES ASSUME NEW k \in 1..(len + 1), NEW j \in 1..(k - 1)
                     PROVE  /\ splits'[j].test_to + setting.embargo
                                 <= splits'[k].test_from
                            /\ ~setting.expanding =>
                                 splits'[j].test_to + setting.embargo
                                   <= splits'[k].train_from
            BY <2>1, <2>6 DEF TestsAreFresh
        <3>1. j \in 1..len
            BY <2>6
        <3>2. CASE k = len + 1
            <4>1. splits[j].test_to + setting.embargo <= start
                BY <3>1, <2>6 DEF WindowInv, YieldedBeforeStart
            <4>2. splits'[j] = splits[j] /\ splits[j].test_to \in Nat
                BY <3>1, <2>6, <2>7
            <4>3. /\ start <= splits'[k].test_from
                  /\ splits'[k].test_from \in Nat
                  /\ ~setting.expanding => splits'[k].train_from = start
                BY <3>2, <2>3, <2>6, <2>7
            <4> HIDE DEF Bars
            <4> QED
                BY <4>1, <4>2, <4>3, <2>4, <2>5
        <3>3. CASE k \in 1..len
            BY <3>1, <3>3, <2>6 DEF WindowInv, TestsAreFresh
        <3> QED
            BY <3>2, <3>3, <2>6
    <2> QED
        BY <2>8, <2>9, <2>10, <2>11 DEF WindowInv
<1> QED
    BY <1>1, <1>2, <1>3 DEF SplitNext

\* Whatever the harness does besides, its splits move as the generator's.
LEMMA HarnessSplits ==
    [HarnessStep \/ Evaluated]_harnessVars => [SplitNext]_splitVars
BY DEF HarnessStep, Evaluated, harnessVars, splitVars, TakeSplit, PlanFolds,
       HandOver, BeginFold, TakeFoldBar, EndFold, Evaluate

\* The generator of eval/walk_forward.py, for all arguments: its windows are in
\* the frame, and its tests are fresh.
THEOREM Windows ==
    SplitSpec => [](WindowsInFrame /\ TestsAreFresh)
<1>1. WindowInv => WindowsInFrame /\ TestsAreFresh
    BY DEF WindowInv
<1> QED
    BY <1>1, WindowsInit, WindowsStep, PTL DEF SplitSpec

\* The invariant holds while the harness takes the splits and after.
LEMMA HarnessWindows == HarnessSpec => []WindowInv
<1>1. HarnessInit => SplitInit
    BY DEF HarnessInit
<1> QED
    BY <1>1, WindowsInit, WindowsStep, HarnessSplits, PTL DEF HarnessSpec

\* Every split the harness takes lies in the frame, with bars to train on and
\* bars to test.
THEOREM FramesCorrect == HarnessSpec => []WindowsInFrame
<1>1. WindowInv => WindowsInFrame
    BY DEF WindowInv
<1> QED
    BY <1>1, HarnessWindows, PTL

\* The harness tests no bar twice, and keeps its embargoes.
THEOREM TestsCorrect == HarnessSpec => []TestsAreFresh
<1>1. WindowInv => TestsAreFresh
    BY DEF WindowInv
<1> QED
    BY <1>1, HarnessWindows, PTL

(***************************************************************************)
(* The folds.  Neither property survives a step alone: a curve is flat     *)
(* before the window because nothing was filled there and a book that      *)
(* filled nothing is worth its cash, and such a book breaches no limit.    *)
(***************************************************************************)
Window == [from : Nat, to : Nat]

FoldTypeOK ==
    /\ stage \in {"split", "fold", "bars", "done"}
    /\ frame \in Seq(Int)
    /\ Len(frame) = setting.n
    /\ windows \in Seq(Window)
    /\ run \in BarRun

SegmentInv ==
    stage = "bars" =>
        /\ windows # <<>>
        /\ Len(run.equity) \in 1..(setting.n + 1)
        /\ FlatUntilFilled(run, StartingCash)
        /\ BarsSeen <= Head(windows).from => run.fills = <<>>

FoldInv == SplitTypeOK /\ FoldTypeOK /\ SegmentInv /\ CurveStartsAtWindow

LEMMA FoldInit == HarnessInit => FoldInv
<1> SUFFICES ASSUME HarnessInit
             PROVE  FoldInv
  OBVIOUS
<1>1. SplitTypeOK
  BY WindowsInit DEF HarnessInit, WindowInv
<1>2. stage \in {"split", "fold"}
  BY DEF HarnessInit
<1>3. frame \in Seq(Int) /\ Len(frame) = setting.n
  BY HarnessAssumption DEF HarnessInit
<1>4. setting.n \in Nat
  BY <1>1 DEF SplitTypeOK, Setting
<1>5. windows \in Seq(Window)
  <2>1. <<>> \in Seq(Window)
    OBVIOUS
  <2>2. [from |-> 0, to |-> setting.n] \in Window
    BY <1>4 DEF Window
  <2>3. <<[from |-> 0, to |-> setting.n]>> \in Seq(Window)
    BY <2>2
  <2>4. QED
    BY <2>1, <2>3 DEF HarnessInit
<1>6. run \in BarRun
  BY HarnessAssumption, FreshRunType DEF HarnessInit
<1>7. QED
  BY <1>1, <1>2, <1>3, <1>5, <1>6
     DEF FoldInv, FoldTypeOK, SegmentInv, CurveStartsAtWindow

\* The windows of the splits, or the whole frame when there is none.
LEMMA TestWindowsType ==
    ASSUME SplitTypeOK
    PROVE  TestWindows \in Seq(Window)
<1>1. CASE splits = <<>>
  <2>1. [from |-> 0, to |-> setting.n] \in Window
    BY DEF SplitTypeOK, Setting, Window
  <2>2. QED
    BY <1>1, <2>1 DEF TestWindows
<1>2. CASE splits # <<>>
  <2> DEFINE w(k) == [from |-> splits[k].test_from, to |-> splits[k].test_to]
  <2>1. \A k \in DOMAIN splits : w(k) \in Window
    <3>1. \A k \in DOMAIN splits : splits[k] \in Split
      BY DEF SplitTypeOK
    <3>2. QED
      BY <3>1 DEF Split, Window
  <2>2. PICK m \in Nat : DOMAIN splits = 1..m
    BY DEF SplitTypeOK
  <2> HIDE DEF w
  <2>3. TestWindows = [k \in DOMAIN splits |-> w(k)]
    BY <1>2 DEF TestWindows, w
  <2>4. TestWindows = [k \in 1..m |-> w(k)] /\ \A k \in 1..m : w(k) \in Window
    BY <2>1, <2>2, <2>3
  <2>5. QED
    BY <2>4
<1>3. QED
  BY <1>1, <1>2

LEMMA BeginFoldKeeps == FoldInv /\ BeginFold => FoldInv'
<1> SUFFICES ASSUME FoldInv, BeginFold
             PROVE  FoldInv'
  OBVIOUS
<1>1. SplitTypeOK' /\ windows' \in Seq(Window) /\ frame' \in Seq(Int)
        /\ Len(frame') = setting'.n /\ setting'.n \in Nat
  BY DEF FoldInv, FoldTypeOK, BeginFold, SplitTypeOK, splitVars, Setting
<1>2. run' = FreshRun(StartingCash)
  <2>1. FreshRun(StartingCash).killed = FALSE
    BY DEF FreshRun
  <2>2. run' = [FreshRun(StartingCash) EXCEPT !.killed = FALSE]
    BY DEF BeginFold, ResetKill
  <2>3. QED
    BY <2>2 DEF FreshRun
<1>3. run' \in BarRun
  BY <1>2, HarnessAssumption, FreshRunType
<1>4. /\ run'.fills = <<>>
      /\ run'.equity = <<StartingCash>>
      /\ FlatUntilFilled(run', StartingCash)
  BY <1>2 DEF FreshRun, FreshBook, FlatPosition, FlatUntilFilled, Untouched
<1>5. windows' # <<>> /\ stage' = "bars"
  BY DEF BeginFold
<1>6. Len(run'.equity) = 1 /\ run'.equity[1] = StartingCash /\ DOMAIN run'.equity = {1}
  BY <1>4
<1>7. SegmentInv'
  BY <1>1, <1>4, <1>5, <1>6 DEF SegmentInv
<1>8. CurveStartsAtWindow'
  BY <1>6 DEF CurveStartsAtWindow
<1>9. QED
  BY <1>1, <1>3, <1>5, <1>7, <1>8 DEF FoldInv, FoldTypeOK

\* A bar before the window marks a book that holds nothing; a bar of the window
\* comes too late for the flat part of the curve.
LEMMA TakeFoldBarKeeps == FoldInv /\ TakeFoldBar => FoldInv'
<1> SUFFICES ASSUME FoldInv, TakeFoldBar
             PROVE  FoldInv'
  OBVIOUS
<1>1. /\ SplitTypeOK' /\ windows' = windows /\ stage' = "bars" /\ stage = "bars"
      /\ frame' = frame /\ setting' = setting
  BY DEF FoldInv, TakeFoldBar, SplitTypeOK, splitVars
<1>2. /\ frame \in Seq(Int) /\ Len(frame) = setting.n
      /\ windows \in Seq(Window) /\ windows # <<>>
      /\ run \in BarRun /\ run.equity \in Seq(Int)
      /\ Len(run.equity) \in 1..(setting.n + 1)
      /\ FlatUntilFilled(run, StartingCash)
      /\ BarsSeen <= Head(windows).from => run.fills = <<>>
      /\ setting.n \in Nat
  BY <1>1 DEF FoldInv, FoldTypeOK, SegmentInv, BarRun, SplitTypeOK, Setting
<1>3. StartingCash \in Nat \ {0} /\ BarVolume \in Nat /\ OrderLists \subseteq Seq(Order)
  BY HarnessAssumption
<1> DEFINE close == frame[BarsSeen + 1]
<1>19. PICK orders \in OrderLists :
         /\ InWindow(Head(windows), BarsSeen) \/ orders = <<>>
         /\ run' = TradeBar(StartSegmentBar(run, close), close, orders, BarVolume)
  BY DEF TakeFoldBar
<1>20. PICK mid : mid = close
  OBVIOUS
<1>21. PICK opened : opened = StartSegmentBar(run, mid)
  OBVIOUS
<1>4. /\ mid = frame[BarsSeen + 1]
      /\ opened = StartSegmentBar(run, mid)
      /\ InWindow(Head(windows), BarsSeen) \/ orders = <<>>
      /\ run' = TradeBar(opened, mid, orders, BarVolume)
  BY <1>19, <1>20, <1>21
<1> HIDE DEF close
<1>5. BarsSeen \in Nat /\ BarsSeen < setting.n /\ mid \in Int
  BY <1>2, <1>4 DEF TakeFoldBar, BarsSeen
<1>6. Head(windows).from \in Nat
  <2>1. Head(windows) \in Window
    BY <1>2
  <2>2. QED
    BY <2>1 DEF Window
<1>7. PICK from \in Nat : from = Head(windows).from
  BY <1>6
<1>8. /\ UpdatePeaks(run.pf, mid) \in PortfolioState
      /\ UpdatePeaks(run.pf, mid).pos = run.pf.pos
      /\ UpdatePeaks(run.pf, mid).cash = run.pf.cash
      /\ UpdatePeaks(run.pf, mid).day_start_equity = run.pf.day_start_equity
      /\ UpdatePeaks(run.pf, mid).peak_equity
           = Greatest(run.pf.peak_equity, Equity(run.pf, mid))
  BY <1>2, <1>5, UpdatePeaksType DEF BarRun
<1>9. /\ opened \in BarRun
      /\ opened.pf = UpdatePeaks(run.pf, mid)
      /\ opened.killed = run.killed
      /\ opened.fills = run.fills
      /\ opened.equity = run.equity
  BY <1>2, <1>4, <1>8 DEF StartSegmentBar, BarRun
<1>10. FlatUntilFilled(opened, StartingCash)
  <2>1. Untouched(run, StartingCash) => Equity(run.pf, mid) = StartingCash
    BY <1>2, <1>3, <1>5, UntouchedEquity
  <2>2. Untouched(run, StartingCash) => Untouched(opened, StartingCash)
    BY <1>3, <1>8, <1>9, <2>1 DEF Untouched, Greatest
  <2>3. QED
    BY <1>2, <1>9, <2>2 DEF FlatUntilFilled
<1>11. orders \in Seq(Order) /\ BarVolume \in Nat \cup {NoAdv}
  BY <1>3
<1>22. /\ opened \in BarRun /\ mid \in Int /\ orders \in Seq(Order)
       /\ BarVolume \in Nat \cup {NoAdv}
       /\ run' = TradeBar(opened, mid, orders, BarVolume)
  BY <1>4, <1>5, <1>9, <1>11
<1>23. PICK after :
         /\ after \in BarRun
         /\ TradeBar(opened, mid, orders, BarVolume) \in BarRun
         /\ TradeBar(opened, mid, orders, BarVolume).equity
              = Append(opened.equity, Equity(after.pf, mid))
  <2>1. PICK after : after = Trading(opened, mid, orders, BarVolume)[Len(orders)]
    OBVIOUS
  <2>2. /\ after \in BarRun
        /\ TradeBar(opened, mid, orders, BarVolume) \in BarRun
        /\ TradeBar(opened, mid, orders, BarVolume).equity
             = Append(opened.equity, Equity(after.pf, mid))
    BY <1>22, <2>1, TradeBarIs
  <2>3. QED
    BY <2>2
<1>12. run' \in BarRun /\ FlatUntilFilled(run', StartingCash)
  <2>1. run' \in BarRun
    BY <1>22, <1>23
  <2>2. FlatUntilFilled(run', StartingCash)
    BY <1>3, <1>4, <1>5, <1>9, <1>10, <1>11, TradeBarFlat
  <2>3. QED
    BY <2>1, <2>2
<1>13. PICK worth \in Int : run'.equity = Append(run.equity, worth)
  <2>2. /\ after \in BarRun
        /\ run'.equity = Append(run.equity, Equity(after.pf, mid))
    BY <1>9, <1>22, <1>23
  <2>3. Equity(after.pf, mid) \in Int
    BY <1>5, <2>2, EquityType DEF BarRun
  <2>4. QED
    BY <2>2, <2>3
<1>14. ASSUME BarsSeen < from
       PROVE  run'.fills = <<>> /\ run'.equity = Append(run.equity, StartingCash)
  <2>1. orders = <<>>
    BY <1>4, <1>5, <1>7, <1>14 DEF InWindow
  <2>2. run' = [opened EXCEPT !.equity = Append(opened.equity, Equity(opened.pf, mid))]
    BY <1>22, <2>1, TradeNothing, Zenon
  <2>3. opened.fills = <<>>
    BY <1>2, <1>5, <1>7, <1>9, <1>14
  <2>4. Equity(opened.pf, mid) = StartingCash
    BY <1>3, <1>5, <1>9, <1>10, <2>3, UntouchedEquity DEF FlatUntilFilled
  <2>5. run'.fills = opened.fills
          /\ run'.equity = Append(opened.equity, Equity(opened.pf, mid))
    BY <1>9, <2>2 DEF BarRun
  <2>6. QED
    BY <1>9, <2>3, <2>4, <2>5
<1>15. /\ Len(run'.equity) = Len(run.equity) + 1
       /\ run'.equity[Len(run.equity) + 1] = worth
       /\ \A point \in 1..Len(run.equity) : run'.equity[point] = run.equity[point]
       /\ DOMAIN run'.equity = 1..(Len(run.equity) + 1)
       /\ Len(run.equity) \in Nat
  BY <1>2, <1>13
<1>16. SegmentInv'
  <2>1. BarsSeen' = BarsSeen + 1
    BY <1>2, <1>15 DEF BarsSeen
  <2>2. BarsSeen' <= from => run'.fills = <<>>
    BY <1>5, <1>14, <2>1
  <2>3. Len(run'.equity) \in 1..(setting.n + 1)
    BY <1>2, <1>5, <1>15 DEF BarsSeen
  <2>4. QED
    BY <1>1, <1>2, <1>7, <1>12, <2>2, <2>3 DEF SegmentInv
<1>17. CurveStartsAtWindow'
  <2> SUFFICES ASSUME NEW point \in 1..(Len(run.equity) + 1), point - 1 <= from
               PROVE  run'.equity[point] = StartingCash
    BY <1>1, <1>7, <1>15 DEF CurveStartsAtWindow
  <2>1. CASE point \in 1..Len(run.equity)
    <3>1. point \in DOMAIN run.equity
      BY <1>2, <2>1
    <3>2. run.equity[point] = StartingCash
      BY <1>1, <1>7, <3>1 DEF FoldInv, CurveStartsAtWindow
    <3>3. QED
      BY <1>15, <2>1, <3>2
  <2>2. CASE point = Len(run.equity) + 1
    <3>1. BarsSeen < from
      BY <1>2, <1>15, <2>2 DEF BarsSeen
    <3>2. run'.equity = Append(run.equity, StartingCash)
      BY <1>14, <3>1
    <3>3. QED
      BY <1>2, <1>15, <2>2, <3>2
  <2>3. QED
    BY <1>15, <2>1, <2>2
<1>18. QED
  BY <1>1, <1>2, <1>12, <1>16, <1>17 DEF FoldInv, FoldTypeOK

LEMMA FoldStep == FoldInv /\ [HarnessStep \/ Evaluated]_harnessVars /\ SplitTypeOK' => FoldInv'
<1> SUFFICES ASSUME FoldInv, [HarnessStep \/ Evaluated]_harnessVars, SplitTypeOK'
             PROVE  FoldInv'
  OBVIOUS
<1> USE DEF FoldInv
<1>1. CASE TakeSplit
  <2>1. setting' = setting
    BY <1>1 DEF TakeSplit, SplitNext, YieldSplit, Return
  <2>2. QED
    BY <1>1, <2>1 DEF TakeSplit, FoldTypeOK, SegmentInv, CurveStartsAtWindow
<1>2. CASE PlanFolds
  BY <1>2, TestWindowsType
     DEF PlanFolds, FoldTypeOK, SegmentInv, CurveStartsAtWindow, splitVars
<1>3. CASE HandOver
  BY <1>3 DEF HandOver, FoldTypeOK, SegmentInv, CurveStartsAtWindow, splitVars
<1>4. CASE BeginFold
  BY <1>4, BeginFoldKeeps
<1>5. CASE TakeFoldBar
  BY <1>5, TakeFoldBarKeeps
<1>6. CASE EndFold
  <2>1. Tail(windows) \in Seq(Window)
    BY <1>6 DEF EndFold, FoldTypeOK, SegmentInv
  <2>2. QED
    BY <1>6, <2>1
       DEF EndFold, FoldTypeOK, SegmentInv, CurveStartsAtWindow, splitVars
<1>7. CASE Evaluate
  BY <1>7 DEF Evaluate, FoldTypeOK, SegmentInv, CurveStartsAtWindow, splitVars
<1>8. CASE UNCHANGED harnessVars
  BY <1>8 DEF harnessVars, FoldTypeOK, SegmentInv, CurveStartsAtWindow,
              BarsSeen, splitVars
<1>9. QED
  BY <1>1, <1>2, <1>3, <1>4, <1>5, <1>6, <1>7, <1>8 DEF HarnessStep, Evaluated

\* What a segment knows of itself, for every frame, strategy and configuration.
THEOREM FoldInvariance == HarnessSpec => []FoldInv
<1>1. WindowInv => SplitTypeOK
  BY DEF WindowInv
<1>2. HarnessSpec => []SplitTypeOK
  BY <1>1, HarnessWindows, PTL
<1>3. QED
  BY <1>2, FoldInit, FoldStep, PTL DEF HarnessSpec

\* No bar before a test window is in its result: whatever the strategy would
\* have answered there, the curve is flat at the starting cash.
THEOREM CurveCorrect == HarnessSpec => []CurveStartsAtWindow
<1>1. FoldInv => CurveStartsAtWindow
  BY DEF FoldInv
<1>2. QED
  BY <1>1, FoldInvariance, PTL

\* The switch is armed only by what the fold itself has traded, for all limits
\* above zero: a kill in one fold reaches no other.
THEOREM KillCorrect == HarnessSpec => []KillStaysInFold
<1>1. FoldInv => KillStaysInFold
  BY DEF FoldInv, SegmentInv, KillStaysInFold, FlatUntilFilled, LimitsAboveZero
<1>2. QED
  BY <1>1, FoldInvariance, PTL
==============================================================================
