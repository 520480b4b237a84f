------------------------------- MODULE Harness -------------------------------
(***************************************************************************)
(* EvaluationHarness.run of eval/harness.py: the walk-forward splits of a  *)
(* frame, then one segment a split.  A segment goes over the whole frame   *)
(* with a fresh book and trades in its test window only; one RiskEngine    *)
(* serves all segments and its switch is reset before each.                *)
(*                                                                         *)
(* A strategy may answer any order list of OrderLists to any bar.  What a  *)
(* finished segment leaves behind, its curve and PnLs, goes into scores    *)
(* and Monte Carlo paths only: these are left out.                         *)
(***************************************************************************)
EXTENDS WalkForward, BarLoop

CONSTANTS StartingCash,
          OrderLists,    \* what a strategy may answer to a bar
          Frames,        \* the closes of a frame
          BarVolume

ASSUME HarnessAssumption ==
    /\ StartingCash \in Nat \ {0}
    /\ OrderLists \subseteq Seq(Order)
    /\ Frames \subseteq Seq(Int)
    /\ BarVolume \in Nat

VARIABLES stage,      \* "split", "fold", "bars" or "done"
          frame,      \* the closes, bar i at i + 1
          windows,    \* the test windows of the segments still to run
          run         \* the segment's book, fills and curve

harnessVars == <<splitVars, stage, frame, windows, run>>

\* run never asks for expanding windows: these go to another caller.
AnotherCaller == setting.expanding

\* With walk_forward=False the whole frame is the one test window.
HarnessInit ==
    /\ SplitInit
    /\ frame \in {closes \in Frames : Len(closes) = setting.n}
    /\ stage \in (IF AnotherCaller THEN {"split"} ELSE {"split", "fold"})
    /\ windows =
         IF stage = "split" THEN <<>> ELSE <<[from |-> 0, to |-> setting.n]>>
    /\ run = FreshRun(StartingCash)

(***************************************************************************)
(* The splits: all of them are taken before the first segment runs.        *)
(***************************************************************************)
TakeSplit ==
    /\ stage = "split"
    /\ SplitNext
    /\ UNCHANGED <<stage, frame, windows, run>>

TestWindows ==
    IF splits = <<>> THEN <<[from |-> 0, to |-> setting.n]>>
    ELSE [k \in DOMAIN splits |->
            [from |-> splits[k].test_from, to |-> splits[k].test_to]]

PlanFolds ==
    /\ stage = "split"
    /\ exhausted
    /\ ~AnotherCaller
    /\ stage' = "fold"
    /\ windows' = TestWindows
    /\ UNCHANGED <<splitVars, frame, run>>

HandOver ==
    /\ stage = "split"
    /\ exhausted
    /\ AnotherCaller
    /\ stage' = "done"
    /\ UNCHANGED <<splitVars, frame, windows, run>>

(***************************************************************************)
(* One segment.                                                            *)
(***************************************************************************)
BarsSeen == Len(run.equity) - 1

BeginFold ==
    /\ stage = "fold"
    /\ windows # <<>>
    /\ stage' = "bars"
    /\ run' = [FreshRun(StartingCash) EXCEPT !.killed = ResetKill(run.killed)]
    /\ UNCHANGED <<splitVars, frame, windows>>

InAnyWindow(window, i) == i < window.to

InWindow(window, i) == window.from <= i /\ i < window.to

\* Bars outside the window are marked, peaks included, and not traded.
TakeFoldBar ==
    /\ stage = "bars"
    /\ BarsSeen < setting.n
    /\ LET mid == frame[BarsSeen + 1]
           opened == StartSegmentBar(run, mid)
       IN \E orders \in OrderLists :
             /\ InWindow(Head(windows), BarsSeen) \/ orders = <<>>
             /\ run' = TradeBar(opened, mid, orders, BarVolume)
    /\ UNCHANGED <<splitVars, stage, frame, windows>>

EndFold ==
    /\ stage = "bars"
    /\ BarsSeen = setting.n
    /\ stage' = "fold"
    /\ windows' = Tail(windows)
    /\ UNCHANGED <<splitVars, frame, run>>

Evaluate ==
    /\ stage = "fold"
    /\ windows = <<>>
    /\ stage' = "done"
    /\ UNCHANGED <<splitVars, frame, windows, run>>

Evaluated == stage = "done" /\ UNCHANGED harnessVars

HarnessStep ==
    TakeSplit \/ PlanFolds \/ HandOver \/ BeginFold \/ TakeFoldBar \/ EndFold
      \/ Evaluate

HarnessSpec ==
    /\ HarnessInit
    /\ [][HarnessStep \/ Evaluated]_harnessVars
    /\ WF_harnessVars(HarnessStep)

(***************************************************************************)
(* What makes a fold's result its own.                                     *)
(***************************************************************************)
\* The curve of a segment says nothing before its test window: flat at the
\* starting cash until the first bar it may trade has been marked.
CurveStartsAtWindow ==
    stage = "bars" =>
        \A point \in DOMAIN run.equity :
            point - 1 <= Head(windows).from => run.equity[point] = StartingCash

\* A loss in one fold halts no other: with loss limits above zero the switch
\* is armed only in a segment that has traded.
KillStaysInFold ==
    /\ stage = "bars"
    /\ RiskCfg.max_daily_loss_pct > 0
    /\ RiskCfg.max_drawdown_pct > 0
    => (run.killed => run.fills # <<>>)

\* Every evaluation ends, whatever the sizes of its windows.
EvaluationEnds == <>(stage = "done")
==============================================================================
