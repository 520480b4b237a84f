----------------------------- MODULE WalkForward -----------------------------
(***************************************************************************)
(* generate_walk_forward_splits of eval/walk_forward.py: the generator     *)
(* that cuts a frame of n bars into pairs of a training and a test window. *)
(*                                                                         *)
(* An index array of consecutive bars is its half-open interval.  The      *)
(* generator refuses a size below one, so the sizes are positive here.     *)
(***************************************************************************)
EXTENDS Integers, Sequences

CONSTANT Settings     \* the arguments it may be called with

Setting ==
    [n : Nat, train_size : Nat \ {0}, test_size : Nat \ {0},
     purge : Nat, embargo : Nat, expanding : BOOLEAN]

ASSUME SettingsAssumption == Settings \subseteq Setting

VARIABLES setting,     \* the arguments of the call
          fold,        \* splits yielded so far
          start,       \* first bar the next split may use
          splits,      \* the splits, in the order they were yielded
          exhausted    \* the generator has returned

splitVars == <<setting, fold, start, splits, exhausted>>

Split == [train_from : Nat, train_to : Nat, test_from : Nat, test_to : Nat]

SplitTypeOK ==
    /\ setting \in Setting
    /\ fold \in Nat
    /\ start \in Nat
    /\ splits \in Seq(Split)
    /\ exhausted \in BOOLEAN

(***************************************************************************)
(* The windows of the next split.                                          *)
(***************************************************************************)
TrainEnd ==
    start + setting.train_size
      + (IF setting.expanding THEN fold * setting.test_size ELSE 0)

TestStart == TrainEnd + setting.purge

TestEnd == TestStart + setting.test_size

TrainFrom == IF setting.expanding THEN 0 ELSE start

TrainTo ==
    IF TrainEnd > setting.purge THEN TrainEnd - setting.purge ELSE 0

NextSplit ==
    [train_from |-> TrainFrom, train_to |-> TrainTo,
     test_from |-> TestStart, test_to |-> TestEnd]

NextStartAtTestWindow == TestStart + setting.embargo

NextStart == TestEnd + setting.embargo

FrameUsedUpOneLate ==
    \/ setting.n < setting.train_size + setting.test_size
    \/ TestEnd > setting.n + 1

\* The first disjunct is the check ahead of the loop.
FrameUsedUp ==
    \/ setting.n < setting.train_size + setting.test_size
    \/ TestEnd > setting.n

NothingToTrain == TrainTo <= TrainFrom

(***************************************************************************)
(* One turn of the generator's loop.                                       *)
(***************************************************************************)
SplitInit ==
    /\ setting \in Settings
    /\ fold = 0
    /\ start = 0
    /\ splits = <<>>
    /\ exhausted = FALSE

YieldSplit ==
    /\ ~exhausted
    /\ ~FrameUsedUp
    /\ ~NothingToTrain
    /\ splits' = Append(splits, NextSplit)
    /\ fold' = fold + 1
    /\ start' = NextStart
    /\ UNCHANGED <<setting, exhausted>>

ReturnWhenUsedUp ==
    /\ ~exhausted
    /\ FrameUsedUp \/ NothingToTrain
    /\ exhausted' = FrameUsedUp
    /\ UNCHANGED <<setting, fold, start, splits>>

\* The frame is used up, or the purge leaves nothing to train on.
Return ==
    /\ ~exhausted
    /\ FrameUsedUp \/ NothingToTrain
    /\ exhausted' = TRUE
    /\ UNCHANGED <<setting, fold, start, splits>>

SplitNext == YieldSplit \/ Return

SplitSpec == SplitInit /\ [][SplitNext]_splitVars /\ WF_splitVars(SplitNext)

(***************************************************************************)
(* What makes a test out of sample.                                        *)
(***************************************************************************)
\* Both windows of every split lie in the frame, and neither is empty.
WindowsInFrame ==
    \A k \in DOMAIN splits :
        /\ splits[k].train_from < splits[k].train_to
        /\ splits[k].test_from < splits[k].test_to
        /\ splits[k].test_to <= setting.n

\* No bar is tested twice, an embargo follows every test, and unless the
\* training expands, no later split trains on what an earlier one tested.
TestsAreFresh ==
    \A k \in DOMAIN splits : \A j \in 1..(k - 1) :
        /\ splits[j].test_to + setting.embargo <= splits[k].test_from
        /\ ~setting.expanding =>
               splits[j].test_to + setting.embargo <= splits[k].train_from
==============================================================================
