---------------------------- MODULE SessionLemmas ----------------------------
(***************************************************************************)
(* Every step of a session, one lemma per action: it keeps the types of    *)
(* the session's state and of the journal, and what the stages say.  Then  *)
(* what the journal says of a session, step by step: how a write changes   *)
(* the file, what a restore makes of it, and the invariants behind the     *)
(* properties of the journal.                                              *)
(***************************************************************************)
EXTENDS SessionProperties, TradeLemmas

SessionInv == SessionTypeOK /\ JournalTypeOK /\ StageInv

(***************************************************************************)
(* The journal.                                                            *)
(***************************************************************************)
\* A cut line swallows the row that continues it.
LEMMA ContinuedIs ==
    ASSUME NEW row \in JournalRow
    PROVE  /\ Continued(row) \in {row, LostRow}
           /\ Continued(row) \in JournalRow
           /\ ~EndsTorn => Continued(row) = row
           /\ Continued(TornRow) = TornRow
           /\ TornRow \in JournalRow /\ TornRow.event = "torn"
           /\ LostRow \in JournalRow /\ LostRow.event = "torn"
BY DEF Continued, JournalRow, TornRow, LostRow

LEMMA AppendedType ==
    ASSUME JournalTypeOK, NEW rows \in Seq(JournalRow)
    PROVE  Appended(rows) \in Seq(JournalRow)
<1>1. CASE rows = <<>>
  BY <1>1 DEF Appended, JournalTypeOK
<1>2. CASE rows # <<>>
  <2>1. rows[1] \in JournalRow /\ Tail(rows) \in Seq(JournalRow)
    BY <1>2
  <2> DEFINE first == Continued(rows[1])
  <2>2. first \in JournalRow
    BY <2>1, ContinuedIs
  <2>3. Appended(rows) = journal \o (<<first>> \o Tail(rows))
    BY <1>2 DEF Appended
  <2> HIDE DEF first
  <2>4. <<first>> \o Tail(rows) \in Seq(JournalRow)
    BY <2>1, <2>2
  <2>5. QED
    BY <2>3, <2>4 DEF JournalTypeOK
<1>3. QED
  BY <1>1, <1>2

LEMMA WriteType ==
    ASSUME JournalTypeOK, NEW rows \in Seq(JournalRow), Write(rows)
    PROVE  JournalTypeOK'
<1>1. CASE AppendAll(rows)
  BY <1>1, AppendedType DEF AppendAll, JournalTypeOK
<1>2. CASE AppendSome(rows)
  <2>1. PICK written \in 0..Len(rows), rest \in {<<>>, <<TornRow>>} :
          journal' = Appended(SubSeq(rows, 1, written) \o rest)
    BY <1>2 DEF AppendSome, LosesSome
  <2>2. SubSeq(rows, 1, written) \in Seq(JournalRow)
    BY <2>1
  <2>3. rest \in Seq(JournalRow)
    <3>1. TornRow \in JournalRow
      BY DEF JournalRow
    <3>2. <<>> \in Seq(JournalRow) /\ <<TornRow>> \in Seq(JournalRow)
      BY <3>1
    <3>3. QED
      BY <2>1, <3>2
  <2>4. SubSeq(rows, 1, written) \o rest \in Seq(JournalRow)
    BY <2>2, <2>3
  <2>5. journal' \in Seq(JournalRow)
    BY <2>1, <2>4, AppendedType
  <2>6. QED
    BY <1>2, <2>5 DEF AppendSome, JournalTypeOK
<1>3. CASE jdisabled /\ UNCHANGED journalVars
  BY <1>3 DEF journalVars, JournalTypeOK
<1>4. QED
  BY <1>1, <1>2, <1>3 DEF Write

LEMMA WriteRowType ==
    ASSUME JournalTypeOK, NEW row \in JournalRow, Write(<<row>>)
    PROVE  JournalTypeOK'
<1>1. <<row>> \in Seq(JournalRow)
  OBVIOUS
<1>2. QED
  BY <1>1, WriteType

LEMMA SessionRowType ==
    ASSUME JournalTypeOK, NEW row \in JournalRow, Write(SessionRow(row))
    PROVE  JournalTypeOK'
<1>1. <<row>> \in Seq(JournalRow) /\ <<>> \in Seq(JournalRow)
  OBVIOUS
<1>2. SessionRow(row) \in Seq(JournalRow)
  BY <1>1 DEF SessionRow
<1>3. QED
  BY <1>2, WriteType

LEMMA RowTypes ==
    ASSUME NEW sid \in Nat
    PROVE  /\ \A cash \in Int, mode \in Mode : StartRow(sid, cash, mode) \in JournalRow
           /\ \A fill \in Fill : FillRow(sid, fill) \in JournalRow
           /\ \A side \in Side, qty \in Nat \ {0} :
                RejectRow(sid, side, qty) \in JournalRow
           /\ \A reason \in EndReason : KillRow(sid, reason) \in JournalRow
           /\ \A reason \in EndReason : EndRow(sid, reason) \in JournalRow
           /\ \A eq \in Int : HeartbeatRow(sid, eq) \in JournalRow
           /\ \A eq \in Int, i \in Nat : EquityRow(sid, eq, i) \in JournalRow
BY DEF StartRow, FillRow, RejectRow, KillRow, EndRow, HeartbeatRow, EquityRow,
       JournalRow

(***************************************************************************)
(* The volume.                                                             *)
(***************************************************************************)
LEMMA AdvType == Adv \in Nat \cup {NoAdv}
BY SessionAssumption DEF Adv

(***************************************************************************)
(* The book.                                                               *)
(***************************************************************************)
LEMMA NextBarBookType ==
    ASSUME NEW book \in PortfolioState, NEW mid \in Int, NEW new_day \in BOOLEAN
    PROVE  UpdatePeaks(RollDay(book, mid, new_day), mid) \in PortfolioState
<1> DEFINE rolled == RollDay(book, mid, new_day)
<1>1. Equity(book, mid) \in Int
  BY EquityType
<1>2. rolled \in PortfolioState
  BY <1>1 DEF RollDay, PortfolioState
<1> HIDE DEF rolled
<1>3. Equity(rolled, mid) \in Int
  BY <1>2, EquityType
<1>4. /\ Greatest(rolled.peak_equity, Equity(rolled, mid)) \in Int
      /\ Greatest(rolled.equity_high_water, Equity(rolled, mid)) \in Int
  BY <1>2, <1>3 DEF PortfolioState, Greatest
<1>5. UpdatePeaks(rolled, mid) \in PortfolioState
  BY <1>2, <1>4 DEF UpdatePeaks, PortfolioState
<1>6. QED
  BY <1>5 DEF rolled

(***************************************************************************)
(* The steps.                                                              *)
(***************************************************************************)
LEMMA StartKeeps ==
    ASSUME SessionInv, ProcessTypeOK, NEW up \in BOOLEAN, NEW mode \in Mode,
           Start(up, mode)
    PROVE  SessionInv'
<1>1. StartRow(session_id, StartingCash, mode) \in JournalRow
  BY SessionAssumption, RowTypes DEF ProcessTypeOK
<1>2. JournalTypeOK'
  BY <1>1, SessionRowType DEF SessionInv, Start
<1>3. SessionTypeOK'
  BY DEF SessionInv, SessionTypeOK, Start, bookVars, riskVars, barVars,
         orderVars, Stage
<1>4. StageInv'
  BY DEF SessionInv, StageInv, Start, bookVars, riskVars, barVars, orderVars,
         BeforeRisk
<1>5. QED
  BY <1>2, <1>3, <1>4 DEF SessionInv

LEMMA NextBarKeeps ==
    ASSUME SessionInv, ProcessTypeOK, NEW mid \in Int, NEW new_day \in BOOLEAN,
           NextBar(mid, new_day)
    PROVE  SessionInv'
<1>1. JournalTypeOK'
  BY DEF SessionInv, NextBar, JournalTypeOK, journalVars
<1>2. pf' \in PortfolioState
  BY NextBarBookType DEF SessionInv, SessionTypeOK, NextBar
<1>3. bar_count' \in 0..NBars /\ bar_count' > 0
  BY SessionAssumption
  DEF SessionInv, SessionTypeOK, ProcessTypeOK, NextBar, BarsLeft
<1>4. SessionTypeOK'
  BY <1>2, <1>3 DEF SessionInv, SessionTypeOK, NextBar, riskVars, orderVars,
     Stage
<1>5. StageInv'
  BY <1>3 DEF SessionInv, StageInv, NextBar, riskVars, orderVars, BeforeRisk
<1>6. QED
  BY <1>1, <1>4, <1>5 DEF SessionInv

LEMMA PollFillsKeeps ==
    ASSUME SessionInv, NEW polled \in Seq(Fill), PollFills(polled)
    PROVE  SessionInv'
<1>1. JournalTypeOK'
  BY DEF SessionInv, PollFills, JournalTypeOK, journalVars
<1>2. SessionTypeOK'
  BY DEF SessionInv, SessionTypeOK, PollFills, bookVars, riskVars, orderVars,
     Stage
<1>3. StageInv'
  BY DEF SessionInv, StageInv, PollFills, riskVars, orderVars, BeforeRisk
<1>4. QED
  BY <1>1, <1>2, <1>3 DEF SessionInv

LEMMA BookFillType ==
    ASSUME SessionTypeOK, ProcessTypeOK, JournalTypeOK, NEW fill \in Fill, BookFill(fill)
    PROVE  /\ pf' \in PortfolioState
           /\ fills' \in Seq(Fill)
           /\ JournalTypeOK'
<1>1. pf' \in PortfolioState
  BY ApplyFillType DEF BookFill, SessionTypeOK
<1>2. fills' \in Seq(Fill)
  BY DEF BookFill, SessionTypeOK
<1>3. FillRow(session_id, fill) \in JournalRow
  BY RowTypes DEF ProcessTypeOK
<1>4. JournalTypeOK'
  BY <1>3, WriteRowType DEF BookFill
<1>5. QED
  BY <1>1, <1>2, <1>4

LEMMA ApplyDelayedKeeps ==
    ASSUME SessionInv, ProcessTypeOK, ApplyDelayed
    PROVE  SessionInv'
<1>1. Head(delayed) \in Fill /\ Tail(delayed) \in Seq(Fill)
  BY DEF SessionInv, SessionTypeOK, ApplyDelayed
<1>2. pf' \in PortfolioState /\ fills' \in Seq(Fill) /\ JournalTypeOK'
  BY <1>1, BookFillType DEF SessionInv, ApplyDelayed
<1>3. SessionTypeOK'
  BY <1>1, <1>2 DEF SessionInv, SessionTypeOK, ApplyDelayed, riskVars, orderVars
<1>4. StageInv'
  BY DEF SessionInv, StageInv, ApplyDelayed, riskVars, orderVars
<1>5. QED
  BY <1>2, <1>3, <1>4 DEF SessionInv

LEMMA OnBarKeeps ==
    ASSUME SessionInv, NEW orders \in Seq(Order), OnBar(orders)
    PROVE  SessionInv'
<1>1. JournalTypeOK'
  BY DEF SessionInv, OnBar, JournalTypeOK, journalVars
<1>2. SessionTypeOK'
  BY DEF SessionInv, SessionTypeOK, OnBar, bookVars, riskVars, barVars, Stage
<1>3. StageInv'
  BY DEF SessionInv, StageInv, OnBar, riskVars, barVars, BeforeRisk
<1>4. QED
  BY <1>1, <1>2, <1>3 DEF SessionInv

LEMMA StrategyRaisesKeeps ==
    ASSUME SessionInv, StrategyRaises
    PROVE  SessionInv'
<1>1. JournalTypeOK'
  BY DEF SessionInv, StrategyRaises, JournalTypeOK, journalVars
<1>2. SessionTypeOK'
  BY DEF SessionInv, SessionTypeOK, StrategyRaises, bookVars, riskVars, barVars,
     orderVars, Stage
<1>3. StageInv'
  BY DEF SessionInv, StageInv, StrategyRaises, riskVars, barVars, orderVars,
     BeforeRisk
<1>4. QED
  BY <1>1, <1>2, <1>3 DEF SessionInv

LEMMA PollRaisesKeeps ==
    ASSUME SessionInv, PollRaises
    PROVE  SessionInv'
<1>1. JournalTypeOK'
  BY DEF SessionInv, PollRaises, JournalTypeOK, journalVars
<1>2. SessionTypeOK'
  BY DEF SessionInv, SessionTypeOK, PollRaises, bookVars, riskVars, barVars,
     orderVars, Stage
<1>3. StageInv'
  BY DEF SessionInv, StageInv, PollRaises, riskVars, barVars, orderVars,
     BeforeRisk
<1>4. QED
  BY <1>1, <1>2, <1>3 DEF SessionInv

\* The decision on the order at the head of the queue.
LEMMA DecisionType ==
    ASSUME SessionTypeOK, queue # <<>>
    PROVE  /\ Head(queue) \in Order
           /\ Tail(queue) \in Seq(Order)
           /\ Decision \in RiskDecision
           /\ Decision.verdict = "KILL" => Decision.reason \in KillReason
<1>1. Head(queue) \in Order /\ Tail(queue) \in Seq(Order)
  BY DEF SessionTypeOK
<1>2. Decision \in RiskDecision
  BY <1>1, CheckType DEF SessionTypeOK, Decision
<1>3. Decision.verdict = "KILL" => Decision.reason \in KillReason
  BY KillHasReason DEF Decision
<1>4. QED
  BY <1>1, <1>2, <1>3

LEMMA RejectOrderKeeps ==
    ASSUME SessionInv, ProcessTypeOK, RejectOrder
    PROVE  SessionInv'
<1>1. /\ Head(queue) \in Order
      /\ Tail(queue) \in Seq(Order)
      /\ Decision \in RiskDecision
      /\ Decision.verdict = "KILL" => Decision.reason \in KillReason
  BY DecisionType DEF SessionInv, RejectOrder
<1>2. JournalTypeOK'
  <2>1. RejectRow(session_id, Head(queue).side, Head(queue).qty) \in JournalRow
    BY <1>1, RowTypes DEF Order, ProcessTypeOK
  <2>2. QED
    BY <2>1, WriteRowType DEF SessionInv, RejectOrder
<1>3. Decision.verdict \in {"REJECT", "REDUCE", "KILL"}
  <2>1. Decision.verdict # "ALLOW"
    <3>1. ASSUME NEW qty \in Nat \ {0}
          PROVE  Ok(Allow(qty))
      BY DEF Ok, Allow
    <3>2. \A qty : /\ LimitTo(qty).verdict # "ALLOW"
                   /\ Reduce(qty).verdict # "ALLOW"
      BY DEF LimitTo, Reject, Reduce
    <3>3. /\ Reject.verdict # "ALLOW"
          /\ \A reason : Kill(reason).verdict # "ALLOW"
      BY DEF Reject, Kill
    <3>4. CheckPosition(Head(queue), pf, mark, 0).verdict = "ALLOW"
            => Ok(CheckPosition(Head(queue), pf, mark, 0))
      BY <1>1, <3>1, <3>2 DEF CheckPosition, Order
    <3>5. Decision.verdict = "ALLOW" => Ok(Decision)
      BY <3>3, <3>4 DEF Decision, Check, CheckAccount
    <3>6. QED
      BY <3>5 DEF RejectOrder
  <2>2. QED
    BY <1>1, <2>1 DEF RiskDecision, Verdict
<1>4. rejected' \in Seq(Rejection)
  <2>1. RejectionOf(Head(queue), Decision) \in Rejection
    BY <1>1, <1>3 DEF RejectionOf, Rejection, Order
  <2>2. QED
    BY <2>1 DEF SessionInv, SessionTypeOK, RejectOrder
<1>5. CASE Decision.verdict = "KILL"
  <2>1. /\ pc' = "kill"
        /\ kill_reason' = Decision.reason
        /\ kill_reason' \in KillReason
        /\ pf' = [pf EXCEPT !.kills = @ + 1]
        /\ killed' = TRUE
    BY <1>1, <1>5 DEF RejectOrder, KilledAfter, SessionInv, SessionTypeOK
  <2>2. pf' \in PortfolioState
    <3>1. pf \in PortfolioState
      BY DEF SessionInv, SessionTypeOK
    <3>2. pf.kills + 1 \in Nat
      BY <3>1 DEF PortfolioState
    <3>3. pf' = [pf EXCEPT !.kills = pf.kills + 1]
      BY <2>1, <3>1 DEF PortfolioState
    <3>4. QED
      BY <3>1, <3>2, <3>3 DEF PortfolioState
  <2>3. SessionTypeOK'
    BY <1>1, <1>4, <2>1, <2>2 DEF SessionInv, SessionTypeOK, RejectOrder,
       barVars, Stage
  <2>4. StageInv'
    BY <2>1 DEF SessionInv, StageInv, RejectOrder, barVars, BeforeRisk,
       KillReason
  <2>5. QED
    BY <1>2, <2>3, <2>4 DEF SessionInv
<1>6. CASE Decision.verdict # "KILL"
  <2>1. UNCHANGED <<pc, kill_reason, pf>> /\ killed' = killed
    BY <1>6 DEF RejectOrder, KilledAfter, SessionInv, SessionTypeOK
  <2>2. SessionTypeOK'
    BY <1>1, <1>4, <2>1 DEF SessionInv, SessionTypeOK, RejectOrder, barVars
  <2>3. StageInv'
    BY <2>1 DEF SessionInv, StageInv, RejectOrder, barVars
  <2>4. QED
    BY <1>2, <2>2, <2>3 DEF SessionInv
<1>7. QED
  BY <1>5, <1>6

LEMMA RecordKillKeeps ==
    ASSUME SessionInv, ProcessTypeOK, RecordKill
    PROVE  SessionInv'
<1>1. kill_reason \in EndReason
  BY DEF SessionInv, SessionTypeOK, StageInv, RecordKill, KillReason, EndReason
<1>2. KillRow(session_id, kill_reason) \in JournalRow
  BY <1>1, RowTypes DEF ProcessTypeOK
<1>3. JournalTypeOK'
  BY <1>2, WriteRowType DEF SessionInv, RecordKill
<1>4. SessionTypeOK'
  BY DEF SessionInv, SessionTypeOK, RecordKill, bookVars, riskVars, barVars,
     orderVars, Stage
<1>5. StageInv'
  BY DEF SessionInv, StageInv, RecordKill, riskVars, barVars, orderVars,
     BeforeRisk
<1>6. QED
  BY <1>3, <1>4, <1>5 DEF SessionInv

\* What the risk engine has let through, whatever it made of the quantity.
LEMMA ApprovedOrder ==
    ASSUME SessionTypeOK, Approve
    PROVE  /\ adj' \in Order
           /\ ~killed
           /\ mark > 0
           /\ Equity(pf, mark) > 0
           /\ ~DailyLossBreached(pf, mark)
           /\ ~DrawdownBreached(pf, mark)
           /\ ~OverPositionLimit(pf, adj', mark)
<1>1. /\ Head(queue) \in Order
      /\ pf \in PortfolioState
      /\ mark \in Int
      /\ Equity(pf, mark) \in Int
  BY DecisionType, EquityType DEF Approve, SessionTypeOK
<1>2. /\ ~killed
      /\ mark > 0
      /\ Equity(pf, mark) > 0
      /\ ~DailyLossBreached(pf, mark)
      /\ ~DrawdownBreached(pf, mark)
      /\ Decision = CheckPosition(Head(queue), pf, mark, 0)
  BY <1>1, OkCheckIsChecked DEF Approve, Decision
<1>3. adj' = Adjusted(Head(queue), Decision) /\ Ok(Decision)
  BY DEF Approve
<1>4. /\ Adjusted(Head(queue), Decision) \in Order
      /\ ~OverPositionLimit(pf, Adjusted(Head(queue), Decision), mark)
  BY <1>1, <1>2, <1>3, OkCheckKeepsLimit
<1>5. QED
  BY <1>2, <1>3, <1>4

LEMMA ApproveKeeps ==
    ASSUME SessionInv, Approve
    PROVE  SessionInv'
<1>1. adj' \in Order /\ ~killed
  BY ApprovedOrder DEF SessionInv
<1>2. JournalTypeOK'
  BY DEF SessionInv, Approve, JournalTypeOK, journalVars
<1>3. SessionTypeOK'
  BY <1>1 DEF SessionInv, SessionTypeOK, Approve, bookVars, riskVars, barVars,
     Stage
<1>4. StageInv'
  BY <1>1 DEF SessionInv, StageInv, Approve, riskVars, barVars, BeforeRisk
<1>5. QED
  BY <1>2, <1>3, <1>4 DEF SessionInv

LEMMA SubmittedKeeps ==
    ASSUME SessionInv, Submitted,
           pf' \in PortfolioState, fills' \in Seq(Fill),
           rejected' \in Seq(Rejection), JournalTypeOK'
    PROVE  SessionInv'
<1>1. Tail(queue) \in Seq(Order)
  BY DEF SessionInv, SessionTypeOK, StageInv, Submitted
<1>2. SessionTypeOK'
  BY <1>1 DEF SessionInv, SessionTypeOK, Submitted, riskVars, barVars, Stage
<1>3. StageInv'
  BY DEF SessionInv, StageInv, Submitted, riskVars, barVars, BeforeRisk
<1>4. QED
  BY <1>2, <1>3 DEF SessionInv

LEMMA BrokerRejectsKeeps ==
    ASSUME SessionInv, ProcessTypeOK, BrokerRejects
    PROVE  SessionInv'
<1>1. adj \in Order
  BY DEF SessionInv, StageInv, BrokerRejects, Submitted
<1>2. RejectRow(session_id, adj.side, adj.qty) \in JournalRow
  BY <1>1, RowTypes DEF Order, ProcessTypeOK
<1>3. JournalTypeOK'
  BY <1>2, WriteRowType DEF SessionInv, BrokerRejects
<1>4. rejected' \in Seq(Rejection)
  BY <1>1 DEF SessionInv, SessionTypeOK, BrokerRejects, Rejection, Order
<1>5. pf' \in PortfolioState /\ fills' \in Seq(Fill)
  BY DEF SessionInv, SessionTypeOK, BrokerRejects, bookVars
<1>6. QED
  BY <1>3, <1>4, <1>5, SubmittedKeeps DEF BrokerRejects

LEMMA BrokerFillsKeeps ==
    ASSUME SessionInv, ProcessTypeOK, NEW fill \in Fill, BrokerFills(fill)
    PROVE  SessionInv'
<1>1. pf' \in PortfolioState /\ fills' \in Seq(Fill) /\ JournalTypeOK'
  BY BookFillType DEF SessionInv, BrokerFills
<1>2. rejected' \in Seq(Rejection)
  BY DEF SessionInv, SessionTypeOK, BrokerFills
<1>3. QED
  BY <1>1, <1>2, SubmittedKeeps DEF BrokerFills

LEMMA BrokerDefersKeeps ==
    ASSUME SessionInv, BrokerDefers
    PROVE  SessionInv'
<1>1. /\ pf' \in PortfolioState
      /\ fills' \in Seq(Fill)
      /\ rejected' \in Seq(Rejection)
      /\ JournalTypeOK'
  BY DEF SessionInv, SessionTypeOK, JournalTypeOK, BrokerDefers, bookVars,
     journalVars
<1>2. QED
  BY <1>1, SubmittedKeeps DEF BrokerDefers

LEMMA EndBarKeeps ==
    ASSUME SessionInv, ProcessTypeOK, EndBar
    PROVE  SessionInv'
<1> DEFINE eq == Equity(pf, mark)
<1>1. eq \in Int
  BY EquityType DEF SessionInv, SessionTypeOK
<1>2. BarIndex \in Nat
  BY SessionAssumption
  DEF SessionInv, SessionTypeOK, ProcessTypeOK, StageInv, EndBar, BarIndex
<1> HIDE DEF eq
<1>3. HeartbeatRows(eq) \in Seq(JournalRow)
  <2>1. /\ HeartbeatRow(session_id, eq) \in JournalRow
        /\ EquityRow(session_id, eq, BarIndex) \in JournalRow
    BY <1>1, <1>2, RowTypes DEF ProcessTypeOK
  <2>2. <<HeartbeatRow(session_id, eq), EquityRow(session_id, eq, BarIndex)>>
          \in Seq(JournalRow)
    BY <2>1
  <2>3. <<>> \in Seq(JournalRow)
    OBVIOUS
  <2>4. QED
    BY <2>2, <2>3 DEF HeartbeatRows
<1>4. JournalTypeOK'
  BY <1>3, WriteType DEF SessionInv, EndBar, eq
<1>5. pc' \in {"feed", "finally"} /\ (killed => pc' = "finally")
  BY DEF SessionInv, StageInv, EndBar, StageAfterBar
<1>6. equity' \in Seq(Int)
  BY <1>1 DEF SessionInv, SessionTypeOK, EndBar, eq
<1>7. SessionTypeOK'
  BY <1>5, <1>6 DEF SessionInv, SessionTypeOK, EndBar, bookVars, riskVars,
     barVars, orderVars, Stage
<1>8. StageInv'
  BY <1>5 DEF SessionInv, StageInv, EndBar, riskVars, barVars, orderVars,
     BeforeRisk
<1>9. QED
  BY <1>4, <1>7, <1>8 DEF SessionInv

LEMMA FeedEndsKeeps ==
    ASSUME SessionInv, FeedEnds
    PROVE  SessionInv'
<1>1. JournalTypeOK'
  BY DEF SessionInv, FeedEnds, JournalTypeOK, journalVars
<1>2. SessionTypeOK'
  BY DEF SessionInv, SessionTypeOK, FeedEnds, bookVars, riskVars, barVars,
     orderVars, Stage
<1>3. StageInv'
  BY DEF SessionInv, StageInv, FeedEnds, riskVars, barVars, orderVars,
     BeforeRisk
<1>4. QED
  BY <1>1, <1>2, <1>3 DEF SessionInv

LEMMA FinishKeeps ==
    ASSUME SessionInv, ProcessTypeOK, Finish
    PROVE  SessionInv'
<1>1. EndReasonOf(kill_reason) \in EndReason
  BY DEF SessionInv, SessionTypeOK, EndReasonOf, EndReason, KillReason
<1>2. EndRow(session_id, EndReasonOf(kill_reason)) \in JournalRow
  BY <1>1, RowTypes DEF ProcessTypeOK
<1>3. JournalTypeOK'
  BY <1>2, SessionRowType DEF SessionInv, Finish
<1>4. pc' \in Stopped
  BY DEF Finish, StageAtEnd, Stopped
<1>5. SessionTypeOK'
  BY <1>4 DEF SessionInv, SessionTypeOK, Finish, Stopped, Stage, bookVars,
     riskVars, barVars, orderVars
<1>6. StageInv'
  BY <1>4 DEF SessionInv, StageInv, Finish, Stopped, riskVars, barVars,
     orderVars, BeforeRisk
<1>7. QED
  BY <1>3, <1>5, <1>6 DEF SessionInv

LEMMA StutterKeeps ==
    ASSUME SessionInv, UNCHANGED <<sessionVars, journalVars>>
    PROVE  SessionInv'
BY DEF SessionInv, SessionTypeOK, JournalTypeOK, StageInv, sessionVars,
   journalVars, bookVars, riskVars, barVars, orderVars

(***************************************************************************)
(* The session as a whole, for the proofs about it with a broker.          *)
(***************************************************************************)
LEMMA SessionStarts ==
    ASSUME SessionInit, JournalInit
    PROVE  SessionInv /\ RiskBeforeBroker
<1>1. FreshBook(StartingCash) \in PortfolioState
  BY SessionAssumption, FreshBookType
<1>2. SessionTypeOK
  <2>1. /\ <<>> \in Seq(Fill) /\ <<>> \in Seq(Order) /\ <<>> \in Seq(Rejection)
        /\ <<StartingCash>> \in Seq(Int)
    BY SessionAssumption
  <2>2. bar_count \in 0..NBars
    BY SessionAssumption DEF SessionInit
  <2>3. pc \in Stage /\ mark \in Int /\ kill_reason \in KillReason \cup {"none"}
    <3>1. pc = "start" /\ mark = 0 /\ kill_reason = "none"
      BY DEF SessionInit
    <3>2. QED
      BY <3>1 DEF Stage
  <2>4. adj \in Order \cup {NoOrder}
    BY DEF SessionInit
  <2>5. /\ delayed \in Seq(Fill)
        /\ queue \in Seq(Order)
        /\ fills \in Seq(Fill)
        /\ equity \in Seq(Int)
        /\ rejected \in Seq(Rejection)
    BY <2>1 DEF SessionInit
  <2>6. pf \in PortfolioState
    BY <1>1 DEF SessionInit
  <2>7. killed \in BOOLEAN /\ connected \in BOOLEAN
    BY Zenon DEF SessionInit
  <2>8. QED
    BY <2>2, <2>3, <2>4, <2>5, <2>6, <2>7 DEF SessionTypeOK
<1>3. JournalTypeOK
  <2>1. <<>> \in Seq(JournalRow)
    OBVIOUS
  <2>2. jdisabled \in BOOLEAN
    BY DEF JournalInit
  <2>3. QED
    BY <2>1, <2>2 DEF JournalInit, JournalTypeOK
<1>4. StageInv /\ RiskBeforeBroker
  BY DEF SessionInit, StageInv, RiskBeforeBroker
<1>5. QED
  BY <1>2, <1>3, <1>4 DEF SessionInv

LEMMA NewProcess ==
    ASSUME SessionInit
    PROVE  ProcessTypeOK
BY Zenon, SMT DEF SessionInit, ProcessTypeOK, FirstSession

LEMMA ProcessStays ==
    ASSUME ProcessTypeOK, UNCHANGED processVars
    PROVE  ProcessTypeOK'
BY DEF ProcessTypeOK, processVars

LEMMA LoopStepKeeps ==
    ASSUME SessionInv, ProcessTypeOK, LoopStep
    PROVE  SessionInv'
<1>1. CASE \E mid \in Prices, new_day \in BOOLEAN : NextBar(mid, new_day)
  BY <1>1, SessionAssumption, NextBarKeeps
<1>2. CASE ApplyDelayed
  BY <1>2, ApplyDelayedKeeps
<1>3. CASE \E orders \in OrderLists : OnBar(orders)
  BY <1>3, SessionAssumption, OnBarKeeps
<1>4. CASE StrategyRaises
  BY <1>4, StrategyRaisesKeeps
<1>5. CASE RejectOrder
  BY <1>5, RejectOrderKeeps
<1>6. CASE RecordKill
  BY <1>6, RecordKillKeeps
<1>7. CASE Approve
  BY <1>7, ApproveKeeps
<1>8. CASE EndBar
  BY <1>8, EndBarKeeps
<1>9. CASE FeedEnds
  BY <1>9, FeedEndsKeeps
<1>10. CASE Finish
  BY <1>10, FinishKeeps
<1>11. CASE Terminated
  BY <1>11, StutterKeeps DEF Terminated
<1>12. QED
  BY <1>1, <1>2, <1>3, <1>4, <1>5, <1>6, <1>7, <1>8, <1>9, <1>10, <1>11
  DEF LoopStep

\* The position the allowed quantity leads to, in RiskBeforeBroker's words.
LEMMA LimitIsWithin ==
    ASSUME NEW order \in Order, SessionTypeOK,
           ~OverPositionLimit(pf, order, mark)
    PROVE  WithinPositionLimit(QtyAfter(pf, order), pf)
<1> DEFINE value == Abs(QtyAfter(pf, order)) * 100 * mark
           limit == RiskCfg.max_position_pct * Equity(pf, mark)
<1>1. value \in Int /\ limit \in Int
  <2>1. QtyAfter(pf, order) \in Int
    BY DEF QtyAfter, Signed, Order, SessionTypeOK, PortfolioState, Position
  <2>2. Abs(QtyAfter(pf, order)) \in Int
    BY <2>1 DEF Abs
  <2>3. RiskCfg.max_position_pct \in Int /\ Equity(pf, mark) \in Int /\ mark \in Int
    BY RiskCfgAssumption, EquityType DEF RiskConfig, SessionTypeOK
  <2>4. QED
    BY <2>2, <2>3
<1>2. ~(value > limit)
  BY DEF OverPositionLimit
<1> HIDE DEF value, limit
<1>3. value <= limit
  BY <1>1, <1>2
<1>4. QED
  BY <1>3 DEF WithinPositionLimit, value, limit

LEMMA ApproveOpensGate ==
    ASSUME SessionInv, Approve
    PROVE  RiskBeforeBroker'
<1>1. /\ adj' \in Order
      /\ ~killed
      /\ mark > 0
      /\ Equity(pf, mark) > 0
      /\ ~DailyLossBreached(pf, mark)
      /\ ~DrawdownBreached(pf, mark)
      /\ ~OverPositionLimit(pf, adj', mark)
  BY ApprovedOrder DEF SessionInv
<1>2. WithinPositionLimit(QtyAfter(pf, adj'), pf)
  BY <1>1, LimitIsWithin DEF SessionInv
<1>3. UNCHANGED <<pf, killed, mark>>
  BY DEF Approve, bookVars, riskVars, barVars
<1>4. QED
  BY <1>1, <1>2, <1>3
  DEF RiskBeforeBroker, WithinPositionLimit, QtyAfter, Signed, Equity,
      DailyLossBreached, DrawdownBreached

\* Only Approve leads to the broker.
LEMMA LoopStepKeepsGate ==
    ASSUME SessionInv, LoopStep
    PROVE  RiskBeforeBroker'
<1> SUFFICES ASSUME pc' = "submit"
             PROVE  RiskBeforeBroker'
  BY DEF RiskBeforeBroker
<1>1. ~ApplyDelayed /\ ~StrategyRaises /\ ~RejectOrder /\ ~RecordKill
  BY DEF ApplyDelayed, StrategyRaises, RejectOrder, RecordKill
<1>2. /\ \A mid, new_day : ~NextBar(mid, new_day)
      /\ \A orders : ~OnBar(orders)
  BY DEF NextBar, OnBar
<1>3. ~EndBar /\ ~FeedEnds /\ ~Finish /\ ~Terminated
  BY DEF EndBar, StageAfterBar, FeedEnds, Finish, StageAtEnd, Terminated,
     sessionVars, Stopped
<1>4. Approve
  BY <1>1, <1>2, <1>3 DEF LoopStep
<1>5. QED
  BY <1>4, ApproveOpensGate

LEMMA GateStays ==
    ASSUME RiskBeforeBroker, UNCHANGED <<pc, pf, killed, mark, adj>>
    PROVE  RiskBeforeBroker'
BY DEF RiskBeforeBroker, WithinPositionLimit, QtyAfter, Signed, Equity,
   DailyLossBreached, DrawdownBreached

LEMMA LoopStepAtBroker ==
    ASSUME LoopStep, pc = "submit"
    PROVE  pc' = "submit"
<1>1. ~ApplyDelayed /\ ~StrategyRaises /\ ~RejectOrder /\ ~RecordKill /\ ~Approve
  BY DEF ApplyDelayed, StrategyRaises, RejectOrder, RecordKill, Approve
<1>2. /\ \A mid, new_day : ~NextBar(mid, new_day)
      /\ \A orders : ~OnBar(orders)
  BY DEF NextBar, OnBar
<1>3. ~EndBar /\ ~FeedEnds /\ ~Finish /\ ~Terminated
  BY DEF EndBar, FeedEnds, Finish, Terminated, Stopped
<1>4. QED
  BY <1>1, <1>2, <1>3 DEF LoopStep

LEMMA LoopStepFills ==
    ASSUME LoopStep, delayed = <<>>
    PROVE  fills' = fills /\ delayed' = <<>>
<1>1. ~ApplyDelayed
  BY DEF ApplyDelayed
<1>2. QED
  BY <1>1 DEF LoopStep, NextBar, OnBar, StrategyRaises, RejectOrder, RecordKill,
     Approve, EndBar, FeedEnds, Finish, Terminated, sessionVars, bookVars, barVars

\* Without a fill to apply, the loop leaves cash and position alone.
LEMMA LoopStepKeepsBook ==
    ASSUME SessionInv, LoopStep, ~ApplyDelayed
    PROVE  pf'.cash = pf.cash /\ pf'.pos = pf.pos
<1>1. pf \in PortfolioState
  BY DEF SessionInv, SessionTypeOK
<1>2. CASE \E mid \in Prices, new_day \in BOOLEAN : NextBar(mid, new_day)
  <2>1. PICK mid \in Prices, new_day \in BOOLEAN : NextBar(mid, new_day)
    BY <1>2
  <2> DEFINE rolled == RollDay(pf, mid, new_day)
  <2>2. rolled.cash = pf.cash /\ rolled.pos = pf.pos
    BY <1>1 DEF RollDay, PortfolioState
  <2>3. UpdatePeaks(rolled, mid).cash = rolled.cash
        /\ UpdatePeaks(rolled, mid).pos = rolled.pos
    <3>1. rolled = pf \/ rolled = [pf EXCEPT !.day_start_equity = Equity(pf, mid)]
      BY DEF RollDay
    <3>2. DOMAIN rolled = DOMAIN pf
      BY <3>1
    <3>3. {"cash", "pos"} \subseteq DOMAIN rolled
      BY <1>1, <3>2 DEF PortfolioState
    <3> HIDE DEF rolled
    <3>4. QED
      BY <3>3 DEF UpdatePeaks
  <2>4. QED
    BY <2>1, <2>2, <2>3 DEF NextBar
<1>3. CASE RejectOrder
  BY <1>1, <1>3 DEF RejectOrder, PortfolioState
<1>4. QED
  BY <1>1, <1>2, <1>3 DEF LoopStep, OnBar, StrategyRaises, RecordKill, Approve,
     EndBar, FeedEnds, Finish, Terminated, sessionVars, bookVars

\* What no step changes once the kill switch is armed.
Frozen ==
    /\ fills' = fills
    /\ pf'.cash = pf.cash
    /\ pf'.pos = pf.pos
    /\ bar_count' = bar_count

LEMMA KilledStage ==
    ASSUME SessionInv, killed
    PROVE  pc \notin {"start", "feed", "poll", "delayed", "submit"}
BY DEF SessionInv, StageInv, BeforeRisk

LEMMA LoopStepFrozen ==
    ASSUME SessionInv, killed, LoopStep
    PROVE  Frozen
<1>1. CASE RejectOrder
  <2>1. pf' = pf \/ pf' = [pf EXCEPT !.kills = @ + 1]
    BY <1>1 DEF RejectOrder
  <2>2. pf \in PortfolioState
    BY DEF SessionInv, SessionTypeOK
  <2>3. pf'.cash = pf.cash /\ pf'.pos = pf.pos
    BY <2>1, <2>2 DEF PortfolioState
  <2>4. QED
    BY <1>1, <2>3 DEF RejectOrder, barVars, Frozen
<1>2. CASE RecordKill \/ Approve \/ EndBar \/ FeedEnds \/ Finish \/ Terminated
  BY <1>2 DEF RecordKill, Approve, EndBar, FeedEnds, Finish, Terminated,
     sessionVars, bookVars, barVars, Frozen
<1>3. ~StrategyRaises /\ ~ApplyDelayed
  BY KilledStage DEF StrategyRaises, ApplyDelayed
<1>4. /\ \A mid, new_day : ~NextBar(mid, new_day)
      /\ \A orders : ~OnBar(orders)
  BY KilledStage DEF NextBar, OnBar
<1>5. QED
  BY <1>1, <1>2, <1>3, <1>4 DEF LoopStep

(***************************************************************************)
(* The session as a guarded book.                                          *)
(***************************************************************************)
LEMMA BookStartsGuarded ==
    ASSUME SessionInit
    PROVE  Guarded!Init
BY DEF SessionInit, Guarded!Init, FreshBook, FlatPosition

LEMMA FillIsTrade ==
    ASSUME SessionInv, NEW fill \in Fill, BookFill(fill), ~killed,
           killed' = killed
    PROVE  Guarded!Next
<1>1. pf \in PortfolioState /\ fills \in Seq(Fill)
  BY DEF SessionInv, SessionTypeOK
<1>2. fills' = Append(fills, fill) /\ pf' = ApplyFill(pf, fill)
  BY DEF BookFill
<1>3. fills' # <<>> /\ fills'[Len(fills')] = fill
  BY <1>1, <1>2
<1>4. pf.cash \in Int /\ pf.pos \in Position
  BY <1>1 DEF PortfolioState
<1>5. /\ pf'.cash = CashAfter(pf.cash, fill)
      /\ pf'.pos = PositionAfter(pf.pos, fill)
  BY <1>1, <1>2, ApplyFillType
<1>6. Guarded!Moved(fill) = Signed(fill)
  BY DEF Guarded!Moved, Signed
<1>7. /\ pf'.cash = pf.cash - Guarded!Moved(fill) * fill.price - fill.commission
      /\ pf'.pos.qty = pf.pos.qty + Guarded!Moved(fill)
  BY <1>4, <1>5, <1>6, CashMovesByFill, PositionMovesByFill
<1>8. Guarded!Trade(fill)
  BY <1>2, <1>7 DEF Guarded!Trade
<1>9. QED
  BY <1>3, <1>8 DEF Guarded!Next

LEMMA LoopStepGuarded ==
    ASSUME SessionInv, LoopStep
    PROVE  [Guarded!Next]_(Guarded!bookVars)
<1>1. CASE ApplyDelayed
  <2>1. Head(delayed) \in Fill
    BY <1>1 DEF ApplyDelayed, SessionInv, SessionTypeOK
  <2>2. ~killed /\ killed' = killed
    BY <1>1, KilledStage DEF ApplyDelayed, riskVars
  <2>3. QED
    BY <1>1, <2>1, <2>2, FillIsTrade DEF ApplyDelayed
<1>2. CASE RejectOrder
  <2>1. /\ pf'.cash = pf.cash
        /\ pf'.pos = pf.pos
        /\ fills' = fills
    <3>1. pf' = pf \/ pf' = [pf EXCEPT !.kills = @ + 1]
      BY <1>2 DEF RejectOrder
    <3>2. pf \in PortfolioState
      BY DEF SessionInv, SessionTypeOK
    <3>3. QED
      BY <1>2, <3>1, <3>2 DEF RejectOrder, PortfolioState
  <2>2. killed' = killed \/ (~killed /\ killed' = TRUE)
    BY <1>2 DEF RejectOrder, KilledAfter, SessionInv, SessionTypeOK
  <2>3. QED
    BY <2>1, <2>2 DEF Guarded!Next, Guarded!Close, Guarded!bookVars
<1>3. CASE \E mid \in Prices, new_day \in BOOLEAN : NextBar(mid, new_day)
  <2>1. PICK mid \in Prices, new_day \in BOOLEAN : NextBar(mid, new_day)
    BY <1>3
  <2>2. pf'.cash = pf.cash /\ pf'.pos = pf.pos
    <3>1. pf \in PortfolioState
      BY DEF SessionInv, SessionTypeOK
    <3>2. QED
      BY <2>1, <3>1 DEF NextBar, UpdatePeaks, RollDay, PortfolioState
  <2>3. QED
    BY <2>1, <2>2 DEF NextBar, riskVars, Guarded!bookVars
<1>4. CASE \/ \E orders \in OrderLists : OnBar(orders)
           \/ StrategyRaises \/ RecordKill \/ Approve \/ EndBar \/ FeedEnds
           \/ Finish \/ Terminated
  BY <1>4 DEF OnBar, StrategyRaises, RecordKill, Approve, EndBar, FeedEnds,
     Finish, Terminated, sessionVars, bookVars, riskVars, Guarded!bookVars
<1>5. QED
  BY <1>1, <1>2, <1>3, <1>4 DEF LoopStep

(***************************************************************************)
(* The replay of a file.                                                   *)
(***************************************************************************)
LEMMA FreshRestoredType ==
    ASSUME NEW cash \in Int
    PROVE  FreshRestored(cash) \in Restored
<1>1. FreshBook(cash) \in PortfolioState
  BY FreshBookType
<1>2. NoBar \in Nat \cup {NoBar}
  OBVIOUS
<1>3. QED
  BY <1>1, <1>2 DEF FreshRestored, Restored

LEMMA RestoreRowType ==
    ASSUME NEW restored \in Restored, NEW row \in JournalRow
    PROVE  RestoreRow(restored, row) \in Restored
<1> USE DEF Restored
<1>1. CASE row.event = "fill"
  <2>1. row.fill \in Fill
    BY <1>1 DEF JournalRow, TornRow, LostRow
  <2>2. ApplyFill(restored.state, row.fill) \in PortfolioState
    BY <2>1, ApplyFillType
  <2>3. RestoreRow(restored, row)
          = [restored EXCEPT !.state = ApplyFill(restored.state, row.fill),
                             !.n_fills = restored.n_fills + 1]
    BY <1>1 DEF RestoreRow
  <2>4. restored.n_fills + 1 \in Nat
    OBVIOUS
  <2> HIDE DEF Restored
  <2>5. QED
    BY <2>2, <2>3, <2>4 DEF Restored
<1>2. CASE row.event = "equity"
  <2>1. row.bar_i \in Nat /\ row.equity \in Int
    BY <1>2 DEF JournalRow, TornRow, LostRow
  <2>2. [restored.state EXCEPT !.peak_equity = Greatest(@, row.equity)]
          \in PortfolioState
    BY <2>1 DEF PortfolioState, Greatest
  <2>3. RestoreRow(restored, row)
          = [restored EXCEPT
               !.last_bar_i = row.bar_i,
               !.state = [restored.state EXCEPT
                            !.peak_equity = Greatest(@, row.equity)]]
    BY <1>2 DEF RestoreRow
  <2>4. QED
    BY <2>1, <2>2, <2>3
<1>3. CASE row.event = "kill"
  <2>1. [restored.state EXCEPT !.kills = @ + 1] \in PortfolioState
    BY DEF PortfolioState
  <2>2. RestoreRow(restored, row)
          = [restored EXCEPT !.killed = TRUE,
                             !.state = [restored.state EXCEPT !.kills = @ + 1]]
    BY <1>3 DEF RestoreRow
  <2>3. QED
    BY <2>1, <2>2
<1>4. CASE row.event \notin {"fill", "equity", "kill"}
  <2>1. RestoreRow(restored, row)
          = [restored EXCEPT !.ended = restored.ended \/ row.event = "session_end"]
    BY <1>4 DEF RestoreRow
  <2>2. QED
    BY <2>1
<1>5. QED
  BY <1>1, <1>2, <1>3, <1>4

LEMMA ReplayDef ==
    ASSUME NEW rows \in Seq(JournalRow), NEW sid, NEW cash \in Int
    PROVE  /\ Replay(rows, sid, cash)[0] = FreshRestored(cash)
           /\ \A n \in 1..Len(rows) :
                Replay(rows, sid, cash)[n]
                  = ReplayRow(Replay(rows, sid, cash)[n - 1], rows[n], sid)
           /\ \A n \in 0..Len(rows) : Replay(rows, sid, cash)[n] \in Restored
<1> DEFINE m == Len(rows)
           rec(f) == f = [n \in 0..m |->
                            IF n = 0 THEN FreshRestored(cash)
                            ELSE ReplayRow(f[n - 1], rows[n], sid)]
           step == [n \in 1..m |->
                      [restored \in Restored |-> ReplayRow(restored, rows[n], sid)]]
<1>1. m \in Nat
  OBVIOUS
<1>2. \A n \in 1..m : rows[n] \in JournalRow
  OBVIOUS
<1> HIDE DEF m
<1>3. \A n \in 1..m, restored \in Restored :
         ReplayRow(restored, rows[n], sid) \in Restored
  BY <1>2, RestoreRowType DEF ReplayRow
<1>4. step \in [1..m -> [Restored -> Restored]]
  BY <1>3
<1>5. FreshRestored(cash) \in Restored
  BY FreshRestoredType
<1> HIDE DEF step
<1>6. PICK f \in [0..m -> Restored] :
        /\ f[0] = FreshRestored(cash)
        /\ \A n \in 1..m : f[n] = step[n][f[n - 1]]
  BY <1>1, <1>4, <1>5, FiniteRecursion, SMTT(60)
<1>7. rec(f)
  <2>1. \A n \in 0..m : n # 0 => n \in 1..m /\ n - 1 \in 0..m
    BY <1>1
  <2>2. \A n \in 0..m : n # 0 => f[n] = ReplayRow(f[n - 1], rows[n], sid)
    BY <1>6, <2>1 DEF step
  <2>3. QED
    BY <1>6, <2>2
<1>8. Replay(rows, sid, cash) = CHOOSE g : rec(g)
  BY DEF Replay, m
<1> DEFINE after == Replay(rows, sid, cash)
<1>9. rec(after)
  BY <1>7, <1>8
<1> HIDE DEF after
<1>10. /\ after[0] = FreshRestored(cash)
       /\ \A n \in 1..m : after[n] = ReplayRow(after[n - 1], rows[n], sid)
  BY <1>1, <1>9
<1>11. \A n \in 0..m : after[n] \in Restored
  <2> DEFINE typed == {n \in 0..m : after[n] \in Restored}
  <2>1. 0 \in typed
    BY <1>1, <1>5, <1>10
  <2>2. \A n \in 1..m : n - 1 \in typed => n \in typed
    <3> SUFFICES ASSUME NEW n \in 1..m, after[n - 1] \in Restored
                 PROVE  after[n] \in Restored
      BY <1>1
    <3>1. after[n] = ReplayRow(after[n - 1], rows[n], sid)
      BY <1>1, <1>10
    <3>2. QED
      BY <1>3, <3>1
  <2> HIDE DEF typed
  <2>3. \A n \in 0..m : n \in typed
    BY <1>1, <2>1, <2>2, IntervalInduction
  <2>4. QED
    BY <2>3 DEF typed
<1>12. QED
  BY <1>10, <1>11 DEF after, m

\* Rows added at the end change nothing of what the first rows leave.
LEMMA ReplayPrefix ==
    ASSUME NEW rows \in Seq(JournalRow), NEW row \in JournalRow, NEW sid,
           NEW cash \in Int
    PROVE  \A n \in 0..Len(rows) :
             Replay(Append(rows, row), sid, cash)[n] = Replay(rows, sid, cash)[n]
<1> DEFINE m == Len(rows)
           longer == Append(rows, row)
           before == Replay(rows, sid, cash)
           after == Replay(longer, sid, cash)
<1>1. /\ m \in Nat
      /\ longer \in Seq(JournalRow)
      /\ Len(longer) = m + 1
      /\ \A n \in 1..m : longer[n] = rows[n]
  OBVIOUS
<1> HIDE DEF longer
<1>2. /\ before[0] = FreshRestored(cash)
      /\ \A n \in 1..m : before[n] = ReplayRow(before[n - 1], rows[n], sid)
  BY ReplayDef
<1>3. /\ after[0] = FreshRestored(cash)
      /\ \A n \in 1..(m + 1) :
           after[n] = ReplayRow(after[n - 1], longer[n], sid)
  BY <1>1, ReplayDef
<1> HIDE DEF m, before, after
<1>4. \A n \in 1..m : n \in 1..(m + 1)
  BY <1>1
<1>5. \A n \in 1..m : after[n - 1] = before[n - 1] => after[n] = before[n]
  BY <1>1, <1>2, <1>3, <1>4
<1>6. after[0] = before[0]
  BY <1>2, <1>3
<1>7. \A n \in 0..m : after[n] = before[n]
  <2>1. m \in Nat
    BY <1>1
  <2>2. QED
    BY <1>5, <1>6, <2>1, SameSteps, Zenon
<1>8. QED
  BY <1>7 DEF m, longer, before, after

\* What the whole file leaves of a session that started with this cash.
Replayed(rows, sid, cash) == Replay(rows, sid, cash)[Len(rows)]

LEMMA ReplayedType ==
    ASSUME NEW rows \in Seq(JournalRow), NEW sid, NEW cash \in Int
    PROVE  Replayed(rows, sid, cash) \in Restored
BY ReplayDef DEF Replayed

LEMMA ReplayedAppend ==
    ASSUME NEW rows \in Seq(JournalRow), NEW row \in JournalRow, NEW sid,
           NEW cash \in Int
    PROVE  Replayed(Append(rows, row), sid, cash)
             = ReplayRow(Replayed(rows, sid, cash), row, sid)
<1> DEFINE m == Len(rows)
           longer == Append(rows, row)
           after == Replay(longer, sid, cash)
<1>1. /\ m \in Nat
      /\ longer \in Seq(JournalRow)
      /\ Len(longer) = m + 1
      /\ longer[m + 1] = row
  OBVIOUS
<1> HIDE DEF longer
<1>2. /\ after[0] = FreshRestored(cash)
      /\ \A n \in 1..(m + 1) :
           after[n] = ReplayRow(after[n - 1], longer[n], sid)
  BY <1>1, ReplayDef
<1>3. after[m] = Replayed(rows, sid, cash)
  BY ReplayPrefix DEF Replayed, longer
<1> HIDE DEF m, after
<1>4. after[m + 1] = ReplayRow(after[m], row, sid)
  BY <1>1, <1>2
<1>5. QED
  BY <1>1, <1>3, <1>4 DEF Replayed, longer, after

\* A file without a row of the session leaves it as it starts.
LEMMA ReplayedNothing ==
    ASSUME NEW rows \in Seq(JournalRow), NEW sid, NEW cash \in Int,
           \A n \in DOMAIN rows : ~OfSession(rows[n], sid)
    PROVE  Replayed(rows, sid, cash) = FreshRestored(cash)
<1> DEFINE m == Len(rows)
           after == Replay(rows, sid, cash)
           fresh == {n \in 0..m : after[n] = FreshRestored(cash)}
<1>1. m \in Nat /\ \A n \in 1..m : ~OfSession(rows[n], sid)
  OBVIOUS
<1>2. /\ after[0] = FreshRestored(cash)
      /\ \A n \in 1..m : after[n] = ReplayRow(after[n - 1], rows[n], sid)
  BY ReplayDef
<1> HIDE DEF m, after
<1>3. 0 \in fresh
  BY <1>1, <1>2
<1>4. \A n \in 1..m : n - 1 \in fresh => n \in fresh
  BY <1>1, <1>2 DEF ReplayRow
<1> HIDE DEF fresh
<1>5. \A n \in 0..m : n \in fresh
  BY <1>1, <1>3, <1>4, IntervalInduction
<1>6. QED
  BY <1>1, <1>5 DEF fresh, m, after, Replayed

(***************************************************************************)
(* The rows of one kind.                                                   *)
(***************************************************************************)
RowsLike(sid, kind) == {row \in JournalRow : row.event = kind /\ row.sid = sid}

LEMMA FoundDef ==
    ASSUME NEW rows \in Seq(JournalRow), NEW sid, NEW kind
    PROVE  /\ FoundIn(rows, sid, kind)[0] = <<>>
           /\ \A n \in 1..Len(rows) :
                FoundIn(rows, sid, kind)[n]
                  = Found(FoundIn(rows, sid, kind)[n - 1], rows[n], sid, kind)
           /\ \A n \in 0..Len(rows) : FoundIn(rows, sid, kind)[n] \in Seq(RowsLike(sid, kind))
<1> DEFINE rec(f) == f = [n \in 0..Len(rows) |->
                            IF n = 0 THEN <<>>
                            ELSE Found(f[n - 1], rows[n], sid, kind)]
<1> DEFINE Files == Seq(RowsLike(sid, kind))
<1>1. PICK m \in Nat : m = Len(rows)
  OBVIOUS
<1>2. PICK none \in Files : none = <<>>
  <2>1. <<>> \in Files
    OBVIOUS
  <2>2. QED
    BY <2>1, Zenon
<1>3. \A n \in 1..m, list \in Files : Found(list, rows[n], sid, kind) \in Files
  BY <1>1 DEF RowsLike, Found
<1> HIDE DEF Files
<1>4. PICK step \in [1..m -> [Files -> Files]] :
        \A n \in 1..m, list \in Files :
           step[n][list] = Found(list, rows[n], sid, kind)
  <2> DEFINE s == [n \in 1..m |-> [list \in Files |-> Found(list, rows[n], sid, kind)]]
  <2>1. s \in [1..m -> [Files -> Files]]
    BY <1>3
  <2>2. QED
    BY <2>1
<1>5. PICK f \in [0..m -> Files] :
        f[0] = none /\ \A n \in 1..m : f[n] = step[n][f[n - 1]]
  BY FiniteRecursion
<1>6. rec(f)
  <2>1. \A n \in 0..m : n # 0 => n \in 1..m /\ n - 1 \in 0..m
    OBVIOUS
  <2>2. \A n \in 0..m : n # 0 => f[n] = Found(f[n - 1], rows[n], sid, kind)
    BY <1>4, <1>5, <2>1
  <2>3. QED
    BY <1>1, <1>2, <1>5, <2>2
<1> DEFINE found == FoundIn(rows, sid, kind)
<1>7. found = CHOOSE g : rec(g)
  BY DEF FoundIn
<1> HIDE DEF found
<1>8. rec(found)
  BY <1>6, <1>7
<1>9. /\ found[0] = <<>>
      /\ \A n \in 1..m : found[n] = Found(found[n - 1], rows[n], sid, kind)
  BY <1>1, <1>8
<1>10. \A n \in 0..m : found[n] \in Files
  <2> DEFINE typed == {n \in 0..m : found[n] \in Files}
  <2>1. 0 \in typed
    BY <1>2, <1>9
  <2>2. \A n \in 1..m : n - 1 \in typed => n \in typed
    BY <1>3, <1>9
  <2> HIDE DEF typed
  <2>3. \A n \in 0..m : n \in typed
    BY <2>1, <2>2, IntervalInduction
  <2>4. QED
    BY <2>3 DEF typed
<1>11. QED
  BY <1>1, <1>9, <1>10 DEF found, Files

LEMMA RowsOfType ==
    ASSUME NEW rows \in Seq(JournalRow), NEW sid, NEW kind
    PROVE  RowsOf(rows, sid, kind) \in Seq(RowsLike(sid, kind))
BY FoundDef DEF RowsOf

LEMMA RowsOfNothing ==
    ASSUME NEW sid, NEW kind
    PROVE  RowsOf(<<>>, sid, kind) = <<>>
<1> DEFINE rows == <<>>
<1>1. rows \in Seq(JournalRow) /\ Len(rows) = 0
  OBVIOUS
<1> HIDE DEF rows
<1>2. RowsOf(rows, sid, kind) = <<>>
  BY <1>1, FoundDef DEF RowsOf
<1>3. QED
  BY <1>2 DEF rows

LEMMA RowsOfAppend ==
    ASSUME NEW rows \in Seq(JournalRow), NEW row \in JournalRow, NEW sid, NEW kind
    PROVE  RowsOf(Append(rows, row), sid, kind)
             = Found(RowsOf(rows, sid, kind), row, sid, kind)
<1> DEFINE m == Len(rows)
           longer == Append(rows, row)
           before == FoundIn(rows, sid, kind)
           after == FoundIn(longer, sid, kind)
<1>1. /\ m \in Nat
      /\ longer \in Seq(JournalRow)
      /\ Len(longer) = m + 1
      /\ longer[m + 1] = row
      /\ \A n \in 1..m : longer[n] = rows[n]
  OBVIOUS
<1> HIDE DEF longer
<1>2. /\ before[0] = <<>>
      /\ \A n \in 1..m : before[n] = Found(before[n - 1], rows[n], sid, kind)
      /\ RowsOf(rows, sid, kind) = before[m]
  BY FoundDef DEF RowsOf
<1>3. /\ after[0] = <<>>
      /\ \A n \in 1..(m + 1) : after[n] = Found(after[n - 1], longer[n], sid, kind)
      /\ RowsOf(longer, sid, kind) = after[m + 1]
  BY <1>1, FoundDef DEF RowsOf
<1> HIDE DEF m, before, after
<1>4. \A n \in 1..m : n \in 1..(m + 1)
  BY <1>1
<1>5. \A n \in 1..m : after[n - 1] = before[n - 1] => after[n] = before[n]
  BY <1>1, <1>2, <1>3, <1>4
<1>6. after[0] = before[0]
  BY <1>2, <1>3
<1>7. \A n \in 0..m : after[n] = before[n]
  <2>1. m \in Nat
    BY <1>1
  <2>2. QED
    BY <1>5, <1>6, <2>1, SameSteps, Zenon
<1>8. after[m] = before[m]
  BY <1>1, <1>7
<1>9. after[m + 1] = Found(after[m], row, sid, kind)
  BY <1>1, <1>3
<1>10. QED
  BY <1>2, <1>3, <1>8, <1>9 DEF longer

(***************************************************************************)
(* A write.                                                                *)
(***************************************************************************)
Untorn(rows) == \A n \in DOMAIN rows : rows[n].event # "torn"

LEMMA AppendedRow ==
    ASSUME JournalTypeOK, NEW row \in JournalRow
    PROVE  Appended(<<row>>) = Append(journal, Continued(row))
<1>1. PICK first \in JournalRow : first = Continued(row)
  BY ContinuedIs
<1>2. <<row>> # <<>> /\ Tail(<<row>>) = <<>> /\ <<row>>[1] = row
  OBVIOUS
<1>3. <<first>> \o <<>> = <<first>> /\ journal \o <<first>> = Append(journal, first)
  BY DEF JournalTypeOK
<1>4. QED
  BY <1>1, <1>2, <1>3 DEF Appended

LEMMA WriteNothing ==
    ASSUME JournalTypeOK, Write(<<>>)
    PROVE  journal' = journal /\ jdisabled' = jdisabled
<1>1. ~AppendSome(<<>>)
  BY DEF AppendSome, LosesSome
<1>2. Appended(<<>>) = journal
  BY DEF Appended, JournalTypeOK
<1>3. QED
  BY <1>1, <1>2 DEF Write, AppendAll, journalVars

\* A row is written, or is lost and the journal with it; a torn line swallows
\* it.  The journal may stop with a row it wrote.
LEMMA WriteRow ==
    ASSUME JournalTypeOK, NEW row \in JournalRow, Write(<<row>>)
    PROVE  /\ \/ jdisabled' /\ journal' \in {journal, Append(journal, TornRow)}
              \/ journal' = Append(journal, Continued(row))
           /\ ~jdisabled' => ~jdisabled
           /\ jdisabled => journal' = journal /\ jdisabled'
<1>1. TornRow \in JournalRow /\ Continued(TornRow) = TornRow
  BY ContinuedIs
<1>2. CASE AppendAll(<<row>>)
  BY <1>2, AppendedRow DEF AppendAll
<1>3. CASE AppendSome(<<row>>)
  <2> DEFINE line == <<row>>
  <2>1. line \in Seq(JournalRow) /\ Len(line) = 1
    OBVIOUS
  <2> HIDE DEF line
  <2>2. PICK written \in 0..Len(line), rest \in {<<>>, <<TornRow>>} :
          /\ rest # <<>> => written < Len(line)
          /\ journal' = Appended(SubSeq(line, 1, written) \o rest)
    BY <1>3 DEF AppendSome, LosesSome, line
  <2>3. jdisabled' /\ ~jdisabled
    BY <1>3 DEF AppendSome, LosesSome
  <2>4. CASE written = 0
    <3>1. SubSeq(line, 1, written) = <<>>
      BY <2>1, <2>4
    <3>2. <<>> \o rest = rest
      BY <1>1, <2>2
    <3>3. journal' = Appended(rest)
      BY <2>2, <3>1, <3>2
    <3>4. Appended(<<>>) = journal
      BY DEF Appended, JournalTypeOK
    <3>5. CASE rest = <<>>
      BY <2>3, <3>3, <3>4, <3>5
    <3>6. CASE rest = <<TornRow>>
      BY <1>1, <2>3, <3>3, <3>6, AppendedRow
    <3>7. QED
      BY <3>5, <3>6
  <2>5. CASE written = 1
    <3>1. rest = <<>>
      BY <2>1, <2>2, <2>5
    <3>2. SubSeq(line, 1, 1) = line /\ line \o <<>> = line
      BY <2>1
    <3>3. journal' = Appended(<<row>>)
      BY <2>2, <2>5, <3>1, <3>2 DEF line
    <3>4. QED
      BY <2>3, <3>3, AppendedRow
  <2>6. QED
    BY <2>1, <2>4, <2>5
<1>4. CASE jdisabled /\ UNCHANGED journalVars
  BY <1>4 DEF journalVars
<1>5. QED
  BY <1>2, <1>3, <1>4 DEF Write

\* Added rows are read after the others.
LEMMA AddedRow ==
    ASSUME NEW rows \in Seq(JournalRow), NEW row \in JournalRow
    PROVE  /\ Append(rows, row) \in Seq(JournalRow)
           /\ DOMAIN rows = 1..Len(rows)
           /\ Len(Append(rows, row)) = Len(rows) + 1
           /\ DOMAIN Append(rows, row) = 1..(Len(rows) + 1)
           /\ Append(rows, row)[Len(rows) + 1] = row
           /\ \A n \in 1..Len(rows) : Append(rows, row)[n] = rows[n]
           /\ Len(rows) \in Nat
OBVIOUS

LEMMA AppendedTwo ==
    ASSUME JournalTypeOK, NEW one \in JournalRow, NEW two \in JournalRow
    PROVE  Appended(<<one, two>>) = Append(Append(journal, Continued(one)), two)
<1>1. PICK first \in JournalRow : first = Continued(one)
  BY ContinuedIs
<1>2. /\ <<one, two>> # <<>> /\ Tail(<<one, two>>) = <<two>>
      /\ <<one, two>>[1] = one
  OBVIOUS
<1>3. <<first>> \o <<two>> = <<first, two>>
  BY Pair
<1>4. journal \o <<first, two>> = Append(Append(journal, first), two)
  BY DEF JournalTypeOK
<1>5. QED
  BY <1>1, <1>2, <1>3, <1>4 DEF Appended

\* Two rows one after the other: the first may be swallowed by a cut line, and
\* the disk may refuse either.
LEMMA WriteTwo ==
    ASSUME JournalTypeOK, NEW one \in JournalRow, NEW two \in JournalRow,
           Write(<<one, two>>)
    PROVE  LET half == Append(journal, Continued(one))
           IN /\ jdisabled => journal' = journal /\ jdisabled'
              /\ ~jdisabled' => journal' = Append(half, two)
              /\ jdisabled' => journal' \in {journal, Append(journal, TornRow), half,
                                            Append(half, TornRow),
                                            Append(half, two)}
<1>1. TornRow \in JournalRow /\ Continued(TornRow) = TornRow
  BY ContinuedIs
<1>2. CASE AppendAll(<<one, two>>)
  BY <1>2, AppendedTwo DEF AppendAll, JournalTypeOK
<1>3. CASE AppendSome(<<one, two>>)
  <2> DEFINE lines == <<one, two>>
  <2>1. lines \in Seq(JournalRow) /\ Len(lines) = 2 /\ lines[1] = one
    OBVIOUS
  <2> HIDE DEF lines
  <2>2. PICK written \in 0..Len(lines), rest \in {<<>>, <<TornRow>>} :
          /\ rest # <<>> => written < Len(lines)
          /\ journal' = Appended(SubSeq(lines, 1, written) \o rest)
    BY <1>3 DEF AppendSome, LosesSome, lines
  <2>3. Appended(<<>>) = journal
    BY DEF Appended, JournalTypeOK
  <2>4. jdisabled' /\ ~jdisabled
    BY <1>3 DEF AppendSome, LosesSome
  <2>5. <<>> \o rest = rest
    BY <1>1, <2>2
  <2>6. CASE written = 0
    <3>1. SubSeq(lines, 1, written) = <<>>
      BY <2>1, <2>6
    <3>2. journal' = Appended(rest)
      BY <2>2, <2>5, <3>1
    <3>3. journal' \in {journal, Append(journal, TornRow)}
      BY <1>1, <2>3, <3>2, AppendedRow
    <3>4. QED
      BY <2>4, <3>3
  <2>7. CASE written = 1
    <3>1. SubSeq(lines, 1, written) = <<one>>
      <4> DEFINE kept == SubSeq(lines, 1, 1)
      <4>1. kept \in Seq(JournalRow) /\ Len(kept) = 1 /\ kept[1] = one
        BY <2>1
      <4> HIDE DEF kept
      <4>2. kept = <<one>>
        BY <4>1
      <4>3. QED
        BY <2>7, <4>2 DEF kept
    <3>2. CASE rest = <<>>
      <4>1. <<one>> \o rest = <<one>>
        BY <3>2
      <4>2. journal' = Appended(<<one>>)
        BY <2>2, <3>1, <4>1
      <4>3. QED
        BY <2>4, <4>2, AppendedRow
    <3>3. CASE rest = <<TornRow>>
      <4>1. <<one>> \o <<TornRow>> = <<one, TornRow>>
        BY <1>1, Pair
      <4>2. journal' = Appended(<<one, TornRow>>)
        BY <2>2, <3>1, <3>3, <4>1
      <4>3. QED
        BY <1>1, <2>4, <4>2, AppendedTwo
    <3>4. QED
      BY <3>2, <3>3
  <2>8. CASE written = 2
    <3>1. rest = <<>>
      BY <2>1, <2>2, <2>8
    <3>2. SubSeq(lines, 1, 2) = lines /\ lines \o <<>> = lines
      BY <2>1
    <3>3. journal' = Appended(<<one, two>>)
      BY <2>2, <2>8, <3>1, <3>2 DEF lines
    <3>4. QED
      BY <2>4, <3>3, AppendedTwo
  <2>9. QED
    BY <2>1, <2>6, <2>7, <2>8
<1>4. CASE jdisabled /\ UNCHANGED journalVars
  BY <1>4 DEF journalVars
<1>5. QED
  BY <1>2, <1>3, <1>4 DEF Write

LEMMA UntornAppend ==
    ASSUME NEW rows \in Seq(JournalRow), NEW row \in JournalRow
    PROVE  Untorn(Append(rows, row)) <=> Untorn(rows) /\ row.event # "torn"
<1> DEFINE longer == Append(rows, row)
           m == Len(rows)
<1>1. /\ m \in Nat
      /\ DOMAIN rows = 1..m
      /\ DOMAIN longer = 1..(m + 1)
      /\ longer[m + 1] = row
      /\ \A n \in 1..m : longer[n] = rows[n]
  BY AddedRow
<1> HIDE DEF longer, m
<1>2. Untorn(longer) <=> \A n \in 1..(m + 1) : longer[n].event # "torn"
  BY <1>1 DEF Untorn
<1>3. Untorn(rows) <=> \A n \in 1..m : longer[n].event # "torn"
  BY <1>1 DEF Untorn
<1>4. 1..(m + 1) = (1..m) \cup {m + 1}
  BY <1>1
<1>5. QED
  BY <1>1, <1>2, <1>3, <1>4 DEF longer

LEMMA UntornEnd ==
    ASSUME JournalTypeOK, Untorn(journal)
    PROVE  ~EndsTorn
BY DEF JournalTypeOK, Untorn, EndsTorn, TornRow

(***************************************************************************)
(* The starts of the file.                                                 *)
(***************************************************************************)
StartsWithCash(rows) ==
    \A n \in DOMAIN rows : IsStart(rows[n]) => rows[n].cash = StartingCash

LEMMA StartedIdsAre ==
    ASSUME NEW rows, NEW sid
    PROVE  sid \in StartedIds(rows)
             <=> \E n \in DOMAIN rows : IsStart(rows[n]) /\ rows[n].sid = sid
BY DEF StartedIds

LEMMA StartedIdsAppend ==
    ASSUME NEW rows \in Seq(JournalRow), NEW row \in JournalRow, NEW sid
    PROVE  sid \in StartedIds(Append(rows, row))
             <=> sid \in StartedIds(rows) \/ (IsStart(row) /\ row.sid = sid)
<1> DEFINE longer == Append(rows, row)
           m == Len(rows)
<1>1. /\ m \in Nat
      /\ DOMAIN rows = 1..m
      /\ DOMAIN longer = 1..(m + 1)
      /\ longer[m + 1] = row
      /\ \A n \in 1..m : longer[n] = rows[n]
  BY AddedRow
<1> HIDE DEF longer, m
<1>2. (\E n \in DOMAIN longer : IsStart(longer[n]) /\ longer[n].sid = sid)
        <=> \/ \E n \in DOMAIN rows : IsStart(rows[n]) /\ rows[n].sid = sid
            \/ IsStart(row) /\ row.sid = sid
  BY <1>1
<1>3. QED
  BY <1>2, StartedIdsAre DEF longer

LEMMA StartsWithCashAppend ==
    ASSUME NEW rows \in Seq(JournalRow), NEW row \in JournalRow
    PROVE  StartsWithCash(Append(rows, row))
             <=> StartsWithCash(rows) /\ (IsStart(row) => row.cash = StartingCash)
<1> DEFINE longer == Append(rows, row)
           m == Len(rows)
<1>1. /\ m \in Nat
      /\ DOMAIN rows = 1..m
      /\ DOMAIN longer = 1..(m + 1)
      /\ longer[m + 1] = row
      /\ \A n \in 1..m : longer[n] = rows[n]
  BY AddedRow
<1> HIDE DEF longer, m
<1>2. StartsWithCash(longer)
        <=> \A n \in 1..(m + 1) : IsStart(longer[n]) => longer[n].cash = StartingCash
  BY <1>1 DEF StartsWithCash
<1>3. StartsWithCash(rows)
        <=> \A n \in 1..m : IsStart(longer[n]) => longer[n].cash = StartingCash
  BY <1>1 DEF StartsWithCash
<1>4. 1..(m + 1) = (1..m) \cup {m + 1}
  BY <1>1
<1>5. QED
  BY <1>1, <1>2, <1>3, <1>4 DEF longer

\* The start a restore reads is one of the session.
LEMMA StartOfIsStart ==
    ASSUME NEW rows \in Seq(JournalRow), NEW sid, sid \in StartedIds(rows)
    PROVE  \E n \in DOMAIN rows : /\ StartOf(rows, sid) = rows[n]
                                  /\ IsStart(rows[n]) /\ rows[n].sid = sid
<1> DEFINE starts == {n \in DOMAIN rows : IsStart(rows[n]) /\ rows[n].sid = sid}
<1>1. PICK m \in Nat : m = Len(rows)
  OBVIOUS
<1>2. starts \in SUBSET (1..m)
  BY <1>1
<1>3. starts # {}
  BY StartedIdsAre
<1> HIDE DEF starts
<1>4. \E n \in starts : \A k \in starts : n >= k
  BY <1>2, <1>3, LastIndex
<1>5. Max(starts) \in starts
  BY <1>4 DEF Max
<1>6. StartOf(rows, sid) = rows[Max(starts)]
  BY DEF StartOf, starts
<1>7. QED
  BY <1>5, <1>6 DEF starts

(***************************************************************************)
(* What the rows of a session on disk say of it.                           *)
(***************************************************************************)
\* restored tells of a book, the number of its fills and of its kills with a
\* row, whether the session has stopped, and whether it was resumed.
Tells(restored, book, listed, killings, stopped, again) ==
    /\ restored.state.cash = book.cash
    /\ restored.state.pos = book.pos
    /\ restored.n_fills >= listed
    /\ ~again => restored.n_fills = listed
    /\ restored.state.kills = killings
    /\ restored.killed = (killings > 0)
    /\ ~again => restored.ended = stopped

SilentEvents == {"session_start", "reject", "heartbeat", "equity"}

LEMMA FreshTells ==
    ASSUME NEW cash \in Int, NEW again \in BOOLEAN
    PROVE  Tells(FreshRestored(cash), FreshBook(cash), 0, 0, FALSE, again)
<1>1. (0 > 0) = FALSE /\ 0 >= 0
  OBVIOUS
<1> DEFINE none == FreshRestored(cash)
<1>2. /\ none.state = FreshBook(cash)
      /\ none.state.kills = 0
      /\ none.n_fills = 0
      /\ none.killed = FALSE
      /\ none.ended = FALSE
  BY DEF FreshRestored, FreshBook
<1> HIDE DEF none
<1>3. QED
  BY <1>1, <1>2, Zenon DEF Tells, none

\* Such a row leaves what a restore has found as it is, but for its peak.
LEMMA SilentRow ==
    ASSUME NEW restored \in Restored, NEW row \in JournalRow,
           row.event \in SilentEvents,
           NEW book, NEW listed, NEW killings, NEW stopped, NEW again,
           Tells(restored, book, listed, killings, stopped, again)
    PROVE  Tells(RestoreRow(restored, row), book, listed, killings, stopped, again)
<1> DEFINE after == RestoreRow(restored, row)
<1>1. /\ after.state.cash = restored.state.cash
      /\ after.state.pos = restored.state.pos
      /\ after.state.kills = restored.state.kills
      /\ after.n_fills = restored.n_fills
      /\ after.killed = restored.killed
      /\ after.ended = restored.ended
  <2>1. CASE row.event = "equity"
    BY <2>1 DEF RestoreRow, Restored, PortfolioState
  <2>2. CASE row.event # "equity"
    BY <2>2 DEF RestoreRow, Restored, SilentEvents
  <2>3. QED
    BY <2>1, <2>2
<1>2. QED
  BY <1>1 DEF Tells

LEMMA FillRowTells ==
    ASSUME NEW restored \in Restored, NEW sid, NEW fill \in Fill,
           NEW book \in PortfolioState, NEW listed \in Nat, NEW killings,
           NEW stopped, NEW again,
           Tells(restored, book, listed, killings, stopped, again)
    PROVE  Tells(RestoreRow(restored, FillRow(sid, fill)), ApplyFill(book, fill),
                 listed + 1, killings, stopped, again)
<1> DEFINE after == RestoreRow(restored, FillRow(sid, fill))
<1>1. /\ after.state = ApplyFill(restored.state, fill)
      /\ after.n_fills = restored.n_fills + 1
      /\ after.killed = restored.killed
      /\ after.ended = restored.ended
  BY DEF RestoreRow, FillRow, Restored
<1>2. restored.state \in PortfolioState /\ restored.n_fills \in Nat
  BY DEF Restored
<1> HIDE DEF after
<1>3. /\ after.state.cash = CashAfter(restored.state.cash, fill)
      /\ after.state.pos = PositionAfter(restored.state.pos, fill)
      /\ after.state.kills = restored.state.kills
  BY <1>1, <1>2 DEF ApplyFill, PortfolioState
<1>4. /\ ApplyFill(book, fill).cash = CashAfter(book.cash, fill)
      /\ ApplyFill(book, fill).pos = PositionAfter(book.pos, fill)
  BY DEF ApplyFill, PortfolioState
<1>5. QED
  BY <1>1, <1>2, <1>3, <1>4 DEF Tells, after

LEMMA KillRowTells ==
    ASSUME NEW restored \in Restored, NEW sid, NEW reason,
           NEW book, NEW listed, NEW killings \in Nat, NEW stopped, NEW again,
           Tells(restored, book, listed, killings, stopped, again)
    PROVE  Tells(RestoreRow(restored, KillRow(sid, reason)), book, listed,
                 killings + 1, stopped, again)
<1> DEFINE after == RestoreRow(restored, KillRow(sid, reason))
<1>1. /\ after.state = [restored.state EXCEPT !.kills = @ + 1]
      /\ after.n_fills = restored.n_fills
      /\ after.killed = TRUE
      /\ after.ended = restored.ended
  BY DEF RestoreRow, KillRow, Restored
<1>2. restored.state \in PortfolioState
  BY DEF Restored
<1> HIDE DEF after
<1>3. /\ after.state.cash = restored.state.cash
      /\ after.state.pos = restored.state.pos
      /\ after.state.kills = restored.state.kills + 1
  BY <1>1, <1>2 DEF PortfolioState
<1>4. (killings + 1 > 0) = TRUE
  OBVIOUS
<1>5. after.killed = (killings + 1 > 0)
  BY <1>1, <1>4, Zenon
<1>6. QED
  BY <1>1, <1>3, <1>5 DEF Tells, after

LEMMA EndRowTells ==
    ASSUME NEW restored \in Restored, NEW sid, NEW reason,
           NEW book, NEW listed, NEW killings, NEW again,
           Tells(restored, book, listed, killings, FALSE, again)
    PROVE  Tells(RestoreRow(restored, EndRow(sid, reason)), book, listed,
                 killings, TRUE, again)
<1> DEFINE after == RestoreRow(restored, EndRow(sid, reason))
<1>1. /\ after.state = restored.state
      /\ after.n_fills = restored.n_fills
      /\ after.killed = restored.killed
      /\ after.ended = TRUE
  BY DEF RestoreRow, EndRow, Restored
<1>2. QED
  BY <1>1 DEF Tells

OnDisk == Replayed(journal, session_id, StartingCash)

TellsNow(restored) ==
    Tells(restored, pf, Len(fills), JournalledKills, pc \in Stopped, forced)

\* The invariant behind RestoreRebuildsBook.  A new session has no row before
\* its start, whatever other sessions left in the file.
RestoreInv ==
    /\ StartsWithCash(journal)
    /\ pc = "start" /\ ~forced =>
          /\ pf = FreshBook(StartingCash)
          /\ fills = <<>>
          /\ \A n \in DOMAIN journal :
               journal[n].event # "torn" => journal[n].sid # session_id
    /\ Untorn(journal) /\ pc # "down" /\ ~jdisabled
          /\ session_id \in StartedIds(journal)
          => TellsNow(OnDisk)

LEMMA OnDiskType ==
    ASSUME JournalTypeOK
    PROVE  OnDisk \in Restored
BY SessionAssumption, ReplayedType DEF OnDisk, JournalTypeOK

LEMMA OnDiskAppend ==
    ASSUME JournalTypeOK, NEW row \in JournalRow, row.sid = session_id,
           journal' = Append(journal, row), session_id' = session_id
    PROVE  OnDisk' = RestoreRow(OnDisk, row)
<1>1. OnDisk' = Replayed(Append(journal, row), session_id, StartingCash)
  BY DEF OnDisk
<1>2. OnDisk' = ReplayRow(OnDisk, row, session_id)
  BY <1>1, SessionAssumption, ReplayedAppend DEF OnDisk, JournalTypeOK
<1>3. QED
  BY <1>2 DEF ReplayRow, OfSession

\* What a restored book owes to the rows, the restore invariant carries over
\* every step, whether its rows reach the disk or not.
LEMMA RestoreKeptByNothing ==
    ASSUME RestoreInv, UNCHANGED <<processVars, journalVars>>,
           pc # "down", pc' # "start",
           \A restored \in Restored : TellsNow(restored) =>
             Tells(restored, pf', Len(fills'), JournalledKills', pc' \in Stopped,
                   forced),
           JournalTypeOK
    PROVE  RestoreInv'
<1>1. OnDisk' = OnDisk /\ OnDisk \in Restored
  BY OnDiskType DEF OnDisk, journalVars, processVars
<1>2. QED
  BY <1>1 DEF RestoreInv, TellsNow, journalVars, processVars

LEMMA RestoreKeptByRow ==
    ASSUME JournalTypeOK, RestoreInv, UNCHANGED processVars,
           pc \notin {"start", "down"}, pc' # "start",
           NEW row \in JournalRow, row.sid = session_id,
           ~IsStart(row), row.event # "torn", Write(<<row>>),
           \A restored \in Restored : TellsNow(restored) =>
             Tells(RestoreRow(restored, row), pf', Len(fills'), JournalledKills',
                   pc' \in Stopped, forced)
    PROVE  RestoreInv'
<1>0. PICK first \in JournalRow : first = Continued(row) /\ first \in {row, LostRow}
  BY ContinuedIs
<1>1. /\ TornRow \in JournalRow /\ ~IsStart(TornRow) /\ TornRow.event = "torn"
      /\ ~IsStart(first)
  BY <1>0 DEF JournalRow, TornRow, LostRow, IsStart
<1>5. /\ journal' \in {journal, Append(journal, TornRow), Append(journal, first)}
      /\ ~jdisabled' => ~jdisabled /\ journal' = Append(journal, first)
  BY <1>0, WriteRow
<1>2. StartsWithCash(journal')
  BY <1>1, <1>5, StartsWithCashAppend DEF RestoreInv, JournalTypeOK
<1>3. ASSUME Untorn(journal'), ~jdisabled', session_id' \in StartedIds(journal')
      PROVE  TellsNow(OnDisk)'
  <2>1. Untorn(journal) /\ ~jdisabled
    BY <1>1, <1>3, <1>5, UntornAppend DEF JournalTypeOK
  <2>2. journal' = Append(journal, row)
    BY <1>0, <1>3, <1>5, <2>1, UntornEnd, ContinuedIs
  <2>3. session_id \in StartedIds(journal)
    BY <1>3, <2>2, StartedIdsAppend DEF JournalTypeOK, processVars
  <2>4. TellsNow(OnDisk) /\ OnDisk \in Restored
    BY <2>1, <2>3, OnDiskType DEF RestoreInv
  <2>5. OnDisk' = RestoreRow(OnDisk, row)
    BY <2>2, OnDiskAppend DEF processVars
  <2>6. QED
    BY <2>4, <2>5 DEF TellsNow, processVars
<1>4. QED
  BY <1>2, <1>3 DEF RestoreInv

LEMMA RestoreKeptByTwo ==
    ASSUME JournalTypeOK, RestoreInv, UNCHANGED processVars,
           pc \notin {"start", "down"}, pc' # "start",
           NEW one \in JournalRow, one.sid = session_id, one.event = "heartbeat",
           NEW two \in JournalRow, two.sid = session_id, two.event = "equity",
           Write(<<one, two>>),
           \A restored \in Restored : TellsNow(restored) =>
             Tells(restored, pf', Len(fills'), JournalledKills', pc' \in Stopped,
                   forced)
    PROVE  RestoreInv'
<1>0. PICK first \in JournalRow : first = Continued(one) /\ first \in {one, LostRow}
  BY ContinuedIs
<1>1. /\ TornRow \in JournalRow /\ ~IsStart(TornRow) /\ TornRow.event = "torn"
      /\ ~IsStart(first) /\ ~IsStart(two)
  BY <1>0 DEF JournalRow, TornRow, LostRow, IsStart
<1> DEFINE half == Append(journal, first)
           whole == Append(half, two)
<1>2. journal \in Seq(JournalRow) /\ half \in Seq(JournalRow)
  BY AddedRow DEF JournalTypeOK
<1>3. /\ journal' \in {journal, Append(journal, TornRow), half, Append(half, TornRow),
                       whole}
      /\ ~jdisabled' => ~jdisabled /\ journal' = whole
  BY <1>0, WriteTwo
<1>4. StartsWithCash(journal')
  <2>1. StartsWithCash(journal) /\ StartsWithCash(half)
    BY <1>1, <1>2, StartsWithCashAppend DEF RestoreInv
  <2> HIDE DEF half
  <2>2. StartsWithCash(whole) /\ StartsWithCash(Append(half, TornRow))
    BY <1>1, <1>2, <2>1, StartsWithCashAppend
  <2>3. StartsWithCash(Append(journal, TornRow))
    BY <1>1, <1>2, <2>1, StartsWithCashAppend
  <2> HIDE DEF whole
  <2>4. QED
    BY <1>3, <2>1, <2>2, <2>3
<1>5. ASSUME Untorn(journal'), ~jdisabled', session_id' \in StartedIds(journal')
      PROVE  TellsNow(OnDisk)'
  <2>1. Untorn(journal)
    <3>1. Untorn(half) => Untorn(journal)
      BY <1>2, UntornAppend
    <3> HIDE DEF half
    <3>2. Untorn(whole) => Untorn(half)
      BY <1>2, UntornAppend
    <3>3. Untorn(Append(half, TornRow)) => Untorn(half)
      BY <1>1, <1>2, UntornAppend
    <3>4. Untorn(Append(journal, TornRow)) => Untorn(journal)
      BY <1>1, <1>2, UntornAppend
    <3> HIDE DEF whole
    <3>5. QED
      BY <1>3, <1>5, <3>1, <3>2, <3>3, <3>4
  <2>2. journal' = whole /\ ~jdisabled /\ first = one
    BY <1>0, <1>3, <1>5, <2>1, UntornEnd, ContinuedIs
  <2> DEFINE found == Replayed(half, session_id, StartingCash)
  <2>3. found = RestoreRow(OnDisk, one)
    BY <1>2, <2>2, SessionAssumption, ReplayedAppend DEF OnDisk, ReplayRow, OfSession
  <2>4. OnDisk' = RestoreRow(found, two)
    <3>1. OnDisk' = Replayed(whole, session_id, StartingCash)
      BY <2>2 DEF OnDisk, processVars
    <3> HIDE DEF half
    <3>2. OnDisk' = ReplayRow(found, two, session_id)
      BY <1>2, <3>1, SessionAssumption, ReplayedAppend
    <3>3. QED
      BY <3>2 DEF ReplayRow, OfSession
  <2>5. session_id \in StartedIds(journal)
    <3>1. session_id \in StartedIds(half) => session_id \in StartedIds(journal)
      BY <1>1, <1>2, StartedIdsAppend
    <3> HIDE DEF half
    <3>2. session_id \in StartedIds(whole) => session_id \in StartedIds(half)
      BY <1>1, <1>2, StartedIdsAppend
    <3>3. session_id \in StartedIds(whole)
      BY <1>5, <2>2 DEF processVars
    <3>4. QED
      BY <3>1, <3>2, <3>3
  <2>6. TellsNow(OnDisk) /\ OnDisk \in Restored
    BY <2>1, <2>2, <2>5, OnDiskType DEF RestoreInv
  <2> HIDE DEF half, whole, found
  <2>7. TellsNow(found) /\ found \in Restored
    BY <2>3, <2>6, RestoreRowType, SilentRow DEF TellsNow, SilentEvents
  <2>8. TellsNow(OnDisk') /\ OnDisk' \in Restored
    BY <2>4, <2>7, RestoreRowType, SilentRow DEF TellsNow, SilentEvents
  <2>9. Tells(OnDisk', pf', Len(fills'), JournalledKills', pc' \in Stopped, forced)
    BY <2>8
  <2>10. QED
    BY <2>9 DEF TellsNow, processVars
<1>6. QED
  BY <1>4, <1>5 DEF RestoreInv

LEMMA StartRestore ==
    ASSUME SessionInv, ProcessTypeOK, RestoreInv, UNCHANGED processVars,
           NEW up \in BOOLEAN, NEW mode \in Mode, Start(up, mode)
    PROVE  RestoreInv'
<1> DEFINE row == StartRow(session_id, StartingCash, mode)
<1>1. /\ row \in JournalRow
      /\ row.sid = session_id /\ row.cash = StartingCash
      /\ IsStart(row) /\ row.event = "session_start"
  <2>1. row \in JournalRow
    BY SessionAssumption, RowTypes DEF ProcessTypeOK
  <2>2. QED
    BY <2>1 DEF StartRow, IsStart
<1>2. /\ pc = "start" /\ pc' = "feed"
      /\ UNCHANGED <<pf, fills>>
      /\ JournalledKills' = JournalledKills
      /\ Write(SessionRow(row))
  BY DEF Start, bookVars, JournalledKills
<1>3. JournalTypeOK
  BY DEF SessionInv
<1> HIDE DEF row
<1>4. CASE forced
  <2>1. UNCHANGED journalVars
    BY <1>2, <1>3, <1>4, WriteNothing DEF SessionRow, journalVars
  <2>2. QED
    BY <1>2, <1>3, <2>1, RestoreKeptByNothing DEF TellsNow, Stopped
<1>5. CASE ~forced
  <2>1. Write(<<row>>)
    BY <1>2, <1>5 DEF SessionRow
  <2>0. PICK first \in JournalRow : first = Continued(row) /\ first \in {row, LostRow}
    BY <1>1, ContinuedIs
  <2>2. /\ TornRow \in JournalRow /\ ~IsStart(TornRow) /\ TornRow.event = "torn"
        /\ IsStart(first) => first = row
    BY <2>0 DEF JournalRow, TornRow, LostRow, IsStart
  <2>6. /\ journal' \in {journal, Append(journal, TornRow), Append(journal, first)}
        /\ ~jdisabled' => ~jdisabled /\ journal' = Append(journal, first)
    BY <1>1, <1>3, <2>0, <2>1, WriteRow
  <2>3. StartsWithCash(journal')
    <3>1. /\ StartsWithCash(journal)
          /\ StartsWithCash(Append(journal, first))
          /\ StartsWithCash(Append(journal, TornRow))
      BY <1>1, <1>3, <2>2, StartsWithCashAppend DEF RestoreInv, JournalTypeOK
    <3>2. QED
      BY <2>6, <3>1
  <2>4. ASSUME Untorn(journal'), ~jdisabled', session_id' \in StartedIds(journal')
        PROVE  TellsNow(OnDisk)'
    <3>1. Untorn(journal)
      BY <1>3, <2>2, <2>4, <2>6, UntornAppend DEF JournalTypeOK
    <3>2. journal' = Append(journal, row)
      BY <1>1, <1>3, <2>0, <2>4, <2>6, <3>1, UntornEnd, ContinuedIs
    <3>3. OnDisk = FreshRestored(StartingCash)
      <4>1. \A n \in DOMAIN journal : ~OfSession(journal[n], session_id)
        BY <1>2, <1>5, <3>1 DEF RestoreInv, Untorn, OfSession
      <4>2. QED
        BY <1>3, <4>1, SessionAssumption, ReplayedNothing DEF OnDisk, JournalTypeOK
    <3>4. OnDisk' = RestoreRow(FreshRestored(StartingCash), row)
      BY <1>1, <1>3, <3>2, <3>3, OnDiskAppend DEF processVars
    <3>5. pf' = FreshBook(StartingCash) /\ Len(fills') = 0 /\ JournalledKills' = 0
          /\ ~(pc' \in Stopped)
      BY <1>2, <1>5 DEF RestoreInv, JournalledKills, FreshBook, Stopped
    <3> DEFINE fresh == FreshRestored(StartingCash)
               book == FreshBook(StartingCash)
    <3>6. fresh \in Restored /\ Tells(fresh, book, 0, 0, FALSE, forced)
      <4>1. StartingCash \in Int /\ forced \in BOOLEAN
        BY SessionAssumption DEF ProcessTypeOK
      <4>2. QED
        BY <4>1, FreshTells, FreshRestoredType
    <3> HIDE DEF fresh, book
    <3>7. Tells(RestoreRow(fresh, row), book, 0, 0, FALSE, forced)
      BY <1>1, <3>6, SilentRow DEF SilentEvents
    <3>8. (pc' \in Stopped) = FALSE /\ forced' = forced
      BY <3>5 DEF processVars
    <3>9. Tells(OnDisk', pf', Len(fills'), JournalledKills', pc' \in Stopped, forced')
      BY <3>4, <3>5, <3>7, <3>8 DEF fresh, book
    <3>10. QED
      BY <3>9 DEF TellsNow
  <2>5. QED
    BY <1>2, <2>3, <2>4 DEF RestoreInv
<1>6. QED
  BY <1>4, <1>5

LEMMA RestoreStays ==
    ASSUME RestoreInv, UNCHANGED <<sessionVars, processVars, journalVars>>
    PROVE  RestoreInv'
BY DEF RestoreInv, TellsNow, Tells, OnDisk, JournalledKills, sessionVars,
   processVars, journalVars, bookVars

\* Steps that write nothing: none of them touches cash, position or kills.
LEMMA QuietRestore ==
    ASSUME SessionInv, RestoreInv, UNCHANGED <<processVars, journalVars, fills>>,
           pf'.cash = pf.cash, pf'.pos = pf.pos, pf'.kills = pf.kills,
           pc \notin {"down", "kill"} \cup Stopped,
           pc' \notin {"start", "kill"} \cup Stopped
    PROVE  RestoreInv'
<1>1. /\ JournalledKills' = JournalledKills
      /\ (pc' \in Stopped) = FALSE /\ (pc \in Stopped) = FALSE
      /\ Len(fills') = Len(fills)
  BY DEF JournalledKills
<1>2. \A restored \in Restored : TellsNow(restored) =>
        Tells(restored, pf', Len(fills'), JournalledKills', pc' \in Stopped, forced)
  BY <1>1 DEF TellsNow, Tells
<1>3. QED
  BY <1>2, RestoreKeptByNothing DEF SessionInv

LEMMA NextBarRestore ==
    ASSUME SessionInv, RestoreInv, UNCHANGED processVars,
           NEW mid \in Int, NEW new_day \in BOOLEAN, NextBar(mid, new_day)
    PROVE  RestoreInv'
<1>1. pf \in PortfolioState
  BY DEF SessionInv, SessionTypeOK
<1>2. pf'.cash = pf.cash /\ pf'.pos = pf.pos /\ pf'.kills = pf.kills
  BY <1>1 DEF NextBar, UpdatePeaks, RollDay, PortfolioState
<1>3. QED
  BY <1>2, QuietRestore DEF NextBar, Stopped

LEMMA BookFillRestore ==
    ASSUME SessionInv, ProcessTypeOK, RestoreInv, UNCHANGED processVars,
           NEW fill \in Fill, BookFill(fill),
           pc \notin {"start", "down", "kill"} \cup Stopped,
           pc' \notin {"start", "kill"} \cup Stopped
    PROVE  RestoreInv'
<1> DEFINE row == FillRow(session_id, fill)
<1>1. /\ row \in JournalRow
      /\ row.sid = session_id /\ row.event = "fill" /\ ~IsStart(row)
  <2>1. row \in JournalRow
    BY RowTypes DEF ProcessTypeOK
  <2>2. QED
    BY <2>1 DEF FillRow, IsStart
<1>2. /\ pf' = ApplyFill(pf, fill) /\ fills' = Append(fills, fill)
      /\ Write(<<row>>)
  BY DEF BookFill
<1>3. pf \in PortfolioState /\ fills \in Seq(Fill) /\ JournalTypeOK
  BY DEF SessionInv, SessionTypeOK
<1>4. /\ Len(fills') = Len(fills) + 1 /\ Len(fills) \in Nat
      /\ pf'.kills = pf.kills
  BY <1>2, <1>3 DEF ApplyFill, PortfolioState
<1>5. JournalledKills' = JournalledKills
      /\ (pc' \in Stopped) = FALSE /\ (pc \in Stopped) = FALSE
  BY <1>4 DEF JournalledKills
<1>6. \A restored \in Restored : TellsNow(restored) =>
        Tells(RestoreRow(restored, row), pf', Len(fills'), JournalledKills',
              pc' \in Stopped, forced)
  BY <1>2, <1>3, <1>4, <1>5, FillRowTells DEF TellsNow
<1> HIDE DEF row
<1>7. QED
  BY <1>1, <1>2, <1>3, <1>6, RestoreKeptByRow

LEMMA SilentRowRestore ==
    ASSUME SessionInv, RestoreInv, UNCHANGED <<processVars, fills>>,
           pc \notin {"start", "down"} \cup Stopped, pc' \notin {"start"} \cup Stopped,
           pf'.cash = pf.cash, pf'.pos = pf.pos, JournalledKills' = JournalledKills,
           NEW row \in JournalRow, row.sid = session_id, row.event = "reject",
           Write(<<row>>)
    PROVE  RestoreInv'
<1>1. (pc' \in Stopped) = FALSE /\ (pc \in Stopped) = FALSE
  OBVIOUS
<1>2. \A restored \in Restored : TellsNow(restored) =>
        Tells(restored, pf', Len(fills'), JournalledKills', pc' \in Stopped, forced)
  BY <1>1 DEF TellsNow, Tells
<1>3. \A restored \in Restored : TellsNow(restored) =>
        Tells(RestoreRow(restored, row), pf', Len(fills'), JournalledKills',
              pc' \in Stopped, forced)
  BY <1>2, SilentRow DEF SilentEvents
<1>4. ~IsStart(row)
  BY DEF IsStart
<1>5. QED
  BY <1>3, <1>4, RestoreKeptByRow DEF SessionInv

LEMMA RejectOrderRestore ==
    ASSUME SessionInv, ProcessTypeOK, RestoreInv, UNCHANGED processVars, RejectOrder
    PROVE  RestoreInv'
<1> DEFINE row == RejectRow(session_id, Head(queue).side, Head(queue).qty)
<1>1. row \in JournalRow /\ row.sid = session_id /\ row.event = "reject"
  <2>1. Head(queue) \in Order
    BY DecisionType DEF SessionInv, RejectOrder
  <2>2. row \in JournalRow
    BY <2>1, RowTypes DEF Order, ProcessTypeOK
  <2>3. QED
    BY <2>2 DEF RejectRow
<1>2. pf \in PortfolioState /\ pf.kills \in Nat
  BY DEF SessionInv, SessionTypeOK, PortfolioState
<1>3. /\ pc = "orders" /\ pc' \in {"orders", "kill"}
      /\ pf'.cash = pf.cash /\ pf'.pos = pf.pos
      /\ pf'.kills = pf.kills + (IF pc' = "kill" THEN 1 ELSE 0)
  BY <1>2 DEF RejectOrder, PortfolioState
<1>4. JournalledKills' = JournalledKills
  BY <1>2, <1>3 DEF JournalledKills
<1>5. Write(<<row>>) /\ UNCHANGED fills
  BY DEF RejectOrder
<1> HIDE DEF row
<1>6. QED
  BY <1>1, <1>3, <1>4, <1>5, SilentRowRestore DEF Stopped

LEMMA BrokerRejectsRestore ==
    ASSUME SessionInv, ProcessTypeOK, RestoreInv, UNCHANGED processVars,
           BrokerRejects
    PROVE  RestoreInv'
<1> DEFINE row == RejectRow(session_id, adj.side, adj.qty)
<1>1. row \in JournalRow /\ row.sid = session_id /\ row.event = "reject"
  <2>1. adj \in Order
    BY DEF SessionInv, StageInv, BrokerRejects, Submitted
  <2>2. row \in JournalRow
    BY <2>1, RowTypes DEF Order, ProcessTypeOK
  <2>3. QED
    BY <2>2 DEF RejectRow
<1>2. /\ pc = "submit" /\ pc' = "orders" /\ UNCHANGED <<pf, fills>>
      /\ JournalledKills' = JournalledKills
      /\ Write(<<row>>)
  BY DEF BrokerRejects, Submitted, bookVars, JournalledKills
<1> HIDE DEF row
<1>3. QED
  BY <1>1, <1>2, SilentRowRestore DEF Stopped

LEMMA RecordKillRestore ==
    ASSUME SessionInv, ProcessTypeOK, RestoreInv, UNCHANGED processVars, RecordKill
    PROVE  RestoreInv'
<1> DEFINE row == KillRow(session_id, kill_reason)
<1>1. /\ row \in JournalRow
      /\ row.sid = session_id /\ row.event = "kill" /\ ~IsStart(row)
  <2>1. kill_reason \in EndReason
    BY DEF SessionInv, SessionTypeOK, StageInv, RecordKill, KillReason, EndReason
  <2>2. row \in JournalRow
    BY <2>1, RowTypes DEF ProcessTypeOK
  <2>3. QED
    BY <2>2 DEF KillRow, IsStart
<1>2. /\ pc = "kill" /\ pc' = "orders" /\ UNCHANGED <<pf, fills>>
      /\ Write(<<row>>)
  BY DEF RecordKill, bookVars
<1>3. pf.kills \in Nat
  BY DEF SessionInv, SessionTypeOK, PortfolioState
<1>4. JournalledKills' = JournalledKills + 1 /\ JournalledKills \in Int
  BY <1>2, <1>3 DEF JournalledKills
<1>5. (pc' \in Stopped) = FALSE /\ (pc \in Stopped) = FALSE
  BY <1>2 DEF Stopped
<1>6. ASSUME NEW restored \in Restored, TellsNow(restored)
      PROVE  Tells(RestoreRow(restored, row), pf', Len(fills'), JournalledKills',
                   pc' \in Stopped, forced)
  <2>1. JournalledKills \in Nat
    BY <1>6 DEF TellsNow, Tells, Restored, PortfolioState
  <2>2. Tells(restored, pf, Len(fills), JournalledKills, FALSE, forced)
    BY <1>5, <1>6 DEF TellsNow
  <2>3. Tells(RestoreRow(restored, row), pf, Len(fills), JournalledKills + 1,
              FALSE, forced)
    BY <2>1, <2>2, KillRowTells
  <2>4. QED
    BY <1>2, <1>4, <1>5, <2>3
<1> HIDE DEF row
<1>7. QED
  BY <1>1, <1>2, <1>6, RestoreKeptByRow DEF SessionInv

LEMMA EndBarRestore ==
    ASSUME SessionInv, ProcessTypeOK, RestoreInv, UNCHANGED processVars, EndBar
    PROVE  RestoreInv'
<1> DEFINE one == HeartbeatRow(session_id, Equity(pf, mark))
           two == EquityRow(session_id, Equity(pf, mark), BarIndex)
<1>1. /\ one \in JournalRow /\ one.sid = session_id /\ one.event = "heartbeat"
      /\ two \in JournalRow /\ two.sid = session_id /\ two.event = "equity"
  <2>1. Equity(pf, mark) \in Int /\ BarIndex \in Nat
    BY SessionAssumption, EquityType
    DEF SessionInv, SessionTypeOK, ProcessTypeOK, StageInv, EndBar, BarIndex
  <2>2. one \in JournalRow /\ two \in JournalRow
    BY <2>1, RowTypes DEF ProcessTypeOK
  <2>3. QED
    BY <2>2 DEF HeartbeatRow, EquityRow
<1>2. /\ pc = "orders" /\ pc' \in {"feed", "finally"} /\ UNCHANGED <<pf, fills>>
      /\ JournalledKills' = JournalledKills
      /\ Write(HeartbeatRows(Equity(pf, mark)))
  BY DEF EndBar, StageAfterBar, bookVars, JournalledKills
<1>3. CASE HeartbeatDue
  <2>1. Write(<<one, two>>)
    BY <1>2, <1>3 DEF HeartbeatRows
  <2>2. (pc' \in Stopped) = FALSE /\ (pc \in Stopped) = FALSE
    BY <1>2 DEF Stopped
  <2>3. \A restored \in Restored : TellsNow(restored) =>
          Tells(restored, pf', Len(fills'), JournalledKills', pc' \in Stopped, forced)
    BY <1>2, <2>2 DEF TellsNow
  <2> HIDE DEF one, two
  <2>4. QED
    BY <1>1, <1>2, <2>1, <2>3, RestoreKeptByTwo DEF SessionInv
<1>4. CASE ~HeartbeatDue
  <2>1. UNCHANGED journalVars
    BY <1>2, <1>4, WriteNothing DEF HeartbeatRows, SessionInv, journalVars
  <2>2. QED
    BY <1>2, <2>1, QuietRestore DEF Stopped
<1>5. QED
  BY <1>3, <1>4

LEMMA FinishRestore ==
    ASSUME SessionInv, ProcessTypeOK, RestoreInv, UNCHANGED processVars, Finish
    PROVE  RestoreInv'
<1> DEFINE row == EndRow(session_id, EndReasonOf(kill_reason))
<1>1. /\ row \in JournalRow
      /\ row.sid = session_id /\ row.event = "session_end" /\ ~IsStart(row)
  <2>1. EndReasonOf(kill_reason) \in EndReason
    BY DEF SessionInv, SessionTypeOK, EndReasonOf, EndReason, KillReason
  <2>2. row \in JournalRow
    BY <2>1, RowTypes DEF ProcessTypeOK
  <2>3. QED
    BY <2>2 DEF EndRow, IsStart
<1>2. /\ pc \in {"finally", "unwinding"} /\ pc' \in Stopped
      /\ UNCHANGED <<pf, fills>>
      /\ JournalledKills' = JournalledKills
      /\ Write(SessionRow(row))
  BY DEF Finish, StageAtEnd, bookVars, JournalledKills, Stopped
<1>3. (pc' \in Stopped) = TRUE /\ (pc \in Stopped) = FALSE /\ JournalTypeOK
  BY <1>2 DEF Stopped, SessionInv
<1>4. CASE forced
  <2>1. UNCHANGED journalVars
    BY <1>2, <1>3, <1>4, WriteNothing DEF SessionRow, journalVars
  <2>2. \A restored \in Restored : TellsNow(restored) =>
          Tells(restored, pf', Len(fills'), JournalledKills', pc' \in Stopped, forced)
    BY <1>2, <1>4 DEF TellsNow, Tells
  <2>3. QED
    BY <1>2, <1>3, <2>1, <2>2, RestoreKeptByNothing DEF Stopped
<1>5. CASE ~forced
  <2>1. Write(<<row>>)
    BY <1>2, <1>5 DEF SessionRow
  <2>2. \A restored \in Restored : TellsNow(restored) =>
          Tells(RestoreRow(restored, row), pf', Len(fills'), JournalledKills',
                pc' \in Stopped, forced)
    BY <1>2, <1>3, EndRowTells DEF TellsNow
  <2> HIDE DEF row
  <2>3. QED
    BY <1>1, <1>2, <1>3, <2>1, <2>2, RestoreKeptByRow DEF Stopped
<1>6. QED
  BY <1>4, <1>5

LEMMA LoopStepRestore ==
    ASSUME SessionInv, ProcessTypeOK, RestoreInv, UNCHANGED processVars, LoopStep
    PROVE  RestoreInv'
<1>1. CASE \E mid \in Prices, new_day \in BOOLEAN : NextBar(mid, new_day)
  BY <1>1, SessionAssumption, NextBarRestore
<1>2. CASE ApplyDelayed
  <2>1. Head(delayed) \in Fill
    BY <1>2 DEF SessionInv, SessionTypeOK, ApplyDelayed
  <2>2. BookFill(Head(delayed)) /\ pc = "delayed" /\ pc' = "delayed"
    BY <1>2 DEF ApplyDelayed
  <2>3. QED
    BY <2>1, <2>2, BookFillRestore DEF Stopped
<1>3. CASE (\E orders \in OrderLists : OnBar(orders)) \/ StrategyRaises
           \/ Approve \/ FeedEnds
  <2>1. UNCHANGED <<pf, fills, journalVars>>
    BY <1>3 DEF OnBar, StrategyRaises, Approve, FeedEnds, bookVars
  <2>2. /\ pc \in {"delayed", "orders", "feed"}
        /\ pc' \in {"orders", "unwinding", "submit", "finally"}
    BY <1>3 DEF OnBar, StrategyRaises, Approve, FeedEnds
  <2>3. QED
    BY <2>1, <2>2, QuietRestore DEF Stopped
<1>4. CASE RejectOrder
  BY <1>4, RejectOrderRestore
<1>5. CASE RecordKill
  BY <1>5, RecordKillRestore
<1>6. CASE EndBar
  BY <1>6, EndBarRestore
<1>7. CASE Finish
  BY <1>7, FinishRestore
<1>8. CASE Terminated
  BY <1>8, RestoreStays DEF Terminated
<1>9. QED
  BY <1>1, <1>2, <1>3, <1>4, <1>5, <1>6, <1>7, <1>8 DEF LoopStep

\* The steps of a session that a broker takes part in.
LEMMA PollFillsRestore ==
    ASSUME SessionInv, RestoreInv, UNCHANGED processVars,
           NEW polled \in Seq(Fill), PollFills(polled)
    PROVE  RestoreInv'
<1>1. UNCHANGED <<pf, fills, journalVars>> /\ pc = "poll" /\ pc' = "delayed"
  BY DEF PollFills, bookVars
<1>2. QED
  BY <1>1, QuietRestore DEF Stopped

LEMMA BrokerFillsRestore ==
    ASSUME SessionInv, ProcessTypeOK, RestoreInv, UNCHANGED processVars,
           NEW fill \in Fill, BrokerFills(fill)
    PROVE  RestoreInv'
<1>1. BookFill(fill) /\ pc = "submit" /\ pc' = "orders"
  BY DEF BrokerFills, Submitted
<1>2. QED
  BY <1>1, BookFillRestore DEF Stopped

LEMMA BrokerDefersRestore ==
    ASSUME SessionInv, RestoreInv, UNCHANGED processVars, BrokerDefers
    PROVE  RestoreInv'
<1>1. UNCHANGED <<pf, fills, journalVars>> /\ pc = "submit" /\ pc' = "orders"
  BY DEF BrokerDefers, Submitted, bookVars
<1>2. QED
  BY <1>1, QuietRestore DEF Stopped

LEMMA PollRaisesRestore ==
    ASSUME SessionInv, RestoreInv, UNCHANGED processVars, PollRaises
    PROVE  RestoreInv'
<1>1. UNCHANGED <<pf, fills, journalVars>> /\ pc = "poll" /\ pc' = "unwinding"
  BY DEF PollRaises, bookVars
<1>2. QED
  BY <1>1, QuietRestore DEF Stopped

LEMMA RestoreStarts ==
    ASSUME SessionInit, JournalInit
    PROVE  RestoreInv
<1>1. /\ journal = <<>> /\ pf = FreshBook(StartingCash) /\ fills = <<>>
      /\ DOMAIN journal = {}
  BY DEF SessionInit, JournalInit
<1>2. session_id \notin StartedIds(journal)
  BY <1>1, StartedIdsAre
<1>3. QED
  BY <1>1, <1>2 DEF RestoreInv, StartsWithCash

\* A file without a torn line restores the running session.
LEMMA RestoreIsTold ==
    ASSUME SessionInv, RestoreInv, Untorn(journal)
    PROVE  RestoreRebuildsBook
<1> SUFFICES ASSUME pc # "down", ~jdisabled, session_id \in StartedIds(journal)
             PROVE  /\ CanRestore(journal, session_id)
                    /\ TellsNow(RestoreFromJournal(journal, session_id))
  BY DEF RestoreRebuildsBook, TellsNow, Tells
<1>1. CanRestore(journal, session_id)
  BY DEF CanRestore, Untorn
<1>2. StartOf(journal, session_id).cash = StartingCash
  BY StartOfIsStart DEF SessionInv, JournalTypeOK, RestoreInv, StartsWithCash
<1>3. RestoreFromJournal(journal, session_id) = OnDisk
  BY <1>2 DEF RestoreFromJournal, OnDisk, Replayed
<1>4. QED
  BY <1>1, <1>3 DEF RestoreInv

(***************************************************************************)
(* The fills and the rejects on disk.                                      *)
(***************************************************************************)
LEMMA RowsOfAdded ==
    ASSUME NEW rows \in Seq(JournalRow), NEW row \in JournalRow, NEW sid, NEW kind
    PROVE  /\ row \in RowsLike(sid, kind)
                => RowsOf(Append(rows, row), sid, kind)
                     = Append(RowsOf(rows, sid, kind), row)
           /\ row.event # kind
                => RowsOf(Append(rows, row), sid, kind) = RowsOf(rows, sid, kind)
           /\ row.event # "torn" /\ row.sid # sid
                => RowsOf(Append(rows, row), sid, kind) = RowsOf(rows, sid, kind)
BY RowsOfAppend DEF Found, RowsLike

LEMMA FillsOfType ==
    ASSUME NEW rows \in Seq(JournalRow), NEW sid
    PROVE  /\ FillsOf(rows, sid) \in Seq(Fill)
           /\ Len(FillsOf(rows, sid)) = Len(RowsOf(rows, sid, "fill"))
           /\ \A n \in 1..Len(FillsOf(rows, sid)) :
                FillsOf(rows, sid)[n] = RowsOf(rows, sid, "fill")[n].fill
<1> DEFINE found == RowsOf(rows, sid, "fill")
<1>1. found \in Seq(RowsLike(sid, "fill"))
  BY RowsOfType
<1>2. \A row \in RowsLike(sid, "fill") : row.fill \in Fill
  BY DEF RowsLike, JournalRow, TornRow, LostRow
<1> HIDE DEF found
<1>3. \A n \in DOMAIN found : found[n].fill \in Fill
  BY <1>1, <1>2
<1> DEFINE listed == [n \in DOMAIN found |-> found[n].fill]
<1>4. /\ listed \in Seq(Fill)
      /\ Len(listed) = Len(found)
      /\ \A n \in 1..Len(listed) : listed[n] = found[n].fill
  BY <1>1, <1>3
<1>5. QED
  BY <1>4 DEF FillsOf, found

LEMMA FillsOfNothing ==
    ASSUME NEW sid
    PROVE  FillsOf(<<>>, sid) = <<>>
<1> DEFINE rows == <<>>
           none == FillsOf(rows, sid)
<1>1. rows \in Seq(JournalRow) /\ Len(RowsOf(rows, sid, "fill")) = 0
  BY RowsOfNothing
<1> HIDE DEF rows
<1>2. none \in Seq(Fill) /\ Len(none) = 0
  BY <1>1, FillsOfType
<1> HIDE DEF none
<1>3. none = <<>>
  BY <1>2
<1>4. QED
  BY <1>3 DEF none, rows

LEMMA FillsOfAppend ==
    ASSUME NEW rows \in Seq(JournalRow), NEW row \in JournalRow, NEW sid
    PROVE  /\ row \in RowsLike(sid, "fill")
                => FillsOf(Append(rows, row), sid) = Append(FillsOf(rows, sid), row.fill)
           /\ row.event # "fill" => FillsOf(Append(rows, row), sid) = FillsOf(rows, sid)
           /\ row.event # "torn" /\ row.sid # sid
                => FillsOf(Append(rows, row), sid) = FillsOf(rows, sid)
<1>1. ASSUME row \in RowsLike(sid, "fill")
      PROVE  FillsOf(Append(rows, row), sid) = Append(FillsOf(rows, sid), row.fill)
  <2> DEFINE longer == Append(rows, row)
             found == RowsOf(rows, sid, "fill")
             before == FillsOf(rows, sid)
             after == FillsOf(longer, sid)
  <2>1. longer \in Seq(JournalRow)
    OBVIOUS
  <2> HIDE DEF longer
  <2>2. RowsOf(longer, sid, "fill") = Append(found, row)
        /\ found \in Seq(RowsLike(sid, "fill"))
    BY <1>1, RowsOfAdded, RowsOfType DEF longer
  <2> HIDE DEF found
  <2>3. /\ before \in Seq(Fill) /\ Len(before) = Len(found)
        /\ \A n \in 1..Len(before) : before[n] = found[n].fill
    BY FillsOfType DEF found
  <2>4. /\ after \in Seq(Fill) /\ Len(after) = Len(found) + 1
        /\ \A n \in 1..Len(after) : after[n] = Append(found, row)[n].fill
    BY <1>1, <2>1, <2>2, FillsOfType
  <2> HIDE DEF before, after
  <2>5. row.fill \in Fill
    BY <1>1 DEF RowsLike, JournalRow, TornRow, LostRow
  <2>6. /\ after[Len(before) + 1] = row.fill
        /\ \A n \in 1..Len(before) : after[n] = before[n]
    <3>1. /\ Append(found, row)[Len(found) + 1] = row
          /\ \A n \in 1..Len(found) : Append(found, row)[n] = found[n]
          /\ Len(found) \in Nat
      BY <1>1, <2>2
    <3> DEFINE longest == Append(found, row)
    <3>2. \A n \in 1..(Len(found) + 1) : after[n] = longest[n].fill
      BY <2>4
    <3> HIDE DEF longest
    <3>3. QED
      BY <2>3, <3>1, <3>2 DEF longest
  <2>7. after = Append(before, row.fill)
    BY <2>3, <2>4, <2>5, <2>6, LongerByOne
  <2>8. QED
    BY <2>7 DEF after, before, longer
<1>2. QED
  BY <1>1, RowsOfAdded DEF FillsOf

LEMMA RejectsOfType ==
    ASSUME NEW rows \in Seq(JournalRow), NEW sid
    PROVE  /\ RejectsOf(rows, sid) \in Seq(Order)
           /\ Len(RejectsOf(rows, sid)) = Len(RowsOf(rows, sid, "reject"))
           /\ \A n \in 1..Len(RejectsOf(rows, sid)) :
                RejectsOf(rows, sid)[n]
                  = [side |-> RowsOf(rows, sid, "reject")[n].side,
                     qty |-> RowsOf(rows, sid, "reject")[n].qty]
<1> DEFINE found == RowsOf(rows, sid, "reject")
<1>1. found \in Seq(RowsLike(sid, "reject"))
  BY RowsOfType
<1>2. \A row \in RowsLike(sid, "reject") :
        [side |-> row.side, qty |-> row.qty] \in Order
  BY DEF RowsLike, JournalRow, TornRow, LostRow, Order
<1> HIDE DEF found
<1>3. \A n \in DOMAIN found :
        [side |-> found[n].side, qty |-> found[n].qty] \in Order
  BY <1>1, <1>2
<1> DEFINE listed == [n \in DOMAIN found |->
                        [side |-> found[n].side, qty |-> found[n].qty]]
<1>4. /\ listed \in Seq(Order)
      /\ Len(listed) = Len(found)
      /\ \A n \in 1..Len(listed) :
           listed[n] = [side |-> found[n].side, qty |-> found[n].qty]
  BY <1>1, <1>3
<1>5. QED
  BY <1>4 DEF RejectsOf, found

LEMMA RejectsOfNothing ==
    ASSUME NEW sid
    PROVE  RejectsOf(<<>>, sid) = <<>>
<1> DEFINE rows == <<>>
           none == RejectsOf(rows, sid)
<1>1. rows \in Seq(JournalRow) /\ Len(RowsOf(rows, sid, "reject")) = 0
  BY RowsOfNothing
<1> HIDE DEF rows
<1>2. none \in Seq(Order) /\ Len(none) = 0
  BY <1>1, RejectsOfType
<1> HIDE DEF none
<1>3. none = <<>>
  BY <1>2
<1>4. QED
  BY <1>3 DEF none, rows

LEMMA RejectsOfAppend ==
    ASSUME NEW rows \in Seq(JournalRow), NEW row \in JournalRow, NEW sid
    PROVE  /\ row \in RowsLike(sid, "reject")
                => RejectsOf(Append(rows, row), sid)
                     = Append(RejectsOf(rows, sid),
                              [side |-> row.side, qty |-> row.qty])
           /\ row.event # "reject"
                => RejectsOf(Append(rows, row), sid) = RejectsOf(rows, sid)
<1>1. ASSUME row \in RowsLike(sid, "reject")
      PROVE  RejectsOf(Append(rows, row), sid)
               = Append(RejectsOf(rows, sid), [side |-> row.side, qty |-> row.qty])
  <2> DEFINE longer == Append(rows, row)
             found == RowsOf(rows, sid, "reject")
             before == RejectsOf(rows, sid)
             after == RejectsOf(longer, sid)
             order == [side |-> row.side, qty |-> row.qty]
  <2>1. longer \in Seq(JournalRow)
    OBVIOUS
  <2> HIDE DEF longer
  <2>2. RowsOf(longer, sid, "reject") = Append(found, row)
        /\ found \in Seq(RowsLike(sid, "reject"))
    BY <1>1, RowsOfAdded, RowsOfType DEF longer
  <2> HIDE DEF found
  <2>3. /\ before \in Seq(Order) /\ Len(before) = Len(found)
        /\ \A n \in 1..Len(before) :
             before[n] = [side |-> found[n].side, qty |-> found[n].qty]
    BY RejectsOfType DEF found
  <2>4. /\ after \in Seq(Order) /\ Len(after) = Len(found) + 1
        /\ \A n \in 1..Len(after) :
             after[n] = [side |-> Append(found, row)[n].side,
                         qty |-> Append(found, row)[n].qty]
    BY <1>1, <2>1, <2>2, RejectsOfType
  <2> HIDE DEF before, after
  <2>5. order \in Order
    BY <1>1 DEF RowsLike, JournalRow, TornRow, LostRow, Order
  <2>6. /\ after[Len(before) + 1] = order
        /\ \A n \in 1..Len(before) : after[n] = before[n]
    BY <1>1, <2>2, <2>3, <2>4
  <2> HIDE DEF order
  <2>7. after = Append(before, order)
    BY <2>3, <2>4, <2>5, <2>6, LongerByOne
  <2>8. QED
    BY <2>7 DEF after, before, longer, order
<1>2. QED
  BY <1>1, RowsOfAdded DEF RejectsOf

(***************************************************************************)
(* The story on disk.                                                      *)
(***************************************************************************)
LEMMA PrefixTrivial ==
    ASSUME NEW S, NEW s \in Seq(S)
    PROVE  IsPrefix(s, s)
BY DEF IsPrefix

LEMMA PrefixLonger ==
    ASSUME NEW S, NEW s \in Seq(S), NEW t \in Seq(S), NEW a \in S, IsPrefix(s, t)
    PROVE  IsPrefix(s, Append(t, a))
<1> DEFINE u == Append(t, a)
<1>1. /\ u \in Seq(S) /\ Len(u) = Len(t) + 1
      /\ \A n \in 1..Len(t) : u[n] = t[n]
  OBVIOUS
<1> HIDE DEF u
<1>2. Len(s) <= Len(t) /\ SubSeq(s, 1, Len(s)) = SubSeq(t, 1, Len(s))
  BY DEF IsPrefix
<1>3. Len(s) \in Nat /\ Len(t) \in Nat
  OBVIOUS
<1>4. SubSeq(t, 1, Len(s)) = SubSeq(u, 1, Len(s))
  <2> DEFINE short == SubSeq(t, 1, Len(s))
             long == SubSeq(u, 1, Len(s))
  <2>1. short \in Seq(S) /\ Len(short) = Len(s)
        /\ \A n \in 1..Len(s) : short[n] = t[n]
    BY <1>2, <1>3
  <2>2. long \in Seq(S) /\ Len(long) = Len(s)
        /\ \A n \in 1..Len(s) : long[n] = u[n]
    BY <1>1, <1>2, <1>3
  <2> HIDE DEF short, long
  <2>3. \A n \in 1..Len(s) : n \in 1..Len(t)
    BY <1>2, <1>3
  <2>4. short = long
    BY <1>1, <2>1, <2>2, <2>3, SameSequence
  <2>5. QED
    BY <2>4 DEF short, long
<1>5. Len(s) <= Len(u)
  BY <1>1, <1>2, <1>3
<1>6. QED
  BY <1>2, <1>4, <1>5 DEF IsPrefix, u

Story(rows, listed, refused) ==
    FillsOf(rows, session_id) = listed /\ RejectsOf(rows, session_id) = refused

\* The invariant behind JournalIsPrefix: a journal that still writes holds the
\* whole story.
PrefixInv ==
    /\ JournalIsPrefix
    /\ ~jdisabled => Untorn(journal) /\ Story(journal, fills, Rejects)

LEMMA RejectsType ==
    ASSUME rejected \in Seq(Rejection)
    PROVE  /\ Rejects \in Seq(Order)
           /\ Len(Rejects) = Len(rejected)
           /\ \A n \in 1..Len(rejected) :
                Rejects[n] = [side |-> rejected[n].side, qty |-> rejected[n].qty]
<1>1. \A rejection \in Rejection :
        [side |-> rejection.side, qty |-> rejection.qty] \in Order
  BY DEF Rejection, Order
<1>2. \A n \in DOMAIN rejected :
        [side |-> rejected[n].side, qty |-> rejected[n].qty] \in Order
  BY <1>1
<1>3. QED
  BY <1>2 DEF Rejects

LEMMA RejectsAppend ==
    ASSUME rejected \in Seq(Rejection), NEW rejection \in Rejection,
           rejected' = Append(rejected, rejection)
    PROVE  /\ [side |-> rejection.side, qty |-> rejection.qty] \in Order
           /\ Rejects' = Append(Rejects, [side |-> rejection.side,
                                          qty |-> rejection.qty])
<1> DEFINE order == [side |-> rejection.side, qty |-> rejection.qty]
           before == Rejects
           after == Rejects'
<1>1. order \in Order
  BY DEF Rejection, Order
<1>2. /\ rejected' \in Seq(Rejection)
      /\ Len(rejected') = Len(rejected) + 1
      /\ rejected'[Len(rejected) + 1] = rejection
      /\ \A n \in 1..Len(rejected) : rejected'[n] = rejected[n]
      /\ Len(rejected) \in Nat
  OBVIOUS
<1>3. /\ before \in Seq(Order) /\ Len(before) = Len(rejected)
      /\ \A n \in 1..Len(rejected) :
           before[n] = [side |-> rejected[n].side, qty |-> rejected[n].qty]
  BY RejectsType
<1>4. /\ after \in Seq(Order) /\ Len(after) = Len(rejected')
      /\ \A n \in 1..Len(rejected') :
           after[n] = [side |-> rejected'[n].side, qty |-> rejected'[n].qty]
  <2>1. \A n \in DOMAIN rejected' :
          [side |-> rejected'[n].side, qty |-> rejected'[n].qty] \in Order
    <3>1. \A refusal \in Rejection :
            [side |-> refusal.side, qty |-> refusal.qty] \in Order
      BY DEF Rejection, Order
    <3>2. QED
      BY <1>2, <3>1
  <2>2. QED
    BY <1>2, <2>1 DEF Rejects
<1> HIDE DEF before, after
<1>5. after[Len(before) + 1] = order /\ \A n \in 1..Len(before) : after[n] = before[n]
  BY <1>2, <1>3, <1>4
<1> HIDE DEF order
<1>6. after = Append(before, order)
  BY <1>1, <1>2, <1>3, <1>4, <1>5, LongerByOne
<1>7. QED
  BY <1>1, <1>6 DEF before, after, order

LEMMA TornIsSilent ==
    ASSUME NEW rows \in Seq(JournalRow), NEW sid
    PROVE  /\ TornRow \in JournalRow /\ TornRow.event = "torn"
           /\ Append(rows, TornRow) \in Seq(JournalRow)
           /\ FillsOf(Append(rows, TornRow), sid) = FillsOf(rows, sid)
           /\ RejectsOf(Append(rows, TornRow), sid) = RejectsOf(rows, sid)
           /\ Untorn(rows) =>
                \A n \in DOMAIN Append(rows, TornRow) :
                   Append(rows, TornRow)[n].event = "torn"
                     => n = Len(Append(rows, TornRow))
<1>1. TornRow \in JournalRow /\ TornRow.event = "torn"
  BY DEF JournalRow, TornRow, LostRow
<1>2. /\ FillsOf(Append(rows, TornRow), sid) = FillsOf(rows, sid)
      /\ RejectsOf(Append(rows, TornRow), sid) = RejectsOf(rows, sid)
  BY <1>1, FillsOfAppend, RejectsOfAppend
<1>3. /\ Append(rows, TornRow) \in Seq(JournalRow)
      /\ Untorn(rows) =>
           \A n \in DOMAIN Append(rows, TornRow) :
              Append(rows, TornRow)[n].event = "torn"
                => n = Len(Append(rows, TornRow))
  BY <1>1, AddedRow DEF Untorn
<1>4. QED
  BY <1>1, <1>2, <1>3

LEMMA PrefixKeptByNothing ==
    ASSUME PrefixInv, UNCHANGED <<session_id, journalVars, fills, rejected>>
    PROVE  PrefixInv'
BY DEF PrefixInv, JournalIsPrefix, Story, Rejects, journalVars

\* A row that continues the story, or is lost with all that follows it.
LEMMA PrefixKeptByRow ==
    ASSUME JournalTypeOK, PrefixInv, UNCHANGED session_id,
           NEW row \in JournalRow, row.event # "torn", Write(<<row>>),
           fills \in Seq(Fill), Rejects \in Seq(Order),
           fills' = fills \/ \E fill \in Fill : fills' = Append(fills, fill),
           Rejects' = Rejects \/ \E order \in Order : Rejects' = Append(Rejects, order),
           Story(journal, fills, Rejects)
             => Story(Append(journal, row), fills', Rejects')
    PROVE  PrefixInv'
<1> DEFINE listed == FillsOf(journal, session_id)
           refused == RejectsOf(journal, session_id)
           torn == Append(journal, TornRow)
<1>1. listed \in Seq(Fill) /\ refused \in Seq(Order)
  BY FillsOfType, RejectsOfType DEF JournalTypeOK
<1>2. /\ IsPrefix(listed, fills) /\ IsPrefix(refused, Rejects)
      /\ ~jdisabled => Untorn(journal) /\ listed = fills /\ refused = Rejects
      /\ \A n \in DOMAIN journal : journal[n].event = "torn" => n = Len(journal)
  BY DEF PrefixInv, JournalIsPrefix, Story
<1>3. /\ FillsOf(torn, session_id) = listed
      /\ RejectsOf(torn, session_id) = refused
      /\ Untorn(journal) =>
           \A n \in DOMAIN torn : torn[n].event = "torn" => n = Len(torn)
  BY TornIsSilent DEF JournalTypeOK
<1>4. IsPrefix(listed, fills') /\ IsPrefix(refused, Rejects')
  <2> HIDE DEF listed, refused
  <2>1. IsPrefix(listed, fills')
    BY <1>1, <1>2, PrefixLonger
  <2>2. IsPrefix(refused, Rejects')
    BY <1>1, <1>2, PrefixLonger
  <2>3. QED
    BY <2>1, <2>2
<1>5. CASE ~jdisabled'
  <2>1. ~jdisabled /\ Untorn(journal) /\ journal' = Append(journal, row)
    BY <1>2, <1>5, WriteRow, UntornEnd, ContinuedIs DEF JournalTypeOK
  <2>2. Untorn(journal')
    BY <2>1, UntornAppend DEF JournalTypeOK
  <2>3. Story(journal, fills, Rejects)
    BY <1>2, <2>1 DEF Story
  <2>4. FillsOf(journal', session_id) = fills' /\ RejectsOf(journal', session_id) = Rejects'
    BY <2>1, <2>3 DEF Story
  <2>5. fills' \in Seq(Fill) /\ Rejects' \in Seq(Order)
    <3>1. fills' \in Seq(Fill)
      OBVIOUS
    <3>2. \A s \in Seq(Order), order \in Order : Append(s, order) \in Seq(Order)
      OBVIOUS
    <3>3. Rejects' \in Seq(Order)
      BY <3>2
    <3>4. QED
      BY <3>1, <3>3
  <2>6. IsPrefix(fills', fills') /\ IsPrefix(Rejects', Rejects')
    BY <2>5, PrefixTrivial
  <2>7. QED
    BY <1>5, <2>2, <2>4, <2>6 DEF PrefixInv, JournalIsPrefix, Story, Untorn
<1>6. CASE jdisabled'
  <2> DEFINE whole == Append(journal, row)
  <2>1. \/ journal' = journal \/ (journal' = torn /\ ~jdisabled)
        \/ journal' = whole /\ ~jdisabled
    BY <1>2, <1>6, WriteRow, UntornEnd, ContinuedIs DEF JournalTypeOK
  <2> HIDE DEF torn, listed, refused
  <2>2. CASE journal' = whole /\ ~jdisabled
    <3>1. Untorn(journal')
      BY <1>2, <2>2, UntornAppend DEF JournalTypeOK
    <3>2. Story(journal', fills', Rejects')
      BY <1>2, <2>2 DEF Story, listed, refused
    <3>3. fills' \in Seq(Fill) /\ Rejects' \in Seq(Order)
      <4>1. \A s \in Seq(Order), order \in Order : Append(s, order) \in Seq(Order)
        OBVIOUS
      <4>2. \A s \in Seq(Fill), fill \in Fill : Append(s, fill) \in Seq(Fill)
        OBVIOUS
      <4>3. QED
        BY <4>1, <4>2
    <3>4. IsPrefix(fills', fills') /\ IsPrefix(Rejects', Rejects')
      BY <3>3, PrefixTrivial
    <3>5. QED
      BY <1>6, <3>1, <3>2, <3>4 DEF PrefixInv, JournalIsPrefix, Story, Untorn
  <2>3. CASE journal' = journal \/ (journal' = torn /\ ~jdisabled)
    <3>1. /\ FillsOf(journal', session_id) = listed
          /\ RejectsOf(journal', session_id) = refused
          /\ \A n \in DOMAIN journal' : journal'[n].event = "torn" => n = Len(journal')
      BY <1>2, <1>3, <2>3 DEF listed, refused, torn
    <3>2. QED
      BY <1>4, <1>6, <3>1 DEF PrefixInv, JournalIsPrefix, listed, refused
  <2>4. QED
    BY <2>1, <2>2, <2>3
<1>7. jdisabled' \in BOOLEAN
  BY WriteRowType DEF JournalTypeOK
<1>8. QED
  BY <1>5, <1>6

\* The two rows of a heartbeat tell nothing of fills and rejects.
LEMMA PrefixKeptByTwo ==
    ASSUME JournalTypeOK, PrefixInv, UNCHANGED <<session_id, fills, rejected>>,
           NEW one \in JournalRow, one.event = "heartbeat",
           NEW two \in JournalRow, two.event = "equity", Write(<<one, two>>)
    PROVE  PrefixInv'
<1> DEFINE half == Append(journal, one)
           whole == Append(half, two)
           torn == Append(journal, TornRow)
           cut == Append(half, TornRow)
           Silent(rows) == /\ FillsOf(rows, session_id) = FillsOf(journal, session_id)
                           /\ RejectsOf(rows, session_id) = RejectsOf(journal, session_id)
           TornLast(rows) ==
             \A n \in DOMAIN rows : rows[n].event = "torn" => n = Len(rows)
<1>1. journal \in Seq(JournalRow) /\ half \in Seq(JournalRow)
  BY AddedRow DEF JournalTypeOK
<1>2. /\ JournalIsPrefix /\ TornLast(journal)
      /\ ~jdisabled => Untorn(journal) /\ Story(journal, fills, Rejects)
  BY DEF PrefixInv, JournalIsPrefix
<1>3. Silent(half) /\ (Untorn(journal) => Untorn(half))
  BY <1>1, FillsOfAppend, RejectsOfAppend, UntornAppend
<1>4. Silent(torn) /\ (Untorn(journal) => TornLast(torn))
  BY <1>1, TornIsSilent
<1>5. Silent(whole) /\ (Untorn(journal) => Untorn(whole))
  <2> HIDE DEF half
  <2>1. QED
    BY <1>1, <1>3, FillsOfAppend, RejectsOfAppend, UntornAppend
<1>6. Silent(cut) /\ (Untorn(journal) => TornLast(cut))
  <2> HIDE DEF half
  <2>1. QED
    BY <1>1, <1>3, TornIsSilent
<1>7. Untorn(journal) => ~EndsTorn
  BY UntornEnd
<1>8. \/ journal' = journal /\ (~jdisabled' => ~jdisabled)
      \/ ~jdisabled /\ journal' \in {half, whole}
      \/ ~jdisabled /\ jdisabled' /\ journal' \in {torn, cut}
  <2>1. CASE jdisabled
    BY <2>1, WriteTwo
  <2>2. CASE ~jdisabled
    BY <1>2, <1>7, <2>2, WriteTwo, ContinuedIs
  <2>3. QED
    BY <2>1, <2>2
<1>9. Silent(journal') /\ TornLast(journal')
  BY <1>2, <1>3, <1>4, <1>5, <1>6, <1>8 DEF Untorn
<1>10. ~jdisabled' => Untorn(journal') /\ ~jdisabled
  BY <1>2, <1>3, <1>5, <1>8
<1> HIDE DEF half, whole, torn, cut
<1>11. Rejects' = Rejects
  BY DEF Rejects
<1>12. QED
  BY <1>2, <1>9, <1>10, <1>11 DEF PrefixInv, JournalIsPrefix, Story

LEMMA PrefixKeptByOther ==
    ASSUME SessionInv, PrefixInv, UNCHANGED <<session_id, fills, rejected>>,
           NEW row \in JournalRow, row.event \notin {"torn", "fill", "reject"},
           Write(<<row>>) \/ UNCHANGED journalVars
    PROVE  PrefixInv'
<1>1. JournalTypeOK /\ fills \in Seq(Fill) /\ Rejects \in Seq(Order)
  BY RejectsType DEF SessionInv, SessionTypeOK
<1>2. Rejects' = Rejects
  BY DEF Rejects
<1>3. Story(Append(journal, row), fills, Rejects) <=> Story(journal, fills, Rejects)
  BY <1>1, FillsOfAppend, RejectsOfAppend DEF Story, JournalTypeOK
<1>4. CASE UNCHANGED journalVars
  BY <1>4, PrefixKeptByNothing
<1>5. CASE Write(<<row>>)
  BY <1>1, <1>2, <1>3, <1>5, PrefixKeptByRow
<1>6. QED
  BY <1>4, <1>5

LEMMA BookFillPrefix ==
    ASSUME SessionInv, ProcessTypeOK, PrefixInv, UNCHANGED <<session_id, rejected>>,
           NEW fill \in Fill, BookFill(fill)
    PROVE  PrefixInv'
<1> DEFINE row == FillRow(session_id, fill)
<1>1. /\ row \in JournalRow /\ row \in RowsLike(session_id, "fill")
      /\ row.event = "fill" /\ row.fill = fill
  <2>1. row \in JournalRow
    BY RowTypes DEF ProcessTypeOK
  <2>2. QED
    BY <2>1 DEF FillRow, RowsLike
<1>2. JournalTypeOK /\ fills \in Seq(Fill) /\ Rejects \in Seq(Order)
  BY RejectsType DEF SessionInv, SessionTypeOK
<1>3. Rejects' = Rejects
  BY DEF Rejects
<1>4. fills' = Append(fills, fill) /\ Write(<<row>>)
  BY DEF BookFill
<1> HIDE DEF row
<1>5. journal \in Seq(JournalRow)
  BY <1>2 DEF JournalTypeOK
<1>6. FillsOf(Append(journal, row), session_id)
        = Append(FillsOf(journal, session_id), fill)
  BY <1>1, <1>5, FillsOfAppend
<1>7. RejectsOf(Append(journal, row), session_id) = RejectsOf(journal, session_id)
  BY <1>1, <1>5, RejectsOfAppend
<1>8. Story(journal, fills, Rejects) => Story(Append(journal, row), fills', Rejects')
  BY <1>3, <1>4, <1>6, <1>7 DEF Story
<1>9. QED
  BY <1>1, <1>2, <1>3, <1>4, <1>8, PrefixKeptByRow

LEMMA RejectionPrefix ==
    ASSUME SessionInv, ProcessTypeOK, PrefixInv, UNCHANGED <<session_id, fills>>,
           NEW rejection \in Rejection, rejected' = Append(rejected, rejection),
           Write(<<RejectRow(session_id, rejection.side, rejection.qty)>>)
    PROVE  PrefixInv'
<1> DEFINE row == RejectRow(session_id, rejection.side, rejection.qty)
           order == [side |-> rejection.side, qty |-> rejection.qty]
<1>1. /\ row \in JournalRow /\ row \in RowsLike(session_id, "reject")
      /\ row.event = "reject" /\ [side |-> row.side, qty |-> row.qty] = order
  <2>1. row \in JournalRow
    BY RowTypes DEF ProcessTypeOK, Rejection
  <2>2. QED
    BY <2>1 DEF RejectRow, RowsLike
<1>2. JournalTypeOK /\ fills \in Seq(Fill) /\ Rejects \in Seq(Order)
      /\ rejected \in Seq(Rejection)
  BY RejectsType DEF SessionInv, SessionTypeOK
<1>3. order \in Order /\ Rejects' = Append(Rejects, order)
  BY <1>2, RejectsAppend
<1> HIDE DEF row, order
<1>4. Story(journal, fills, Rejects) => Story(Append(journal, row), fills', Rejects')
  BY <1>1, <1>2, <1>3, FillsOfAppend, RejectsOfAppend DEF Story, JournalTypeOK
<1>5. Write(<<row>>)
  BY DEF row
<1>6. QED
  BY <1>1, <1>2, <1>3, <1>4, <1>5, PrefixKeptByRow

LEMMA RejectOrderPrefix ==
    ASSUME SessionInv, SessionInv', ProcessTypeOK, PrefixInv, UNCHANGED session_id,
           RejectOrder
    PROVE  PrefixInv'
<1> DEFINE rejection == RejectionOf(Head(queue), Decision)
<1>1. /\ rejected' = Append(rejected, rejection)
      /\ rejected \in Seq(Rejection) /\ rejected' \in Seq(Rejection)
      /\ UNCHANGED fills
      /\ Write(<<RejectRow(session_id, rejection.side, rejection.qty)>>)
  BY DEF RejectOrder, SessionInv, SessionTypeOK, RejectionOf
<1> HIDE DEF rejection
<1>2. rejection \in Rejection
  <2>1. /\ Len(rejected') = Len(rejected) + 1
        /\ rejected'[Len(rejected) + 1] = rejection
    BY <1>1
  <2>2. Len(rejected) + 1 \in 1..Len(rejected')
    BY <1>1, <2>1
  <2>3. QED
    BY <1>1, <2>1, <2>2
<1>3. QED
  BY <1>1, <1>2, RejectionPrefix

LEMMA BrokerRejectsPrefix ==
    ASSUME SessionInv, ProcessTypeOK, PrefixInv, UNCHANGED session_id, BrokerRejects
    PROVE  PrefixInv'
<1> DEFINE rejection ==
             [side |-> adj.side, qty |-> adj.qty, verdict |-> "BROKER_REJECT"]
<1>1. adj \in Order
  BY DEF SessionInv, StageInv, BrokerRejects, Submitted
<1>2. rejection \in Rejection
  BY <1>1 DEF Order, Rejection
<1>3. /\ rejected' = Append(rejected, rejection)
      /\ UNCHANGED fills
      /\ Write(<<RejectRow(session_id, rejection.side, rejection.qty)>>)
  BY DEF BrokerRejects, bookVars
<1> HIDE DEF rejection
<1>4. QED
  BY <1>2, <1>3, RejectionPrefix

LEMMA StartPrefix ==
    ASSUME SessionInv, ProcessTypeOK, PrefixInv, UNCHANGED processVars,
           NEW up \in BOOLEAN, NEW mode \in Mode, Start(up, mode)
    PROVE  PrefixInv'
<1> DEFINE row == StartRow(session_id, StartingCash, mode)
<1>1. row \in JournalRow /\ row.event = "session_start"
  <2>1. row \in JournalRow
    BY SessionAssumption, RowTypes DEF ProcessTypeOK
  <2>2. QED
    BY <2>1 DEF StartRow
<1>2. UNCHANGED <<session_id, fills, rejected>> /\ Write(SessionRow(row))
  BY DEF Start, bookVars, processVars
<1>3. Write(<<row>>) \/ UNCHANGED journalVars
  BY <1>2, WriteNothing DEF SessionRow, SessionInv, journalVars
<1> HIDE DEF row
<1>4. QED
  BY <1>1, <1>2, <1>3, PrefixKeptByOther

LEMMA RecordKillPrefix ==
    ASSUME SessionInv, ProcessTypeOK, PrefixInv, UNCHANGED processVars, RecordKill
    PROVE  PrefixInv'
<1> DEFINE row == KillRow(session_id, kill_reason)
<1>1. row \in JournalRow /\ row.event = "kill"
  <2>1. kill_reason \in EndReason
    BY DEF SessionInv, SessionTypeOK, StageInv, RecordKill, KillReason, EndReason
  <2>2. row \in JournalRow
    BY <2>1, RowTypes DEF ProcessTypeOK
  <2>3. QED
    BY <2>2 DEF KillRow
<1>2. UNCHANGED <<session_id, fills, rejected>> /\ Write(<<row>>)
  BY DEF RecordKill, bookVars, processVars
<1> HIDE DEF row
<1>3. QED
  BY <1>1, <1>2, PrefixKeptByOther

LEMMA FinishPrefix ==
    ASSUME SessionInv, ProcessTypeOK, PrefixInv, UNCHANGED processVars, Finish
    PROVE  PrefixInv'
<1> DEFINE row == EndRow(session_id, EndReasonOf(kill_reason))
<1>1. row \in JournalRow /\ row.event = "session_end"
  <2>1. EndReasonOf(kill_reason) \in EndReason
    BY DEF SessionInv, SessionTypeOK, EndReasonOf, EndReason, KillReason
  <2>2. row \in JournalRow
    BY <2>1, RowTypes DEF ProcessTypeOK
  <2>3. QED
    BY <2>2 DEF EndRow
<1>2. UNCHANGED <<session_id, fills, rejected>> /\ Write(SessionRow(row))
  BY DEF Finish, bookVars, processVars
<1>3. Write(<<row>>) \/ UNCHANGED journalVars
  BY <1>2, WriteNothing DEF SessionRow, SessionInv, journalVars
<1> HIDE DEF row
<1>4. QED
  BY <1>1, <1>2, <1>3, PrefixKeptByOther

LEMMA EndBarPrefix ==
    ASSUME SessionInv, ProcessTypeOK, PrefixInv, UNCHANGED processVars, EndBar
    PROVE  PrefixInv'
<1> DEFINE one == HeartbeatRow(session_id, Equity(pf, mark))
           two == EquityRow(session_id, Equity(pf, mark), BarIndex)
<1>1. /\ one \in JournalRow /\ one.event = "heartbeat"
      /\ two \in JournalRow /\ two.event = "equity"
  <2>1. Equity(pf, mark) \in Int /\ BarIndex \in Nat
    BY SessionAssumption, EquityType
    DEF SessionInv, SessionTypeOK, ProcessTypeOK, StageInv, EndBar, BarIndex
  <2>2. one \in JournalRow /\ two \in JournalRow
    BY <2>1, RowTypes DEF ProcessTypeOK
  <2>3. QED
    BY <2>2 DEF HeartbeatRow, EquityRow
<1>2. /\ UNCHANGED <<session_id, fills, rejected>>
      /\ Write(HeartbeatRows(Equity(pf, mark)))
  BY DEF EndBar, bookVars, processVars
<1>3. CASE HeartbeatDue
  <2>1. Write(<<one, two>>)
    BY <1>2, <1>3 DEF HeartbeatRows
  <2> HIDE DEF one, two
  <2>2. QED
    BY <1>1, <1>2, <2>1, PrefixKeptByTwo DEF SessionInv
<1>4. CASE ~HeartbeatDue
  <2>1. UNCHANGED journalVars
    BY <1>2, <1>4, WriteNothing DEF HeartbeatRows, SessionInv, journalVars
  <2>2. QED
    BY <1>2, <2>1, PrefixKeptByNothing
<1>5. QED
  BY <1>3, <1>4

LEMMA LoopStepPrefix ==
    ASSUME SessionInv, ProcessTypeOK, PrefixInv, UNCHANGED processVars, LoopStep
    PROVE  PrefixInv'
<1>1. CASE ApplyDelayed
  <2>1. Head(delayed) \in Fill
    BY <1>1 DEF SessionInv, SessionTypeOK, ApplyDelayed
  <2>2. QED
    BY <1>1, <2>1, BookFillPrefix DEF ApplyDelayed, processVars
<1>2. CASE RejectOrder
  BY <1>2, RejectOrderPrefix, RejectOrderKeeps DEF processVars
<1>3. CASE RecordKill
  BY <1>3, RecordKillPrefix
<1>4. CASE EndBar
  BY <1>4, EndBarPrefix
<1>5. CASE Finish
  BY <1>5, FinishPrefix
<1>6. CASE \/ \E mid \in Prices, new_day \in BOOLEAN : NextBar(mid, new_day)
           \/ \E orders \in OrderLists : OnBar(orders)
           \/ StrategyRaises \/ Approve \/ FeedEnds \/ Terminated
  <2>1. UNCHANGED <<session_id, journalVars, fills, rejected>>
    BY <1>6 DEF NextBar, OnBar, StrategyRaises, Approve, FeedEnds, Terminated,
       bookVars, processVars, sessionVars
  <2>2. QED
    BY <2>1, PrefixKeptByNothing
<1>7. QED
  BY <1>1, <1>2, <1>3, <1>4, <1>5, <1>6 DEF LoopStep

LEMMA PrefixStarts ==
    ASSUME SessionInit, JournalInit
    PROVE  PrefixInv
<1>1. /\ journal = <<>> /\ DOMAIN journal = {}
      /\ fills = <<>> /\ rejected = <<>>
  BY DEF SessionInit, JournalInit
<1>2. Rejects = <<>>
  BY <1>1 DEF Rejects
<1>3. FillsOf(journal, session_id) = <<>> /\ RejectsOf(journal, session_id) = <<>>
  BY <1>1, FillsOfNothing, RejectsOfNothing
<1>4. IsPrefix(<<>>, <<>>)
  BY DEF IsPrefix
<1>5. QED
  BY <1>1, <1>2, <1>3, <1>4 DEF PrefixInv, JournalIsPrefix, Story, Untorn

(***************************************************************************)
(* The order of the rows of a session that was not resumed.                *)
(***************************************************************************)
HasEvent(rows, event) == \E n \in DOMAIN rows : rows[n].event = event

\* A start first and only first, and a reject before every kill.
Shape(rows) ==
    \A n \in DOMAIN rows :
        /\ rows[n].event # "torn" => IsStart(rows[n]) = (n = 1)
        /\ rows[n].event = "kill" => n > 1 /\ rows[n - 1].event = "reject"

EndsWell(rows) ==
    \A n \in DOMAIN rows : rows[n].event = "session_end" =>
        /\ n = Len(rows)
        /\ rows[n].reason = "completed" <=> ~HasEvent(rows, "kill")

\* The invariant behind JournalTellsSession.  As long as the journal writes,
\* its last row before the row of a kill is the reject of the killed order, and
\* it holds a kill exactly when the session has a reason to stop.
TaleInv ==
    /\ ~forced
    /\ Shape(journal)
    /\ pc \notin Stopped => ~HasEvent(journal, "session_end")
    /\ pc \in Stopped => EndsWell(journal)
    /\ pc = "start" => journal = <<>> /\ kill_reason = "none"
    /\ ~jdisabled =>
          /\ pc # "start" => journal # <<>>
          /\ pc = "kill" => journal[Len(journal)].event = "reject"
          /\ HasEvent(journal, "kill") => kill_reason # "none"
          /\ kill_reason # "none" /\ pc # "kill" => HasEvent(journal, "kill")

LEMMA HasEventAppend ==
    ASSUME NEW rows \in Seq(JournalRow), NEW row \in JournalRow, NEW event
    PROVE  HasEvent(Append(rows, row), event)
             <=> HasEvent(rows, event) \/ row.event = event
<1> DEFINE longer == Append(rows, row)
           m == Len(rows)
<1>1. /\ m \in Nat
      /\ DOMAIN rows = 1..m
      /\ DOMAIN longer = 1..(m + 1)
      /\ longer[m + 1] = row
      /\ \A n \in 1..m : longer[n] = rows[n]
  BY AddedRow
<1> HIDE DEF longer, m
<1>2. HasEvent(longer, event) <=> \E n \in 1..(m + 1) : longer[n].event = event
  BY <1>1 DEF HasEvent
<1>3. HasEvent(rows, event) <=> \E n \in 1..m : longer[n].event = event
  BY <1>1 DEF HasEvent
<1>4. 1..(m + 1) = (1..m) \cup {m + 1}
  BY <1>1
<1>5. QED
  BY <1>1, <1>2, <1>3, <1>4 DEF longer

LEMMA ShapeAppend ==
    ASSUME NEW rows \in Seq(JournalRow), NEW row \in JournalRow, Shape(rows),
           ~IsStart(row), row.event # "torn" => rows # <<>>,
           row.event = "kill" => rows[Len(rows)].event = "reject"
    PROVE  Shape(Append(rows, row))
<1> DEFINE longer == Append(rows, row)
           m == Len(rows)
<1>1. /\ m \in Nat
      /\ DOMAIN rows = 1..m
      /\ DOMAIN longer = 1..(m + 1)
      /\ longer[m + 1] = row
      /\ \A n \in 1..m : longer[n] = rows[n]
      /\ rows # <<>> => m > 0
  BY AddedRow
<1>2. row.event = "kill" => m > 0 /\ rows[m].event = "reject"
  BY <1>1
<1>3. row.event # "torn" => m > 0
  BY <1>1
<1> HIDE DEF longer, m
<1>4. ASSUME NEW n \in 1..m
      PROVE  /\ longer[n].event # "torn" => IsStart(longer[n]) = (n = 1)
             /\ longer[n].event = "kill" => n > 1 /\ longer[n - 1].event = "reject"
  BY <1>1, <1>4 DEF Shape
<1>5. /\ longer[m + 1].event # "torn" => IsStart(longer[m + 1]) = (m + 1 = 1)
      /\ longer[m + 1].event = "kill"
           => m + 1 > 1 /\ longer[(m + 1) - 1].event = "reject"
  <2>1. ~IsStart(longer[m + 1]) /\ (longer[m + 1].event # "torn" => (m + 1 = 1) = FALSE)
    BY <1>1, <1>3
  <2>2. longer[m + 1].event = "kill"
           => m + 1 > 1 /\ longer[(m + 1) - 1].event = "reject"
    BY <1>1, <1>2
  <2>3. QED
    BY <2>1, <2>2 DEF IsStart
<1>6. 1..(m + 1) = (1..m) \cup {m + 1}
  BY <1>1
<1>7. Shape(longer)
  BY <1>1, <1>4, <1>5, <1>6 DEF Shape
<1>8. QED
  BY <1>7 DEF longer

\* A row written, torn or lost, where the file had no torn line.
LEMMA WriteUntorn ==
    ASSUME JournalTypeOK, ~jdisabled => Untorn(journal), NEW row \in JournalRow,
           Write(<<row>>)
    PROVE  \/ ~jdisabled /\ journal' = Append(journal, row)
           \/ ~jdisabled /\ jdisabled' /\ journal' = Append(journal, TornRow)
           \/ jdisabled' /\ journal' = journal
BY WriteRow, UntornEnd, ContinuedIs

LEMMA TornTale ==
    ASSUME NEW rows \in Seq(JournalRow), Shape(rows)
    PROVE  /\ Shape(Append(rows, TornRow))
           /\ \A event \in {"kill", "session_end"} :
                HasEvent(Append(rows, TornRow), event) <=> HasEvent(rows, event)
<1>1. TornRow \in JournalRow /\ TornRow.event = "torn" /\ ~IsStart(TornRow)
  BY DEF JournalRow, TornRow, IsStart
<1>2. QED
  BY <1>1, ShapeAppend, HasEventAppend

LEMMA TaleKeptByNothing ==
    ASSUME TaleInv, UNCHANGED <<forced, journalVars, kill_reason>>,
           pc \notin {"start", "kill"} \cup Stopped,
           pc' \notin {"start", "kill"} \cup Stopped
    PROVE  TaleInv'
BY DEF TaleInv, journalVars

LEMMA TaleKeptByRow ==
    ASSUME JournalTypeOK, TaleInv, ~jdisabled => Untorn(journal),
           UNCHANGED forced, NEW row \in JournalRow, Write(<<row>>),
           row.event \in {"fill", "reject"},
           pc \notin {"start", "kill"} \cup Stopped, pc' \notin {"start"} \cup Stopped,
           pc' = "kill" => row.event = "reject" /\ kill_reason' # "none",
           pc' # "kill" => UNCHANGED kill_reason
    PROVE  TaleInv'
<1>1. journal \in Seq(JournalRow) /\ Shape(journal) /\ ~IsStart(row)
  BY DEF JournalTypeOK, TaleInv, IsStart
<1>2. CASE ~jdisabled /\ journal' = Append(journal, row)
  <2>1. Shape(journal')
    BY <1>1, <1>2, ShapeAppend DEF TaleInv
  <2>2. /\ HasEvent(journal', "kill") <=> HasEvent(journal, "kill")
        /\ HasEvent(journal', "session_end") <=> HasEvent(journal, "session_end")
    BY <1>1, <1>2, HasEventAppend
  <2>3. journal' # <<>> /\ journal'[Len(journal')] = row
    BY <1>1, <1>2, AddedRow
  <2>4. QED
    BY <1>2, <2>1, <2>2, <2>3 DEF TaleInv
<1>3. CASE ~jdisabled /\ jdisabled' /\ journal' = Append(journal, TornRow)
  BY <1>1, <1>3, TornTale DEF TaleInv
<1>4. CASE jdisabled' /\ journal' = journal
  BY <1>4 DEF TaleInv
<1>5. QED
  BY <1>2, <1>3, <1>4, WriteUntorn

LEMMA TaleKeptByTwo ==
    ASSUME JournalTypeOK, TaleInv, ~jdisabled => Untorn(journal),
           UNCHANGED <<forced, kill_reason>>,
           NEW one \in JournalRow, one.event = "heartbeat",
           NEW two \in JournalRow, two.event = "equity", Write(<<one, two>>),
           pc \notin {"start", "kill"} \cup Stopped,
           pc' \notin {"start", "kill"} \cup Stopped
    PROVE  TaleInv'
<1> DEFINE half == Append(journal, one)
           whole == Append(half, two)
           torn == Append(journal, TornRow)
           cut == Append(half, TornRow)
           Same(rows) == \A event \in {"kill", "session_end"} :
                           HasEvent(rows, event) <=> HasEvent(journal, event)
<1>1. /\ journal \in Seq(JournalRow) /\ half \in Seq(JournalRow) /\ Shape(journal)
      /\ ~IsStart(one) /\ ~IsStart(two) /\ half # <<>>
  BY AddedRow DEF JournalTypeOK, TaleInv, IsStart
<1>2. CASE jdisabled
  BY <1>2, WriteTwo DEF TaleInv
<1>3. CASE ~jdisabled
  <2>1. Shape(half) /\ Same(half)
    BY <1>1, <1>3, ShapeAppend, HasEventAppend DEF TaleInv
  <2>2. Shape(torn) /\ Same(torn)
    BY <1>1, TornTale
  <2> HIDE DEF half
  <2>3. Shape(cut) /\ Same(cut)
    BY <1>1, <2>1, TornTale
  <2>4. Shape(whole) /\ Same(whole)
    BY <1>1, <2>1, ShapeAppend, HasEventAppend
  <2>5. whole # <<>>
    BY <1>1, AddedRow
  <2> USE DEF half
  <2>6. \/ journal' = whole
        \/ jdisabled' /\ journal' \in {journal, torn, half, cut}
    BY <1>3, WriteTwo, UntornEnd, ContinuedIs
  <2> HIDE DEF half, torn, whole, cut
  <2>7. Shape(journal') /\ Same(journal') /\ (~jdisabled' => journal' # <<>>)
    BY <1>1, <2>1, <2>2, <2>3, <2>4, <2>5, <2>6
  <2>8. QED
    BY <1>3, <2>7 DEF TaleInv
<1>4. QED
  BY <1>2, <1>3

LEMMA StartTale ==
    ASSUME SessionInv, ProcessTypeOK, TaleInv, UNCHANGED processVars,
           NEW up \in BOOLEAN, NEW mode \in Mode, Start(up, mode)
    PROVE  TaleInv'
<1> DEFINE row == StartRow(session_id, StartingCash, mode)
<1>1. row \in JournalRow /\ row.event = "session_start" /\ IsStart(row)
  <2>1. row \in JournalRow
    BY SessionAssumption, RowTypes DEF ProcessTypeOK
  <2>2. QED
    BY <2>1 DEF StartRow, IsStart
<1>2. /\ pc = "start" /\ pc' = "feed" /\ UNCHANGED kill_reason
      /\ journal = <<>> /\ kill_reason = "none"
      /\ ~forced /\ UNCHANGED forced
      /\ Write(<<row>>)
  BY DEF Start, riskVars, processVars, TaleInv, SessionRow
<1>3. JournalTypeOK /\ Untorn(journal) /\ Shape(journal) /\ Len(journal) = 0
      /\ journal \in Seq(JournalRow)
      /\ \A event : ~HasEvent(journal, event)
  BY <1>2 DEF SessionInv, Untorn, HasEvent, TaleInv, JournalTypeOK
<1> HIDE DEF row
<1>4. CASE ~jdisabled /\ journal' = Append(journal, row)
  <2>1. DOMAIN journal' = 1..1 /\ journal'[1] = row /\ journal' # <<>>
    BY <1>1, <1>3, <1>4, AddedRow
  <2>2. Shape(journal')
    BY <1>1, <2>1 DEF Shape, IsStart
  <2>3. ~HasEvent(journal', "kill") /\ ~HasEvent(journal', "session_end")
    BY <1>1, <1>3, <1>4, HasEventAppend
  <2>4. QED
    BY <1>2, <2>1, <2>2, <2>3 DEF TaleInv, Stopped
<1>5. CASE ~jdisabled /\ jdisabled' /\ journal' = Append(journal, TornRow)
  <2>1. Shape(journal') /\ ~HasEvent(journal', "session_end")
    BY <1>3, <1>5, TornTale
  <2>2. QED
    BY <1>2, <1>5, <2>1 DEF TaleInv, Stopped
<1>6. CASE jdisabled' /\ journal' = journal
  BY <1>2, <1>3, <1>6 DEF TaleInv, Stopped
<1>7. QED
  BY <1>1, <1>2, <1>3, <1>4, <1>5, <1>6, WriteUntorn

LEMMA RecordKillTale ==
    ASSUME SessionInv, ProcessTypeOK, TaleInv, ~jdisabled => Untorn(journal),
           UNCHANGED processVars, RecordKill
    PROVE  TaleInv'
<1> DEFINE row == KillRow(session_id, kill_reason)
<1>1. row \in JournalRow /\ row.event = "kill" /\ ~IsStart(row)
      /\ kill_reason # "none"
  <2>1. kill_reason \in EndReason /\ kill_reason # "none"
    BY DEF SessionInv, SessionTypeOK, StageInv, RecordKill, KillReason, EndReason
  <2>2. row \in JournalRow
    BY <2>1, RowTypes DEF ProcessTypeOK
  <2>3. QED
    BY <2>1, <2>2 DEF KillRow, IsStart
<1>2. /\ pc = "kill" /\ pc' = "orders" /\ UNCHANGED <<kill_reason, forced>>
      /\ Write(<<row>>)
  BY DEF RecordKill, riskVars, processVars
<1>3. JournalTypeOK /\ journal \in Seq(JournalRow) /\ Shape(journal)
  BY DEF SessionInv, JournalTypeOK, TaleInv
<1> HIDE DEF row
<1>4. CASE ~jdisabled /\ journal' = Append(journal, row)
  <2>1. Shape(journal')
    BY <1>1, <1>2, <1>3, <1>4, ShapeAppend DEF TaleInv
  <2>2. /\ HasEvent(journal', "kill")
        /\ HasEvent(journal', "session_end") <=> HasEvent(journal, "session_end")
    BY <1>1, <1>3, <1>4, HasEventAppend
  <2>3. journal' # <<>>
    BY <1>1, <1>3, <1>4, AddedRow
  <2>4. QED
    BY <1>1, <1>2, <2>1, <2>2, <2>3 DEF TaleInv, Stopped
<1>5. CASE ~jdisabled /\ jdisabled' /\ journal' = Append(journal, TornRow)
  BY <1>2, <1>3, <1>5, TornTale DEF TaleInv, Stopped
<1>6. CASE jdisabled' /\ journal' = journal
  BY <1>2, <1>6 DEF TaleInv, Stopped
<1>7. QED
  BY <1>1, <1>2, <1>3, <1>4, <1>5, <1>6, WriteUntorn

LEMMA FinishTale ==
    ASSUME SessionInv, ProcessTypeOK, TaleInv, ~jdisabled => Untorn(journal),
           UNCHANGED processVars, Finish
    PROVE  TaleInv'
<1> DEFINE reason == EndReasonOf(kill_reason)
           row == EndRow(session_id, reason)
<1>1. /\ row \in JournalRow /\ row.event = "session_end" /\ ~IsStart(row)
      /\ row.reason = "completed" <=> kill_reason = "none"
  <2>1. reason \in EndReason /\ (reason = "completed" <=> kill_reason = "none")
    BY DEF SessionInv, SessionTypeOK, EndReasonOf, EndReason, KillReason
  <2> HIDE DEF reason
  <2>2. row \in JournalRow
    BY <2>1, RowTypes DEF ProcessTypeOK
  <2>3. QED
    BY <2>1, <2>2 DEF EndRow, IsStart
<1>2. /\ pc \in {"finally", "unwinding"} /\ pc' \in Stopped
      /\ UNCHANGED <<kill_reason, forced>>
      /\ ~forced
      /\ Write(<<row>>)
  BY DEF Finish, StageAtEnd, riskVars, processVars, Stopped, SessionRow, TaleInv
<1>3. /\ JournalTypeOK /\ journal \in Seq(JournalRow) /\ Shape(journal)
      /\ ~HasEvent(journal, "session_end")
  BY <1>2 DEF SessionInv, JournalTypeOK, TaleInv, Stopped
<1> HIDE DEF row
<1>4. CASE ~jdisabled /\ journal' = Append(journal, row)
  <2>1. Shape(journal') /\ journal' # <<>>
    BY <1>1, <1>2, <1>3, <1>4, ShapeAppend, AddedRow DEF TaleInv
  <2>2. HasEvent(journal', "kill") <=> HasEvent(journal, "kill")
    BY <1>1, <1>3, <1>4, HasEventAppend
  <2>3. HasEvent(journal, "kill") <=> kill_reason # "none"
    BY <1>2, <1>4 DEF TaleInv
  <2>4. EndsWell(journal')
    <3> SUFFICES ASSUME NEW n \in DOMAIN journal',
                        journal'[n].event = "session_end"
                 PROVE  /\ n = Len(journal')
                        /\ journal'[n].reason = "completed"
                             <=> ~HasEvent(journal', "kill")
      BY DEF EndsWell
    <3>1. n \in 1..Len(journal) \/ n = Len(journal) + 1
      BY <1>1, <1>3, <1>4, AddedRow
    <3>2. n \notin 1..Len(journal)
      BY <1>1, <1>3, <1>4, AddedRow DEF HasEvent
    <3>3. n = Len(journal') /\ journal'[n] = row
      BY <1>1, <1>3, <1>4, <3>1, <3>2, AddedRow
    <3>4. QED
      BY <1>1, <2>2, <2>3, <3>3
  <2>5. QED
    BY <1>2, <2>1, <2>2, <2>3, <2>4 DEF TaleInv, Stopped
<1>5. CASE ~jdisabled /\ jdisabled' /\ journal' = Append(journal, TornRow)
  <2>1. Shape(journal') /\ ~HasEvent(journal', "session_end")
    BY <1>3, <1>5, TornTale
  <2>2. EndsWell(journal')
    BY <2>1 DEF EndsWell, HasEvent
  <2>3. QED
    BY <1>2, <1>5, <2>1, <2>2 DEF TaleInv, Stopped
<1>6. CASE jdisabled' /\ journal' = journal
  <2>1. EndsWell(journal')
    BY <1>3, <1>6 DEF EndsWell, HasEvent
  <2>2. QED
    BY <1>2, <1>6, <2>1 DEF TaleInv, Stopped
<1>7. QED
  BY <1>1, <1>3, <1>4, <1>5, <1>6, <1>2, WriteUntorn

LEMMA BookFillTale ==
    ASSUME SessionInv, ProcessTypeOK, TaleInv, ~jdisabled => Untorn(journal),
           UNCHANGED <<forced, kill_reason>>, NEW fill \in Fill, BookFill(fill),
           pc \notin {"start", "kill"} \cup Stopped,
           pc' \notin {"start", "kill"} \cup Stopped
    PROVE  TaleInv'
<1> DEFINE row == FillRow(session_id, fill)
<1>1. row \in JournalRow /\ row.event = "fill"
  <2>1. row \in JournalRow
    BY RowTypes DEF ProcessTypeOK
  <2>2. QED
    BY <2>1 DEF FillRow
<1>2. Write(<<row>>)
  BY DEF BookFill
<1> HIDE DEF row
<1>3. QED
  BY <1>1, <1>2, TaleKeptByRow DEF SessionInv

LEMMA RejectOrderTale ==
    ASSUME SessionInv, ProcessTypeOK, TaleInv, ~jdisabled => Untorn(journal),
           UNCHANGED processVars, RejectOrder
    PROVE  TaleInv'
<1> DEFINE row == RejectRow(session_id, Head(queue).side, Head(queue).qty)
<1>1. row \in JournalRow /\ row.event = "reject"
  <2>1. Head(queue) \in Order
    BY DecisionType DEF SessionInv, RejectOrder
  <2>2. row \in JournalRow
    BY <2>1, RowTypes DEF Order, ProcessTypeOK
  <2>3. QED
    BY <2>2 DEF RejectRow
<1>2. /\ pc = "orders" /\ pc' \in {"orders", "kill"}
      /\ pc' = "kill" => kill_reason' \in KillReason
      /\ pc' # "kill" => UNCHANGED kill_reason
      /\ Write(<<row>>)
  BY DecisionType DEF RejectOrder, SessionInv
<1>3. "none" \notin KillReason
  BY DEF KillReason
<1> HIDE DEF row
<1>4. QED
  BY <1>1, <1>2, <1>3, TaleKeptByRow DEF SessionInv, processVars, Stopped

LEMMA BrokerRejectsTale ==
    ASSUME SessionInv, ProcessTypeOK, TaleInv, ~jdisabled => Untorn(journal),
           UNCHANGED processVars, BrokerRejects
    PROVE  TaleInv'
<1> DEFINE row == RejectRow(session_id, adj.side, adj.qty)
<1>1. row \in JournalRow /\ row.event = "reject"
  <2>1. adj \in Order
    BY DEF SessionInv, StageInv, BrokerRejects, Submitted
  <2>2. row \in JournalRow
    BY <2>1, RowTypes DEF Order, ProcessTypeOK
  <2>3. QED
    BY <2>2 DEF RejectRow
<1>2. /\ pc = "submit" /\ pc' = "orders" /\ UNCHANGED kill_reason
      /\ Write(<<row>>)
  BY DEF BrokerRejects, Submitted, riskVars
<1> HIDE DEF row
<1>3. QED
  BY <1>1, <1>2, TaleKeptByRow DEF SessionInv, processVars, Stopped

LEMMA EndBarTale ==
    ASSUME SessionInv, ProcessTypeOK, TaleInv, ~jdisabled => Untorn(journal),
           UNCHANGED processVars, EndBar
    PROVE  TaleInv'
<1> DEFINE one == HeartbeatRow(session_id, Equity(pf, mark))
           two == EquityRow(session_id, Equity(pf, mark), BarIndex)
<1>1. /\ one \in JournalRow /\ one.event = "heartbeat"
      /\ two \in JournalRow /\ two.event = "equity"
  <2>1. Equity(pf, mark) \in Int /\ BarIndex \in Nat
    BY SessionAssumption, EquityType
    DEF SessionInv, SessionTypeOK, ProcessTypeOK, StageInv, EndBar, BarIndex
  <2>2. one \in JournalRow /\ two \in JournalRow
    BY <2>1, RowTypes DEF ProcessTypeOK
  <2>3. QED
    BY <2>2 DEF HeartbeatRow, EquityRow
<1>2. /\ pc = "orders" /\ pc' \in {"feed", "finally"}
      /\ UNCHANGED <<forced, kill_reason>>
      /\ Write(HeartbeatRows(Equity(pf, mark)))
  BY DEF EndBar, StageAfterBar, riskVars, processVars
<1>3. CASE HeartbeatDue
  <2>1. Write(<<one, two>>)
    BY <1>2, <1>3 DEF HeartbeatRows
  <2> HIDE DEF one, two
  <2>2. QED
    BY <1>1, <1>2, <2>1, TaleKeptByTwo DEF SessionInv, Stopped
<1>4. CASE ~HeartbeatDue
  <2>1. UNCHANGED journalVars
    BY <1>2, <1>4, WriteNothing DEF HeartbeatRows, SessionInv, journalVars
  <2>2. QED
    BY <1>2, <2>1, TaleKeptByNothing DEF Stopped
<1>5. QED
  BY <1>3, <1>4

LEMMA LoopStepTale ==
    ASSUME SessionInv, ProcessTypeOK, TaleInv, ~jdisabled => Untorn(journal),
           UNCHANGED processVars, LoopStep
    PROVE  TaleInv'
<1>1. CASE ApplyDelayed
  <2>1. Head(delayed) \in Fill
    BY <1>1 DEF SessionInv, SessionTypeOK, ApplyDelayed
  <2>2. BookFill(Head(delayed)) /\ pc = "delayed" /\ pc' = "delayed"
        /\ UNCHANGED <<forced, kill_reason>>
    BY <1>1 DEF ApplyDelayed, riskVars, processVars
  <2>3. QED
    BY <2>1, <2>2, BookFillTale DEF Stopped
<1>2. CASE RejectOrder
  BY <1>2, RejectOrderTale
<1>3. CASE RecordKill
  BY <1>3, RecordKillTale
<1>4. CASE EndBar
  BY <1>4, EndBarTale
<1>5. CASE Finish
  BY <1>5, FinishTale
<1>6. CASE \/ \E mid \in Prices, new_day \in BOOLEAN : NextBar(mid, new_day)
           \/ \E orders \in OrderLists : OnBar(orders)
           \/ StrategyRaises \/ Approve \/ FeedEnds
  <2>1. /\ UNCHANGED <<forced, journalVars, kill_reason>>
        /\ pc \in {"feed", "delayed", "orders"}
        /\ pc' \in {"poll", "orders", "unwinding", "submit", "finally"}
    BY <1>6 DEF NextBar, OnBar, StrategyRaises, Approve, FeedEnds, riskVars,
       processVars
  <2>2. QED
    BY <2>1, TaleKeptByNothing DEF Stopped
<1>7. CASE Terminated
  BY <1>7 DEF Terminated, TaleInv, sessionVars, riskVars, journalVars, processVars
<1>8. QED
  BY <1>1, <1>2, <1>3, <1>4, <1>5, <1>6, <1>7 DEF LoopStep

LEMMA TaleStarts ==
    ASSUME SessionInit, JournalInit
    PROVE  TaleInv
<1>1. journal = <<>> /\ DOMAIN journal = {} /\ pc = "start"
      /\ forced = FALSE /\ kill_reason = "none"
  BY DEF SessionInit, JournalInit
<1>2. QED
  BY <1>1 DEF TaleInv, Shape, HasEvent, Stopped

LEMMA TaleIsTold ==
    ASSUME TaleInv
    PROVE  JournalTellsSession
<1> SUFFICES ASSUME NEW n \in DOMAIN journal
             PROVE  /\ journal[n].event # "torn" => IsStart(journal[n]) = (n = 1)
                    /\ journal[n].event = "kill" => journal[n - 1].event = "reject"
                    /\ journal[n].event = "session_end" =>
                          /\ n = Len(journal) /\ pc \in Stopped
                          /\ (journal[n].reason = "completed")
                               = (\A m \in DOMAIN journal : journal[m].event # "kill")
  BY DEF JournalTellsSession
<1>1. Shape(journal)
  BY DEF TaleInv
<1>2. journal[n].event = "session_end" => pc \in Stopped /\ EndsWell(journal)
  BY DEF TaleInv, HasEvent
<1>3. ~HasEvent(journal, "kill") <=> \A m \in DOMAIN journal : journal[m].event # "kill"
  BY DEF HasEvent
<1>4. QED
  BY <1>1, <1>2, <1>3 DEF Shape, EndsWell

(***************************************************************************)
(* The curve and its rows, for a session that starts at the first bar.     *)
(***************************************************************************)
InBar == {"poll", "delayed", "orders", "kill", "submit"}

\* On says of a row of a file that it repeats a point of a curve.
OnCurve(row, curve) ==
    row.event = "equity" => /\ row.bar_i + 2 \in DOMAIN curve
                            /\ row.equity = curve[row.bar_i + 2]

\* The invariant behind EquityRowsMatchCurve: inside a bar its own point is the
\* next one of the curve.
CurveInv ==
    /\ \A n \in DOMAIN journal : OnCurve(journal[n], equity)
    /\ start_index = 0
    /\ pc \in {"start", "feed"} => Len(equity) = bar_count + 1
    /\ pc \in InBar => Len(equity) = bar_count

LEMMA OnCurveAppend ==
    ASSUME NEW rows \in Seq(JournalRow), NEW row \in JournalRow, NEW curve,
           \A n \in DOMAIN rows : OnCurve(rows[n], curve), OnCurve(row, curve)
    PROVE  \A n \in DOMAIN Append(rows, row) : OnCurve(Append(rows, row)[n], curve)
<1> DEFINE longer == Append(rows, row)
           m == Len(rows)
<1>1. /\ m \in Nat
      /\ DOMAIN rows = 1..m
      /\ DOMAIN longer = 1..(m + 1)
      /\ longer[m + 1] = row
      /\ \A n \in 1..m : longer[n] = rows[n]
  BY AddedRow
<1> HIDE DEF longer, m
<1>2. 1..(m + 1) = (1..m) \cup {m + 1}
  BY <1>1
<1>3. \A n \in DOMAIN longer : OnCurve(longer[n], curve)
  BY <1>1, <1>2
<1>4. QED
  BY <1>3 DEF longer

LEMMA TornOnCurve ==
    ASSUME NEW curve
    PROVE  /\ TornRow \in JournalRow /\ OnCurve(TornRow, curve)
           /\ OnCurve(LostRow, curve)
BY DEF JournalRow, TornRow, LostRow, OnCurve

LEMMA CurveKeptByOther ==
    ASSUME SessionInv, CurveInv, UNCHANGED <<start_index, equity>>,
           NEW row \in JournalRow, row.event # "equity",
           Write(<<row>>) \/ UNCHANGED journalVars,
           pc' \in {"start", "feed"} => Len(equity) = bar_count' + 1,
           pc' \in InBar => Len(equity) = bar_count'
    PROVE  CurveInv'
<1>0. PICK first \in JournalRow : first = Continued(row) /\ first \in {row, LostRow}
  BY ContinuedIs
<1>1. OnCurve(first, equity) /\ OnCurve(TornRow, equity) /\ TornRow \in JournalRow
  BY <1>0, TornOnCurve DEF OnCurve
<1>2. journal' \in {journal, Append(journal, first), Append(journal, TornRow)}
  BY <1>0, WriteRow DEF SessionInv, journalVars
<1>3. \A n \in DOMAIN journal' : OnCurve(journal'[n], equity)
  BY <1>1, <1>2, OnCurveAppend DEF CurveInv, SessionInv, JournalTypeOK
<1>4. QED
  BY <1>3 DEF CurveInv

LEMMA EndBarCurve ==
    ASSUME SessionInv, ProcessTypeOK, CurveInv, UNCHANGED processVars, EndBar
    PROVE  CurveInv'
<1> DEFINE point == Equity(pf, mark)
           one == HeartbeatRow(session_id, point)
           two == EquityRow(session_id, point, BarIndex)
<1>1. /\ one \in JournalRow /\ one.event = "heartbeat"
      /\ two \in JournalRow /\ two.event = "equity"
      /\ two.bar_i = BarIndex /\ two.equity = point
  <2>1. point \in Int /\ BarIndex \in Nat
    BY SessionAssumption, EquityType
    DEF SessionInv, SessionTypeOK, ProcessTypeOK, StageInv, EndBar, BarIndex
  <2>2. one \in JournalRow /\ two \in JournalRow
    BY <2>1, RowTypes DEF ProcessTypeOK
  <2>3. QED
    BY <2>2 DEF HeartbeatRow, EquityRow
<1>2. /\ equity \in Seq(Int) /\ point \in Int /\ bar_count \in Nat
      /\ JournalTypeOK /\ journal \in Seq(JournalRow)
  BY SessionAssumption, EquityType DEF SessionInv, SessionTypeOK, JournalTypeOK
<1>3. /\ pc = "orders" /\ pc' \in {"feed", "finally"}
      /\ UNCHANGED <<bar_count, start_index>>
      /\ equity' = Append(equity, point)
      /\ Write(HeartbeatRows(point))
  BY DEF EndBar, StageAfterBar, barVars, processVars
<1>4. Len(equity) = bar_count /\ BarIndex = bar_count - 1
  BY <1>2, <1>3 DEF CurveInv, BarIndex, InBar
<1> HIDE DEF point
<1>5. /\ Len(equity') = bar_count + 1
      /\ DOMAIN equity' = 1..(bar_count + 1)
      /\ DOMAIN equity = 1..bar_count
      /\ equity'[bar_count + 1] = point
      /\ \A n \in DOMAIN equity : n \in DOMAIN equity' /\ equity'[n] = equity[n]
  BY <1>2, <1>3, <1>4
<1>6. \A n \in DOMAIN journal : OnCurve(journal[n], equity')
  BY <1>5 DEF CurveInv, OnCurve
<1>7. OnCurve(two, equity')
  <2>1. two.bar_i + 2 = bar_count + 1
    BY <1>1, <1>2, <1>4
  <2>2. QED
    BY <1>1, <1>2, <1>5, <2>1 DEF OnCurve
<1>0. PICK first \in JournalRow : first = Continued(one) /\ first \in {one, LostRow}
  BY <1>1, ContinuedIs
<1>8. OnCurve(first, equity')
  BY <1>0, <1>1, TornOnCurve DEF OnCurve
<1>9. TornRow \in JournalRow /\ OnCurve(TornRow, equity')
  BY TornOnCurve
<1>10. \A n \in DOMAIN journal' : OnCurve(journal'[n], equity')
  <2>1. CASE HeartbeatDue
    <3>1. Write(<<one, two>>)
      BY <1>3, <2>1 DEF HeartbeatRows
    <3> DEFINE half == Append(journal, first)
    <3> HIDE DEF one, two
    <3>2. journal' \in {journal, Append(journal, TornRow), half,
                        Append(half, TornRow), Append(half, two)}
      BY <1>0, <1>1, <1>2, <3>1, WriteTwo DEF JournalTypeOK
    <3>3. /\ half \in Seq(JournalRow)
          /\ \A n \in DOMAIN half : OnCurve(half[n], equity')
      BY <1>1, <1>2, <1>6, <1>8, AddedRow, OnCurveAppend
    <3> HIDE DEF half
    <3>4. \A n \in DOMAIN Append(journal, TornRow) :
            OnCurve(Append(journal, TornRow)[n], equity')
      BY <1>1, <1>2, <1>6, <1>7, <1>9, OnCurveAppend
    <3>5. /\ \A n \in DOMAIN Append(half, TornRow) :
               OnCurve(Append(half, TornRow)[n], equity')
          /\ \A n \in DOMAIN Append(half, two) :
               OnCurve(Append(half, two)[n], equity')
      BY <1>1, <1>7, <1>9, <3>3, OnCurveAppend
    <3>6. QED
      BY <1>6, <3>2, <3>3, <3>4, <3>5
  <2>2. CASE ~HeartbeatDue
    <3>1. journal' = journal
      BY <1>2, <1>3, <2>2, WriteNothing DEF HeartbeatRows
    <3>2. QED
      BY <1>6, <3>1
  <2>3. QED
    BY <2>1, <2>2
<1>11. QED
  BY <1>3, <1>5, <1>10 DEF CurveInv, InBar

LEMMA StartCurve ==
    ASSUME SessionInv, ProcessTypeOK, CurveInv, UNCHANGED processVars,
           NEW up \in BOOLEAN, NEW mode \in Mode, Start(up, mode)
    PROVE  CurveInv'
<1> DEFINE row == StartRow(session_id, StartingCash, mode)
<1>1. row \in JournalRow /\ row.event # "equity"
  <2>1. row \in JournalRow
    BY SessionAssumption, RowTypes DEF ProcessTypeOK
  <2>2. QED
    BY <2>1 DEF StartRow
<1>2. /\ UNCHANGED <<start_index, equity, bar_count>>
      /\ Write(SessionRow(row))
      /\ pc = "start" /\ pc' = "feed"
  BY DEF Start, barVars, processVars
<1>3. Write(<<row>>) \/ UNCHANGED journalVars
  BY <1>2, WriteNothing DEF SessionRow, SessionInv, journalVars
<1>4. Len(equity) = bar_count' + 1
  BY <1>2 DEF CurveInv
<1> HIDE DEF row
<1>5. (pc' \in InBar) = FALSE
  BY <1>2 DEF InBar
<1>6. QED
  BY <1>1, <1>2, <1>3, <1>4, <1>5, CurveKeptByOther

\* A fill and a refusal leave the bar and its stage's place in it.
LEMMA RowInBarCurve ==
    ASSUME SessionInv, CurveInv, UNCHANGED <<start_index, equity, bar_count>>,
           NEW row \in JournalRow, row.event # "equity", Write(<<row>>),
           pc \in InBar, pc' \in InBar
    PROVE  CurveInv'
<1>1. Len(equity) = bar_count'
  BY DEF CurveInv
<1>2. (pc' \in {"start", "feed"}) = FALSE
  BY DEF InBar
<1>3. QED
  BY <1>1, <1>2, CurveKeptByOther

LEMMA BookFillCurve ==
    ASSUME SessionInv, ProcessTypeOK, CurveInv,
           UNCHANGED <<start_index, equity, bar_count>>,
           NEW fill \in Fill, BookFill(fill), pc \in InBar, pc' \in InBar
    PROVE  CurveInv'
<1> DEFINE row == FillRow(session_id, fill)
<1>1. row \in JournalRow /\ row.event # "equity"
  <2>1. row \in JournalRow
    BY RowTypes DEF ProcessTypeOK
  <2>2. QED
    BY <2>1 DEF FillRow
<1>2. Write(<<row>>)
  BY DEF BookFill
<1> HIDE DEF row
<1>3. QED
  BY <1>1, <1>2, RowInBarCurve

LEMMA RefusalCurve ==
    ASSUME SessionInv, ProcessTypeOK, CurveInv, UNCHANGED processVars,
           RejectOrder \/ BrokerRejects
    PROVE  CurveInv'
<1>1. PICK side \in Side, qty \in Nat \ {0} : Write(<<RejectRow(session_id, side, qty)>>)
  <2>1. CASE RejectOrder
    <3>1. Head(queue) \in Order
      BY <2>1 DEF SessionInv, SessionTypeOK, RejectOrder
    <3>2. QED
      BY <2>1, <3>1 DEF RejectOrder, Order
  <2>2. CASE BrokerRejects
    <3>1. adj \in Order
      BY <2>2 DEF SessionInv, StageInv, BrokerRejects, Submitted
    <3>2. QED
      BY <2>2, <3>1 DEF BrokerRejects, Order
  <2>3. QED
    BY <2>1, <2>2
<1> DEFINE row == RejectRow(session_id, side, qty)
<1>2. row \in JournalRow /\ row.event # "equity"
  <2>1. row \in JournalRow
    BY RowTypes DEF ProcessTypeOK
  <2>2. QED
    BY <2>1 DEF RejectRow
<1>3. /\ UNCHANGED <<start_index, equity, bar_count>>
      /\ pc \in InBar /\ pc' \in InBar
      /\ Write(<<row>>)
  BY <1>1 DEF RejectOrder, BrokerRejects, Submitted, barVars, processVars, InBar
<1> HIDE DEF row
<1>4. QED
  BY <1>2, <1>3, RowInBarCurve

LEMMA RecordKillCurve ==
    ASSUME SessionInv, ProcessTypeOK, CurveInv, UNCHANGED processVars, RecordKill
    PROVE  CurveInv'
<1> DEFINE row == KillRow(session_id, kill_reason)
<1>1. row \in JournalRow /\ row.event # "equity"
  <2>1. kill_reason \in EndReason
    BY DEF SessionInv, SessionTypeOK, StageInv, RecordKill, KillReason, EndReason
  <2>2. row \in JournalRow
    BY <2>1, RowTypes DEF ProcessTypeOK
  <2>3. QED
    BY <2>2 DEF KillRow
<1>2. /\ UNCHANGED <<start_index, equity, bar_count>>
      /\ pc \in InBar /\ pc' \in InBar
      /\ Write(<<row>>)
  BY DEF RecordKill, barVars, processVars, InBar
<1> HIDE DEF row
<1>3. QED
  BY <1>1, <1>2, RowInBarCurve

LEMMA FinishCurve ==
    ASSUME SessionInv, ProcessTypeOK, CurveInv, UNCHANGED processVars, Finish
    PROVE  CurveInv'
<1> DEFINE row == EndRow(session_id, EndReasonOf(kill_reason))
<1>1. row \in JournalRow /\ row.event # "equity"
  <2>1. EndReasonOf(kill_reason) \in EndReason
    BY DEF SessionInv, SessionTypeOK, EndReasonOf, EndReason, KillReason
  <2>2. row \in JournalRow
    BY <2>1, RowTypes DEF ProcessTypeOK
  <2>3. QED
    BY <2>2 DEF EndRow
<1>2. /\ UNCHANGED <<start_index, equity>>
      /\ Write(SessionRow(row))
      /\ pc' \in {"done", "raised"}
  BY DEF Finish, StageAtEnd, processVars
<1>3. Write(<<row>>) \/ UNCHANGED journalVars
  BY <1>2, WriteNothing DEF SessionRow, SessionInv, journalVars
<1> HIDE DEF row
<1>4. (pc' \in {"start", "feed"}) = FALSE /\ (pc' \in InBar) = FALSE
  BY <1>2 DEF InBar
<1>5. QED
  BY <1>1, <1>2, <1>3, <1>4, CurveKeptByOther

LEMMA CurveKeptByNothing ==
    ASSUME CurveInv, UNCHANGED <<journalVars, start_index, equity>>,
           pc' \in {"start", "feed"} => Len(equity) = bar_count' + 1,
           pc' \in InBar => Len(equity) = bar_count'
    PROVE  CurveInv'
BY DEF CurveInv, journalVars

LEMMA NextBarCurve ==
    ASSUME CurveInv, NEW mid, NEW new_day, NextBar(mid, new_day),
           UNCHANGED processVars
    PROVE  CurveInv'
<1>1. /\ UNCHANGED <<journalVars, start_index, equity>>
      /\ pc = "feed" /\ pc' = "poll"
      /\ bar_count' = bar_count + 1
  BY DEF NextBar, processVars
<1>2. Len(equity) = bar_count'
  BY <1>1 DEF CurveInv
<1>3. (pc' \in {"start", "feed"}) = FALSE
  BY <1>1
<1>4. QED
  BY <1>1, <1>2, <1>3, CurveKeptByNothing

LEMMA LoopStepCurve ==
    ASSUME SessionInv, ProcessTypeOK, CurveInv, UNCHANGED processVars, LoopStep
    PROVE  CurveInv'
<1>1. CASE ApplyDelayed
  <2>1. Head(delayed) \in Fill
    BY <1>1 DEF SessionInv, SessionTypeOK, ApplyDelayed
  <2>2. /\ BookFill(Head(delayed))
        /\ pc \in InBar /\ pc' \in InBar
        /\ UNCHANGED <<start_index, equity, bar_count>>
    BY <1>1 DEF ApplyDelayed, processVars, InBar
  <2>3. QED
    BY <2>1, <2>2, BookFillCurve
<1>2. CASE RejectOrder
  BY <1>2, RefusalCurve
<1>3. CASE RecordKill
  BY <1>3, RecordKillCurve
<1>4. CASE EndBar
  BY <1>4, EndBarCurve
<1>5. CASE Finish
  BY <1>5, FinishCurve
<1>6. CASE \E mid \in Prices, new_day \in BOOLEAN : NextBar(mid, new_day)
  BY <1>6, NextBarCurve
<1>7. CASE \/ \E orders \in OrderLists : OnBar(orders)
           \/ StrategyRaises \/ Approve \/ FeedEnds \/ Terminated
  <2>1. /\ UNCHANGED <<journalVars, start_index, equity, bar_count>>
        /\ \/ pc \in InBar /\ pc' \in InBar
           \/ pc' \in {"unwinding", "finally"} \cup Stopped
    BY <1>7 DEF OnBar, StrategyRaises, Approve, FeedEnds, Terminated, InBar,
       barVars, processVars, sessionVars
  <2>2. pc' \in InBar => Len(equity) = bar_count'
    BY <2>1 DEF CurveInv, InBar, Stopped
  <2>3. (pc' \in {"start", "feed"}) = FALSE
    BY <2>1 DEF InBar, Stopped
  <2>4. QED
    BY <2>1, <2>2, <2>3, CurveKeptByNothing
<1>8. QED
  BY <1>1, <1>2, <1>3, <1>4, <1>5, <1>6, <1>7 DEF LoopStep

LEMMA CurveStarts ==
    ASSUME SessionInit, JournalInit
    PROVE  CurveInv
<1>1. /\ journal = <<>> /\ DOMAIN journal = {}
      /\ pc = "start" /\ bar_count = 0 /\ start_index = 0
      /\ equity = <<StartingCash>> /\ Len(equity) = 1
  BY DEF SessionInit, JournalInit
<1>2. QED
  BY <1>1 DEF CurveInv, InBar

LEMMA CurveIsMatched ==
    ASSUME CurveInv
    PROVE  EquityRowsMatchCurve
BY DEF CurveInv, OnCurve, EquityRowsMatchCurve
==============================================================================
