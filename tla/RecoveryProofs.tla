---------------------------- MODULE RecoveryProofs ----------------------------
(***************************************************************************)
(* The file the sessions of one mode share and the processes that write    *)
(* it, for any number of sessions and processes, crashes at any step and   *)
(* every configuration, strategy and frame.                                *)
(***************************************************************************)
EXTENDS Recovery, PaperSessionProofs

(***************************************************************************)
(* What a step adds to the file.                                           *)
(***************************************************************************)
\* A write adds rows at the end, of those it was given and torn ones.
LEMMA WriteExtends ==
    ASSUME JournalTypeOK, NEW S \in SUBSET JournalRow, TornRow \in S, LostRow \in S,
           NEW rows \in Seq(S), Write(rows)
    PROVE  /\ DOMAIN journal \subseteq DOMAIN journal'
           /\ \A n \in DOMAIN journal : journal'[n] = journal[n]
           /\ \A n \in DOMAIN journal' : n \notin DOMAIN journal => journal'[n] \in S
<1>1. ASSUME NEW tail \in Seq(S), tail # <<>>
      PROVE  <<Continued(tail[1])>> \o Tail(tail) \in Seq(S)
  <2>1. tail[1] \in S /\ Tail(tail) \in Seq(S)
    BY <1>1
  <2>2. PICK first \in S : first = Continued(tail[1])
    BY <2>1 DEF Continued
  <2>3. <<first>> \o Tail(tail) \in Seq(S)
    BY <2>1
  <2>4. QED
    BY <2>2, <2>3
<1>2. \A tail \in Seq(S) : \E more \in Seq(S) : Appended(tail) = journal \o more
  <2> <<>> \in Seq(S)
    OBVIOUS
  <2> QED
    BY <1>1 DEF Appended
<1>3. \E tail \in Seq(S) : journal' = journal \o tail
  <2>1. CASE AppendAll(rows)
    BY <2>1, <1>2 DEF AppendAll
  <2>2. CASE AppendSome(rows)
    <3>1. PICK written \in 0..Len(rows), rest \in {<<>>, <<TornRow>>} :
            journal' = Appended(SubSeq(rows, 1, written) \o rest)
      BY <2>2 DEF AppendSome, LosesSome
    <3>2. SubSeq(rows, 1, written) \in Seq(S)
      BY <3>1
    <3>3. rest \in Seq(S)
      <4>1. <<>> \in Seq(S) /\ <<TornRow>> \in Seq(S)
        OBVIOUS
      <4>2. QED
        BY <3>1, <4>1
    <3>4. SubSeq(rows, 1, written) \o rest \in Seq(S)
      BY <3>2, <3>3
    <3>5. QED
      BY <3>1, <3>4, <1>2
  <2>3. CASE jdisabled /\ UNCHANGED journalVars
    <3>1. <<>> \in Seq(S) /\ journal \o <<>> = journal
      BY DEF JournalTypeOK
    <3>2. QED
      BY <2>3, <3>1 DEF journalVars
  <2>4. QED
    BY <2>1, <2>2, <2>3 DEF Write
<1>4. PICK tail \in Seq(S) : journal' = journal \o tail
  BY <1>3
<1>5. journal \in Seq(JournalRow) /\ tail \in Seq(JournalRow)
  BY DEF JournalTypeOK
<1>6. /\ Len(journal') = Len(journal) + Len(tail)
      /\ DOMAIN journal = 1..Len(journal) /\ DOMAIN tail = 1..Len(tail)
      /\ DOMAIN journal' = 1..(Len(journal) + Len(tail))
      /\ Len(journal) \in Nat /\ Len(tail) \in Nat
  BY <1>4, <1>5
<1>7. ASSUME NEW n \in DOMAIN journal', n \notin DOMAIN journal
      PROVE  journal'[n] \in S
  <2>1. n - Len(journal) \in DOMAIN tail
    BY <1>6, <1>7
  <2>2. journal'[n] = tail[n - Len(journal)]
    BY <1>4, <1>5, <1>6, <1>7
  <2>3. QED
    BY <2>1, <2>2
<1>8. QED
  BY <1>4, <1>5, <1>6, <1>7

LEMMA NothingIsWritten ==
    ASSUME JournalTypeOK, UNCHANGED journalVars
    PROVE  Write(<<>>)
<1>1. Appended(<<>>) = journal
  BY DEF Appended, JournalTypeOK
<1>2. QED
  BY <1>1 DEF Write, AppendAll, journalVars, JournalTypeOK

\* The rows a step may write, by what the session knows when it does.
Tellable ==
    {row \in JournalRow :
         /\ row.event # "torn"
         /\ row.sid = session_id
         /\ row.event = "session_start" =>
              pc = "start" /\ ~forced /\ row.mode = ModeOf(broker)
         /\ row.event = "fill" => broker = "paper" /\ ~killed
         /\ row.event = "kill" => pc = "kill"
         /\ row.event = "equity" => /\ pc = "orders"
                                    /\ row.bar_i = BarIndex
                                    /\ row.equity = Equity(pf, mark)}

\* What a step may leave in the file: such a row, or what becomes of it.
Writable == Tellable \cup {TornRow, LostRow}

LEMMA TornIsWritable ==
    /\ Writable \in SUBSET JournalRow
    /\ TornRow \in Writable /\ LostRow \in Writable
BY DEF Writable, Tellable, JournalRow, TornRow, LostRow

LEMMA StepWrites ==
    ASSUME IndInv, delayed = <<>>, Step
    PROVE  \/ Write(<<>>)
           \/ \E row \in Tellable : Write(<<row>>)
           \/ \E one, two \in Tellable :
                /\ one.event = "heartbeat" /\ two.event = "equity"
                /\ Write(<<one, two>>)
<1>1. SessionInv /\ session_id \in Nat /\ JournalTypeOK
  BY DEF IndInv, ProcessTypeOK, SessionInv
<1>2. ASSUME NEW row \in Tellable, Write(<<row>>) \/ Write(SessionRow(row))
      PROVE  Write(<<>>) \/ Write(<<row>>)
  BY <1>2 DEF SessionRow
<1>3. CASE UNCHANGED journalVars
  BY <1>1, <1>3, NothingIsWritten
<1>4. CASE Start(TRUE, ModeOf(broker))
  <2> DEFINE row == StartRow(session_id, StartingCash, ModeOf(broker))
  <2>0. ModeOf(broker) \in Mode /\ StartingCash \in Int
    BY SessionAssumption DEF ModeOf, Mode
  <2>1. row \in JournalRow
    BY <1>1, <2>0, RowTypes
  <2>2. CASE ~forced
    <3>1. row \in Tellable
      BY <1>4, <2>1, <2>2 DEF Tellable, StartRow, Start
    <3> HIDE DEF row
    <3>2. QED
      BY <1>2, <1>4, <3>1 DEF Start, row
  <2>3. CASE forced
    BY <1>1, <1>4, <2>3 DEF Start, SessionRow
  <2>4. QED
    BY <2>2, <2>3
<1>5. CASE BrokerFills(PaperFill) /\ broker = "paper"
  <2> DEFINE row == FillRow(session_id, PaperFill)
  <2>1. adj \in Order /\ mark \in Int
    BY <1>5 DEF IndInv, SessionInv, SessionTypeOK, StageInv, BrokerFills, Submitted
  <2>2. PaperFill \in Fill
    BY <2>1, AdvType, ExecuteType DEF PaperFill
  <2>3. row \in JournalRow
    BY <1>1, <2>2, RowTypes
  <2>7. ~killed
    BY <1>1, <1>5, KilledStage DEF BrokerFills, Submitted
  <2>4. row \in Tellable
    BY <1>5, <2>3, <2>7 DEF Tellable, FillRow
  <2>5. Write(<<row>>)
    BY <1>5 DEF BrokerFills, BookFill
  <2> HIDE DEF row
  <2>6. QED
    BY <1>2, <2>4, <2>5
<1>6. CASE BrokerRejects \/ RejectOrder
  <2>1. PICK side \in Side, qty \in Nat \ {0} :
          Write(<<RejectRow(session_id, side, qty)>>)
    <3>1. CASE RejectOrder
      <4>1. Head(queue) \in Order
        BY <1>1, <3>1 DEF SessionInv, SessionTypeOK, RejectOrder
      <4>2. QED
        BY <3>1, <4>1 DEF RejectOrder, Order
    <3>2. CASE BrokerRejects
      <4>1. adj \in Order
        BY <1>1, <3>2 DEF SessionInv, StageInv, BrokerRejects, Submitted
      <4>2. QED
        BY <3>2, <4>1 DEF BrokerRejects, Order
    <3>3. QED
      BY <1>6, <3>1, <3>2
  <2> DEFINE row == RejectRow(session_id, side, qty)
  <2>2. row \in JournalRow
    BY <1>1, RowTypes
  <2>3. row \in Tellable
    BY <2>2 DEF Tellable, RejectRow
  <2>4. Write(<<row>>)
    BY <2>1
  <2> HIDE DEF row
  <2>5. QED
    BY <1>2, <2>3, <2>4
<1>7. CASE RecordKill
  <2> DEFINE row == KillRow(session_id, kill_reason)
  <2>1. kill_reason \in EndReason
    BY <1>1, <1>7 DEF SessionInv, SessionTypeOK, StageInv, RecordKill, KillReason,
       EndReason
  <2>2. row \in JournalRow
    BY <1>1, <2>1, RowTypes
  <2>3. row \in Tellable
    BY <1>7, <2>2 DEF Tellable, KillRow, RecordKill
  <2>4. Write(<<row>>)
    BY <1>7 DEF RecordKill
  <2> HIDE DEF row
  <2>5. QED
    BY <1>2, <2>3, <2>4
<1>8. CASE EndBar
  <2> DEFINE one == HeartbeatRow(session_id, Equity(pf, mark))
             two == EquityRow(session_id, Equity(pf, mark), BarIndex)
  <2>1. Equity(pf, mark) \in Int /\ BarIndex \in Nat
    BY <1>8, SessionAssumption, EquityType
    DEF IndInv, SessionInv, SessionTypeOK, ProcessTypeOK, StageInv, EndBar, BarIndex
  <2>2. one \in JournalRow /\ two \in JournalRow
    BY <1>1, <2>1, RowTypes
  <2>3. one \in Tellable /\ one.event = "heartbeat"
    BY <2>2 DEF Tellable, HeartbeatRow
  <2>4. two \in Tellable /\ two.event = "equity"
    BY <1>8, <2>2 DEF Tellable, EquityRow, EndBar
  <2>5. Write(<<one, two>>) \/ Write(<<>>)
    BY <1>8 DEF EndBar, HeartbeatRows
  <2> HIDE DEF one, two
  <2>6. QED
    BY <2>3, <2>4, <2>5
<1>9. CASE Finish
  <2> DEFINE row == EndRow(session_id, EndReasonOf(kill_reason))
  <2>1. EndReasonOf(kill_reason) \in EndReason
    BY <1>1 DEF SessionInv, SessionTypeOK, EndReasonOf, EndReason, KillReason
  <2>2. row \in JournalRow
    BY <1>1, <2>1, RowTypes
  <2>3. row \in Tellable
    BY <2>2 DEF Tellable, EndRow
  <2>4. Write(SessionRow(row))
    BY <1>9 DEF Finish
  <2> HIDE DEF row
  <2>5. QED
    BY <1>2, <2>3, <2>4
<1>10. CASE \/ PollFills(<<>>) \/ StrategyRaises \/ Approve \/ FeedEnds
            \/ Terminated
            \/ \E mid \in Prices, new_day \in BOOLEAN : NextBar(mid, new_day)
            \/ \E orders \in OrderLists : OnBar(orders)
  <2>1. UNCHANGED journalVars
    BY <1>10 DEF PollFills, StrategyRaises, Approve, FeedEnds, Terminated, NextBar,
       OnBar
  <2>2. QED
    BY <2>1, <1>3
<1>11. ~ApplyDelayed
  BY DEF ApplyDelayed
<1>12. QED
  BY <1>4, <1>5, <1>6, <1>7, <1>8, <1>9, <1>10, <1>11
  DEF Step, LoopStep, Submit, FillsAtOnce

\* What a step leaves of the file: all its rows, and after them rows it may
\* write.
LEMMA StepExtends ==
    ASSUME IndInv, delayed = <<>>, Step
    PROVE  /\ DOMAIN journal \subseteq DOMAIN journal'
           /\ \A n \in DOMAIN journal : journal'[n] = journal[n]
           /\ \A n \in DOMAIN journal' :
                n \notin DOMAIN journal => journal'[n] \in Writable
<1>1. \E rows \in Seq(Writable) : Write(rows)
  <2>1. /\ <<>> \in Seq(Writable)
        /\ \A row \in Writable : <<row>> \in Seq(Writable)
        /\ \A one, two \in Writable : <<one, two>> \in Seq(Writable)
    OBVIOUS
  <2>2. Tellable \subseteq Writable
    BY DEF Writable
  <2>3. QED
    BY <2>1, <2>2, StepWrites
<1>2. QED
  BY <1>1, TornIsWritable, WriteExtends DEF IndInv, SessionInv

(***************************************************************************)
(* What a replay says of the rows it read.                                 *)
(***************************************************************************)
LEMMA RestoreRowSays ==
    ASSUME NEW restored \in Restored, NEW row \in JournalRow
    PROVE  LET after == RestoreRow(restored, row)
           IN /\ after.killed <=> restored.killed \/ row.event = "kill"
              /\ after.state.kills
                   = IF row.event = "kill" THEN restored.state.kills + 1
                     ELSE restored.state.kills
              /\ after.state.peak_equity
                   = IF row.event = "equity"
                     THEN Greatest(restored.state.peak_equity, row.equity)
                     ELSE restored.state.peak_equity
              /\ after.last_bar_i = IF row.event = "equity" THEN row.bar_i
                                    ELSE restored.last_bar_i
<1> DEFINE after == RestoreRow(restored, row)
<1>1. CASE row.event = "fill"
  <2>1. ApplyFill(restored.state, row.fill).kills = restored.state.kills
        /\ ApplyFill(restored.state, row.fill).peak_equity
             = restored.state.peak_equity
    BY DEF ApplyFill, Restored, PortfolioState
  <2>2. /\ after.state = ApplyFill(restored.state, row.fill)
        /\ after.killed = restored.killed
        /\ after.last_bar_i = restored.last_bar_i
    BY <1>1 DEF RestoreRow, Restored
  <2>3. QED
    BY <1>1, <2>1, <2>2
<1>2. CASE row.event = "equity"
  <2>1. /\ after.state.kills = restored.state.kills
        /\ after.state.peak_equity
             = Greatest(restored.state.peak_equity, row.equity)
        /\ after.killed = restored.killed
        /\ after.last_bar_i = row.bar_i
    BY <1>2 DEF RestoreRow, Restored, PortfolioState
  <2>2. QED
    BY <1>2, <2>1
<1>3. CASE row.event = "kill"
  <2>1. /\ after.state.kills = restored.state.kills + 1
        /\ after.state.peak_equity = restored.state.peak_equity
        /\ after.killed = TRUE
        /\ after.last_bar_i = restored.last_bar_i
    BY <1>3 DEF RestoreRow, Restored, PortfolioState
  <2>2. QED
    BY <1>3, <2>1
<1>4. CASE row.event \notin {"fill", "equity", "kill"}
  <2>1. /\ after.state = restored.state
        /\ after.killed = restored.killed
        /\ after.last_bar_i = restored.last_bar_i
    BY <1>4 DEF RestoreRow, Restored
  <2>2. QED
    BY <1>4, <2>1
<1>5. QED
  BY <1>1, <1>2, <1>3, <1>4

IsRow(row, sid, kind) == row.event = kind /\ row.sid = sid

\* A replay is killed exactly when it counts a kill, and that is when the
\* session has a kill row.
LEMMA ReplayedKills ==
    ASSUME NEW rows \in Seq(JournalRow), NEW sid, NEW cash \in Int
    PROVE  LET restored == Replayed(rows, sid, cash)
           IN /\ restored.killed <=> restored.state.kills > 0
              /\ restored.killed
                   <=> \E n \in DOMAIN rows : IsRow(rows[n], sid, "kill")
<1> DEFINE m == Len(rows)
           after == Replay(rows, sid, cash)
           right == {n \in 0..m :
                       /\ after[n].killed <=> after[n].state.kills > 0
                       /\ after[n].killed
                            <=> \E k \in 1..n : IsRow(rows[k], sid, "kill")}
<1>1. /\ m \in Nat /\ DOMAIN rows = 1..m
      /\ \A n \in 1..m : rows[n] \in JournalRow
  OBVIOUS
<1>2. /\ after[0] = FreshRestored(cash)
      /\ \A n \in 1..m : after[n] = ReplayRow(after[n - 1], rows[n], sid)
      /\ \A n \in 0..m : after[n] \in Restored
  BY ReplayDef
<1> HIDE DEF m, after
<1>3. 0 \in right
  <2>1. after[0].killed = FALSE /\ after[0].state.kills = 0
    BY <1>2 DEF FreshRestored, FreshBook
  <2>2. QED
    BY <1>1, <2>1
<1>4. ASSUME NEW n \in 1..m, n - 1 \in right
      PROVE  n \in right
  <2> DEFINE before == after[n - 1]
  <2>1. /\ rows[n] \in JournalRow /\ before \in Restored
        /\ after[n] = ReplayRow(before, rows[n], sid)
        /\ before.state.kills \in Nat
        /\ 1..n = (1..(n - 1)) \cup {n}
    <3>1. /\ n - 1 \in 0..m
          /\ 1..n = (1..(n - 1)) \cup {n}
      BY <1>1
    <3>2. before \in Restored /\ before.state.kills \in Nat
      BY <1>2, <3>1 DEF Restored, PortfolioState
    <3>3. QED
      BY <1>1, <1>2, <3>1, <3>2
  <2>2. /\ before.killed <=> before.state.kills > 0
        /\ before.killed <=> \E k \in 1..(n - 1) : IsRow(rows[k], sid, "kill")
    BY <1>4
  <2> HIDE DEF before
  <2>3. CASE OfSession(rows[n], sid)
    <3>1. after[n] = RestoreRow(before, rows[n])
      BY <2>1, <2>3 DEF ReplayRow
    <3>2. /\ after[n].killed <=> before.killed \/ rows[n].event = "kill"
          /\ after[n].state.kills
               = IF rows[n].event = "kill" THEN before.state.kills + 1
                 ELSE before.state.kills
      BY <2>1, <3>1, RestoreRowSays
    <3>3. rows[n].event = "kill" <=> IsRow(rows[n], sid, "kill")
      BY <2>3 DEF IsRow, OfSession
    <3>4. QED
      BY <1>1, <2>1, <2>2, <3>2, <3>3
  <2>4. CASE ~OfSession(rows[n], sid)
    <3>1. after[n] = before /\ ~IsRow(rows[n], sid, "kill")
      BY <2>1, <2>4 DEF ReplayRow, IsRow, OfSession
    <3>2. QED
      BY <1>1, <2>1, <2>2, <3>1
  <2>5. QED
    BY <2>3, <2>4
<1>5. \A n \in 0..m : n \in right
  <2> HIDE DEF right
  <2>1. QED
    BY <1>1, <1>3, <1>4, IntervalInduction
<1>6. m \in right
  BY <1>1, <1>5
<1>7. Replayed(rows, sid, cash) = after[m]
  BY DEF Replayed, after, m
<1>8. QED
  BY <1>1, <1>6, <1>7

\* Its peak is the least that is neither below the cash nor below an equity
\* row of the session.
LEMMA ReplayedPeak ==
    ASSUME NEW rows \in Seq(JournalRow), NEW sid, NEW cash \in Int
    PROVE  LET peak == Replayed(rows, sid, cash).state.peak_equity
           IN /\ peak \in Int
              /\ cash <= peak
              /\ \A n \in DOMAIN rows :
                   IsRow(rows[n], sid, "equity") => rows[n].equity <= peak
              /\ \A bound \in Int :
                   /\ cash <= bound
                   /\ \A n \in DOMAIN rows :
                        IsRow(rows[n], sid, "equity") => rows[n].equity <= bound
                   => peak <= bound
<1> DEFINE m == Len(rows)
           after == Replay(rows, sid, cash)
           peak(n) == after[n].state.peak_equity
           within(n, bound) ==
             /\ cash <= bound
             /\ \A k \in 1..n :
                  IsRow(rows[k], sid, "equity") => rows[k].equity <= bound
           right == {n \in 0..m : /\ within(n, peak(n))
                                  /\ \A bound \in Int :
                                       within(n, bound) => peak(n) <= bound}
<1>1. /\ m \in Nat /\ DOMAIN rows = 1..m
      /\ \A n \in 1..m : rows[n] \in JournalRow
  OBVIOUS
<1>2. /\ after[0] = FreshRestored(cash)
      /\ \A n \in 1..m : after[n] = ReplayRow(after[n - 1], rows[n], sid)
      /\ \A n \in 0..m : after[n] \in Restored /\ peak(n) \in Int
  BY ReplayDef DEF Restored, PortfolioState
<1> HIDE DEF m, after
<1>3. 0 \in right
  <2>1. peak(0) = cash
    BY <1>2 DEF FreshRestored, FreshBook
  <2>2. QED
    BY <1>1, <2>1
<1>4. ASSUME NEW n \in 1..m, n - 1 \in right
      PROVE  n \in right
  <2> DEFINE before == after[n - 1]
  <2>1. /\ rows[n] \in JournalRow /\ before \in Restored
        /\ after[n] = ReplayRow(before, rows[n], sid)
        /\ peak(n - 1) \in Int /\ peak(n) \in Int
        /\ 1..n = (1..(n - 1)) \cup {n}
        /\ peak(n - 1) = before.state.peak_equity
    BY <1>1, <1>2
  <2>2. /\ within(n - 1, peak(n - 1))
        /\ \A bound \in Int : within(n - 1, bound) => peak(n - 1) <= bound
    BY <1>4
  <2>3. \A bound : within(n, bound)
                     <=> /\ within(n - 1, bound)
                         /\ IsRow(rows[n], sid, "equity") => rows[n].equity <= bound
    BY <2>1
  <2>4. CASE IsRow(rows[n], sid, "equity")
    <3>1. rows[n].equity \in Int /\ after[n] = RestoreRow(before, rows[n])
      BY <2>1, <2>4 DEF IsRow, ReplayRow, OfSession, JournalRow, TornRow, LostRow
    <3>2. peak(n) = Greatest(peak(n - 1), rows[n].equity)
      BY <2>1, <2>4, <3>1, RestoreRowSays DEF IsRow
    <3>3. peak(n - 1) <= peak(n) /\ rows[n].equity <= peak(n)
          /\ peak(n) \in {peak(n - 1), rows[n].equity}
      BY <2>1, <3>1, <3>2 DEF Greatest
    <3>4. within(n - 1, peak(n))
      <4>1. ASSUME NEW k \in 1..(n - 1), IsRow(rows[k], sid, "equity")
            PROVE  rows[k].equity <= peak(n)
        <5>1. rows[k].equity \in Int
          BY <1>1, <4>1 DEF IsRow, JournalRow, TornRow, LostRow
        <5>2. rows[k].equity <= peak(n - 1)
          BY <2>2, <4>1
        <5> HIDE DEF peak
        <5>3. QED
          BY <2>1, <3>3, <5>1, <5>2
      <4>2. cash <= peak(n)
        BY <2>1, <2>2, <3>3
      <4>3. QED
        BY <4>1, <4>2
    <3>5. within(n, peak(n))
      BY <2>3, <3>3, <3>4
    <3>6. \A bound \in Int : within(n, bound) => peak(n) <= bound
      <4>1. \A bound \in Int : within(n, bound)
              => peak(n - 1) <= bound /\ rows[n].equity <= bound
        BY <2>2, <2>3, <2>4
      <4>2. QED
        BY <3>3, <4>1
    <3>7. QED
      BY <1>1, <3>5, <3>6
  <2>5. CASE ~IsRow(rows[n], sid, "equity")
    <3>1. peak(n) = peak(n - 1)
      <4>1. CASE OfSession(rows[n], sid)
        <5>1. rows[n].event # "equity" /\ after[n] = RestoreRow(before, rows[n])
          BY <2>1, <2>5, <4>1 DEF IsRow, OfSession, ReplayRow
        <5>2. QED
          BY <2>1, <5>1, RestoreRowSays
      <4>2. CASE ~OfSession(rows[n], sid)
        BY <2>1, <4>2 DEF ReplayRow
      <4>3. QED
        BY <4>1, <4>2
    <3> HIDE DEF peak
    <3>2. QED
      BY <1>1, <2>2, <2>3, <2>5, <3>1
  <2>6. QED
    BY <2>4, <2>5
<1>5. \A n \in 0..m : n \in right
  <2> HIDE DEF right
  <2>1. QED
    BY <1>1, <1>3, <1>4, IntervalInduction
<1>6. within(m, peak(m)) /\ \A bound \in Int : within(m, bound) => peak(m) <= bound
  <2>1. m \in right
    BY <1>1, <1>5
  <2>2. QED
    BY <2>1
<1>7. Replayed(rows, sid, cash) = after[m]
  BY DEF Replayed, after, m
<1>8. peak(m) \in Int
  BY <1>1, <1>2
<1>9. QED
  BY <1>1, <1>6, <1>7, <1>8

\* Its last bar is the one of the session's last equity row.
LEMMA ReplayedBar ==
    ASSUME NEW rows \in Seq(JournalRow), NEW sid, NEW cash \in Int
    PROVE  LET last == Replayed(rows, sid, cash).last_bar_i
           IN \/ /\ last = NoBar
                 /\ \A n \in DOMAIN rows : ~IsRow(rows[n], sid, "equity")
              \/ \E n \in DOMAIN rows :
                   /\ IsRow(rows[n], sid, "equity") /\ last = rows[n].bar_i
                   /\ \A k \in DOMAIN rows : IsRow(rows[k], sid, "equity") => k <= n
<1> DEFINE m == Len(rows)
           after == Replay(rows, sid, cash)
           none(n) == /\ after[n].last_bar_i = NoBar
                      /\ \A k \in 1..n : ~IsRow(rows[k], sid, "equity")
           last(n) == \E j \in 1..n :
                        /\ IsRow(rows[j], sid, "equity")
                        /\ after[n].last_bar_i = rows[j].bar_i
                        /\ \A k \in 1..n : IsRow(rows[k], sid, "equity") => k <= j
           right == {n \in 0..m : none(n) \/ last(n)}
<1>1. /\ m \in Nat /\ DOMAIN rows = 1..m
      /\ \A n \in 1..m : rows[n] \in JournalRow
  OBVIOUS
<1>2. /\ after[0] = FreshRestored(cash)
      /\ \A n \in 1..m : after[n] = ReplayRow(after[n - 1], rows[n], sid)
      /\ \A n \in 0..m : after[n] \in Restored
  BY ReplayDef
<1> HIDE DEF m, after
<1>3. 0 \in right
  <2>1. none(0)
    BY <1>2 DEF FreshRestored
  <2>2. QED
    BY <1>1, <2>1
<1>4. ASSUME NEW n \in 1..m, n - 1 \in right
      PROVE  n \in right
  <2> DEFINE before == after[n - 1]
  <2>1. /\ rows[n] \in JournalRow /\ before \in Restored
        /\ after[n] = ReplayRow(before, rows[n], sid)
        /\ 1..n = (1..(n - 1)) \cup {n}
    BY <1>1, <1>2
  <2>2. CASE IsRow(rows[n], sid, "equity")
    <3>1. after[n].last_bar_i = rows[n].bar_i
      BY <2>1, <2>2, RestoreRowSays DEF ReplayRow, IsRow, OfSession
    <3>2. last(n)
      BY <1>1, <2>2, <3>1
    <3>3. QED
      BY <3>2
  <2>3. CASE ~IsRow(rows[n], sid, "equity")
    <3>1. after[n].last_bar_i = before.last_bar_i
      BY <2>1, <2>3, RestoreRowSays DEF ReplayRow, IsRow, OfSession
    <3>2. none(n - 1) \/ last(n - 1)
      BY <1>4
    <3>3. ASSUME none(n - 1)
          PROVE  none(n)
      BY <2>1, <2>3, <3>1, <3>3
    <3>4. ASSUME last(n - 1)
          PROVE  last(n)
      BY <2>1, <2>3, <3>1, <3>4
    <3>5. QED
      BY <3>2, <3>3, <3>4
  <2>4. QED
    BY <2>2, <2>3
<1>5. \A n \in 0..m : n \in right
  <2> HIDE DEF right
  <2>1. QED
    BY <1>1, <1>3, <1>4, IntervalInduction
<1>6. none(m) \/ last(m)
  <2>1. m \in right
    BY <1>1, <1>5
  <2>2. QED
    BY <2>1
<1>7. Replayed(rows, sid, cash) = after[m]
  BY DEF Replayed, after, m
<1>8. QED
  BY <1>1, <1>6, <1>7

(***************************************************************************)
(* The invariant: the counts, the rows of the file, the length of the      *)
(* curve, the ticks and peaks on disk, and the switch a kill row arms.     *)
(***************************************************************************)
CountInv ==
    /\ processes \in 1..MaxProcesses
    /\ sessions \in Ids
    /\ session_id \in 1..sessions

PastInv == past \in [Ids -> [last_bar : -1..(NBars - 1), killed : BOOLEAN]]

\* The file has one mode, and only a paper session has fills.
FileInv ==
    \A n \in DOMAIN journal :
        journal[n].event # "torn" =>
            /\ journal[n].sid \in 1..sessions
            /\ IsStart(journal[n]) => journal[n].mode = ModeOf(broker)
            /\ journal[n].event = "fill" => broker = "paper"

LengthInv ==
    /\ start_index + bar_count <= NBars
    /\ Len(equity) > 0
    /\ Len(equity) \in {bar_count, bar_count + 1}
    /\ pc \in {"start", "feed"} => Len(equity) = bar_count + 1
    /\ pc \in InBar => Len(equity) = bar_count

\* The tick the process will journal next is later than all those on disk.
TickInv ==
    /\ TicksAdvance
    /\ \A n \in DOMAIN journal :
         IsRow(journal[n], session_id, "equity") =>
             /\ pc \in {"start", "feed"} => journal[n].bar_i < BarNumber
             /\ pc \in InBar => journal[n].bar_i < BarIndex

PeakOnDisk ==
    pc # "down" =>
        /\ StartingCash <= pf.peak_equity
        /\ \A n \in DOMAIN journal :
             IsRow(journal[n], session_id, "equity")
                => journal[n].equity <= pf.peak_equity

KilledOnDisk == pc # "down" /\ KillOnDisk(session_id) => killed

\* What holds whatever a resume reads of the file ...
CoreInv ==
    /\ IndInv /\ BarPeak
    /\ CountInv /\ PastInv /\ FileInv /\ LengthInv

\* ... and what needs a resume that reads all of it.
RecoveryInv ==
    /\ CoreInv
    /\ RestoreInv /\ TickInv /\ PeakOnDisk /\ KilledOnDisk

LEMMA StepFile ==
    ASSUME CoreInv, Next, UNCHANGED sessions
    PROVE  FileInv'
<1> SUFFICES ASSUME NEW n \in DOMAIN journal', journal'[n].event # "torn"
             PROVE  /\ journal'[n].sid \in 1..sessions
                    /\ IsStart(journal'[n]) => journal'[n].mode = ModeOf(broker)
                    /\ journal'[n].event = "fill" => broker = "paper"
  BY DEF FileInv, Next
<1>1. /\ \A k \in DOMAIN journal : journal'[k] = journal[k]
      /\ n \notin DOMAIN journal => journal'[n] \in Writable
  BY StepExtends DEF CoreInv, BarPeak, Next
<1>2. CASE n \in DOMAIN journal
  BY <1>1, <1>2 DEF CoreInv, FileInv
<1>3. CASE n \notin DOMAIN journal
  BY <1>1, <1>3 DEF Writable, Tellable, TornRow, LostRow, CoreInv, CountInv, IsStart
<1>4. QED
  BY <1>2, <1>3

LEMMA NextBarLength ==
    ASSUME CoreInv, NEW mid, NEW new_day, NextBar(mid, new_day),
           UNCHANGED processVars
    PROVE  LengthInv'
<1>1. bar_count \in Nat /\ start_index \in Nat /\ Len(equity) \in Nat
  BY SessionAssumption
  DEF CoreInv, IndInv, SessionInv, SessionTypeOK, ProcessTypeOK
<1>2. /\ UNCHANGED <<start_index, equity>>
      /\ pc = "feed" /\ pc' = "poll"
      /\ bar_count' = bar_count + 1
      /\ start_index + bar_count < NBars
  BY DEF NextBar, BarsLeft, processVars
<1>3. Len(equity) = bar_count'
  BY <1>2 DEF CoreInv, LengthInv
<1>4. start_index' + bar_count' <= NBars
  BY <1>1, <1>2, SessionAssumption
<1>5. QED
  BY <1>1, <1>2, <1>3, <1>4 DEF LengthInv

LEMMA EndBarLength ==
    ASSUME CoreInv, EndBar, UNCHANGED processVars
    PROVE  LengthInv'
<1>1. /\ bar_count \in Nat /\ start_index \in Nat
      /\ equity \in Seq(Int) /\ Equity(pf, mark) \in Int
  BY SessionAssumption, EquityType
  DEF CoreInv, IndInv, SessionInv, SessionTypeOK, ProcessTypeOK
<1>2. /\ UNCHANGED <<start_index, bar_count>>
      /\ pc = "orders" /\ pc' \in {"feed", "finally"}
      /\ equity' = Append(equity, Equity(pf, mark))
  BY DEF EndBar, StageAfterBar, barVars, processVars
<1>3. Len(equity) = bar_count
  BY <1>2 DEF CoreInv, LengthInv, InBar
<1>4. Len(equity') = bar_count + 1
  BY <1>1, <1>2, <1>3
<1>5. QED
  BY <1>1, <1>2, <1>4 DEF CoreInv, LengthInv, InBar

\* The stages a step without an effect on the curve leads to.
LEMMA StepStages ==
    ASSUME IndInv, Step, ~EndBar,
           ~\E mid \in Prices, new_day \in BOOLEAN : NextBar(mid, new_day)
    PROVE  /\ UNCHANGED <<bar_count, equity>>
           /\ pc' \in {"start", "feed"} => pc \in {"start", "feed"}
           /\ pc' \in InBar => pc \in InBar
<1>1. CASE LoopStep
  BY <1>1 DEF LoopStep, ApplyDelayed, OnBar, StrategyRaises, RejectOrder,
     RecordKill, Approve, FeedEnds, Finish, StageAtEnd, Terminated, Stopped,
     sessionVars, barVars, InBar
<1>2. CASE ~LoopStep
  BY <1>2 DEF Step, Start, PollFills, Submit, BrokerFills, BrokerRejects,
     Submitted, barVars, InBar
<1>3. QED
  BY <1>1, <1>2

LEMMA StepLength ==
    ASSUME CoreInv, Next
    PROVE  LengthInv'
<1>1. Step /\ UNCHANGED processVars
  BY DEF Next
<1>2. CASE EndBar
  BY <1>1, <1>2, EndBarLength
<1>3. CASE \E mid \in Prices, new_day \in BOOLEAN : NextBar(mid, new_day)
  BY <1>1, <1>3, NextBarLength
<1>4. CASE ~EndBar /\ ~\E mid \in Prices, new_day \in BOOLEAN : NextBar(mid, new_day)
  <2>1. /\ UNCHANGED <<bar_count, equity, start_index>>
        /\ pc' \in {"start", "feed"} => pc \in {"start", "feed"}
        /\ pc' \in InBar => pc \in InBar
    BY <1>1, <1>4, StepStages DEF CoreInv, processVars
  <2>2. QED
    BY <2>1 DEF CoreInv, LengthInv
<1>5. QED
  BY <1>2, <1>3, <1>4

(***************************************************************************)
(* The ticks.                                                              *)
(***************************************************************************)
\* A step that adds no equity row and goes on in the bar, or to the next one.
LEMMA TicksKept ==
    ASSUME TickInv, JournalTypeOK, JournalTypeOK', UNCHANGED session_id,
           \A n \in DOMAIN journal : journal'[n] = journal[n],
           \A n \in DOMAIN journal' :
             n \notin DOMAIN journal => journal'[n].event # "equity",
           \/ /\ UNCHANGED <<start_index, bar_count>>
              /\ pc' \in {"start", "feed"} => pc \in {"start", "feed"}
              /\ pc' \in InBar => pc \in InBar
           \/ /\ pc' \notin {"start", "feed"} /\ pc = "feed"
              /\ BarIndex' = BarNumber
    PROVE  TickInv'
<1>1. TicksAdvance'
  <2> SUFFICES ASSUME NEW m \in DOMAIN journal', NEW n \in DOMAIN journal', m < n,
                      journal'[m].event = "equity", journal'[n].event = "equity",
                      journal'[m].sid = journal'[n].sid
               PROVE  journal'[m].bar_i < journal'[n].bar_i
    BY DEF TicksAdvance
  <2>1. m \in DOMAIN journal /\ n \in DOMAIN journal
    OBVIOUS
  <2>2. QED
    BY <2>1 DEF TickInv, TicksAdvance
<1>2. ASSUME NEW n \in DOMAIN journal', IsRow(journal'[n], session_id, "equity")
      PROVE  /\ pc' \in {"start", "feed"} => journal'[n].bar_i < BarNumber'
             /\ pc' \in InBar => journal'[n].bar_i < BarIndex'
  <2>1. n \in DOMAIN journal /\ journal'[n] = journal[n]
    BY <1>2 DEF IsRow
  <2>2. /\ pc \in {"start", "feed"} => journal[n].bar_i < BarNumber
        /\ pc \in InBar => journal[n].bar_i < BarIndex
    BY <1>2, <2>1 DEF TickInv
  <2>3. QED
    BY <2>1, <2>2 DEF BarNumber, BarIndex
<1>3. QED
  BY <1>1, <1>2 DEF TickInv

LEMMA EndBarTicks ==
    ASSUME RecoveryInv, EndBar, UNCHANGED processVars, JournalTypeOK'
    PROVE  TickInv'
<1> DEFINE point == Equity(pf, mark)
           one == HeartbeatRow(session_id, point)
           two == EquityRow(session_id, point, BarIndex)
<1>1. /\ SessionInv /\ ProcessTypeOK /\ journal \in Seq(JournalRow)
      /\ JournalTypeOK
      /\ point \in Int /\ start_index \in Nat /\ bar_count \in Nat /\ BarIndex \in Nat
  BY SessionAssumption, EquityType
  DEF RecoveryInv, CoreInv, IndInv, SessionInv, SessionTypeOK, JournalTypeOK, ProcessTypeOK,
      StageInv, EndBar, BarIndex
<1>2. /\ one \in JournalRow /\ one.event # "equity"
      /\ two \in JournalRow /\ two.event = "equity" /\ two.sid = session_id
      /\ two.bar_i = BarIndex
  <2>1. one \in JournalRow /\ two \in JournalRow
    BY <1>1, RowTypes DEF ProcessTypeOK
  <2>2. QED
    BY <2>1 DEF HeartbeatRow, EquityRow
<1>3. /\ pc = "orders" /\ pc' \in {"feed", "finally"}
      /\ UNCHANGED <<session_id, start_index, bar_count>>
      /\ Write(<<one, two>>) \/ Write(<<>>)
  BY DEF EndBar, StageAfterBar, HeartbeatRows, barVars, processVars
<1> HIDE DEF one, two
\* The tick of the bar is later than those of the session on disk.
<1>4. \A n \in DOMAIN journal :
        IsRow(journal[n], session_id, "equity") => journal[n].bar_i < BarIndex
  BY <1>3 DEF RecoveryInv, CoreInv, TickInv, InBar
<1>5. BarNumber' = BarIndex + 1
  BY <1>1, <1>3 DEF BarNumber, BarIndex
\* What is added is nothing, quiet rows, or the tick as the last row.
<1>6. \/ \A n \in DOMAIN journal' :
            n \notin DOMAIN journal => journal'[n].event # "equity"
      \/ /\ journal'[Len(journal')] = two
         /\ \A n \in DOMAIN journal' :
              n \notin DOMAIN journal /\ n # Len(journal')
                => journal'[n].event # "equity"
  <2>0. PICK first \in JournalRow : first = Continued(one) /\ first.event # "equity"
    BY <1>2, ContinuedIs
  <2> DEFINE half == Append(journal, first)
  <2>1. /\ half \in Seq(JournalRow)
        /\ Len(half) = Len(journal) + 1
        /\ half[Len(journal) + 1] = first
    BY <1>1, <1>2
  <2>2. TornRow \in JournalRow /\ TornRow.event # "equity"
    BY DEF JournalRow, TornRow, LostRow
  <2>3. journal' \in {journal, Append(journal, TornRow), half,
                      Append(half, TornRow), Append(half, two)}
    <3>1. CASE Write(<<one, two>>)
      BY <1>1, <1>2, <2>0, <3>1, WriteTwo DEF JournalTypeOK
    <3>2. CASE Write(<<>>)
      BY <1>1, <3>2, WriteNothing
    <3>3. QED
      BY <1>3, <3>1, <3>2
  <2>4. CASE journal' \in {journal, Append(journal, TornRow), half}
    BY <1>1, <2>0, <2>1, <2>2, <2>4
  <2> HIDE DEF half
  <2>5. CASE journal' = Append(half, TornRow)
    <3>1. DOMAIN journal' = 1..(Len(journal) + 2)
          /\ DOMAIN half = 1..(Len(journal) + 1)
      BY <1>1, <2>1, <2>2, <2>5
    <3>2. \A n \in DOMAIN half : journal'[n] = half[n]
      BY <2>1, <2>2, <2>5
    <3>3. journal'[Len(journal) + 2] = TornRow
      BY <1>1, <2>1, <2>2, <2>5
    <3>4. \A n \in 1..(Len(journal) + 2) :
            n \notin DOMAIN journal => n \in {Len(journal) + 1, Len(journal) + 2}
      BY <1>1
    <3>5. journal'[Len(journal) + 1] = first
      BY <1>1, <2>1, <3>1, <3>2
    <3>6. QED
      BY <2>0, <2>2, <3>1, <3>3, <3>4, <3>5
  <2>7. CASE journal' = Append(half, two)
    <3>1. /\ DOMAIN journal' = 1..(Len(journal) + 2)
          /\ Len(journal') = Len(journal) + 2
          /\ DOMAIN half = 1..(Len(journal) + 1)
          /\ journal'[Len(journal) + 2] = two
      BY <1>1, <1>2, <2>1, <2>7
    <3>2. \A n \in DOMAIN half : journal'[n] = half[n]
      BY <1>2, <2>1, <2>7
    <3>3. \A n \in 1..(Len(journal) + 2) :
            n \notin DOMAIN journal => n \in {Len(journal) + 1, Len(journal) + 2}
      BY <1>1
    <3>4. journal'[Len(journal) + 1] = first
      BY <1>1, <2>1, <3>1, <3>2
    <3>5. QED
      BY <2>0, <3>1, <3>3, <3>4
  <2>8. QED
    BY <2>3, <2>4, <2>5, <2>7
<1>7. \A n \in DOMAIN journal : n \in DOMAIN journal' /\ journal'[n] = journal[n]
  BY StepExtends DEF RecoveryInv, CoreInv, BarPeak, Step, LoopStep
\* So a row of the session on disk is an old one or the tick.
<1>8. ASSUME NEW n \in DOMAIN journal', journal'[n].event = "equity"
      PROVE  \/ n \in DOMAIN journal /\ journal'[n] = journal[n]
             \/ n = Len(journal') /\ journal'[n] = two
  BY <1>6, <1>7, <1>8
<1>9. TicksAdvance'
  <2> SUFFICES ASSUME NEW m \in DOMAIN journal', NEW n \in DOMAIN journal', m < n,
                      journal'[m].event = "equity", journal'[n].event = "equity",
                      journal'[m].sid = journal'[n].sid
               PROVE  journal'[m].bar_i < journal'[n].bar_i
    BY DEF TicksAdvance
  <2>1. m # Len(journal')
    BY DEF JournalTypeOK
  <2>2. m \in DOMAIN journal /\ journal'[m] = journal[m]
    BY <1>8, <2>1
  <2>3. CASE n \in DOMAIN journal /\ journal'[n] = journal[n]
    BY <2>2, <2>3 DEF RecoveryInv, CoreInv, TickInv, TicksAdvance
  <2>4. CASE journal'[n] = two
    BY <1>2, <1>4, <2>2, <2>4 DEF IsRow
  <2>5. QED
    BY <1>8, <2>3, <2>4
<1>10. ASSUME NEW n \in DOMAIN journal', IsRow(journal'[n], session_id, "equity")
       PROVE  journal'[n].bar_i < BarIndex + 1
  <2>1. CASE n \in DOMAIN journal /\ journal'[n] = journal[n]
    <3>1. journal[n] \in JournalRow /\ journal[n].bar_i < BarIndex
      BY <1>1, <1>4, <1>10, <2>1
    <3>2. journal[n].bar_i \in Nat
      BY <1>10, <2>1, <3>1 DEF IsRow, JournalRow, TornRow, LostRow
    <3>3. QED
      BY <1>1, <2>1, <3>1, <3>2
  <2>2. CASE journal'[n] = two
    BY <1>1, <1>2, <2>2
  <2>3. QED
    BY <1>8, <1>10, <2>1, <2>2 DEF IsRow
<1>11. QED
  BY <1>3, <1>5, <1>9, <1>10 DEF TickInv, InBar

LEMMA StepTicks ==
    ASSUME RecoveryInv, Next
    PROVE  TickInv'
<1>1. /\ Step /\ UNCHANGED processVars /\ IndInv /\ TickInv
      /\ JournalTypeOK /\ JournalTypeOK'
  BY StepInv DEF Next, RecoveryInv, CoreInv, IndInv, SessionInv
<1>2. CASE EndBar
  BY <1>1, <1>2, EndBarTicks
<1>3. CASE ~EndBar
  <2>1. /\ \A n \in DOMAIN journal : journal'[n] = journal[n]
        /\ \A n \in DOMAIN journal' :
             n \notin DOMAIN journal => journal'[n] \in Writable
    BY <1>1, StepExtends DEF RecoveryInv, CoreInv, BarPeak
  <2>2. CASE \E mid \in Prices, new_day \in BOOLEAN : NextBar(mid, new_day)
    <3>1. /\ UNCHANGED <<start_index, journalVars>>
          /\ pc = "feed" /\ pc' = "poll" /\ bar_count' = bar_count + 1
          /\ bar_count \in Nat /\ start_index \in Nat
      BY <1>1, <2>2, SessionAssumption
      DEF NextBar, processVars, IndInv, SessionInv, SessionTypeOK, ProcessTypeOK
    <3>2. BarIndex' = BarNumber /\ journal' = journal
      BY <3>1 DEF BarIndex, BarNumber, journalVars
    <3>3. QED
      BY <1>1, <3>1, <3>2, TicksKept DEF processVars
  <2>3. CASE ~\E mid \in Prices, new_day \in BOOLEAN : NextBar(mid, new_day)
    <3>1. /\ UNCHANGED <<start_index, bar_count, session_id>>
          /\ pc' \in {"start", "feed"} => pc \in {"start", "feed"}
          /\ pc' \in InBar => pc \in InBar
      BY <1>1, <1>3, <2>3, StepStages DEF processVars
    <3>2. \A n \in DOMAIN journal' :
            n \notin DOMAIN journal => journal'[n].event # "equity"
      <4>1. CASE UNCHANGED journalVars
        BY <4>1 DEF journalVars
      <4>2. CASE pc # "orders"
        BY <2>1, <4>2 DEF Writable, Tellable, TornRow, LostRow
      <4>3. CASE pc = "orders" /\ ~UNCHANGED journalVars
        <5>1. RejectOrder
          BY <1>1, <1>3, <4>3 DEF Step, Start, PollFills, Submit, BrokerFills,
             BrokerRejects, Submitted, LoopStep, NextBar, ApplyDelayed, OnBar,
             StrategyRaises, RecordKill, Approve, FeedEnds, Finish, Terminated
        <5> DEFINE row == RejectRow(session_id, Head(queue).side, Head(queue).qty)
        <5>2. Head(queue) \in Order
          BY <1>1, <5>1 DEF IndInv, SessionInv, SessionTypeOK, RejectOrder
        <5>3. row \in JournalRow /\ row.event # "equity"
          <6>1. row \in JournalRow
            BY <1>1, <5>2, RowTypes DEF IndInv, ProcessTypeOK, Order
          <6>2. QED
            BY <6>1 DEF RejectRow
        <5>4. Write(<<row>>)
          BY <5>1 DEF RejectOrder
        <5> HIDE DEF row
        <5>0. PICK first \in JournalRow :
                first = Continued(row) /\ first.event # "equity"
          BY <5>3, ContinuedIs
        <5>5. journal' \in {journal, Append(journal, first), Append(journal, TornRow)}
          BY <1>1, <5>0, <5>3, <5>4, WriteRow
        <5>6. TornRow \in JournalRow /\ TornRow.event # "equity"
          BY DEF JournalRow, TornRow, LostRow
        <5>7. QED
          BY <1>1, <5>0, <5>5, <5>6 DEF JournalTypeOK
      <4>4. QED
        BY <4>1, <4>2, <4>3
    <3>3. QED
      BY <1>1, <2>1, <3>1, <3>2, TicksKept
  <2>4. QED
    BY <2>2, <2>3
<1>4. QED
  BY <1>2, <1>3

(***************************************************************************)
(* A step of the session.                                                  *)
(***************************************************************************)
LEMMA StepStage ==
    ASSUME Step
    PROVE  pc # "down" /\ pc' # "down"
BY DEF Step, Start, PollFills, Submit, BrokerFills, BrokerRejects, Submitted,
   LoopStep, NextBar, ApplyDelayed, OnBar, StrategyRaises, RejectOrder, RecordKill,
   Approve, EndBar, StageAfterBar, FeedEnds, Finish, StageAtEnd, Terminated, Stopped,
   sessionVars

LEMMA StepPeakOnDisk ==
    ASSUME RecoveryInv, Next
    PROVE  PeakOnDisk'
<1>1. /\ Step /\ IndInv /\ session_id' = session_id /\ pc # "down"
      /\ PeakRises
  BY StepPeak, StepStage DEF Next, RecoveryInv, CoreInv, processVars
<1>2. /\ pf.peak_equity \in Int /\ pf'.peak_equity \in Int
      /\ journal \in Seq(JournalRow) /\ Equity(pf, mark) \in Int
      /\ pf.peak_equity <= pf'.peak_equity
      /\ StartingCash \in Int
  <2>1. SessionInv'
    BY <1>1, StepInv
  <2>2. QED
    BY <1>1, <2>1, SessionAssumption, EquityType
    DEF IndInv, SessionInv, SessionTypeOK, PortfolioState, JournalTypeOK, PeakRises
<1>3. StartingCash <= pf'.peak_equity
  BY <1>1, <1>2 DEF RecoveryInv, CoreInv, PeakOnDisk
<1>4. ASSUME NEW n \in DOMAIN journal', IsRow(journal'[n], session_id, "equity")
      PROVE  journal'[n].equity <= pf'.peak_equity
  <2>1. /\ \A k \in DOMAIN journal : journal'[k] = journal[k]
        /\ n \notin DOMAIN journal => journal'[n] \in Writable
    BY <1>1, StepExtends DEF RecoveryInv, CoreInv, BarPeak
  <2>2. CASE n \in DOMAIN journal
    <3>1. journal[n].equity <= pf.peak_equity /\ journal[n] \in JournalRow
      BY <1>1, <1>2, <1>4, <2>1, <2>2 DEF RecoveryInv, CoreInv, PeakOnDisk
    <3>2. journal[n].equity \in Int
      BY <1>4, <2>1, <2>2, <3>1 DEF IsRow, JournalRow, TornRow, LostRow
    <3>3. QED
      BY <1>2, <2>1, <2>2, <3>1, <3>2
  <2>3. CASE n \notin DOMAIN journal
    <3>1. journal'[n].equity = Equity(pf, mark) /\ pc = "orders"
      BY <1>4, <2>1, <2>3 DEF Writable, Tellable, TornRow, LostRow, IsRow
    <3>2. Equity(pf, mark) <= pf.peak_equity
      BY <1>1, <3>1 DEF RecoveryInv, CoreInv, BarPeak, IndInv, SessionInv, StageInv
    <3>3. QED
      BY <1>2, <3>1, <3>2
  <2>4. QED
    BY <2>2, <2>3
<1>5. QED
  BY <1>1, <1>3, <1>4 DEF PeakOnDisk

LEMMA StepStaysKilled ==
    ASSUME Step, killed
    PROVE  killed'
BY DEF Step, Start, PollFills, Submit, BrokerFills, BrokerRejects, Submitted,
   LoopStep, NextBar, ApplyDelayed, OnBar, StrategyRaises, RejectOrder, KilledAfter,
   RecordKill, Approve, EndBar, FeedEnds, Finish, Terminated, sessionVars, riskVars

LEMMA StepKilled ==
    ASSUME RecoveryInv, Next
    PROVE  KilledOnDisk'
<1>1. Step /\ IndInv /\ session_id' = session_id /\ pc # "down"
  BY StepStage DEF Next, RecoveryInv, CoreInv, processVars
<1> SUFFICES ASSUME NEW n \in DOMAIN journal', journal'[n].event = "kill",
                    journal'[n].sid = session_id
             PROVE  killed'
  BY <1>1 DEF KilledOnDisk, KillOnDisk
<1>2. /\ \A k \in DOMAIN journal : journal'[k] = journal[k]
      /\ n \notin DOMAIN journal => journal'[n] \in Writable
  BY <1>1, StepExtends DEF RecoveryInv, CoreInv, BarPeak
<1>3. CASE n \in DOMAIN journal
  BY <1>1, <1>2, <1>3, StepStaysKilled DEF RecoveryInv, CoreInv, KilledOnDisk, KillOnDisk
<1>4. CASE n \notin DOMAIN journal
  <2>1. pc = "kill"
    BY <1>2, <1>4 DEF Writable, Tellable, TornRow, LostRow
  <2>2. QED
    BY <1>1, <2>1, StepStaysKilled DEF IndInv, SessionInv, StageInv
<1>5. QED
  BY <1>3, <1>4

LEMMA StepRestore ==
    ASSUME RecoveryInv, Next
    PROVE  RestoreInv'
<1>1. /\ Step /\ UNCHANGED processVars
      /\ IndInv /\ SessionInv /\ ProcessTypeOK /\ RestoreInv
  BY DEF Next, RecoveryInv, CoreInv, IndInv
<1>2. CASE Start(TRUE, ModeOf(broker))
  <2>1. ModeOf(broker) \in Mode /\ TRUE \in BOOLEAN
    BY DEF ModeOf, Mode
  <2>2. QED
    BY <1>1, <1>2, <2>1, StartRestore
<1>3. CASE PollFills(<<>>)
  <2>1. <<>> \in Seq(Fill)
    OBVIOUS
  <2>2. QED
    BY <1>1, <1>3, <2>1, PollFillsRestore
<1>4. CASE BrokerFills(PaperFill)
  <2>1. adj \in Order /\ mark \in Int
    BY <1>1, <1>4 DEF SessionInv, SessionTypeOK, StageInv, BrokerFills, Submitted
  <2>2. PaperFill \in Fill
    BY <2>1, AdvType, ExecuteType DEF PaperFill
  <2>3. QED
    BY <1>1, <1>4, <2>2, BrokerFillsRestore
<1>5. CASE BrokerRejects
  BY <1>1, <1>5, BrokerRejectsRestore
<1>6. CASE LoopStep
  BY <1>1, <1>6, LoopStepRestore
<1>7. QED
  BY <1>1, <1>2, <1>3, <1>4, <1>5, <1>6 DEF Step, Submit

LEMMA NextKeepsCore ==
    ASSUME CoreInv, Next, UNCHANGED <<processes, sessions, past>>
    PROVE  CoreInv'
<1>1. IndInv' /\ BarPeak'
  BY NextInv, StepPeak DEF CoreInv, Next
<1>2. CountInv' /\ PastInv'
  BY DEF CoreInv, CountInv, PastInv, Next, processVars
<1>3. QED
  BY <1>1, <1>2, StepFile, StepLength DEF CoreInv

LEMMA NextKeepsRecovery ==
    ASSUME RecoveryInv, Next, UNCHANGED <<processes, sessions, past>>
    PROVE  RecoveryInv'
<1>1. CoreInv'
  BY NextKeepsCore DEF RecoveryInv
<1>2. QED
  BY <1>1, StepTicks, StepPeakOnDisk, StepKilled, StepRestore DEF RecoveryInv

(***************************************************************************)
(* The start of a process and its crash.                                   *)
(***************************************************************************)
LEMMA OpeningType ==
    ASSUME NEW book \in PortfolioState
    PROVE  OpeningEquity(book) \in Int
<1>1. /\ book.cash \in Int /\ book.pos.qty \in Int
      /\ book.pos.avg_price.n \in Int /\ book.pos.avg_price.d \in Nat \ {0}
  BY DEF PortfolioState, Position, Frac
<1>2. book.pos.qty * book.pos.avg_price.n \in Int
  BY <1>1
<1>3. (book.pos.qty * book.pos.avg_price.n) \div book.pos.avg_price.d \in Int
  BY <1>1, <1>2
<1>4. QED
  BY <1>1, <1>3 DEF OpeningEquity

\* A process that has done nothing yet.
LEMMA MemoryKeeps ==
    ASSUME IndInv, NEW stage \in {"start", "down"}, NEW book \in PortfolioState,
           Memory(stage, book), ProcessTypeOK', jdisabled' \in BOOLEAN,
           UNCHANGED <<journal, broker>>
    PROVE  IndInv' /\ BarPeak' /\ JournalTypeOK'
<1>1. SessionTypeOK'
  <2>1. equity' \in Seq(Int) /\ OpeningEquity(book) \in Int
    BY OpeningType DEF Memory
  <2>2. /\ <<>> \in Seq(Fill) /\ <<>> \in Seq(Order) /\ <<>> \in Seq(Rejection)
        /\ 0 \in 0..NBars
    BY SessionAssumption
  <2>3. /\ pc' \in Stage /\ pf' \in PortfolioState
        /\ bar_count' \in 0..NBars /\ mark' \in Int
    <3>1. /\ pc' = stage /\ pf' = book /\ bar_count' = 0 /\ mark' = 0
      BY DEF Memory
    <3>2. stage \in Stage
      BY DEF Stage
    <3>3. QED
      BY <3>1, <3>2, <2>2
  <2>8. killed' \in BOOLEAN /\ connected' \in BOOLEAN
    <3>1. (killed' = FALSE) /\ (connected' = FALSE)
      BY DEF Memory
    <3>2. QED
      BY <3>1, Zenon
  <2>9. kill_reason' \in KillReason \cup {"none"} /\ adj' \in Order \cup {NoOrder}
    <3>1. kill_reason' = "none" /\ adj' = NoOrder
      BY DEF Memory
    <3>2. QED
      BY <3>1
  <2>4. /\ delayed' = <<>> /\ queue' = <<>> /\ fills' = <<>> /\ rejected' = <<>>
    BY DEF Memory
  <2>5. delayed' \in Seq(Fill) /\ fills' \in Seq(Fill)
    BY <2>2, <2>4
  <2>6. queue' \in Seq(Order) /\ rejected' \in Seq(Rejection)
    BY <2>2, <2>4
  <2>7. QED
    BY <2>1, <2>3, <2>5, <2>6, <2>8, <2>9 DEF SessionTypeOK
<1>2. StageInv' /\ RiskBeforeBroker' /\ BarPeak'
  BY DEF Memory, StageInv, RiskBeforeBroker, BarPeak
<1>3. JournalTypeOK'
  BY DEF IndInv, SessionInv, JournalTypeOK
<1>4. QED
  BY <1>1, <1>2, <1>3 DEF IndInv, SessionInv

LEMMA RememberedType ==
    ASSUME CoreInv
    PROVE  Remembered \in [Ids -> [last_bar : -1..(NBars - 1), killed : BOOLEAN]]
<1>1. session_id \in Ids
  BY RecoveryAssumption DEF CoreInv, CountInv, Ids
<1>2. LastBarDone \in -1..(NBars - 1)
  <2>1. /\ start_index \in Nat /\ bar_count \in Nat /\ Len(equity) \in Nat
        /\ NBars \in Nat
    BY SessionAssumption
    DEF CoreInv, IndInv, SessionInv, SessionTypeOK, ProcessTypeOK
  <2>2. /\ start_index + bar_count <= NBars
        /\ Len(equity) > 0
        /\ Len(equity) \in {bar_count, bar_count + 1}
    BY DEF CoreInv, LengthInv
  <2>3. QED
    BY <2>1, <2>2 DEF LastBarDone, NoBar
<1>3. past[session_id] \in [last_bar : -1..(NBars - 1), killed : BOOLEAN]
  BY <1>1 DEF CoreInv, PastInv
<1> DEFINE bar == Greatest(past[session_id].last_bar, LastBarDone)
           done == past[session_id].killed \/ killed
<1>4. bar \in -1..(NBars - 1)
  BY <1>2, <1>3 DEF Greatest
<1>5. done \in BOOLEAN
  OBVIOUS
<1>6. Remembered = [past EXCEPT ![session_id] = [last_bar |-> bar, killed |-> done]]
  BY DEF Remembered
<1> HIDE DEF bar, done
<1>7. QED
  BY <1>1, <1>4, <1>5, <1>6 DEF CoreInv, PastInv

LEMMA CrashKeepsCore ==
    ASSUME CoreInv, Crash
    PROVE  CoreInv'
<1>1. /\ Memory("down", FreshBook(StartingCash))
      /\ UNCHANGED <<session_id, forced, start_index, journal, jdisabled, broker,
                     processes, sessions>>
      /\ past' = Remembered
      /\ pc' = "down" /\ bar_count' = 0 /\ equity' = <<OpeningEquity(FreshBook(StartingCash))>>
  BY DEF Crash, Memory, processVars, journalVars
<1>2. FreshBook(StartingCash) \in PortfolioState
  BY SessionAssumption, FreshBookType
<1>3. IndInv' /\ BarPeak' /\ JournalTypeOK'
  <2>1. ProcessTypeOK' /\ jdisabled' \in BOOLEAN
    BY <1>1 DEF CoreInv, IndInv, SessionInv, JournalTypeOK, ProcessTypeOK
  <2>2. QED
    BY <1>1, <1>2, <2>1, MemoryKeeps DEF CoreInv
<1>4. CountInv' /\ PastInv' /\ FileInv'
  BY <1>1, RememberedType
  DEF CoreInv, CountInv, PastInv, FileInv
<1>5. LengthInv'
  <2>1. /\ bar_count \in Nat /\ start_index \in Nat
        /\ start_index + bar_count <= NBars /\ NBars \in Nat
    BY SessionAssumption
    DEF CoreInv, IndInv, SessionInv, SessionTypeOK, ProcessTypeOK, LengthInv
  <2>2. start_index' + bar_count' <= NBars
    BY <1>1, <2>1
  <2>3. QED
    BY <1>1, <2>2 DEF LengthInv, InBar
<1>6. QED
  BY <1>3, <1>4, <1>5 DEF CoreInv

LEMMA CrashKeeps ==
    ASSUME RecoveryInv, Crash
    PROVE  RecoveryInv'
<1>1. /\ UNCHANGED <<session_id, forced, start_index, journal, jdisabled>>
      /\ pc' = "down"
  BY DEF Crash, Memory, processVars, journalVars
<1>2. TickInv'
  BY <1>1 DEF RecoveryInv, TickInv, TicksAdvance, InBar
<1>3. PeakOnDisk' /\ KilledOnDisk'
  BY <1>1 DEF PeakOnDisk, KilledOnDisk
<1>4. RestoreInv'
  BY <1>1 DEF RecoveryInv, RestoreInv
<1>5. QED
  BY <1>2, <1>3, <1>4, CrashKeepsCore DEF RecoveryInv

\* What every start of a process has to establish, by the book and the feed it
\* is given.
LEMMA BootKeepsCore ==
    ASSUME CoreInv, NEW book \in PortfolioState, NEW sid \in Nat,
           NEW is_forced \in BOOLEAN, NEW first_bar \in Nat,
           Boot(book, sid, is_forced, first_bar), UNCHANGED broker,
           CountInv', FileInv', first_bar <= NBars
    PROVE  CoreInv'
<1>1. /\ Memory("start", book)
      /\ UNCHANGED <<journal, broker>>
      /\ session_id' = sid /\ forced' = is_forced /\ start_index' = first_bar
      /\ past' = Remembered
      /\ pc' = "start" /\ bar_count' = 0
      /\ equity' = <<OpeningEquity(book)>>
      /\ jdisabled' \in BOOLEAN
  BY DEF Boot, Memory
<1>2. IndInv' /\ BarPeak' /\ JournalTypeOK'
  <2>1. ProcessTypeOK'
    BY <1>1 DEF ProcessTypeOK
  <2>2. QED
    BY <1>1, <2>1, MemoryKeeps DEF CoreInv
<1>3. PastInv'
  BY <1>1, RememberedType DEF PastInv
<1>4. LengthInv'
  BY <1>1, SessionAssumption DEF LengthInv, InBar
<1>5. QED
  BY <1>2, <1>3, <1>4 DEF CoreInv

LEMMA BootKeeps ==
    ASSUME RecoveryInv, NEW book \in PortfolioState, NEW sid \in Nat,
           NEW is_forced \in BOOLEAN, NEW first_bar \in Nat,
           Boot(book, sid, is_forced, first_bar), CoreInv',
           StartingCash <= book.peak_equity,
           \A n \in DOMAIN journal :
             /\ IsRow(journal[n], sid, "equity")
                  => /\ journal[n].bar_i < first_bar
                     /\ journal[n].equity <= book.peak_equity
             /\ ~IsRow(journal[n], sid, "kill"),
           RestoreInv'
    PROVE  RecoveryInv'
<1>1. /\ UNCHANGED journal
      /\ session_id' = sid /\ start_index' = first_bar
      /\ pc' = "start" /\ pf' = book /\ bar_count' = 0
  BY DEF Boot, Memory
<1>2. TickInv'
  <2>1. TicksAdvance'
    BY <1>1 DEF RecoveryInv, TickInv, TicksAdvance
  <2>2. BarNumber' = first_bar
    BY <1>1 DEF BarNumber
  <2>3. QED
    BY <1>1, <2>1, <2>2 DEF TickInv, InBar
<1>3. PeakOnDisk'
  BY <1>1 DEF PeakOnDisk
<1>4. KilledOnDisk'
  BY <1>1 DEF KilledOnDisk, KillOnDisk, IsRow
<1>5. QED
  BY <1>2, <1>3, <1>4 DEF RecoveryInv

LEMMA NewSessionKeepsCore ==
    ASSUME CoreInv, NewSession
    PROVE  CoreInv' /\ sessions + 1 \in Nat
<1> DEFINE book == FreshBook(StartingCash)
           sid == sessions + 1
<1>1. /\ Boot(book, sid, FALSE, 0)
      /\ UNCHANGED <<broker, journal>>
      /\ sessions < MaxSessions /\ sessions' = sid
      /\ processes < MaxProcesses /\ processes' = processes + 1
      /\ session_id' = sid
  BY DEF NewSession, Boot, Memory
<1>2. /\ sessions \in 1..MaxSessions /\ processes \in 1..MaxProcesses
      /\ MaxSessions \in Nat /\ MaxProcesses \in Nat
  BY RecoveryAssumption DEF CoreInv, CountInv, Ids
<1>3. CountInv'
  BY <1>1, <1>2 DEF CountInv, Ids
<1>4. FileInv'
  <2>1. 1..sessions \subseteq 1..sid
    BY <1>2
  <2>2. QED
    BY <1>1, <2>1 DEF CoreInv, FileInv
<1>5. /\ book \in PortfolioState /\ sid \in Nat /\ FALSE \in BOOLEAN
      /\ 0 \in Nat /\ 0 <= NBars
  BY <1>2, SessionAssumption, FreshBookType
<1> HIDE DEF book, sid
<1>6. CoreInv'
  BY <1>1, <1>3, <1>4, <1>5, BootKeepsCore
<1>7. QED
  BY <1>5, <1>6 DEF sid

LEMMA NewSessionKeeps ==
    ASSUME RecoveryInv, NewSession
    PROVE  RecoveryInv'
<1> DEFINE book == FreshBook(StartingCash)
           sid == sessions + 1
<1>1. /\ Boot(book, sid, FALSE, 0)
      /\ UNCHANGED journal
      /\ session_id' = sid /\ forced' = FALSE
      /\ pc' = "start" /\ pf' = book /\ fills' = <<>>
  BY DEF NewSession, Boot, Memory
<1>2. CoreInv' /\ sid \in Nat
  BY NewSessionKeepsCore DEF RecoveryInv
<1>3. \A n \in DOMAIN journal : journal[n].event # "torn" => journal[n].sid # sid
  <2>1. sessions \in 1..MaxSessions /\ MaxSessions \in Nat
    BY RecoveryAssumption DEF RecoveryInv, CoreInv, CountInv, Ids
  <2>2. QED
    BY <2>1 DEF RecoveryInv, CoreInv, FileInv
<1>4. RestoreInv'
  <2>1. sid \notin StartedIds(journal)
    BY <1>3, StartedIdsAre DEF IsStart
  <2> HIDE DEF sid
  <2>2. QED
    BY <1>1, <1>3, <2>1 DEF RecoveryInv, RestoreInv
<1>5. /\ book \in PortfolioState /\ FALSE \in BOOLEAN /\ 0 \in Nat
      /\ StartingCash <= book.peak_equity
  BY SessionAssumption, FreshBookType DEF FreshBook
<1>6. \A n \in DOMAIN journal :
         ~IsRow(journal[n], sid, "equity") /\ ~IsRow(journal[n], sid, "kill")
  BY <1>3 DEF IsRow
<1> HIDE DEF book, sid
<1>7. QED
  BY <1>1, <1>2, <1>4, <1>5, <1>6, BootKeeps

\* What a resume reads is the file, or its first rows.
LEMMA ReadIsPrefix ==
    ASSUME JournalTypeOK, NEW rows \in Readable
    PROVE  /\ rows \in Seq(JournalRow)
           /\ \A n \in DOMAIN rows : n \in DOMAIN journal /\ rows[n] = journal[n]
           /\ ~ReadsMayFail => rows = journal
<1>1. journal \in Seq(JournalRow) /\ Len(journal) \in Nat
  BY DEF JournalTypeOK
<1>2. CASE ReadsMayFail
  <2>1. PICK m \in 0..Len(journal) : rows = SubSeq(journal, 1, m)
    BY <1>2 DEF Readable
  <2>2. QED
    BY <1>1, <1>2, <2>1
<1>3. CASE ~ReadsMayFail
  BY <1>1, <1>3 DEF Readable
<1>4. QED
  BY <1>2, <1>3

\* What a restore finds in what it reads.
LEMMA ReadFinds ==
    ASSUME CoreInv, NEW rows \in Readable, NEW sid, CanRestore(rows, sid)
    PROVE  /\ RestoreFromJournal(rows, sid) \in Restored
           /\ StartOf(rows, sid).mode = ModeOf(broker)
           /\ sid \in 1..sessions
           /\ \E n \in DOMAIN rows :
                /\ StartOf(rows, sid) = rows[n] /\ IsStart(rows[n])
                /\ rows[n].sid = sid
<1>1. /\ rows \in Seq(JournalRow)
      /\ \A n \in DOMAIN rows : n \in DOMAIN journal /\ rows[n] = journal[n]
  BY ReadIsPrefix DEF CoreInv, IndInv, SessionInv
<1>2. PICK n \in DOMAIN rows : /\ StartOf(rows, sid) = rows[n]
                               /\ IsStart(rows[n]) /\ rows[n].sid = sid
  BY <1>1, StartOfIsStart DEF CanRestore
<1>3. rows[n] = journal[n] /\ n \in DOMAIN journal /\ journal[n].event # "torn"
  BY <1>1, <1>2 DEF IsStart
<1>4. StartOf(rows, sid).cash \in Int
  <2>1. rows[n] \in JournalRow /\ rows[n].event = "session_start"
    BY <1>1, <1>2 DEF IsStart
  <2>2. rows[n].cash \in Int
    BY <2>1 DEF JournalRow, TornRow, LostRow
  <2>3. QED
    BY <1>2, <2>2
<1>5. RestoreFromJournal(rows, sid) \in Restored
  BY <1>1, <1>4, ReplayedType DEF RestoreFromJournal, Replayed
<1>6. QED
  BY <1>2, <1>3, <1>5 DEF CoreInv, FileInv

LEMMA RestoreFinds ==
    ASSUME RecoveryInv, NEW sid, CanRestore(journal, sid)
    PROVE  RestoreFromJournal(journal, sid) = Replayed(journal, sid, StartingCash)
<1>1. PICK n \in DOMAIN journal : /\ StartOf(journal, sid) = journal[n]
                                  /\ IsStart(journal[n]) /\ journal[n].sid = sid
  BY StartOfIsStart
  DEF CanRestore, RecoveryInv, CoreInv, IndInv, SessionInv, JournalTypeOK
<1>2. StartOf(journal, sid).cash = StartingCash
  BY <1>1 DEF RecoveryInv, RestoreInv, StartsWithCash
<1>3. QED
  BY <1>2 DEF RestoreFromJournal, Replayed

LEMMA ResumeKeepsCore ==
    ASSUME CoreInv, NEW sid \in Ids, NEW rows \in Readable, ResumeFrom(rows, sid)
    PROVE  /\ CoreInv'
           /\ UNCHANGED broker
           /\ RestoreFromJournal(rows, sid) \in Restored
<1> DEFINE restored == RestoreFromJournal(rows, sid)
           first_bar == ContinueAt(restored)
<1>1. /\ Boot(restored.state, sid, TRUE, first_bar)
      /\ CanRestore(rows, sid) /\ MayContinue(restored)
      /\ broker' = BrokerFor(StartOf(rows, sid).mode)
      /\ UNCHANGED <<sessions, journal>>
      /\ processes < MaxProcesses /\ processes' = processes + 1
      /\ session_id' = sid
  BY DEF ResumeFrom, Boot
<1>2. /\ restored \in Restored
      /\ StartOf(rows, sid).mode = ModeOf(broker)
      /\ sid \in 1..sessions
  BY <1>1, ReadFinds
<1>3. ContinueAt(restored) < NBars
  BY <1>1 DEF MayContinue
<1> HIDE DEF restored
<1>4. UNCHANGED broker
  BY <1>1, <1>2, BrokersAssumption
  DEF BrokerFor, ModeOf, CoreInv, IndInv
<1>5. CountInv'
  <2>1. processes \in 1..MaxProcesses /\ MaxProcesses \in Nat
    BY RecoveryAssumption DEF CoreInv, CountInv
  <2>2. QED
    BY <1>1, <1>2, <2>1 DEF CoreInv, CountInv
<1>6. FileInv'
  BY <1>1, <1>4 DEF CoreInv, FileInv
<1>7. restored.state \in PortfolioState /\ first_bar \in Nat /\ first_bar <= NBars
  <2>1. /\ restored.state \in PortfolioState
        /\ restored.last_bar_i \in Nat \cup {NoBar}
    BY <1>2 DEF Restored
  <2>2. first_bar \in Nat
    BY <2>1 DEF ContinueAt
  <2>3. QED
    BY <1>3, <2>1, <2>2, SessionAssumption
<1>8. PICK book \in PortfolioState, first \in Nat :
        book = restored.state /\ first = first_bar
  BY <1>7
<1>9. sid \in Nat /\ TRUE \in BOOLEAN
  BY <1>2
<1> HIDE DEF first_bar
<1>10. CoreInv'
  BY <1>1, <1>4, <1>5, <1>6, <1>7, <1>8, <1>9, BootKeepsCore
<1>11. QED
  BY <1>2, <1>4, <1>10 DEF restored

LEMMA ResumeKeeps ==
    ASSUME RecoveryInv, ~ReadsMayFail, NEW sid \in Ids, Resume(sid)
    PROVE  RecoveryInv'
<1> DEFINE restored == RestoreFromJournal(journal, sid)
           first_bar == ContinueAt(restored)
<1>0. journal \in Readable /\ ResumeFrom(journal, sid)
  BY DEF Resume, Readable
<1>1. /\ Boot(restored.state, sid, TRUE, first_bar)
      /\ CanRestore(journal, sid) /\ MayContinue(restored)
      /\ UNCHANGED journal
      /\ session_id' = sid /\ forced' = TRUE
      /\ pc' = "start" /\ pf' = restored.state /\ fills' = <<>>
  BY <1>0 DEF ResumeFrom, Boot, Memory
<1>2. /\ restored = Replayed(journal, sid, StartingCash)
      /\ restored \in Restored
      /\ CoreInv'
  BY <1>0, <1>1, RestoreFinds, ResumeKeepsCore DEF RecoveryInv
<1>3. journal \in Seq(JournalRow) /\ StartingCash \in Int
  BY SessionAssumption DEF RecoveryInv, CoreInv, IndInv, SessionInv, JournalTypeOK
<1>4. ~restored.killed /\ ContinueAt(restored) < NBars
  BY <1>1 DEF MayContinue
<1> HIDE DEF restored
<1>5. PICK found \in Restored : found = restored
  BY <1>2
<1>8. /\ ~restored.killed <=> ~(restored.state.kills > 0)
      /\ \A n \in DOMAIN journal : ~IsRow(journal[n], sid, "kill")
  BY <1>2, <1>3, <1>4, ReplayedKills
<1>9. /\ restored.state \in PortfolioState /\ first_bar \in Nat
      /\ restored.state.kills = 0
  <2>1. /\ restored.state \in PortfolioState
        /\ restored.last_bar_i \in Nat \cup {NoBar}
    BY <1>2 DEF Restored
  <2>2. restored.state.kills \in Nat
    BY <2>1 DEF PortfolioState
  <2>3. first_bar \in Nat
    BY <2>1 DEF ContinueAt
  <2>4. QED
    BY <1>4, <1>8, <2>1, <2>2, <2>3
<1>10. ASSUME NEW n \in DOMAIN journal, IsRow(journal[n], sid, "equity")
       PROVE  journal[n].bar_i < first_bar
  <2>1. PICK k \in DOMAIN journal :
          /\ IsRow(journal[k], sid, "equity")
          /\ restored.last_bar_i = journal[k].bar_i
          /\ \A j \in DOMAIN journal : IsRow(journal[j], sid, "equity") => j <= k
    BY <1>2, <1>3, <1>10, ReplayedBar
  <2>2. /\ journal[n] \in JournalRow /\ journal[k] \in JournalRow
        /\ n \in Nat /\ k \in Nat /\ n <= k
    BY <1>3, <1>10, <2>1
  <2>3. journal[n].bar_i \in Nat /\ journal[k].bar_i \in Nat
    BY <1>10, <2>1, <2>2 DEF IsRow, JournalRow, TornRow, LostRow
  <2>4. journal[n].bar_i <= journal[k].bar_i
    <3>1. CASE n = k
      BY <2>3, <3>1
    <3>2. CASE n < k
      <4>1. journal[n].bar_i < journal[k].bar_i
        BY <1>10, <2>1, <3>2 DEF RecoveryInv, CoreInv, TickInv, TicksAdvance, IsRow
      <4>2. QED
        BY <2>3, <4>1
    <3>3. QED
      BY <2>2, <3>1, <3>2
  <2>5. first_bar = journal[k].bar_i + 1
    BY <2>1, <2>3 DEF ContinueAt, NoBar
  <2>6. QED
    BY <2>3, <2>4, <2>5
<1>11. /\ StartingCash <= restored.state.peak_equity
       /\ \A n \in DOMAIN journal :
            IsRow(journal[n], sid, "equity")
              => journal[n].equity <= restored.state.peak_equity
  BY <1>2, <1>3, ReplayedPeak
<1>12. RestoreInv'
  <2>1. OnDisk' = found
    BY <1>5, <1>1, <1>2 DEF OnDisk
  <2>2. JournalledKills' = 0
    BY <1>1, <1>9 DEF JournalledKills
  <2>3. /\ Len(fills') = 0
        /\ found.n_fills >= 0
        /\ found.killed = FALSE
        /\ (0 > 0) = FALSE
    BY <1>1, <1>4, <1>5 DEF Restored
  <2>4. TellsNow(found)'
    BY <1>1, <1>5, <1>9, <2>2, <2>3 DEF TellsNow, Tells
  <2>5. QED
    BY <1>1, <2>1, <2>4 DEF RecoveryInv, CoreInv, RestoreInv
<1>13. PICK book \in PortfolioState, first \in Nat :
         book = restored.state /\ first = first_bar
  BY <1>9
<1>14. sid \in Nat /\ TRUE \in BOOLEAN
  BY RecoveryAssumption DEF Ids
<1> HIDE DEF first_bar
<1>15. QED
  BY <1>1, <1>2, <1>8, <1>10, <1>11, <1>12, <1>13, <1>14, BootKeeps

(***************************************************************************)
(* The invariant.                                                          *)
(***************************************************************************)
LEMMA RecoveryStarts == RecoveryInit => RecoveryInv
<1> SUFFICES ASSUME RecoveryInit
             PROVE  RecoveryInv
  OBVIOUS
<1>1. IndInv /\ RestoreInv
  BY InitInv, RestoreStarts DEF RecoveryInit, Init
<1>2. /\ journal = <<>> /\ delayed = <<>> /\ bar_count = 0 /\ pc = "start"
      /\ session_id = 1 /\ start_index = 0
      /\ pf = FreshBook(StartingCash) /\ equity = <<StartingCash>>
  BY DEF RecoveryInit, Init, SessionInit, JournalInit, FirstSession
<1>3. processes = 1 /\ sessions = 1 /\ past = [id \in Ids |-> NoPast]
  BY DEF RecoveryInit, FirstSession
<1>4. BarPeak
  BY <1>2 DEF BarPeak
<1>5. CountInv
  BY <1>2, <1>3, RecoveryAssumption DEF CountInv, Ids
<1>6. PastInv
  BY <1>3, SessionAssumption DEF PastInv, NoPast, NoBar
<1>7. FileInv /\ TickInv /\ KilledOnDisk
  BY <1>2 DEF FileInv, TickInv, TicksAdvance, KilledOnDisk, KillOnDisk
<1>8. LengthInv
  BY <1>2, SessionAssumption DEF LengthInv, InBar
<1>9. PeakOnDisk
  BY <1>2, SessionAssumption DEF PeakOnDisk, FreshBook
<1>10. QED
  BY <1>1, <1>4, <1>5, <1>6, <1>7, <1>8, <1>9 DEF RecoveryInv, CoreInv

LEMMA RecoveryStutters ==
    ASSUME RecoveryInv, UNCHANGED recoveryVars
    PROVE  RecoveryInv'
<1>1. UNCHANGED <<vars, processes, sessions, past>>
  BY DEF recoveryVars
<1>2. IndInv'
  BY <1>1, NextInv DEF RecoveryInv, CoreInv
<1>3. UNCHANGED <<sessionVars, processVars, journalVars>>
  BY <1>1 DEF vars
<1>4. RestoreInv'
  BY <1>3, RestoreStays DEF RecoveryInv, CoreInv
<1>5. UNCHANGED <<pc, pf, fills, equity, bar_count, mark, delayed, killed, journal,
                  session_id, start_index, broker>>
  BY <1>1 DEF vars, sessionVars, processVars, journalVars, bookVars, riskVars, barVars
<1>6. BarPeak' /\ CountInv' /\ PastInv' /\ FileInv' /\ LengthInv'
  BY <1>1, <1>5 DEF RecoveryInv, CoreInv, BarPeak, CountInv, PastInv, FileInv, LengthInv,
     Equity
<1>7. TickInv' /\ PeakOnDisk' /\ KilledOnDisk'
  BY <1>5 DEF RecoveryInv, CoreInv, TickInv, TicksAdvance, PeakOnDisk, KilledOnDisk,
     KillOnDisk, BarNumber, BarIndex
<1>8. QED
  BY <1>2, <1>4, <1>6, <1>7 DEF RecoveryInv, CoreInv

LEMMA CoreStutters ==
    ASSUME CoreInv, UNCHANGED recoveryVars
    PROVE  CoreInv'
<1>1. UNCHANGED <<vars, processes, sessions, past>>
  BY DEF recoveryVars
<1>2. IndInv'
  BY <1>1, NextInv DEF CoreInv
<1>3. UNCHANGED <<pc, pf, equity, bar_count, mark, delayed, journal, session_id,
                  start_index, broker>>
  BY <1>1 DEF vars, sessionVars, processVars, journalVars, bookVars, riskVars, barVars
<1>4. BarPeak' /\ CountInv' /\ PastInv' /\ FileInv' /\ LengthInv'
  BY <1>1, <1>3 DEF CoreInv, BarPeak, CountInv, PastInv, FileInv, LengthInv, Equity
<1>5. QED
  BY <1>2, <1>4 DEF CoreInv

LEMMA CoreStep ==
    ASSUME CoreInv, [RecoveryNext]_recoveryVars
    PROVE  CoreInv'
BY NextKeepsCore, CrashKeepsCore, NewSessionKeepsCore, ResumeKeepsCore, CoreStutters
DEF RecoveryNext, Resume

LEMMA CoreInvariance == RecoverySpec => []CoreInv
<1>1. RecoveryInit => CoreInv
  BY RecoveryStarts DEF RecoveryInv
<1>2. QED
  BY <1>1, CoreStep, PTL DEF RecoverySpec

LEMMA RecoveryStep ==
    ASSUME RecoveryInv, ~ReadsMayFail, [RecoveryNext]_recoveryVars
    PROVE  RecoveryInv'
BY NextKeepsRecovery, CrashKeeps, NewSessionKeeps, ResumeKeeps, RecoveryStutters
DEF RecoveryNext

\* What a process knows of itself and of the file holds over every crash, new
\* session and resume that reads the whole file.
THEOREM RecoveryInvariance ==
    ASSUME ~ReadsMayFail
    PROVE  RecoverySpec => []RecoveryInv
<1>1. RecoveryInv /\ [RecoveryNext]_recoveryVars => RecoveryInv'
  BY RecoveryStep
<1>2. QED
  BY <1>1, RecoveryStarts, PTL DEF RecoverySpec

(***************************************************************************)
(* What it says of the file.                                               *)
(***************************************************************************)
\* The processes, the sessions and the file keep their shape, over any number
\* of crashes, new sessions and resumes, whatever the disk loses.
THEOREM RecoveryTypeCorrect == RecoverySpec => []RecoveryTypeOK
<1>1. CoreInv => RecoveryTypeOK
  BY DEF CoreInv, RecoveryTypeOK, CountInv, PastInv, IndInv, SessionInv, TypeOK
<1>2. QED
  BY <1>1, CoreInvariance, PTL

\* No process that read the whole file journals again a bar an earlier process
\* of its session has journalled: the ticks of a session advance in the file.
THEOREM TicksCorrect ==
    ASSUME ~ReadsMayFail
    PROVE  RecoverySpec => []TicksAdvance
<1>1. RecoveryInv => TicksAdvance
  BY DEF RecoveryInv, TickInv
<1>2. QED
  BY <1>1, RecoveryInvariance, PTL

LEMMA NoFillRows ==
    ASSUME NEW rows \in Seq(JournalRow), NEW sid,
           \A n \in DOMAIN rows : ~IsRow(rows[n], sid, "fill")
    PROVE  FillsOf(rows, sid) = <<>>
<1> DEFINE m == Len(rows)
           found == FoundIn(rows, sid, "fill")
           empty == {n \in 0..m : found[n] = <<>>}
<1>1. m \in Nat /\ \A n \in 1..m : ~IsRow(rows[n], sid, "fill")
  OBVIOUS
<1>2. /\ found[0] = <<>>
      /\ \A n \in 1..m : found[n] = Found(found[n - 1], rows[n], sid, "fill")
  BY FoundDef
<1> HIDE DEF m, found
<1>3. 0 \in empty
  BY <1>1, <1>2
<1>4. \A n \in 1..m : n - 1 \in empty => n \in empty
  BY <1>1, <1>2 DEF Found, IsRow
<1> HIDE DEF empty
<1>5. \A n \in 0..m : n \in empty
  BY <1>1, <1>3, <1>4, IntervalInduction
<1>6. RowsOf(rows, sid, "fill") = <<>>
  BY <1>1, <1>5 DEF RowsOf, empty, found, m
<1>7. FillsOf(rows, sid) \in Seq(Fill) /\ Len(FillsOf(rows, sid)) = 0
  BY <1>6, FillsOfType
<1>8. QED
  BY <1>7

\* A session started live has no fill on disk, whoever resumes it: what it is
\* resumed with is the stub, which rejects every order.
THEOREM LiveCorrect == RecoverySpec => []LiveNeverTrades
<1>1. CoreInv => LiveNeverTrades
  <2> SUFFICES ASSUME CoreInv, NEW id \in StartedIds(journal),
                      StartOf(journal, id).mode = "live"
               PROVE  FillsOf(journal, id) = <<>>
    BY DEF LiveNeverTrades
  <2>1. journal \in Seq(JournalRow)
    BY DEF CoreInv, IndInv, SessionInv, JournalTypeOK
  <2>2. PICK n \in DOMAIN journal : StartOf(journal, id) = journal[n]
                                     /\ IsStart(journal[n])
    BY <2>1, StartOfIsStart
  <2>3. ModeOf(broker) = "live"
    BY <2>2 DEF CoreInv, FileInv, IsStart
  <2>4. broker # "paper"
    BY <2>3 DEF ModeOf
  <2>5. \A k \in DOMAIN journal : ~IsRow(journal[k], id, "fill")
    BY <2>4 DEF CoreInv, FileInv, IsRow
  <2>6. QED
    BY <2>1, <2>5, NoFillRows
<1>2. QED
  BY <1>1, CoreInvariance, PTL

\* A resume never tightens the drawdown limit: the peak a restore finds is one
\* the running session has reached.
THEOREM RestoredPeakCorrect ==
    ASSUME ~ReadsMayFail
    PROVE  RecoverySpec => []RestoredPeakWasReached
<1>1. RecoveryInv => RestoredPeakWasReached
  <2> SUFFICES ASSUME RecoveryInv, pc # "down", CanRestore(journal, session_id)
               PROVE  RestoreFromJournal(journal, session_id).state.peak_equity
                        <= pf.peak_equity
    BY DEF RestoredPeakWasReached
  <2>1. /\ journal \in Seq(JournalRow) /\ StartingCash \in Int
        /\ pf.peak_equity \in Int
    BY SessionAssumption
    DEF RecoveryInv, CoreInv, IndInv, SessionInv, SessionTypeOK, JournalTypeOK, PortfolioState
  <2>2. RestoreFromJournal(journal, session_id)
          = Replayed(journal, session_id, StartingCash)
    BY RestoreFinds
  <2>3. /\ StartingCash <= pf.peak_equity
        /\ \A n \in DOMAIN journal : IsRow(journal[n], session_id, "equity")
             => journal[n].equity <= pf.peak_equity
    BY DEF RecoveryInv, CoreInv, PeakOnDisk
  <2>4. QED
    BY <2>1, <2>2, <2>3, ReplayedPeak
<1>2. QED
  BY <1>1, RecoveryInvariance, PTL

\* As long as no line of the file is cut, what a restore finds is the running
\* session, over any number of crashes and resumes.
THEOREM RecoveredUncut ==
    ASSUME ~ReadsMayFail
    PROVE  RecoverySpec => [](Untorn(journal) => RestoreRebuildsBook)
<1>1. RecoveryInv => (Untorn(journal) => RestoreRebuildsBook)
  BY RestoreIsTold DEF RecoveryInv, CoreInv, IndInv
<1>2. QED
  BY <1>1, RecoveryInvariance, PTL

(***************************************************************************)
(* The file on a disk that takes every row, where nothing is lost when a   *)
(* process goes: every row belongs to a session the file has a start of.   *)
(***************************************************************************)
CleanInv ==
    /\ RecoveryInv
    /\ ~jdisabled
    /\ Untorn(journal)
    /\ \A n \in DOMAIN journal : journal[n].sid \in StartedIds(journal)
    /\ pc \notin {"start", "down"} \/ forced => session_id \in StartedIds(journal)

LEMMA CleanRow ==
    ASSUME CleanInv, ~DiskMayFail, NEW row \in JournalRow, Write(<<row>>)
    PROVE  journal' = Append(journal, row) /\ ~jdisabled'
<1>1. JournalTypeOK /\ ~EndsTorn
  BY UntornEnd DEF CleanInv, RecoveryInv, CoreInv, IndInv, SessionInv
<1>2. ~AppendSome(<<row>>)
  BY DEF AppendSome, LosesSome
<1>3. ~jdisabled'
  BY <1>2 DEF Write, AppendAll, CleanInv
<1>4. QED
  BY <1>1, <1>3, WriteRow, ContinuedIs

LEMMA CleanTwo ==
    ASSUME CleanInv, ~DiskMayFail, NEW one \in JournalRow, NEW two \in JournalRow,
           Write(<<one, two>>)
    PROVE  journal' = Append(Append(journal, one), two) /\ ~jdisabled'
<1>1. JournalTypeOK /\ ~EndsTorn
  BY UntornEnd DEF CleanInv, RecoveryInv, CoreInv, IndInv, SessionInv
<1>2. ~AppendSome(<<one, two>>)
  BY DEF AppendSome, LosesSome
<1>3. ~jdisabled'
  BY <1>2 DEF Write, AppendAll, CleanInv
<1>4. QED
  BY <1>1, <1>3, WriteTwo, ContinuedIs

\* What a step adds to the file: nothing, one row, or a heartbeat's two.
LEMMA CleanStep ==
    ASSUME CleanInv, ~DiskMayFail, Step
    PROVE  /\ ~jdisabled'
           /\ \/ journal' = journal
              \/ \E row \in Tellable : journal' = Append(journal, row)
              \/ \E one, two \in Tellable :
                   /\ one.event = "heartbeat" /\ two.event = "equity"
                   /\ journal' = Append(Append(journal, one), two)
<1>1. IndInv /\ delayed = <<>> /\ JournalTypeOK /\ ~jdisabled
  BY DEF CleanInv, RecoveryInv, CoreInv, BarPeak, IndInv, SessionInv
<1>2. CASE Write(<<>>)
  BY <1>1, <1>2, WriteNothing
<1>3. ASSUME NEW row \in Tellable, Write(<<row>>)
      PROVE  journal' = Append(journal, row) /\ ~jdisabled'
  <2>1. row \in JournalRow
    BY DEF Tellable
  <2>2. QED
    BY <1>3, <2>1, CleanRow
<1>4. ASSUME NEW one \in Tellable, NEW two \in Tellable, Write(<<one, two>>)
      PROVE  journal' = Append(Append(journal, one), two) /\ ~jdisabled'
  <2>1. one \in JournalRow /\ two \in JournalRow
    BY DEF Tellable
  <2>2. QED
    BY <1>4, <2>1, CleanTwo
<1>5. QED
  BY <1>1, <1>2, <1>3, <1>4, StepWrites

AllStarted(rows) == \A n \in DOMAIN rows : rows[n].sid \in StartedIds(rows)

LEMMA RowStarted ==
    ASSUME NEW rows \in Seq(JournalRow), Untorn(rows), AllStarted(rows),
           NEW row \in JournalRow, row.event # "torn",
           IsStart(row) \/ row.sid \in StartedIds(rows)
    PROVE  /\ Append(rows, row) \in Seq(JournalRow)
           /\ Untorn(Append(rows, row)) /\ AllStarted(Append(rows, row))
           /\ StartedIds(rows) \subseteq StartedIds(Append(rows, row))
           /\ row.sid \in StartedIds(Append(rows, row))
<1> DEFINE longer == Append(rows, row)
<1>1. \A sid : sid \in StartedIds(longer)
                 <=> sid \in StartedIds(rows) \/ (IsStart(row) /\ row.sid = sid)
  BY StartedIdsAppend
<1>2. Untorn(longer)
  BY UntornAppend
<1>3. AllStarted(longer)
  <2>1. \A n \in DOMAIN longer :
          longer[n] = row \/ (n \in DOMAIN rows /\ longer[n] = rows[n])
    BY AddedRow
  <2> HIDE DEF longer
  <2>2. QED
    BY <1>1, <2>1 DEF AllStarted
<1>4. longer \in Seq(JournalRow)
  BY AddedRow
<1> HIDE DEF longer
<1>5. QED
  BY <1>1, <1>2, <1>3, <1>4 DEF longer

LEMMA CleanFile ==
    ASSUME CleanInv, ~DiskMayFail, Step, UNCHANGED processVars
    PROVE  /\ ~jdisabled' /\ Untorn(journal') /\ AllStarted(journal')
           /\ session_id' \in StartedIds(journal')
<1>1. /\ journal \in Seq(JournalRow) /\ Untorn(journal) /\ AllStarted(journal)
      /\ session_id \in Nat /\ session_id' = session_id
  BY DEF CleanInv, AllStarted, RecoveryInv, CoreInv, IndInv, SessionInv, JournalTypeOK,
     ProcessTypeOK, processVars
<1>2. CASE pc = "start" /\ ~forced
  <2> DEFINE row == StartRow(session_id, StartingCash, ModeOf(broker))
  <2>1. Write(SessionRow(row))
    BY <1>2 DEF Step, Start, PollFills, Submit, BrokerFills, BrokerRejects,
       Submitted, LoopStep, NextBar, ApplyDelayed, OnBar, StrategyRaises,
       RejectOrder, RecordKill, Approve, EndBar, FeedEnds, Finish, Terminated,
       Stopped
  <2>2. /\ row \in JournalRow /\ IsStart(row) /\ row.sid = session_id
        /\ row.event # "torn"
    <3>1. ModeOf(broker) \in Mode /\ StartingCash \in Int
      BY SessionAssumption DEF ModeOf, Mode
    <3>2. row \in JournalRow
      BY <1>1, <3>1, RowTypes
    <3>3. QED
      BY <3>2 DEF StartRow, IsStart
  <2> HIDE DEF row
  <2>3. Write(<<row>>)
    BY <1>2, <2>1 DEF SessionRow
  <2>4. journal' = Append(journal, row) /\ ~jdisabled'
    BY <2>2, <2>3, CleanRow
  <2>5. QED
    BY <1>1, <2>2, <2>4, RowStarted
<1>3. CASE ~(pc = "start" /\ ~forced)
  <2>1. pc # "down"
    BY DEF Step, Start, PollFills, Submit, BrokerFills, BrokerRejects,
       Submitted, LoopStep, NextBar, ApplyDelayed, OnBar, StrategyRaises,
       RejectOrder, RecordKill, Approve, EndBar, FeedEnds, Finish, Terminated,
       Stopped
  <2>2. session_id \in StartedIds(journal)
    BY <1>3, <2>1 DEF CleanInv
  <2>3. \A row \in Tellable :
          row \in JournalRow /\ row.event # "torn" /\ row.sid = session_id
    BY DEF Tellable
  <2>4. CASE journal' = journal
    BY <1>1, <2>2, <2>4, CleanStep
  <2>5. ASSUME NEW row \in Tellable, journal' = Append(journal, row)
        PROVE  /\ Untorn(journal') /\ AllStarted(journal')
               /\ session_id' \in StartedIds(journal')
    BY <1>1, <2>2, <2>3, <2>5, RowStarted
  <2>6. ASSUME NEW one \in Tellable, NEW two \in Tellable,
               journal' = Append(Append(journal, one), two)
        PROVE  /\ Untorn(journal') /\ AllStarted(journal')
               /\ session_id' \in StartedIds(journal')
    <3> DEFINE half == Append(journal, one)
    <3>1. /\ half \in Seq(JournalRow) /\ Untorn(half) /\ AllStarted(half)
          /\ session_id \in StartedIds(half)
      BY <1>1, <2>2, <2>3, RowStarted
    <3> HIDE DEF half
    <3>2. journal' = Append(half, two)
      BY <2>6 DEF half
    <3>3. QED
      BY <1>1, <2>3, <3>1, <3>2, RowStarted
  <2>7. QED
    BY <2>4, <2>5, <2>6, CleanStep
<1>4. QED
  BY <1>2, <1>3

LEMMA CleanStarts == ~DiskMayFail /\ RecoveryInit => CleanInv
<1> SUFFICES ASSUME ~DiskMayFail, RecoveryInit
             PROVE  CleanInv
  OBVIOUS
<1>1. RecoveryInv
  BY RecoveryStarts
<1>2. /\ journal = <<>> /\ jdisabled \in {FALSE} /\ pc = "start" /\ ~forced
  BY DEF RecoveryInit, Init, SessionInit, JournalInit
<1>3. QED
  BY <1>1, <1>2 DEF CleanInv, Untorn

LEMMA CleanNext ==
    ASSUME CleanInv, ~DiskMayFail, ~ReadsMayFail, [RecoveryNext]_recoveryVars
    PROVE  CleanInv'
<1>1. RecoveryInv'
  BY RecoveryStep DEF CleanInv
<1>2. CASE Next
  BY <1>1, <1>2, CleanFile DEF Next, CleanInv, AllStarted
<1>3. CASE Crash
  BY <1>1, <1>3 DEF Crash, Memory, processVars, journalVars, CleanInv
<1>4. CASE NewSession
  BY <1>1, <1>4 DEF NewSession, Boot, Memory, CleanInv
<1>5. CASE \E sid \in Ids : Resume(sid)
  <2>1. PICK sid \in Ids : ResumeFrom(journal, sid)
    BY <1>5 DEF Resume, Readable
  <2>2. QED
    BY <1>1, <2>1 DEF ResumeFrom, CanRestore, Boot, CleanInv
<1>6. CASE UNCHANGED recoveryVars
  <2>1. UNCHANGED <<pc, forced, session_id, journal, jdisabled>>
    BY <1>6 DEF recoveryVars, vars, sessionVars, processVars, journalVars, bookVars
  <2>2. QED
    BY <1>1, <2>1 DEF CleanInv
<1>7. QED
  BY <1>2, <1>3, <1>4, <1>5, <1>6 DEF RecoveryNext

LEMMA CleanInvariance ==
    ASSUME ~DiskMayFail, ~ReadsMayFail
    PROVE  RecoverySpec => []CleanInv
BY CleanStarts, CleanNext, PTL DEF RecoverySpec

\* On a disk that takes and gives back every row, what a restore finds is the running session
\* at every step, over any number of crashes, resumes and other sessions.
THEOREM RecoveredBook ==
    ASSUME ~DiskMayFail, ~ReadsMayFail
    PROVE  RecoverySpec => []RestoreRebuildsBook
<1>1. CleanInv => RestoreRebuildsBook
  BY RestoreIsTold DEF CleanInv, RecoveryInv, CoreInv, IndInv
<1>2. QED
  BY <1>1, CleanInvariance, PTL

(***************************************************************************)
(* The sessions of the file as guarded books: each is read off the file,   *)
(* so it moves only by the rows a step writes.                             *)
(***************************************************************************)
Killed(rows, id) == \E n \in DOMAIN rows : IsRow(rows[n], id, "kill")

BookIn(rows, id) == Replayed(rows, id, StartingCash).state

LEMMA BookIsInFile ==
    ASSUME CleanInv, NEW id
    PROVE  /\ BookOf(id).cash = BookIn(journal, id).cash
           /\ BookOf(id).pos.qty = BookIn(journal, id).pos.qty
           /\ KillOnDisk(id) <=> Killed(journal, id)
<1>1. journal \in Seq(JournalRow) /\ StartingCash \in Int /\ RecoveryInv
      /\ Untorn(journal)
  BY SessionAssumption
  DEF CleanInv, RecoveryInv, CoreInv, IndInv, SessionInv, JournalTypeOK
<1>2. ASSUME id \notin StartedIds(journal)
      PROVE  BookIn(journal, id) = FreshBook(StartingCash)
  <2>1. \A n \in DOMAIN journal : ~OfSession(journal[n], id)
    BY <1>2 DEF CleanInv, OfSession
  <2>2. Replayed(journal, id, StartingCash) = FreshRestored(StartingCash)
    BY <1>1, <2>1, ReplayedNothing
  <2>3. QED
    BY <2>2 DEF BookIn, FreshRestored
<1>3. CASE id = session_id /\ pc # "down"
  <2>1. BookOf(id) = pf
    BY <1>3 DEF BookOf
  <2>2. CASE id \in StartedIds(journal)
    <3>1. TellsNow(OnDisk)
      BY <1>1, <1>3, <2>2 DEF CleanInv, RecoveryInv, CoreInv, RestoreInv
    <3>2. OnDisk.state = BookIn(journal, id)
      BY <1>3 DEF OnDisk, BookIn
    <3>3. BookIn(journal, id).cash = pf.cash /\ BookIn(journal, id).pos = pf.pos
      BY <3>1, <3>2 DEF TellsNow, Tells
    <3>4. QED
      BY <2>1, <3>3 DEF KillOnDisk, Killed, IsRow
  <2>3. CASE id \notin StartedIds(journal)
    <3>1. pc = "start" /\ ~forced
      BY <1>3, <2>3 DEF CleanInv
    <3>2. pf = FreshBook(StartingCash)
      BY <1>1, <3>1 DEF RecoveryInv, CoreInv, RestoreInv
    <3>3. QED
      BY <1>2, <2>1, <2>3, <3>2 DEF KillOnDisk, Killed, IsRow
  <2>4. QED
    BY <2>2, <2>3
<1>4. CASE ~(id = session_id /\ pc # "down")
  <2>1. CASE id \in StartedIds(journal)
    <3>1. CanRestore(journal, id)
      BY <1>1, <2>1 DEF CanRestore, Untorn
    <3>2. RestoreFromJournal(journal, id).state = BookIn(journal, id)
      BY <1>1, <3>1, RestoreFinds DEF BookIn
    <3>3. QED
      BY <1>4, <2>1, <3>2 DEF BookOf, KillOnDisk, Killed, IsRow
  <2>2. CASE id \notin StartedIds(journal)
    BY <1>2, <1>4, <2>2 DEF BookOf, KillOnDisk, Killed, IsRow
  <2>3. QED
    BY <2>1, <2>2
<1>5. QED
  BY <1>3, <1>4

LEMMA KilledAppend ==
    ASSUME NEW rows \in Seq(JournalRow), NEW row \in JournalRow, NEW id
    PROVE  Killed(Append(rows, row), id)
             <=> Killed(rows, id) \/ IsRow(row, id, "kill")
<1> DEFINE longer == Append(rows, row)
           m == Len(rows)
<1>1. /\ m \in Nat
      /\ DOMAIN rows = 1..m
      /\ DOMAIN longer = 1..(m + 1)
      /\ longer[m + 1] = row
      /\ \A n \in 1..m : longer[n] = rows[n]
  BY AddedRow
<1> HIDE DEF longer, m
<1>2. Killed(longer, id) <=> Killed(rows, id) \/ IsRow(row, id, "kill")
  BY <1>1 DEF Killed
<1>3. QED
  BY <1>2 DEF longer

\* A row that is not one of the session's fills leaves its book.
LEMMA QuietRow ==
    ASSUME NEW rows \in Seq(JournalRow), NEW row \in JournalRow,
           row.event # "torn", NEW id, ~IsRow(row, id, "fill")
    PROVE  /\ BookIn(Append(rows, row), id).cash = BookIn(rows, id).cash
           /\ BookIn(Append(rows, row), id).pos = BookIn(rows, id).pos
           /\ FillsOf(Append(rows, row), id) = FillsOf(rows, id)
<1> DEFINE before == Replayed(rows, id, StartingCash)
           after == Replayed(Append(rows, row), id, StartingCash)
<1>1. before \in Restored /\ after = ReplayRow(before, row, id)
  BY SessionAssumption, ReplayedType, ReplayedAppend
<1>2. FillsOf(Append(rows, row), id) = FillsOf(rows, id)
  BY FillsOfAppend DEF IsRow
<1> HIDE DEF before, after
<1>3. after.state.cash = before.state.cash /\ after.state.pos = before.state.pos
  <2>1. CASE ~OfSession(row, id)
    BY <1>1, <2>1 DEF ReplayRow
  <2>2. CASE OfSession(row, id)
    <3>1. row.event # "fill" /\ after = RestoreRow(before, row)
      BY <1>1, <2>2 DEF ReplayRow, OfSession, IsRow
    <3>2. QED
      BY <1>1, <3>1 DEF RestoreRow, Restored, PortfolioState
  <2>3. QED
    BY <2>1, <2>2
<1>4. QED
  BY <1>2, <1>3 DEF BookIn, before, after

\* One of its fills moves it by the fill.
LEMMA FillRowTrades ==
    ASSUME NEW rows \in Seq(JournalRow), NEW row \in JournalRow, NEW id,
           IsRow(row, id, "fill")
    PROVE  /\ row.fill \in Fill
           /\ BookIn(Append(rows, row), id).cash
                = BookIn(rows, id).cash - Signed(row.fill) * row.fill.price
                    - row.fill.commission
           /\ BookIn(Append(rows, row), id).pos.qty
                = BookIn(rows, id).pos.qty + Signed(row.fill)
           /\ FillsOf(Append(rows, row), id) = Append(FillsOf(rows, id), row.fill)
<1> DEFINE before == Replayed(rows, id, StartingCash)
           after == Replayed(Append(rows, row), id, StartingCash)
<1>1. before \in Restored /\ after = ReplayRow(before, row, id)
  BY SessionAssumption, ReplayedType, ReplayedAppend
<1>2. /\ FillsOf(Append(rows, row), id) = Append(FillsOf(rows, id), row.fill)
      /\ row.fill \in Fill
  <2>1. row.fill \in Fill
    BY DEF IsRow, JournalRow, TornRow, LostRow
  <2>2. row \in RowsLike(id, "fill")
    BY DEF IsRow, RowsLike
  <2>3. QED
    BY <2>1, <2>2, FillsOfAppend
<1> HIDE DEF before, after
<1>3. after.state = ApplyFill(before.state, row.fill)
  BY <1>1 DEF ReplayRow, OfSession, IsRow, RestoreRow, Restored
<1>4. before.state \in PortfolioState
      /\ before.state.cash \in Int /\ before.state.pos \in Position
  BY <1>1 DEF Restored, PortfolioState
<1>5. /\ after.state.cash = CashAfter(before.state.cash, row.fill)
      /\ after.state.pos = PositionAfter(before.state.pos, row.fill)
  BY <1>2, <1>3, <1>4, ApplyFillType
<1>6. /\ after.state.cash = before.state.cash - Signed(row.fill) * row.fill.price
                              - row.fill.commission
      /\ after.state.pos.qty = before.state.pos.qty + Signed(row.fill)
  BY <1>2, <1>4, <1>5, CashMovesByFill, PositionMovesByFill
<1>7. QED
  BY <1>2, <1>6 DEF BookIn, before, after

\* The book of every session, as the file tells it.
BooksInFile ==
    \A id \in Ids :
        /\ BookOf(id).cash = BookIn(journal, id).cash
        /\ BookOf(id).pos.qty = BookIn(journal, id).pos.qty
        /\ KillOnDisk(id) <=> Killed(journal, id)

LEMMA SameFileGuarded ==
    ASSUME BooksInFile, BooksInFile', NEW id \in Ids,
           BookIn(journal', id).cash = BookIn(journal, id).cash,
           BookIn(journal', id).pos = BookIn(journal, id).pos,
           FillsOf(journal', id) = FillsOf(journal, id),
           Killed(journal', id) <=> Killed(journal, id)
    PROVE  GuardedStep(id)
<1>1. /\ BookOf(id)'.cash = BookOf(id).cash
      /\ BookOf(id)'.pos.qty = BookOf(id).pos.qty
      /\ KillOnDisk(id)' <=> KillOnDisk(id)
  BY DEF BooksInFile
<1>2. KillOnDisk(id)' = KillOnDisk(id)
  BY <1>1 DEF KillOnDisk
<1>3. QED
  BY <1>1, <1>2 DEF GuardedStep, SessionBook!bookVars

LEMMA StepIsUp == Step => pc # "down"
BY DEF Step, Start, PollFills, Submit, BrokerFills, BrokerRejects, Submitted,
   LoopStep, NextBar, ApplyDelayed, OnBar, StrategyRaises, RejectOrder,
   RecordKill, Approve, EndBar, FeedEnds, Finish, Terminated, Stopped

LEMMA RowGuarded ==
    ASSUME CleanInv, BooksInFile, BooksInFile', Step, NEW row \in Tellable,
           journal' = Append(journal, row), NEW id \in Ids
    PROVE  GuardedStep(id)
<1>1. /\ journal \in Seq(JournalRow)
      /\ row \in JournalRow /\ row.event # "torn" /\ row.sid = session_id
  BY DEF CleanInv, RecoveryInv, CoreInv, IndInv, SessionInv, JournalTypeOK, Tellable
<1>2. Killed(journal', id) <=> Killed(journal, id) \/ IsRow(row, id, "kill")
  BY <1>1, KilledAppend
<1>3. CASE IsRow(row, id, "fill")
  <2>1. ~Killed(journal, id)
    <3>1. id = session_id /\ ~killed /\ pc # "down"
      BY <1>1, <1>3, StepIsUp DEF Tellable, IsRow
    <3>2. QED
      BY <3>1 DEF CleanInv, RecoveryInv, CoreInv, KilledOnDisk, KillOnDisk, Killed, IsRow
  <2>2. ~Killed(journal', id)
    BY <1>2, <1>3, <2>1 DEF IsRow
  <2>3. /\ BookOf(id)'.cash = BookOf(id).cash - Signed(row.fill) * row.fill.price
                                - row.fill.commission
        /\ BookOf(id)'.pos.qty = BookOf(id).pos.qty + Signed(row.fill)
        /\ FillsOf(journal', id) = Append(FillsOf(journal, id), row.fill)
        /\ row.fill \in Fill
    BY <1>1, <1>3, FillRowTrades DEF BooksInFile
  <2>4. FillsOf(journal, id) \in Seq(Fill)
    BY <1>1, FillsOfType
  <2>5. /\ FillsOf(journal', id) # <<>>
        /\ FillsOf(journal', id)[Len(FillsOf(journal', id))] = row.fill
    BY <2>3, <2>4
  <2>6. ~KillOnDisk(id) /\ KillOnDisk(id)' = KillOnDisk(id)
    BY <2>1, <2>2 DEF BooksInFile, KillOnDisk
  <2>7. SessionBook(id)!Moved(row.fill) = Signed(row.fill)
    BY DEF SessionBook!Moved, Signed
  <2>8. SessionBook(id)!Trade(row.fill)
    BY <2>3, <2>6, <2>7 DEF SessionBook!Trade
  <2>9. QED
    BY <2>5, <2>8 DEF GuardedStep, SessionBook!Next
<1>4. CASE ~IsRow(row, id, "fill")
  <2>1. /\ BookIn(journal', id).cash = BookIn(journal, id).cash
        /\ BookIn(journal', id).pos = BookIn(journal, id).pos
        /\ FillsOf(journal', id) = FillsOf(journal, id)
    BY <1>1, <1>4, QuietRow
  <2>2. CASE Killed(journal, id) \/ ~IsRow(row, id, "kill")
    BY <1>2, <2>1, <2>2, SameFileGuarded
  <2>3. CASE ~Killed(journal, id) /\ IsRow(row, id, "kill")
    <3>1. ~KillOnDisk(id) /\ KillOnDisk(id)'
      BY <1>2, <2>3 DEF BooksInFile
    <3>2. KillOnDisk(id)' = TRUE
      BY <3>1 DEF KillOnDisk
    <3>3. /\ BookOf(id)'.cash = BookOf(id).cash
          /\ BookOf(id)'.pos.qty = BookOf(id).pos.qty
      BY <2>1 DEF BooksInFile
    <3>4. SessionBook(id)!Close
      BY <2>1, <3>1, <3>2, <3>3 DEF SessionBook!Close
    <3>5. QED
      BY <3>4 DEF GuardedStep, SessionBook!Next
  <2>4. QED
    BY <2>2, <2>3
<1>5. QED
  BY <1>3, <1>4

LEMMA StepGuardsBooks ==
    ASSUME CleanInv, ~DiskMayFail, BooksInFile, BooksInFile', Step, NEW id \in Ids
    PROVE  GuardedStep(id)
<1>1. CASE journal' = journal
  BY <1>1, SameFileGuarded
<1>2. CASE \E row \in Tellable : journal' = Append(journal, row)
  BY <1>2, RowGuarded
<1>3. ASSUME NEW one \in Tellable, NEW two \in Tellable,
             one.event = "heartbeat", two.event = "equity",
             journal' = Append(Append(journal, one), two)
      PROVE  GuardedStep(id)
  <2> DEFINE half == Append(journal, one)
  <2>1. /\ journal \in Seq(JournalRow) /\ half \in Seq(JournalRow)
        /\ one \in JournalRow /\ two \in JournalRow
        /\ ~IsRow(one, id, "fill") /\ ~IsRow(two, id, "fill")
        /\ ~IsRow(one, id, "kill") /\ ~IsRow(two, id, "kill")
    BY <1>3, AddedRow
    DEF CleanInv, RecoveryInv, CoreInv, IndInv, SessionInv, JournalTypeOK, Tellable, IsRow
  <2>2. /\ BookIn(half, id).cash = BookIn(journal, id).cash
        /\ BookIn(half, id).pos = BookIn(journal, id).pos
        /\ FillsOf(half, id) = FillsOf(journal, id)
        /\ Killed(half, id) <=> Killed(journal, id)
    BY <1>3, <2>1, QuietRow, KilledAppend
  <2> HIDE DEF half
  <2>3. journal' = Append(half, two)
    BY <1>3 DEF half
  <2>4. /\ BookIn(journal', id).cash = BookIn(half, id).cash
        /\ BookIn(journal', id).pos = BookIn(half, id).pos
        /\ FillsOf(journal', id) = FillsOf(half, id)
        /\ Killed(journal', id) <=> Killed(half, id)
    BY <1>3, <2>1, <2>3, QuietRow, KilledAppend
  <2>5. QED
    BY <2>2, <2>4, SameFileGuarded
<1>4. QED
  BY <1>1, <1>2, <1>3, CleanStep

LEMMA NextGuardsBooks ==
    ASSUME CleanInv, ~DiskMayFail, BooksInFile, BooksInFile',
           [RecoveryNext]_recoveryVars, NEW id \in Ids
    PROVE  GuardedStep(id)
<1>1. CASE Next
  BY <1>1, StepGuardsBooks DEF Next
<1>2. CASE Crash \/ NewSession \/ \E sid \in Ids : Resume(sid)
  <2>1. journal' = journal
    BY <1>2 DEF Crash, NewSession, Resume, ResumeFrom, Boot, journalVars
  <2>2. QED
    BY <2>1, SameFileGuarded
<1>3. CASE UNCHANGED recoveryVars
  <2>1. journal' = journal
    BY <1>3 DEF recoveryVars, vars, journalVars
  <2>2. QED
    BY <2>1, SameFileGuarded
<1>4. QED
  BY <1>1, <1>2, <1>3 DEF RecoveryNext

LEMMA BooksStartGuarded ==
    ASSUME RecoveryInit, NEW id \in Ids
    PROVE  SessionBook(id)!Init
<1>1. /\ journal = <<>> /\ pc = "start" /\ pf = FreshBook(StartingCash)
  BY DEF RecoveryInit, Init, SessionInit, JournalInit
<1>2. BookOf(id) = FreshBook(StartingCash)
  BY <1>1 DEF BookOf, StartedIds
<1>3. FillsOf(journal, id) = <<>>
  BY <1>1, FillsOfNothing
<1>4. KillOnDisk(id) = FALSE
  BY <1>1 DEF KillOnDisk
<1>5. QED
  BY <1>2, <1>3, <1>4 DEF SessionBook!Init, FreshBook, FlatPosition

\* On a disk that takes and gives back every row, every session of the file is one guarded
\* book from its first process to its last: no crash, resume or other session
\* moves its cash or position, each fill on disk moves them by its value once,
\* and none follows its kill on disk.
THEOREM BooksCorrect ==
    ASSUME ~DiskMayFail, ~ReadsMayFail
    PROVE  RecoverySpec => BooksAreGuarded
<1>1. RecoveryInit => \A id \in Ids : SessionBook(id)!Init
  BY BooksStartGuarded
<1>2. CleanInv => BooksInFile
  BY BookIsInFile DEF BooksInFile
<1>3. CleanInv /\ BooksInFile /\ BooksInFile' /\ [RecoveryNext]_recoveryVars
        => [\A id \in Ids : GuardedStep(id)]_recoveryVars
  BY NextGuardsBooks
<1>4. QED
  BY <1>1, <1>2, <1>3, CleanInvariance, PTL DEF RecoverySpec, BooksAreGuarded
==============================================================================
