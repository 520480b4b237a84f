-------------------------- MODULE SessionProperties --------------------------
(***************************************************************************)
(* What a session promises whatever broker it trades through: properties   *)
(* of the variables of TradingSession, for the modules that compose it     *)
(* with a broker.                                                          *)
(***************************************************************************)
EXTENDS TradingSession, Restore

(***************************************************************************)
(* Risk.                                                                   *)
(***************************************************************************)
WithinPositionLimit(qty, book) ==
    Abs(qty) * 100 * mark <= RiskCfg.max_position_pct * Equity(book, mark)

\* DESIGN.md's "Risk before broker": an order the broker is about to see was
\* let through with the switch released, a valid mark and no breached limit,
\* and the position it leads to is within the limit even where the engine
\* changed its quantity.
RiskBeforeBroker ==
    pc = "submit" =>
        /\ ~killed
        /\ mark > 0
        /\ Equity(pf, mark) > 0
        /\ ~DailyLossBreached(pf, mark)
        /\ ~DrawdownBreached(pf, mark)
        /\ WithinPositionLimit(QtyAfter(pf, adj), pf)

\* The first KILL verdict is the end of trading: later orders of the same
\* bar do not reach the broker, no further bar is taken from the feed, and
\* the open position stays as it is.
KillIsFinal ==
    [][killed => /\ fills' = fills
                 /\ pf'.cash = pf.cash
                 /\ pf'.pos = pf.pos
                 /\ bar_count' = bar_count]_sessionVars

\* A session is a guarded book: cash and position move only by the fills it
\* lists, one at a time and each by exactly its value, and never after a kill.
Guarded == INSTANCE GuardedBook WITH OpeningCash <- StartingCash,
                                     cash <- pf.cash,
                                     qty <- pf.pos.qty,
                                     closed <- killed

ImplementsGuardedBook == Guarded!Spec

\* "reduced to position limit", says the engine of an order it changes: the
\* order it lets through is never larger than the one the strategy asked for.
ReduceNeverEnlarges ==
    pc = "submit" => adj.qty <= Head(queue).qty

(***************************************************************************)
(* The journal.                                                            *)
(***************************************************************************)
\* The rows of one kind and session, in the order of the file: found in its
\* first n rows, and in the whole file.
Found(found, row, sid, kind) ==
    IF row.event = kind /\ row.sid = sid THEN Append(found, row) ELSE found

FoundIn(rows, sid, kind) ==
    LET found[n \in 0..Len(rows)] ==
            IF n = 0 THEN <<>> ELSE Found(found[n - 1], rows[n], sid, kind)
    IN found

RowsOf(rows, sid, kind) == FoundIn(rows, sid, kind)[Len(rows)]

FillsOf(rows, sid) ==
    LET found == RowsOf(rows, sid, "fill")
    IN [n \in DOMAIN found |-> found[n].fill]

RejectsOf(rows, sid) ==
    LET found == RowsOf(rows, sid, "reject")
    IN [n \in DOMAIN found |-> [side |-> found[n].side, qty |-> found[n].qty]]

Rejects == [n \in DOMAIN rejected |->
               [side |-> rejected[n].side, qty |-> rejected[n].qty]]

\* The kills whose row is written: the row follows the kill by one step.
JournalledKills == pf.kills - (IF pc = "kill" THEN 1 ELSE 0)

\* What a restore of the journal finds is the running session: at every step
\* the book rebuilt from the session's rows on disk has the cash and the
\* position of the live one, at least the fills of this process (all of them,
\* when the session was not resumed), and the kill once its row is written.
RestoreRebuildsBook ==
    pc # "down" /\ ~jdisabled /\ session_id \in StartedIds(journal) =>
        LET restored == RestoreFromJournal(journal, session_id)
        IN /\ CanRestore(journal, session_id)
           /\ restored.state.cash = pf.cash
           /\ restored.state.pos = pf.pos
           /\ restored.n_fills >= Len(fills)
           /\ ~forced => restored.n_fills = Len(fills)
           /\ restored.state.kills = JournalledKills
           /\ restored.killed = (JournalledKills > 0)
           /\ ~forced => restored.ended = (pc \in Stopped)

\* An equity row names the bar whose point of the curve it repeats (the curve
\* starts one point before the first bar): a resume relies on bar_i.
EquityRowsMatchCurve ==
    \A n \in DOMAIN journal : journal[n].event = "equity" =>
        /\ journal[n].bar_i + 2 \in DOMAIN equity
        /\ journal[n].equity = equity[journal[n].bar_i + 2]

\* The order of the rows tells the session: it starts with its start and
\* nothing follows its end, a kill follows the reject of its order, and the
\* end says "completed" exactly when no kill precedes it.
JournalTellsSession ==
    \A n \in DOMAIN journal :
        /\ journal[n].event # "torn" => IsStart(journal[n]) = (n = 1)
        /\ journal[n].event = "kill" => journal[n - 1].event = "reject"
        /\ journal[n].event = "session_end" =>
              /\ n = Len(journal) /\ pc \in Stopped
              /\ (journal[n].reason = "completed")
                   = (\A m \in DOMAIN journal : journal[m].event # "kill")

\* A disk that fails leaves the beginning of the story, never a story with a
\* hole: the fills and rejects on disk are the first ones of the session, and
\* a torn line is the last one.
JournalIsPrefix ==
    /\ IsPrefix(FillsOf(journal, session_id), fills)
    /\ IsPrefix(RejectsOf(journal, session_id), Rejects)
    /\ \A n \in DOMAIN journal :
         journal[n].event = "torn" => n = Len(journal)

(***************************************************************************)
(* The end of the session.                                                 *)
(***************************************************************************)
\* Whatever the disk and the strategy do, the session ends and leaves no
\* connection open: journal failures never hold it up.
EndsDisconnected == <>[](pc \in Stopped /\ ~connected)
==============================================================================
