------------------------------- MODULE Restore -------------------------------
(***************************************************************************)
(* restore_from_journal of persistence/restore.py: a fresh book, the fills *)
(* of one session of the file applied to it in file order, and what the    *)
(* session's other rows say of it.                                         *)
(***************************************************************************)
EXTENDS Portfolio, SequencesExt

NoBar == -1          \* last_bar_i = None

Restored ==
    [state : PortfolioState, n_fills : Nat, last_bar_i : Nat \cup {NoBar},
     killed : BOOLEAN, ended : BOOLEAN]

FreshRestored(cash) ==
    [state |-> FreshBook(cash), n_fills |-> 0, last_bar_i |-> NoBar,
     killed |-> FALSE, ended |-> FALSE]

\* Only peak_equity follows the equity rows; equity_high_water and
\* day_start_equity stay at the starting cash.
RestoreRow(restored, row) ==
    IF row.event = "fill"
        THEN [restored EXCEPT !.state = ApplyFill(@, row.fill),
                              !.n_fills = @ + 1]
    ELSE IF row.event = "equity"
        THEN [restored EXCEPT !.last_bar_i = row.bar_i,
                              !.state.peak_equity = Greatest(@, row.equity)]
    ELSE IF row.event = "kill"
        THEN [restored EXCEPT !.killed = TRUE, !.state.kills = @ + 1]
    ELSE [restored EXCEPT !.ended = @ \/ row.event = "session_end"]

IsStart(row) == row.event = "session_start"

\* The sessions of the file, by their starts; without a name the last of them
\* is restored.
StartedIds(rows) == {rows[n].sid : n \in {m \in DOMAIN rows : IsStart(rows[m])}}

\* A line json.loads rejects raises, as does a session the file has no start of.
CanRestore(rows, sid) ==
    /\ \A n \in DOMAIN rows : rows[n].event # "torn"
    /\ sid \in StartedIds(rows)

StartOf(rows, sid) ==
    rows[Max({n \in DOMAIN rows : IsStart(rows[n]) /\ rows[n].sid = sid})]

OfAnySession(row, sid) == TRUE

OfSession(row, sid) == row.sid = sid

\* The rows of the other sessions are skipped.
ReplayRow(restored, row, sid) ==
    IF OfSession(row, sid) THEN RestoreRow(restored, row) ELSE restored

\* What the first n rows of the file leave of a session.
Replay(rows, sid, cash) ==
    LET after[n \in 0..Len(rows)] ==
            IF n = 0 THEN FreshRestored(cash)
            ELSE ReplayRow(after[n - 1], rows[n], sid)
    IN after

RestoreFromJournal(rows, sid) ==
    Replay(rows, sid, StartOf(rows, sid).cash)[Len(rows)]
==============================================================================
