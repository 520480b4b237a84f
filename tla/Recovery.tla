------------------------------- MODULE Recovery ------------------------------
(***************************************************************************)
(* The processes that share one journal file: cmd_session, which starts a  *)
(* new session in it, and cmd_resume --continue, which restores one of its *)
(* sessions and trades on.  One process runs at a time; it ends by itself  *)
(* or crashes at any step, and what survives it is the file.               *)
(*                                                                         *)
(* The name of the file holds the mode, so all its sessions have one mode. *)
(* A resumed live session gets the venue of the configuration, which is    *)
(* the stub unless the configuration names another.  A resume loads the    *)
(* bars anew: those it replays may have other closes than before.          *)
(***************************************************************************)
EXTENDS PaperSession

CONSTANTS MaxSessions,    \* bound on the sessions of the file
          MaxProcesses,   \* bound on the processes
          MayCrash,       \* a process may be killed
          ReadsMayFail    \* the disk may fail while the file is read

ASSUME RecoveryAssumption ==
    /\ MaxSessions \in Nat \ {0}
    /\ MaxProcesses \in Nat \ {0}
    /\ MayCrash \in BOOLEAN
    /\ ReadsMayFail \in BOOLEAN

VARIABLES processes,   \* processes started so far
          sessions,    \* sessions started so far
          past         \* what the earlier processes of each session did

recoveryVars == <<vars, processes, sessions, past>>

Ids == 1..MaxSessions

\* The last bar whose point of the equity curve was reached, and whether the
\* risk engine's switch was armed.
NoPast == [last_bar |-> NoBar, killed |-> FALSE]

RecoveryTypeOK ==
    /\ TypeOK
    /\ processes \in 1..MaxProcesses
    /\ sessions \in Ids
    /\ session_id \in 1..sessions
    /\ past \in [Ids -> [last_bar : -1..(NBars - 1), killed : BOOLEAN]]

(***************************************************************************)
(* A process: a TradingSession with its own RiskEngine, and a Journal on   *)
(* the same file.                                                          *)
(***************************************************************************)
Gone == Stopped \cup {"down"}

LastBarDone ==
    IF Len(equity) = 1 THEN NoBar ELSE start_index + Len(equity) - 2

Remembered ==
    [past EXCEPT ![session_id] = [last_bar |-> Greatest(@.last_bar, LastBarDone),
                                  killed |-> @.killed \/ killed]]

\* state.equity({}): without a mark a position counts at its average price,
\* rounded down to whole ticks.
OpeningEquity(book) ==
    book.cash + (book.pos.qty * book.pos.avg_price.n) \div book.pos.avg_price.d

\* The memory of a process that has done nothing yet.
Memory(stage, book) ==
    /\ pc' = stage
    /\ pf' = book
    /\ equity' = <<OpeningEquity(book)>>
    /\ bar_count' = 0 /\ mark' = 0
    /\ killed' = FALSE /\ kill_reason' = "none"
    /\ delayed' = <<>> /\ queue' = <<>> /\ adj' = NoOrder
    /\ connected' = FALSE /\ fills' = <<>> /\ rejected' = <<>>

\* A crash between two statements leaves the file of the stage before or after
\* them.  Between the booking of a fill and its row it leaves what a crash
\* before the booking does: the book, and the fills and orders of a paper
\* broker, are in memory only.
Crash ==
    /\ MayCrash
    /\ pc \notin Gone
    /\ Memory("down", FreshBook(StartingCash))
    /\ past' = Remembered
    /\ UNCHANGED <<processVars, journalVars, broker, processes, sessions>>

Boot(book, sid, is_forced, first_bar) ==
    /\ pc \in Gone
    /\ processes < MaxProcesses
    /\ processes' = processes + 1
    /\ past' = Remembered
    /\ Memory("start", book)
    /\ session_id' = sid
    /\ forced' = is_forced
    /\ start_index' = first_bar
    /\ jdisabled' \in (IF DiskMayFail THEN BOOLEAN ELSE {FALSE})
    /\ UNCHANGED journal

NewSession ==
    /\ sessions < MaxSessions
    /\ sessions' = sessions + 1
    /\ Boot(FreshBook(StartingCash), sessions + 1, FALSE, 0)
    /\ UNCHANGED broker

\* `(restored.last_bar_i or 0) + 1`
ContinueAtLastBar(restored) ==
    IF restored.last_bar_i = NoBar THEN 1 ELSE restored.last_bar_i

ContinueAt(restored) ==
    IF restored.last_bar_i = NoBar THEN 1 ELSE restored.last_bar_i + 1

BrokerNamed(mode) == mode

PaperAnyway(mode) == "paper"

BrokerFor(mode) == IF mode = "paper" THEN "paper" ELSE "live_stub"

MayContinueAny(restored) == ContinueAt(restored) < NBars

MayContinue(restored) == ~restored.killed /\ ContinueAt(restored) < NBars

\* What iter_events yields: an error of the disk ends it silently with the
\* rows read so far.
Readable ==
    IF ReadsMayFail THEN {SubSeq(journal, 1, n) : n \in 0..Len(journal)}
    ELSE {journal}

ResumeFrom(rows, sid) ==
    /\ CanRestore(rows, sid)
    /\ LET restored == RestoreFromJournal(rows, sid)
       IN /\ MayContinue(restored)
          /\ Boot(restored.state, sid, TRUE, ContinueAt(restored))
    /\ broker' = BrokerFor(StartOf(rows, sid).mode)
    /\ UNCHANGED sessions

Resume(sid) == \E rows \in Readable : ResumeFrom(rows, sid)

(***************************************************************************)
(* The file and its processes.                                             *)
(***************************************************************************)
RecoveryInit ==
    /\ Init
    /\ processes = 1
    /\ sessions = FirstSession
    /\ past = [id \in Ids |-> NoPast]

RecoveryNext ==
    \/ Next /\ UNCHANGED <<processes, sessions, past>>
    \/ Crash
    \/ NewSession
    \/ \E sid \in Ids : Resume(sid)

RecoverySpec == RecoveryInit /\ [][RecoveryNext]_recoveryVars

(***************************************************************************)
(* What survives a process.                                                *)
(***************************************************************************)
BookOf(id) ==
    IF id = session_id /\ pc # "down" THEN pf
    ELSE IF id \in StartedIds(journal) THEN RestoreFromJournal(journal, id).state
    ELSE FreshBook(StartingCash)

KillOnDisk(id) ==
    \E n \in DOMAIN journal : journal[n].event = "kill" /\ journal[n].sid = id

\* Every session of the file is one guarded book from its first process to its
\* last: crashes and resumes are invisible in it, its fills are those on disk
\* and it trades no more once its kill is on disk.
SessionBook(id) ==
    INSTANCE GuardedBook WITH OpeningCash <- StartingCash,
                              cash <- BookOf(id).cash,
                              qty <- BookOf(id).pos.qty,
                              fills <- FillsOf(journal, id),
                              closed <- KillOnDisk(id)

GuardedStep(id) == [SessionBook(id)!Next]_(SessionBook(id)!bookVars)

\* \A id \in Ids : SessionBook(id)!Spec, with the quantifier inside the box.
BooksAreGuarded ==
    /\ \A id \in Ids : SessionBook(id)!Init
    /\ [][\A id \in Ids : GuardedStep(id)]_recoveryVars

\* The processes of one session tick forward: no bar is journalled again by a
\* process that continues, and no other session's ticks mislead it.
TicksAdvance ==
    \A m, n \in DOMAIN journal :
        /\ m < n
        /\ journal[m].event = "equity" /\ journal[n].event = "equity"
        /\ journal[m].sid = journal[n].sid
        => journal[m].bar_i < journal[n].bar_i

\* A session started live is never traded on paper by a process that resumes
\* it: nothing wires it to a venue, so it has no fill at all.
LiveNeverTrades ==
    \A id \in StartedIds(journal) :
        StartOf(journal, id).mode = "live"
            => FillsOf(journal, id) = <<>>

\* A resume can only loosen the drawdown limit: the peak it starts from is one
\* the session had reached.
RestoredPeakWasReached ==
    pc # "down" /\ CanRestore(journal, session_id) =>
        RestoreFromJournal(journal, session_id).state.peak_equity
            <= pf.peak_equity

(***************************************************************************)
(* What the documents say of a resume.                                     *)
(***************************************************************************)
\* "optionally continue from last bar": the session does not send orders again
\* for a bar one of its earlier processes had finished.
ContinuesAfterLastBar == pc = "submit" => BarIndex > past[session_id].last_bar

\* "Resume refuses continue if killed."
ResumeRefusesKilled == forced => ~past[session_id].killed
==============================================================================
