------------------------------- MODULE Journal -------------------------------
(***************************************************************************)
(* Journal of persistence/journal.py: the append-only file of the events   *)
(* of the sessions of one mode, strategy and symbol.  A failed write       *)
(* disables the journal for the rest of the process and is swallowed, so   *)
(* that trading goes on without it.                                        *)
(*                                                                         *)
(* A row keeps what a restore reads: the session it belongs to and its     *)
(* contents, without time stamps and wording.                              *)
(***************************************************************************)
EXTENDS Portfolio, Sequences

CONSTANT DiskMayFail     \* the disk may refuse a write

ASSUME DiskAssumption == DiskMayFail \in BOOLEAN

VARIABLES journal,       \* the rows of the file
          jdisabled      \* Journal._disabled

journalVars == <<journal, jdisabled>>

EndReason == {"daily loss", "drawdown", "kill switch active", "completed"}

Mode == {"paper", "live"}

StartRow(sid, cash, mode) ==
    [event |-> "session_start", sid |-> sid, cash |-> cash, mode |-> mode]
RejectRow(sid, side, qty) ==
    [event |-> "reject", sid |-> sid, side |-> side, qty |-> qty]
KillRow(sid, reason) == [event |-> "kill", sid |-> sid, reason |-> reason]
HeartbeatRow(sid, equity) ==
    [event |-> "heartbeat", sid |-> sid, equity |-> equity]
EquityRow(sid, equity, bar_i) ==
    [event |-> "equity", sid |-> sid, equity |-> equity, bar_i |-> bar_i]
EndRow(sid, reason) ==
    [event |-> "session_end", sid |-> sid, reason |-> reason]

\* The start of a line the disk cut short, and the row a later process
\* continues that line with: json.loads raises on it.
TornRow == [event |-> "torn", newline |-> FALSE]
LostRow == [event |-> "torn", newline |-> TRUE]

FillRowWithoutCommission(sid, fill) ==
    [event |-> "fill", sid |-> sid, fill |-> [fill EXCEPT !.commission = 0]]

FillRow(sid, fill) == [event |-> "fill", sid |-> sid, fill |-> fill]

JournalRow ==
    [event : {"session_start"}, sid : Nat, cash : Int, mode : Mode]
      \cup [event : {"fill"}, sid : Nat, fill : Fill]
      \cup [event : {"reject"}, sid : Nat, side : Side, qty : Nat \ {0}]
      \cup [event : {"kill"}, sid : Nat, reason : EndReason]
      \cup [event : {"heartbeat"}, sid : Nat, equity : Int]
      \cup [event : {"equity"}, sid : Nat, equity : Int, bar_i : Nat]
      \cup [event : {"session_end"}, sid : Nat, reason : EndReason]
      \cup {TornRow, LostRow}

JournalTypeOK ==
    /\ journal \in Seq(JournalRow)
    /\ jdisabled \in BOOLEAN

\* The constructor already disables the journal when its path is unusable.
JournalInit ==
    /\ journal = <<>>
    /\ jdisabled \in (IF DiskMayFail THEN BOOLEAN ELSE {FALSE})

(***************************************************************************)
(* One _write after the other.  Each opens, appends and closes the file.   *)
(* The first that fails leaves nothing, the start of its line, or all of   *)
(* it (an error of the close), and the later ones return at once.  A torn  *)
(* line has no newline: the next row written, by a later process,          *)
(* continues it and is lost in it.  A line without its newline counts as   *)
(* torn.                                                                   *)
(***************************************************************************)
EndsTorn == journal # <<>> /\ journal[Len(journal)] = TornRow

Continued(row) == IF EndsTorn /\ row # TornRow THEN LostRow ELSE row

Appended(rows) ==
    journal \o (IF rows = <<>> THEN <<>> ELSE <<Continued(rows[1])>> \o Tail(rows))

AppendAll(rows) ==
    /\ ~jdisabled
    /\ journal' = Appended(rows)
    /\ UNCHANGED jdisabled

LosesSome(rows) ==
    /\ rows # <<>>
    /\ ~jdisabled
    /\ DiskMayFail
    /\ \E written \in 0..Len(rows), rest \in {<<>>, <<TornRow>>} :
         /\ rest # <<>> => written < Len(rows)
         /\ journal' = Appended(SubSeq(rows, 1, written) \o rest)

\* A journal that goes on writing after a failure.
AppendSomeAndGoOn(rows) == LosesSome(rows) /\ UNCHANGED jdisabled

AppendSome(rows) == LosesSome(rows) /\ jdisabled' = TRUE

Write(rows) ==
    \/ AppendAll(rows)
    \/ AppendSome(rows)
    \/ jdisabled /\ UNCHANGED journalVars
==============================================================================
