----------------------------- MODULE GuardedBook -----------------------------
(***************************************************************************)
(* What a session promises of its book, whatever the broker, the strategy  *)
(* and the accounting of average prices: a ledger that moves only by the   *)
(* fills it lists, one at a time and each by exactly its value, until the  *)
(* kill switch closes it for good.                                         *)
(***************************************************************************)
EXTENDS Integers, Sequences

CONSTANT OpeningCash

VARIABLES cash,     \* what the book holds in cash
          qty,      \* lots held, negative when short
          fills,    \* the fills listed so far
          closed    \* the kill switch is armed

bookVars == <<cash, qty, fills, closed>>

Moved(fill) == IF fill.side = "BUY" THEN fill.qty ELSE -fill.qty

Init ==
    /\ cash = OpeningCash
    /\ qty = 0
    /\ fills = <<>>
    /\ closed = FALSE

Trade(fill) ==
    /\ ~closed
    /\ fills' = Append(fills, fill)
    /\ qty' = qty + Moved(fill)
    /\ cash' = cash - Moved(fill) * fill.price - fill.commission
    /\ UNCHANGED closed

Close ==
    /\ ~closed
    /\ closed' = TRUE
    /\ UNCHANGED <<cash, qty, fills>>

\* The fill of a step is the last one it leaves in the list.
Next ==
    \/ fills' # <<>> /\ Trade(fills'[Len(fills')])
    \/ Close

Spec == Init /\ [][Next]_bookVars
==============================================================================
