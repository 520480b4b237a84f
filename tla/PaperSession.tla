---------------------------- MODULE PaperSession -----------------------------
(***************************************************************************)
(* A trading session over the brokers that answer at once: PaperBroker of  *)
(* execution/paper_broker.py, which fills every order through the cost     *)
(* model, and LiveStubBroker of execution/live_stub.py, which refuses      *)
(* every order.  Both inherit a poll_fills that returns nothing.           *)
(***************************************************************************)
EXTENDS SessionProperties

CONSTANT Brokers   \* the brokers a session may be given

ASSUME BrokersAssumption == Brokers \subseteq {"paper", "live_stub"}

VARIABLE broker

vars == <<sessionVars, processVars, journalVars, broker>>

TypeOK ==
    /\ SessionTypeOK
    /\ ProcessTypeOK
    /\ JournalTypeOK
    /\ broker \in Brokers

(***************************************************************************)
(* The brokers.                                                            *)
(***************************************************************************)
FillsEveryOrder(kind) == TRUE

FillsAtOnce(kind) == kind = "paper"

\* TradingSession builds the broker its mode calls for.
ModeOf(kind) == IF kind = "paper" THEN "paper" ELSE "live"

PaperFill == Execute(adj, mark, Adv)

Submit ==
    \/ FillsAtOnce(broker) /\ BrokerFills(PaperFill)
    \/ ~FillsAtOnce(broker) /\ BrokerRejects

(***************************************************************************)
(* The session.                                                            *)
(***************************************************************************)
Init ==
    /\ SessionInit
    /\ JournalInit
    /\ broker \in Brokers

Step ==
    \/ Start(TRUE, ModeOf(broker))
    \/ PollFills(<<>>)
    \/ Submit
    \/ LoopStep

Next == Step /\ UNCHANGED <<broker, processVars>>

\* One thread runs the loop over a finite frame: it always takes its next step.
Spec == Init /\ [][Next]_vars /\ WF_vars(Next)

(***************************************************************************)
(* What these two brokers add.                                             *)
(***************************************************************************)
\* A live session without a wired venue cannot trade on paper by mistake:
\* its book is never touched and every order it let through is refused.
StubNeverTrades ==
    broker = "live_stub" => /\ fills = <<>>
                            /\ pf.cash = StartingCash
                            /\ pf.pos = FlatPosition

\* The drawdown is measured from a peak no point of the equity curve exceeds:
\* update_peaks runs before the fills of a bar and the curve is read after
\* them, which is safe only because a fill never improves on the close.
PeakDominatesCurve ==
    \A n \in DOMAIN equity : equity[n] <= pf.peak_equity
==============================================================================
