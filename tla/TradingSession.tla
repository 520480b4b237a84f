--------------------------- MODULE TradingSession ----------------------------
(***************************************************************************)
(* run_feed of execution/session.py: the bar loop of a session, one action *)
(* per step between two effects that can be told apart: a call of the      *)
(* broker, a call of the strategy, a row of the journal.                   *)
(*                                                                         *)
(* The steps take what the broker and the strategy answer as parameters;   *)
(* a module that composes the session with a broker gives them.            *)
(*                                                                         *)
(* A bar is its close and whether its date differs from the bar before;    *)
(* the volume is the same on every bar.  marks holds the close of the one  *)
(* symbol, so it is one number.                                            *)
(*                                                                         *)
(* What a process is given when it starts (the session's id, whether that  *)
(* id was forced on it by a resume, the first bar of the feed) never       *)
(* changes while it runs: a module that composes the session with a broker *)
(* leaves processVars unchanged in every step of the loop.                 *)
(***************************************************************************)
EXTENDS RiskEngine, CostModel, Journal

CONSTANTS StartingCash,     \* cfg.starting_cash
          NBars,            \* length of the DataFrame the feed replays
          HeartbeatEvery,   \* heartbeat_every, 0 for no heartbeats
          BarVolume,        \* bar.volume
          Prices,           \* closes of the bars
          OrderLists,       \* what the strategy may return for a bar
          StrategyMayRaise  \* the strategy may raise instead

ASSUME SessionAssumption ==
    /\ StartingCash \in Nat \ {0}
    /\ NBars \in Nat
    /\ HeartbeatEvery \in Nat
    /\ BarVolume \in Nat
    /\ Prices \subseteq Int
    /\ OrderLists \subseteq Seq(Order)
    /\ StrategyMayRaise \in BOOLEAN

VARIABLES pc,            \* where run_feed stands
          bar_count,     \* bars taken from the feed
          mark,          \* marks[symbol], the close of the current bar
          pf,            \* state, the PortfolioState
          killed,        \* risk._killed
          kill_reason,   \* kill_reason, "none" for None
          delayed,       \* fills poll_fills returned, not yet applied
          queue,         \* orders of the bar not yet dealt with
          adj,           \* the order the risk engine let through
          connected,     \* the broker's connection
          fills,         \* the session's fills
          equity,        \* the equity curve
          rejected,      \* the orders refused by the risk engine or broker
          session_id,    \* the session, numbered in the order of their starts
          forced,        \* _forced_session_id is given: a resumed session
          start_index    \* the feed's start_index

bookVars == <<pf, fills>>
riskVars == <<killed, kill_reason>>
barVars == <<bar_count, mark, delayed>>
orderVars == <<queue, adj>>
sessionVars ==
    <<pc, bookVars, riskVars, barVars, orderVars, connected, equity, rejected>>
processVars == <<session_id, forced, start_index>>

Stage == {"start", "feed", "poll", "delayed", "orders", "kill", "submit",
          "finally", "unwinding", "done", "raised", "down"}
Stopped == {"done", "raised"}

FirstSession == 1

Rejection ==
    [side : Side, qty : Nat \ {0},
     verdict : {"REJECT", "REDUCE", "KILL", "BROKER_REJECT"}]

NoOrder == [side |-> "none", qty |-> 0]

SessionTypeOK ==
    /\ pc \in Stage
    /\ bar_count \in 0..NBars
    /\ mark \in Int
    /\ pf \in PortfolioState
    /\ killed \in BOOLEAN
    /\ kill_reason \in KillReason \cup {"none"}
    /\ delayed \in Seq(Fill)
    /\ queue \in Seq(Order)
    /\ adj \in Order \cup {NoOrder}
    /\ connected \in BOOLEAN
    /\ fills \in Seq(Fill)
    /\ equity \in Seq(Int)
    /\ rejected \in Seq(Rejection)

ProcessTypeOK ==
    /\ session_id \in Nat
    /\ forced \in BOOLEAN
    /\ start_index \in Nat

\* A new session with a fresh book.  No position is held before the first
\* bar, so the missing mark counts for nothing.
SessionInit ==
    /\ pc = "start"
    /\ bar_count = 0
    /\ mark = 0
    /\ pf = FreshBook(StartingCash)
    /\ killed = FALSE
    /\ kill_reason = "none"
    /\ delayed = <<>>
    /\ queue = <<>>
    /\ adj = NoOrder
    /\ connected = FALSE
    /\ fills = <<>>
    /\ equity = <<StartingCash>>
    /\ rejected = <<>>
    /\ session_id = FirstSession
    /\ forced = FALSE
    /\ start_index = 0

\* i, the bar's position in the frame.
BarNumber == start_index + bar_count

BarIndex == start_index + bar_count - 1

\* The feed replays a finite frame from its start index.
BarsLeft == start_index + bar_count < NBars

\* adv: `bar.volume or None`.
Adv == IF BarVolume = 0 THEN NoAdv ELSE BarVolume

(***************************************************************************)
(* The start of the session and of a bar.                                  *)
(***************************************************************************)
\* A resumed session writes neither a start nor an end of its own.
SessionRow(row) == IF forced THEN <<>> ELSE <<row>>

Start(up, mode) ==
    /\ pc = "start"
    /\ pc' = "feed"
    /\ Write(SessionRow(StartRow(session_id, StartingCash, mode)))
    /\ connected' = up
    /\ UNCHANGED <<bookVars, riskVars, barVars, orderVars, equity, rejected>>

NextBar(mid, new_day) ==
    /\ pc = "feed"
    /\ BarsLeft
    /\ bar_count = 0 => new_day
    /\ pc' = "poll"
    /\ bar_count' = bar_count + 1
    /\ mark' = mid
    /\ pf' = UpdatePeaks(RollDay(pf, mid, new_day), mid)
    /\ UNCHANGED <<fills, riskVars, delayed, orderVars, connected, equity,
                   rejected, journalVars>>

(***************************************************************************)
(* Fills: those the broker delivers late and those a submit returns.       *)
(***************************************************************************)
\* A fill the session forgets to list.
BookFillUnlisted(fill) ==
    /\ pf' = ApplyFill(pf, fill)
    /\ UNCHANGED fills
    /\ Write(<<FillRow(session_id, fill)>>)

BookFill(fill) ==
    /\ pf' = ApplyFill(pf, fill)
    /\ fills' = Append(fills, fill)
    /\ Write(<<FillRow(session_id, fill)>>)

PollFills(polled) ==
    /\ pc = "poll"
    /\ pc' = "delayed"
    /\ delayed' = polled
    /\ UNCHANGED <<bookVars, riskVars, bar_count, mark, orderVars, connected,
                   equity, rejected, journalVars>>

\* An exception of poll_fills leaves the loop through `finally`.
PollRaises ==
    /\ pc = "poll"
    /\ pc' = "unwinding"
    /\ UNCHANGED <<bookVars, riskVars, barVars, orderVars, connected, equity,
                   rejected, journalVars>>

ApplyDelayed ==
    /\ pc = "delayed"
    /\ delayed # <<>>
    /\ BookFill(Head(delayed))
    /\ delayed' = Tail(delayed)
    /\ UNCHANGED <<pc, riskVars, bar_count, mark, orderVars, connected,
                   equity, rejected>>

(***************************************************************************)
(* The strategy: the orders of the bar, each for the symbol of the feed,   *)
(* or an exception, which leaves the loop through `finally`.               *)
(***************************************************************************)
OnBar(orders) ==
    /\ pc = "delayed"
    /\ delayed = <<>>
    /\ pc' = "orders"
    /\ queue' = orders
    /\ UNCHANGED <<bookVars, riskVars, barVars, adj, connected, equity,
                   rejected, journalVars>>

StrategyRaises ==
    /\ pc = "delayed"
    /\ delayed = <<>>
    /\ pc' = "unwinding"
    /\ UNCHANGED <<bookVars, riskVars, barVars, orderVars, connected, equity,
                   rejected, journalVars>>

(***************************************************************************)
(* The risk gate, order by order.  No caller gives check a volatility.     *)
(***************************************************************************)
Decision == Check(killed, Head(queue), pf, mark, 0)

RejectionAtAllowedQty(order, decision) ==
    [side |-> order.side, qty |-> decision.allowed_qty,
     verdict |-> decision.verdict]

RejectionOf(order, decision) ==
    [side |-> order.side, qty |-> order.qty, verdict |-> decision.verdict]

\* A refused order is listed and journalled; a KILL also stops the session
\* at the end of the bar.
RejectOrder ==
    /\ pc = "orders"
    /\ queue # <<>>
    /\ ~Ok(Decision)
    /\ rejected' = Append(rejected, RejectionOf(Head(queue), Decision))
    /\ Write(<<RejectRow(session_id, Head(queue).side, Head(queue).qty)>>)
    /\ killed' = KilledAfter(killed, Decision)
    /\ queue' = Tail(queue)
    /\ \/ /\ Decision.verdict = "KILL"
          /\ pc' = "kill"
          /\ kill_reason' = Decision.reason
          /\ pf' = [pf EXCEPT !.kills = @ + 1]
       \/ /\ Decision.verdict # "KILL"
          /\ UNCHANGED <<pc, kill_reason, pf>>
    /\ UNCHANGED <<fills, barVars, adj, connected, equity>>

RecordKill ==
    /\ pc = "kill"
    /\ pc' = "orders"
    /\ Write(<<KillRow(session_id, kill_reason)>>)
    /\ UNCHANGED <<bookVars, riskVars, barVars, orderVars, connected, equity,
                   rejected>>

\* The order goes on with the quantity the engine allows.
Approve ==
    /\ pc = "orders"
    /\ queue # <<>>
    /\ Ok(Decision)
    /\ pc' = "submit"
    /\ adj' = Adjusted(Head(queue), Decision)
    /\ UNCHANGED <<bookVars, riskVars, barVars, queue, connected, equity,
                   rejected, journalVars>>

(***************************************************************************)
(* What broker.submit answers: refused, filled at once, or accepted with   *)
(* the fill to come.                                                       *)
(***************************************************************************)
Submitted ==
    /\ pc = "submit"
    /\ pc' = "orders"
    /\ queue' = Tail(queue)
    /\ adj' = NoOrder
    /\ UNCHANGED <<riskVars, barVars, connected, equity>>

BrokerRejects ==
    /\ Submitted
    /\ rejected' = Append(rejected, [side |-> adj.side, qty |-> adj.qty,
                                     verdict |-> "BROKER_REJECT"])
    /\ Write(<<RejectRow(session_id, adj.side, adj.qty)>>)
    /\ UNCHANGED bookVars

BrokerFills(fill) ==
    /\ Submitted
    /\ BookFill(fill)
    /\ UNCHANGED rejected

BrokerDefers ==
    /\ Submitted
    /\ UNCHANGED <<bookVars, rejected, journalVars>>

(***************************************************************************)
(* The end of a bar and of the session.                                    *)
(***************************************************************************)
HeartbeatDue ==
    /\ HeartbeatEvery > 0
    /\ bar_count % HeartbeatEvery = 0

HeartbeatRows(eq) ==
    IF HeartbeatDue
    THEN <<HeartbeatRow(session_id, eq), EquityRow(session_id, eq, BarIndex)>>
    ELSE <<>>

StageAfterBarIgnoringKill(reason) == "feed"

StageAfterBar(reason) == IF reason = "none" THEN "feed" ELSE "finally"

EndBar ==
    /\ pc = "orders"
    /\ queue = <<>>
    /\ equity' = Append(equity, Equity(pf, mark))
    /\ Write(HeartbeatRows(Equity(pf, mark)))
    /\ pc' = StageAfterBar(kill_reason)
    /\ UNCHANGED <<bookVars, riskVars, barVars, orderVars, connected, rejected>>

FeedEnds ==
    /\ pc = "feed"
    /\ ~BarsLeft
    /\ pc' = "finally"
    /\ UNCHANGED <<bookVars, riskVars, barVars, orderVars, connected, equity,
                   rejected, journalVars>>

EndReasonIgnoringKill(reason) == "completed"

EndReasonOf(reason) == IF reason = "none" THEN "completed" ELSE reason

\* A `finally` that waits until the end is on disk.
StageAtEndOnceDurable(stage) ==
    IF jdisabled THEN stage ELSE IF stage = "finally" THEN "done" ELSE "raised"

StageAtEnd(stage) == IF stage = "finally" THEN "done" ELSE "raised"

\* `finally`: reached from the loop's end, from a kill and by an exception.
Finish ==
    /\ pc \in {"finally", "unwinding"}
    /\ connected' = FALSE
    /\ Write(SessionRow(EndRow(session_id, EndReasonOf(kill_reason))))
    /\ pc' = StageAtEnd(pc)
    /\ UNCHANGED <<bookVars, riskVars, barVars, orderVars, equity, rejected>>

\* The process has returned from run_feed.
Terminated ==
    /\ pc \in Stopped
    /\ UNCHANGED <<sessionVars, journalVars>>

(***************************************************************************)
(* The steps of run_feed that no broker takes part in.                     *)
(***************************************************************************)
LoopStep ==
    \/ \E mid \in Prices, new_day \in BOOLEAN : NextBar(mid, new_day)
    \/ ApplyDelayed
    \/ \E orders \in OrderLists : OnBar(orders)
    \/ StrategyMayRaise /\ StrategyRaises
    \/ RejectOrder
    \/ RecordKill
    \/ Approve
    \/ EndBar
    \/ FeedEnds
    \/ Finish
    \/ Terminated

(***************************************************************************)
(* What the stages of the loop say of the session: a bar is in hand inside *)
(* the loop's body, an order in hand at the broker, and a kill can only be *)
(* on its way out of the loop.                                             *)
(***************************************************************************)
BeforeRisk == {"start", "feed", "poll", "delayed"}

StageInv ==
    /\ pc \in {"poll", "delayed", "orders", "kill", "submit"} => bar_count > 0
    /\ pc = "submit" => adj \in Order /\ queue # <<>>
    /\ pc = "kill" => killed
    /\ killed => kill_reason # "none" /\ pc \notin BeforeRisk \cup {"submit"}
==============================================================================
