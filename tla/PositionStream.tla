---------------------------- MODULE PositionStream ----------------------------
(***************************************************************************)
(* PositionLifecycle with candle_exchange = "ig".  IGFeed has one consumer *)
(* task for everything Lightstreamer pushes: a chart message runs the      *)
(* candle handler to its end, an account message may start a margin        *)
(* breaker, and a TRADE confirm of a deal emits EVENT_ORDER_FILLED, which  *)
(* the REST path emits for the same deal too.  The consumer is the one     *)
(* candle task.                                                            *)
(***************************************************************************)
EXTENDS PositionLifecycle, Sequences

CONSTANT QueueMax     \* bound: TRADE confirms waiting at a time

ASSUME ConsumerAssumption == Cardinality(CandleTasks) = 1
ASSUME QueueMaxAssumption == QueueMax \in Nat

VARIABLES
    queue,   \* the TRADE confirms in IGFeed._update_queue
    msg,     \* the confirm the consumer is handling, or None
    fillPnl  \* pnl_for_event of that confirm is not None

stream == <<queue, msg, fillPnl>>
streamVars == <<vars, stream>>

StreamInit == Init /\ queue = <<>> /\ msg = None /\ fillPnl = FALSE

\* Mutant: TRADE confirms have a task of their own.
ConsumingApart == msg = None

\* The consumer awaits the queue.
Consuming == msg = None /\ \A c \in CandleTasks : pc[c] = "idle"

\* IG pushes a confirm of the deal it opened or closed, or does not: a frame
\* may be lost, and closes IG makes by itself come as OPU, which is ignored.
Push ==
    \/ UNCHANGED queue
    \/ /\ Len(queue) < QueueMax
       /\ \E d \in Deals :
            \/ /\ d \in broker' \ broker
               /\ queue' = Append(queue, [side |-> "BUY", deal |-> d])
            \/ /\ d \in broker \ broker'
               /\ queue' = Append(queue, [side |-> "SELL", deal |-> d])

\* A chart or an account message is taken from the queue.
ChartTaken(c, s) ==
    /\ Consuming
    /\ MaybeEnter(c, s) \/ CandleExit(c, s)
    /\ UNCHANGED stream
AccountTaken(m) == Consuming /\ MarginEvent(m) /\ UNCHANGED stream

\* The tasks that are on their way go on as in PositionLifecycle.
Streamed == Push /\ UNCHANGED <<msg, fillPnl>>

TaskStep ==
    \/ \E c \in CandleTasks : EntryStep(c) /\ Streamed
    \/ \E t \in Tasks : CloseStep(t) /\ Streamed
    \/ \E t \in RerankTasks \cup MarginTasks : ListStep(t) /\ Streamed
    \/ \E r \in RerankTasks :
         (RerankStart(r) \/ RerankInference(r) \/ RerankSelect(r)) /\ Streamed
    \/ \E m \in MarginTasks : MarginAction(m) /\ Streamed
    \/ \E d \in Deals : ExternalClose(d) /\ Streamed

\* handle_order_filled for a confirm from the stream, up to the trade alert:
\* the deal the books hold for the symbol is not compared.
FillTaken ==
    /\ Consuming /\ queue # <<>>
    /\ LET f == Head(queue)
           s == DealSym[f.deal]
       IN /\ msg' = f
          /\ openPos' = [openPos EXCEPT ![s] = IF f.side = "BUY" THEN f.deal ELSE None]
          /\ budget' = [budget EXCEPT ![s] = IF f.side = "BUY" THEN @ ELSE None]
          /\ fillPnl' = (f.side = "SELL" /\ openPos[s] # None)
    /\ queue' = Tail(queue)
    /\ UNCHANGED <<broker, used, positions, dealIds, tp, alerted, signals,
                   selected, lock, pc, sym, deal, sig, pnl, todo, rec, back>>

\* The trade alert is out: state.positions follows, and a recorded P&L pops the
\* risk manager's entry once more.
FillRecorded ==
    /\ msg # None
    /\ LET s == DealSym[msg.deal] IN
         /\ positions' = [positions EXCEPT ![s] = IF msg.side = "BUY" THEN msg.deal ELSE None]
         /\ openPos' = [openPos EXCEPT ![s] = IF fillPnl THEN None ELSE @]
    /\ msg' = None /\ fillPnl' = FALSE
    /\ UNCHANGED <<broker, used, dealIds, budget, tp, alerted, signals, selected,
                   lock, pc, sym, deal, sig, pnl, todo, rec, back, queue>>

StreamNext ==
    \/ \E c \in CandleTasks, s \in Symbols : ChartTaken(c, s)
    \/ \E m \in MarginTasks : AccountTaken(m)
    \/ TaskStep
    \/ FillTaken
    \/ FillRecorded

StreamSpec == StreamInit /\ [][StreamNext]_streamVars

\* The consumer takes the confirms in turn, and its alerts end.
StreamFairSpec ==
    /\ StreamSpec /\ Fairness
    /\ SF_streamVars(FillTaken) /\ WF_streamVars(FillRecorded)

=============================================================================
