---------------------- MODULE PositionLifecycle_proofs ----------------------
(***************************************************************************)
(* For any number of symbols, deals, candle handlers, reranks and margin   *)
(* handlers: the types, the double-entry guard, and serial entries; and    *)
(* the guard again when IG's stream is the feed.                           *)
(***************************************************************************)
EXTENDS PositionStream, TLAPS

\* A task in an entry is a candle task and knows its symbol, and so does a task
\* in a close.
Located ==
    \A t \in Tasks :
        /\ pc[t] \in LockedPC \cup {"lockwait"} =>
             t \in CandleTasks /\ sym[t] \in Symbols
        /\ pc[t] \in ClosePC => sym[t] \in Symbols

\* Once IG has opened the deal, the task knows it, and it is the symbol's.
Opened ==
    \A c \in CandleTasks :
        pc[c] \in {"confirming", "buyalert", "register"} =>
            deal[c] \in Deals /\ DealSym[deal[c]] = sym[c]

\* The lock is held exactly by the task inside it.
LockHeld == \A c \in CandleTasks : pc[c] \in LockedPC <=> lock = c

\* IG's list names deals IG has opened.
SnapUsed ==
    \A t \in Tasks : rec[t].snap \subseteq used /\ rec[t].orphan \in used \cup {None}

IInv == TypeOK /\ Located /\ Opened /\ LockHeld /\ EntryGuard /\ SnapUsed

LEMMA InitIInv == Init => IInv
BY NoneAssumption
   DEF Init, IInv, TypeOK, Located, Opened, LockHeld, EntryGuard, SnapUsed, Book,
       RecType, NoRec, PCs, LockedPC, EnteringPC, ClosePC, RecPC, Tasks

-----------------------------------------------------------------------------
(* Types. *)

LEMMA TypeLeave ==
    ASSUME TypeOK, NEW c \in CandleTasks, LeaveEntry(c)
    PROVE  /\ pc' \in [Tasks -> PCs]
           /\ lock' \in CandleTasks \cup {None}
           /\ sym' \in [Tasks -> Symbols \cup {None}]
           /\ deal' \in [Tasks -> Deals \cup {None}]
           /\ sig' \in [Tasks -> BOOLEAN]
BY DEF TypeOK, LeaveEntry, Goto, PCs, Tasks

LEMMA TypeEntry ==
    ASSUME IInv, NEW c \in CandleTasks, EntryStep(c) \/ \E s \in Symbols : MaybeEnter(c, s)
    PROVE  TypeOK'
<1> USE NoneAssumption DEF IInv, TypeOK, Located, Opened, Goto, books, Tasks
<1>0. {"idle", "lockwait", "balance", "market", "placing", "replacing",
       "confirming", "buyalert", "register", "entryfailed"} \subseteq PCs
  BY DEF PCs, LockedPC
<1>1. CASE \E s \in Symbols : MaybeEnter(c, s)
  BY <1>0, <1>1 DEF MaybeEnter
<1>2. CASE LockAcquired(c)
  <2>1. CASE positions[sym[c]] = None /\ sym[c] \in selected
    BY <1>0, <1>2, <2>1 DEF LockAcquired
  <2>2. CASE ~(positions[sym[c]] = None /\ sym[c] \in selected)
    <3>1. LeaveEntry(c) /\ UNCHANGED <<broker, used, books, alerted, signals,
                                       selected, pnl, todo, rec, back>>
      BY <1>2, <2>2 DEF LockAcquired
    <3> QED
      BY <3>1, TypeLeave
  <2> QED
    BY <2>1, <2>2
<1>3. CASE GatePassed(c)
  BY <1>0, <1>3 DEF GatePassed
<1>4. CASE EntrySkipped(c)
  BY <1>0, <1>4 DEF EntrySkipped, LeaveEntry
<1>5. CASE PlaceOrder(c)
  BY <1>0, <1>5 DEF PlaceOrder
<1>6. CASE IGOpens(c)
  BY <1>0, <1>6 DEF IGOpens
<1>7. CASE SizeRetry(c)
  BY <1>0, <1>7 DEF SizeRetry
<1>8. CASE EntryRaises(c)
  BY <1>0, <1>8 DEF EntryRaises
<1>9. CASE EntryFailed(c)
  BY <1>0, <1>9 DEF EntryFailed, LeaveEntry
<1>10. CASE EntryConfirmed(c)
  BY <1>0, <1>10 DEF EntryConfirmed, Book, LockedPC
<1>11. CASE EntryTracked(c)
  BY <1>0, <1>11 DEF EntryTracked, Book, LockedPC
<1>12. CASE EntryDone(c)
  BY <1>0, <1>12 DEF EntryDone, LeaveEntry, Book, LockedPC
<1> QED
  BY <1>1, <1>2, <1>3, <1>4, <1>5, <1>6, <1>7, <1>8, <1>9, <1>10, <1>11, <1>12
     DEF EntryStep
LEMMA TypeReturn ==
    ASSUME TypeOK, NEW t \in Tasks, Return(t)
    PROVE  /\ pc' \in [Tasks -> PCs]
           /\ sym' \in [Tasks -> Symbols \cup {None}]
           /\ deal' \in [Tasks -> Deals \cup {None}]
           /\ pnl' \in [Tasks -> BOOLEAN]
           /\ rec' \in [Tasks -> RecType]
           /\ back' \in [Tasks -> {"idle", "infer", "next"}]
BY DEF TypeOK, Return, Goto, PCs, RecType, NoRec

LEMMA TypePurgeNext ==
    ASSUME TypeOK, NEW t \in Tasks, NEW left \in SUBSET Symbols, PurgeNext(t, left)
    PROVE  /\ pc' \in [Tasks -> PCs]
           /\ sym' \in [Tasks -> Symbols \cup {None}]
           /\ deal' \in [Tasks -> Deals \cup {None}]
           /\ pnl' \in [Tasks -> BOOLEAN]
           /\ rec' \in [Tasks -> RecType]
           /\ back' \in [Tasks -> {"idle", "infer", "next"}]
<1>1. CASE Return(t)
  BY <1>1, TypeReturn
<1>2. CASE \E s \in left :
             /\ rec' = [rec EXCEPT ![t] = [NoRec EXCEPT !.stale = left \ {s},
                                                        !.sym = s]]
             /\ Goto(t, "purging")
             /\ UNCHANGED <<sym, deal, pnl, back>>
  <2>1. PICK s \in left :
             /\ rec' = [rec EXCEPT ![t] = [NoRec EXCEPT !.stale = left \ {s},
                                                        !.sym = s]]
             /\ Goto(t, "purging")
             /\ UNCHANGED <<sym, deal, pnl, back>>
    BY <1>2
  <2>2. [NoRec EXCEPT !.stale = left \ {s}, !.sym = s] \in RecType
    BY DEF NoRec, RecType
  <2> QED
    BY <2>1, <2>2 DEF TypeOK, Goto, PCs, RecPC
<1> QED
  BY <1>1, <1>2 DEF PurgeNext

\* A match writes only positions and deals of the symbol they are booked under.
LEMMA TypeMatch ==
    ASSUME TypeOK, NEW matched \in SUBSET Deals, Match(matched)
    PROVE  dealIds' \in Book /\ openPos' \in Book /\ budget' \in Book
<1> DEFINE mine == {DealSym[d] : d \in matched}
           Of(s) == CHOOSE d \in matched : DealSym[d] = s
<1>1. \A s \in mine : Of(s) \in Deals /\ DealSym[Of(s)] = s
  OBVIOUS
<1>2. /\ dealIds' = [s \in Symbols |-> IF s \in mine THEN Of(s) ELSE dealIds[s]]
      /\ openPos' = [s \in Symbols |->
                       IF s \in mine THEN positions[s] ELSE openPos[s]]
      /\ budget' = [s \in Symbols |-> IF s \in mine THEN Of(s) ELSE budget[s]]
  BY DEF Match
<1> HIDE DEF mine, Of
<1> QED
  BY <1>1, <1>2 DEF TypeOK, Book

LEMMA TypeAlertOrphan ==
    ASSUME TypeOK, NEW t \in Tasks, NEW seen \in SUBSET Deals,
           NEW mine \in SUBSET Symbols, NEW o \in Deals,
           AlertOrphan(t, o, seen, mine)
    PROVE  rec' \in [Tasks -> RecType] /\ pc' \in [Tasks -> PCs]
<1>1. rec[t] \in RecType /\ Unclaimed(t) \subseteq Symbols
  BY DEF TypeOK, RecType, Unclaimed, Tracked
<1>2. [rec[t] EXCEPT !.snap = rec[t].snap \ (seen \cup {o}),
                     !.unclaimed = Unclaimed(t) \ mine,
                     !.live = rec[t].live \cup mine, !.orphan = o] \in RecType
  BY <1>1 DEF RecType
<1> QED
  BY <1>2 DEF AlertOrphan, TypeOK, Goto, PCs, RecPC

LEMMA TypeRecScan ==
    ASSUME IInv, NEW t \in Tasks, RecScan(t)
    PROVE  TypeOK'
<1> USE DEF IInv
<1>1. PICK seen \in SUBSET rec[t].snap : \E matched \in SUBSET seen :
        ScanRun(t, seen, matched)
  BY DEF RecScan
<1>2. PICK matched \in SUBSET seen : ScanRun(t, seen, matched)
  BY <1>1
<1>3. UNCHANGED <<broker, used, positions, tp, signals, selected, lock, sig, todo>>
  BY DEF RecScan
<1> DEFINE mine == {DealSym[d] : d \in matched}
<1>4. /\ rec[t].snap \subseteq used /\ rec[t].snap \subseteq Deals
      /\ seen \in SUBSET Deals /\ matched \in SUBSET Deals
  BY DEF TypeOK, SnapUsed
<1>5. mine \in SUBSET Symbols
  BY <1>4, DealSymAssumption
<1>6. dealIds' \in Book /\ openPos' \in Book /\ budget' \in Book
  BY <1>2, <1>4, TypeMatch DEF ScanRun
<1>7. alerted' \subseteq used
  BY <1>2 DEF TypeOK, SnapUsed, ScanRun, Told
<1>8. \/ /\ rec' \in [Tasks -> RecType] /\ pc' \in [Tasks -> PCs]
         /\ UNCHANGED <<sym, deal, pnl, back>>
      \/ PurgeNext(t, Tracked \ (rec[t].live \cup mine))
  <2>1. CASE \E o \in rec[t].snap \ seen : AlertOrphan(t, o, seen, mine)
    <3>1. PICK o \in rec[t].snap \ seen : AlertOrphan(t, o, seen, mine)
      BY <2>1
    <3> QED
      BY <3>1, <1>4, <1>5, TypeAlertOrphan DEF AlertOrphan
  <2> QED
    BY <1>2, <2>1 DEF ScanRun
<1>9. Tracked \ (rec[t].live \cup mine) \in SUBSET Symbols
  BY DEF Tracked
<1> QED
  BY <1>3, <1>6, <1>7, <1>8, <1>9, TypePurgeNext DEF TypeOK
\* A symbol's entry in a book may go, or become a deal of that symbol.
LEMMA BookUpdate ==
    ASSUME NEW f \in Book, NEW s \in Symbols \cup {None}, NEW d \in Deals \cup {None},
           d # None => DealSym[d] = s
    PROVE  [f EXCEPT ![s] = d] \in Book
BY DEF Book

LEMMA TypeClose ==
    ASSUME IInv, NEW t \in Tasks, CloseStep(t)
    PROVE  TypeOK'
<1>0. /\ TypeOK
      /\ {"closing", "closeconfirm", "sellalert", "recfetch", "recread"} \subseteq PCs
  BY DEF IInv, PCs, ClosePC, RecPC
<1> DEFINE Gone(f, s) == [f EXCEPT ![s] = None]
<1>b. \A f \in Book : \A s \in Symbols \cup {None} : Gone(f, s) \in Book
  BY BookUpdate
<1>c. \A l \in PCs : [pc EXCEPT ![t] = l] \in [Tasks -> PCs]
  BY <1>0 DEF TypeOK
<1>d. sym[t] \in Symbols \cup {None} /\ rec[t] \in RecType
  BY <1>0 DEF TypeOK
<1>1. CASE IGCloses(t)
  BY <1>0, <1>c, <1>1 DEF IGCloses, Goto, TypeOK, books
<1>2. CASE CloseDeferred(t)
  BY <1>0, <1>2, TypeReturn DEF CloseDeferred, TypeOK, books
<1>3. CASE CloseFails(t)
  <2>1. deal' \in [Tasks -> Deals \cup {None}]
    BY <1>0, <1>3 DEF CloseFails, TypeOK
  <2> QED
    BY <1>0, <1>c, <1>3, <2>1 DEF CloseFails, Goto, TypeOK, books
<1>4. CASE CloseConfirmed(t)
  <2>1. dealIds' \in Book /\ openPos' \in Book /\ budget' \in Book
    BY <1>0, <1>b, <1>d, <1>4 DEF CloseConfirmed, TypeOK
  <2>2. pnl' \in [Tasks -> BOOLEAN]
    BY <1>0, <1>4 DEF CloseConfirmed, TypeOK
  <2>3. pc' \in [Tasks -> PCs]
    BY <1>0, <1>c, <1>4 DEF CloseConfirmed, Goto
  <2> QED
    BY <1>0, <1>4, <2>1, <2>2, <2>3 DEF CloseConfirmed, TypeOK
<1>5. CASE CloseRecorded(t)
  <2>1. positions' \in Book /\ openPos' \in Book /\ tp' \in Book
    BY <1>0, <1>b, <1>d, <1>5 DEF CloseRecorded, TypeOK
  <2>2. Return(t)
    BY <1>5 DEF CloseRecorded
  <2> QED
    BY <1>0, <1>5, <2>1, <2>2, TypeReturn DEF CloseRecorded, TypeOK
<1>6. CASE IGListsPositions(t)
  <2>1. [rec[t] EXCEPT !.snap = broker] \in RecType
    <3>1. broker \in SUBSET Deals
      BY <1>0 DEF TypeOK
    <3> QED
      BY <1>d, <3>1 DEF RecType
  <2>2. rec' \in [Tasks -> RecType]
    BY <1>0, <1>6, <2>1 DEF IGListsPositions, TypeOK
  <2>3. pc' \in [Tasks -> PCs]
    BY <1>0, <1>c, <1>6 DEF IGListsPositions, Goto
  <2> QED
    BY <1>0, <1>6, <2>2, <2>3 DEF IGListsPositions, TypeOK, books
<1>7. CASE FetchFails(t)
  BY <1>0, <1>7, TypeReturn DEF FetchFails, TypeOK, books
<1>8. CASE RecScan(t)
  BY <1>8, TypeRecScan
<1>9. CASE PurgeEnd(t)
  <2>1. CASE positions[rec[t].sym] = None
    <3>1. Return(t) /\ UNCHANGED books
      BY <1>9, <2>1 DEF PurgeEnd
    <3> QED
      BY <1>0, <1>9, <3>1, TypeReturn DEF PurgeEnd, TypeOK, books
  <2>2. CASE positions[rec[t].sym] # None
    <3>0. rec[t].sym \in Symbols \cup {None} /\ rec[t].stale \in SUBSET Symbols
      BY <1>d DEF RecType
    <3>1. /\ positions' \in Book /\ openPos' \in Book /\ budget' \in Book
          /\ dealIds' \in Book /\ tp' \in Book
      <4>1. /\ positions' = Gone(positions, rec[t].sym)
            /\ openPos' = Gone(openPos, rec[t].sym)
            /\ budget' = Gone(budget, rec[t].sym)
            /\ dealIds' = Gone(dealIds, rec[t].sym)
            /\ tp' = Gone(tp, rec[t].sym)
        BY <1>9, <2>2 DEF PurgeEnd
      <4>2. /\ positions \in Book /\ openPos \in Book /\ budget \in Book
            /\ dealIds \in Book /\ tp \in Book
        BY <1>0 DEF TypeOK
      <4> HIDE DEF Gone
      <4> QED
        BY <1>b, <3>0, <4>1, <4>2
    <3>2. PurgeNext(t, rec[t].stale)
      BY <1>9, <2>2 DEF PurgeEnd
    <3> QED
      BY <1>0, <1>9, <3>0, <3>1, <3>2, TypePurgeNext DEF PurgeEnd, TypeOK
  <2> QED
    BY <2>1, <2>2
<1> QED
  BY <1>1, <1>2, <1>3, <1>4, <1>5, <1>6, <1>7, <1>8, <1>9 DEF CloseStep

\* The steps left: a candle's exit, the lists of the rerank and the margin
\* breaker, and closes by IG.
LEMMA TypeStartClose ==
    ASSUME TypeOK, NEW t \in Tasks, NEW s \in Symbols,
           NEW ret \in {"idle", "infer", "next"}, StartClose(t, s, ret)
    PROVE  /\ pc' \in [Tasks -> PCs]
           /\ sym' \in [Tasks -> Symbols \cup {None}]
           /\ deal' \in [Tasks -> Deals \cup {None}]
           /\ back' \in [Tasks -> {"idle", "infer", "next"}]
BY DEF TypeOK, StartClose, Goto, PCs, ClosePC, RecPC, Book

LEMMA TypeOther ==
    ASSUME IInv,
           \/ \E c \in CandleTasks : \E s \in Symbols : CandleExit(c, s)
           \/ \E t \in RerankTasks \cup MarginTasks : ListStep(t)
           \/ \E r \in RerankTasks :
                RerankStart(r) \/ RerankInference(r) \/ RerankSelect(r)
           \/ \E m \in MarginTasks : MarginEvent(m) \/ MarginAction(m)
           \/ \E d \in Deals : ExternalClose(d)
    PROVE  TypeOK'
<1> USE DEF IInv, TypeOK, Goto, books, Tasks
<1>0. {"idle", "infer", "select", "next", "marginalert", "recfetch"} \subseteq PCs
  BY DEF PCs, RecPC
<1>1. CASE \E c \in CandleTasks : \E s \in Symbols : CandleExit(c, s)
  BY <1>1, TypeStartClose DEF CandleExit
<1>2. ASSUME NEW t \in RerankTasks \cup MarginTasks, CloseNext(t) PROVE TypeOK'
  <2>1. PICK s \in todo[t] : /\ StartClose(t, s, "next")
                             /\ todo' = [todo EXCEPT ![t] = @ \ {s}]
    BY <1>2 DEF CloseNext
  <2>2. s \in Symbols /\ todo' \in [Tasks -> SUBSET Symbols]
    BY <2>1
  <2> QED
    BY <1>2, <2>1, <2>2, TypeStartClose DEF CloseNext
<1>3. ASSUME NEW t \in RerankTasks \cup MarginTasks, ListDone(t) PROVE TypeOK'
  BY <1>0, <1>3 DEF ListDone
<1>4. ASSUME NEW r \in RerankTasks, RerankStart(r) PROVE TypeOK'
  BY <1>0, <1>4 DEF RerankStart
<1>5. ASSUME NEW r \in RerankTasks, RerankInference(r) PROVE TypeOK'
  BY <1>0, <1>5 DEF RerankInference
<1>6. ASSUME NEW r \in RerankTasks, RerankSelect(r) PROVE TypeOK'
  BY <1>0, <1>6 DEF RerankSelect, Tracked
<1>7. ASSUME NEW m \in MarginTasks, MarginEvent(m) PROVE TypeOK'
  BY <1>0, <1>7 DEF MarginEvent
<1>8. ASSUME NEW m \in MarginTasks, MarginAction(m) PROVE TypeOK'
  <2>1. PICK S \in {{}, Tracked} \cup {{s} : s \in Tracked} :
           todo' = [todo EXCEPT ![m] = S]
    BY <1>8 DEF MarginAction
  <2>2. S \subseteq Symbols
    BY DEF Tracked
  <2> QED
    BY <1>0, <1>8, <2>1, <2>2 DEF MarginAction
<1>9. ASSUME NEW d \in Deals, ExternalClose(d) PROVE TypeOK'
  BY <1>9 DEF ExternalClose
<1> QED
  BY <1>1, <1>2, <1>3, <1>4, <1>5, <1>6, <1>7, <1>8, <1>9 DEF ListStep
-----------------------------------------------------------------------------
(* Steps other than those of an entry leave the lock and the entries alone.  *)

EntryPC == LockedPC \cup {"lockwait"}

OtherStep ==
    \/ \E t \in Tasks : CloseStep(t)
    \/ \E c \in CandleTasks : \E s \in Symbols : CandleExit(c, s)
    \/ \E t \in RerankTasks \cup MarginTasks : ListStep(t)
    \/ \E r \in RerankTasks :
         RerankStart(r) \/ RerankInference(r) \/ RerankSelect(r)
    \/ \E m \in MarginTasks : MarginEvent(m) \/ MarginAction(m)
    \/ \E d \in Deals : ExternalClose(d)

\* No position appears, and every task either keeps its place or is outside any
\* entry before and after.
Aloof ==
    /\ lock' = lock /\ used' = used
    /\ \A s \in Symbols : positions'[s] \in {None, positions[s]}
    /\ \A u \in Tasks :
         \/ pc'[u] = pc[u] /\ sym'[u] = sym[u] /\ deal'[u] = deal[u]
         \/ /\ pc[u] \notin EntryPC /\ pc'[u] \notin EntryPC
            /\ pc'[u] \in ClosePC => sym'[u] \in Symbols

LEMMA AloofReturn ==
    ASSUME TypeOK, NEW t \in Tasks, pc[t] \notin EntryPC, Return(t)
    PROVE  \A u \in Tasks :
             \/ pc'[u] = pc[u] /\ sym'[u] = sym[u] /\ deal'[u] = deal[u]
             \/ /\ pc[u] \notin EntryPC /\ pc'[u] \notin EntryPC
                /\ pc'[u] \in ClosePC => sym'[u] \in Symbols
BY DEF TypeOK, Return, Goto, EntryPC, LockedPC, ClosePC

LEMMA AloofPurgeNext ==
    ASSUME TypeOK, NEW t \in Tasks, pc[t] \notin EntryPC, NEW left, PurgeNext(t, left)
    PROVE  \A u \in Tasks :
             \/ pc'[u] = pc[u] /\ sym'[u] = sym[u] /\ deal'[u] = deal[u]
             \/ /\ pc[u] \notin EntryPC /\ pc'[u] \notin EntryPC
                /\ pc'[u] \in ClosePC => sym'[u] \in Symbols
<1>1. CASE Return(t)
  BY <1>1, AloofReturn
<1>2. CASE Goto(t, "purging") /\ UNCHANGED <<sym, deal>>
  BY <1>2 DEF TypeOK, Goto, EntryPC, LockedPC, ClosePC
<1> QED
  BY <1>1, <1>2 DEF PurgeNext

LEMMA AloofClose ==
    ASSUME IInv, NEW t \in Tasks, CloseStep(t)
    PROVE  Aloof
<1> USE DEF IInv, TypeOK, Located, Aloof, EntryPC, LockedPC, ClosePC
<1>1. CASE IGCloses(t)
  BY <1>1 DEF IGCloses, Goto, books
<1>2. CASE CloseDeferred(t)
  BY <1>2, AloofReturn DEF CloseDeferred, books
<1>3. CASE CloseFails(t)
  BY <1>3 DEF CloseFails, Goto, books
<1>4. CASE CloseConfirmed(t)
  BY <1>4 DEF CloseConfirmed, Goto
<1>5. CASE CloseRecorded(t)
  BY <1>5, AloofReturn DEF CloseRecorded, Book
<1>6. CASE IGListsPositions(t)
  BY <1>6 DEF IGListsPositions, Goto, books
<1>7. CASE FetchFails(t)
  BY <1>7, AloofReturn DEF FetchFails, books
<1>8. CASE RecScan(t)
  <2>1. PICK seen \in SUBSET rec[t].snap : \E matched \in SUBSET seen :
          ScanRun(t, seen, matched)
    BY <1>8 DEF RecScan
  <2>2. PICK matched \in SUBSET seen : ScanRun(t, seen, matched)
    BY <2>1
  <2>3. \/ Goto(t, "orphanalert") /\ UNCHANGED <<sym, deal>>
        \/ \E left : PurgeNext(t, left)
    BY <2>2 DEF ScanRun, AlertOrphan
  <2>4. CASE Goto(t, "orphanalert") /\ UNCHANGED <<sym, deal>>
    BY <1>8, <2>4 DEF RecScan, Goto
  <2>5. CASE \E left : PurgeNext(t, left)
    BY <1>8, <2>5, AloofPurgeNext DEF RecScan
  <2> QED
    BY <2>3, <2>4, <2>5
<1>9. CASE PurgeEnd(t)
  <2>1. CASE positions[rec[t].sym] = None
    BY <1>9, <2>1, AloofReturn DEF PurgeEnd, books
  <2>2. CASE positions[rec[t].sym] # None
    BY <1>9, <2>2, AloofPurgeNext DEF PurgeEnd, Book
  <2> QED
    BY <2>1, <2>2
<1> QED
  BY <1>1, <1>2, <1>3, <1>4, <1>5, <1>6, <1>7, <1>8, <1>9 DEF CloseStep

LEMMA AloofOther == IInv /\ OtherStep => Aloof
<1> SUFFICES ASSUME IInv, OtherStep PROVE Aloof
  OBVIOUS
<1> USE DEF IInv, TypeOK, Aloof, EntryPC, LockedPC, ClosePC, Goto, books, Tasks
<1>1. ASSUME NEW c \in CandleTasks, NEW s \in Symbols, CandleExit(c, s) PROVE Aloof
  BY <1>1 DEF CandleExit, StartClose
<1>2. ASSUME NEW t \in RerankTasks \cup MarginTasks, ListStep(t) PROVE Aloof
  <2>1. CASE CloseNext(t)
    BY <2>1 DEF CloseNext, StartClose
  <2>2. CASE ListDone(t)
    BY <2>2 DEF ListDone
  <2> QED
    BY <1>2, <2>1, <2>2 DEF ListStep
<1>3. ASSUME NEW r \in RerankTasks,
             RerankStart(r) \/ RerankInference(r) \/ RerankSelect(r)
      PROVE  Aloof
  BY <1>3 DEF RerankStart, RerankInference, RerankSelect
<1>4. ASSUME NEW m \in MarginTasks, MarginEvent(m) \/ MarginAction(m) PROVE Aloof
  BY <1>4 DEF MarginEvent, MarginAction
<1>5. ASSUME NEW d \in Deals, ExternalClose(d) PROVE Aloof
  BY <1>5 DEF ExternalClose
<1> QED
  BY <1>1, <1>2, <1>3, <1>4, <1>5, AloofClose DEF OtherStep

LEMMA AloofKeeps ==
    ASSUME IInv, Aloof, TypeOK'
    PROVE  Located' /\ Opened' /\ LockHeld' /\ EntryGuard'
<1> USE DEF IInv, Aloof, Tasks
<1>1. Located'
  BY DEF Located, EntryPC, ClosePC, LockedPC
<1>2. Opened'
  BY DEF Opened, EntryPC, LockedPC
<1>3. LockHeld'
  BY DEF LockHeld, EntryPC
<1>4. EntryGuard'
  BY DEF EntryGuard, Located, EnteringPC, EntryPC, LockedPC
<1> QED
  BY <1>1, <1>2, <1>3, <1>4
-----------------------------------------------------------------------------
(* The steps of an entry. *)

AnyEntryStep(c) == EntryStep(c) \/ \E s \in Symbols : MaybeEnter(c, s)

LEMMA EntryKeeps ==
    ASSUME IInv, NEW c \in CandleTasks, AnyEntryStep(c), TypeOK'
    PROVE  Located' /\ Opened' /\ LockHeld' /\ EntryGuard'
<1> USE NoneAssumption
    DEF IInv, TypeOK, Located, Opened, LockHeld, EntryGuard, Goto, books, Tasks,
        LockedPC, EnteringPC, ClosePC
<1>1. CASE \E s \in Symbols : MaybeEnter(c, s)
  BY <1>1 DEF MaybeEnter
<1>2. CASE LockAcquired(c)
  <2>1. CASE positions[sym[c]] = None /\ sym[c] \in selected
    BY <1>2, <2>1 DEF LockAcquired
  <2>2. CASE ~(positions[sym[c]] = None /\ sym[c] \in selected)
    BY <1>2, <2>2 DEF LockAcquired, LeaveEntry
  <2> QED
    BY <2>1, <2>2
<1>3. CASE GatePassed(c)
  BY <1>3 DEF GatePassed
<1>4. CASE EntrySkipped(c)
  BY <1>4 DEF EntrySkipped, LeaveEntry
<1>5. CASE PlaceOrder(c)
  BY <1>5 DEF PlaceOrder
<1>6. CASE IGOpens(c)
  BY <1>6 DEF IGOpens
<1>7. CASE SizeRetry(c)
  BY <1>7 DEF SizeRetry
<1>8. CASE EntryRaises(c)
  BY <1>8 DEF EntryRaises
<1>9. CASE EntryFailed(c)
  BY <1>9 DEF EntryFailed, LeaveEntry
<1>10. CASE EntryConfirmed(c)
  BY <1>10 DEF EntryConfirmed
<1>11. CASE EntryTracked(c)
  BY <1>11 DEF EntryTracked
<1>12. CASE EntryDone(c)
  BY <1>12 DEF EntryDone, LeaveEntry
<1> QED
  BY <1>1, <1>2, <1>3, <1>4, <1>5, <1>6, <1>7, <1>8, <1>9, <1>10, <1>11, <1>12
     DEF AnyEntryStep, EntryStep

-----------------------------------------------------------------------------
(* What a reconcile remembers of IG's list stays within the deals opened.  *)

LEMMA SnapPurgeNext ==
    ASSUME TypeOK, SnapUsed, NEW t \in Tasks, NEW left, PurgeNext(t, left) \/ Return(t)
    PROVE  \A u \in Tasks : rec'[u].snap \subseteq used
                           /\ rec'[u].orphan \in used \cup {None}
<1>1. NoRec.snap = {} /\ NoRec.orphan = None
  BY DEF NoRec
<1>2. \/ rec' = [rec EXCEPT ![t] = NoRec]
      \/ \E s \in left : rec' = [rec EXCEPT ![t] = [NoRec EXCEPT !.stale = left \ {s},
                                                              !.sym = s]]
  BY DEF PurgeNext, Return
<1>3. CASE rec' = [rec EXCEPT ![t] = NoRec]
  BY <1>1, <1>3 DEF TypeOK, SnapUsed
<1>4. CASE \E s \in left : rec' = [rec EXCEPT ![t] = [NoRec EXCEPT !.stale = left \ {s},
                                                              !.sym = s]]
  <2>1. PICK s \in left : rec' = [rec EXCEPT ![t] = [NoRec EXCEPT !.stale = left \ {s},
                                                                 !.sym = s]]
    BY <1>4
  <2>2. /\ [NoRec EXCEPT !.stale = left \ {s}, !.sym = s].snap = {}
        /\ [NoRec EXCEPT !.stale = left \ {s}, !.sym = s].orphan = None
    BY DEF NoRec
  <2> QED
    BY <2>1, <2>2 DEF TypeOK, SnapUsed
<1> QED
  BY <1>2, <1>3, <1>4

LEMMA SnapClose ==
    ASSUME IInv, NEW t \in Tasks, CloseStep(t)
    PROVE  SnapUsed'
<1> USE DEF IInv
<1>1. CASE used' = used /\ Return(t)
  BY <1>1, SnapPurgeNext DEF SnapUsed
<1>2. CASE used' = used /\ rec' = rec
  BY <1>2 DEF SnapUsed
<1>3. CASE IGListsPositions(t)
  <2>1. [rec[t] EXCEPT !.snap = broker] .snap = broker
        /\ [rec[t] EXCEPT !.snap = broker].orphan = rec[t].orphan
    BY DEF TypeOK, RecType
  <2> QED
    BY <1>3, <2>1 DEF IGListsPositions, SnapUsed, TypeOK
<1>4. CASE RecScan(t)
  <2>1. used' = used
    BY <1>4 DEF RecScan
  <2>2. PICK seen \in SUBSET rec[t].snap : \E matched \in SUBSET seen :
          ScanRun(t, seen, matched)
    BY <1>4 DEF RecScan
  <2>3. \/ \E left : PurgeNext(t, left)
        \/ \E o \in rec[t].snap \ seen : \E mine : AlertOrphan(t, o, seen, mine)
    BY <2>2 DEF ScanRun
  <2>4. CASE \E left : PurgeNext(t, left)
    BY <2>1, <2>4, SnapPurgeNext DEF SnapUsed
  <2>5. CASE \E o \in rec[t].snap \ seen : \E mine : AlertOrphan(t, o, seen, mine)
    <3>1. PICK o \in rec[t].snap \ seen : \E mine : AlertOrphan(t, o, seen, mine)
      BY <2>5
    <3>2. PICK mine : AlertOrphan(t, o, seen, mine)
      BY <3>1
    <3> DEFINE new == [rec[t] EXCEPT !.snap = rec[t].snap \ (seen \cup {o}),
                                     !.unclaimed = Unclaimed(t) \ mine,
                                     !.live = rec[t].live \cup mine, !.orphan = o]
    <3>3. new.snap = rec[t].snap \ (seen \cup {o}) /\ new.orphan = o
      BY DEF TypeOK, RecType
    <3>4. rec' = [rec EXCEPT ![t] = new]
      BY <3>2 DEF AlertOrphan
    <3> HIDE DEF new
    <3> QED
      BY <2>1, <3>3, <3>4 DEF SnapUsed, TypeOK
  <2> QED
    BY <2>3, <2>4, <2>5
<1>5. CASE PurgeEnd(t)
  BY <1>5, SnapPurgeNext DEF PurgeEnd, SnapUsed
<1> QED
  BY <1>1, <1>2, <1>3, <1>4, <1>5
     DEF CloseStep, IGCloses, CloseDeferred, CloseFails, CloseConfirmed,
         CloseRecorded, FetchFails

LEMMA SnapNext == IInv /\ [Next]_vars => SnapUsed'
<1> SUFFICES ASSUME IInv, [Next]_vars PROVE SnapUsed'
  OBVIOUS
<1>1. CASE \E t \in Tasks : CloseStep(t)
  BY <1>1, SnapClose
<1>2. CASE used \subseteq used' /\ rec' = rec
  BY <1>2 DEF IInv, SnapUsed
<1> QED
  BY <1>1, <1>2
     DEF Next, EntryStep, ListStep, vars, MaybeEnter, LockAcquired, GatePassed,
         EntrySkipped, PlaceOrder, IGOpens, SizeRetry, EntryRaises, EntryFailed,
         EntryConfirmed, EntryTracked, EntryDone, CandleExit, CloseNext, ListDone,
         RerankStart, RerankInference, RerankSelect, MarginEvent, MarginAction,
         ExternalClose

-----------------------------------------------------------------------------
LEMMA NextSplit ==
    Next => OtherStep \/ \E c \in CandleTasks : AnyEntryStep(c)
BY DEF Next, OtherStep, AnyEntryStep

LEMMA NextIInv == IInv /\ [Next]_vars => IInv'
<1> SUFFICES ASSUME IInv, [Next]_vars PROVE IInv'
  OBVIOUS
<1>1. CASE OtherStep
  <2>1. TypeOK'
    BY <1>1, TypeClose, TypeOther DEF OtherStep
  <2> QED
    BY <1>1, <2>1, AloofOther, AloofKeeps, SnapNext DEF IInv
<1>2. ASSUME NEW c \in CandleTasks, AnyEntryStep(c) PROVE IInv'
  <2>1. TypeOK'
    BY <1>2, TypeEntry DEF AnyEntryStep
  <2> QED
    BY <1>2, <2>1, EntryKeeps, SnapNext DEF IInv
<1>3. CASE UNCHANGED vars
  BY <1>3 DEF vars, books, IInv, TypeOK, Located, Opened, LockHeld, EntryGuard,
              SnapUsed
<1> QED
  BY <1>1, <1>2, <1>3, NextSplit

\* Every book holds deals of its own symbol, whatever the interleaving.
THEOREM TypeCorrect == Spec => []TypeOK
<1>1. IInv => TypeOK
  BY DEF IInv
<1> QED
  BY <1>1, InitIInv, NextIInv, PTL DEF Spec

\* No symbol is entered twice at a time, for any number of concurrent handlers.
THEOREM DoubleEntryGuard == Spec => []EntryGuard
<1>1. IInv => EntryGuard
  BY DEF IInv
<1> QED
  BY <1>1, InitIInv, NextIInv, PTL DEF Spec

-----------------------------------------------------------------------------
(* PositionLifecycle implements SerialEntry.                               *)

\* A step outside the entries gives up at most one position.
LEMMA OtherReleases ==
    ASSUME IInv, OtherStep
    PROVE  positions' = positions \/ \E s : positions' = [positions EXCEPT ![s] = None]
<1>1. ASSUME NEW t \in Tasks, CloseStep(t)
      PROVE  positions' = positions \/ \E s : positions' = [positions EXCEPT ![s] = None]
  BY <1>1 DEF CloseStep, IGCloses, CloseDeferred, CloseFails, CloseConfirmed,
              CloseRecorded, IGListsPositions, FetchFails, RecScan, PurgeEnd, books
<1> QED
  BY <1>1 DEF OtherStep, ListStep, CandleExit, CloseNext, ListDone, RerankStart,
              RerankInference, RerankSelect, MarginEvent, MarginAction,
              ExternalClose, books

LEMMA OtherRefines ==
    ASSUME IInv, OtherStep
    PROVE  [Serial!Next]_<<positions, Entering>>
<1>1. Aloof
  BY AloofOther
<1>2. Entering' = Entering
  <2>1. CASE lock = None
    BY <1>1, <2>1 DEF Entering, Aloof
  <2>2. CASE lock # None
    <3>1. lock \in CandleTasks /\ pc[lock] \in LockedPC
      BY <2>2 DEF IInv, TypeOK, LockHeld
    <3>2. pc'[lock] = pc[lock] /\ sym'[lock] = sym[lock] /\ lock' = lock
      BY <1>1, <3>1 DEF Aloof, EntryPC, Tasks
    <3> QED
      BY <3>2 DEF Entering
  <2> QED
    BY <2>1, <2>2
<1>3. CASE positions' = positions
  BY <1>2, <1>3
<1>4. CASE \E s : positions' = [positions EXCEPT ![s] = None]
  <2>1. PICK s : positions' = [positions EXCEPT ![s] = None]
    BY <1>4
  <2>2. positions \in [Symbols -> Deals \cup {None}]
    BY DEF IInv, TypeOK, Book
  <2>3. CASE s \in Symbols /\ positions[s] # None
    BY <1>2, <2>1, <2>3 DEF Serial!Next, Serial!Release
  <2>4. CASE ~(s \in Symbols /\ positions[s] # None)
    <3>1. positions' = positions
      BY <2>1, <2>2, <2>4
    <3> QED
      BY <1>2, <3>1
  <2> QED
    BY <2>3, <2>4
<1> QED
  BY <1>3, <1>4, OtherReleases

LEMMA EntryRefines ==
    ASSUME IInv, NEW c \in CandleTasks, AnyEntryStep(c)
    PROVE  [Serial!Next]_<<positions, Entering>>
<1> USE NoneAssumption
    DEF IInv, TypeOK, Located, Opened, LockHeld, EntryGuard, Goto, books, Tasks,
        LockedPC, EnteringPC, Entering
<1> DEFINE Stutter == positions' = positions /\ Entering' = Entering
<1>1. CASE \E s \in Symbols : MaybeEnter(c, s)
  <2>1. Stutter
    BY <1>1 DEF MaybeEnter
  <2> QED
    BY <2>1
<1>2. CASE LockAcquired(c)
  <2>1. CASE positions[sym[c]] = None /\ sym[c] \in selected
    <3>1. Entering = None /\ Entering' = sym[c] /\ positions' = positions
      BY <1>2, <2>1 DEF LockAcquired
    <3> QED
      BY <1>2, <2>1, <3>1 DEF LockAcquired, Serial!Next, Serial!Begin
  <2>2. CASE ~(positions[sym[c]] = None /\ sym[c] \in selected)
    <3>1. Stutter
      BY <1>2, <2>2 DEF LockAcquired, LeaveEntry
    <3> QED
      BY <3>1
  <2> QED
    BY <2>1, <2>2
<1>3. CASE GatePassed(c) \/ PlaceOrder(c) \/ IGOpens(c) \/ SizeRetry(c)
           \/ EntryConfirmed(c)
  <2>1. Stutter
    BY <1>3 DEF GatePassed, PlaceOrder, IGOpens, SizeRetry, EntryConfirmed
  <2> QED
    BY <2>1
<1>4. CASE EntrySkipped(c) \/ EntryRaises(c)
  <2>1. Entering # None /\ Entering' = None /\ positions' = positions
    BY <1>4 DEF EntrySkipped, EntryRaises, LeaveEntry
  <2> QED
    BY <2>1 DEF Serial!Next, Serial!Abandon
<1>5. CASE EntryFailed(c) \/ EntryDone(c)
  <2>1. Stutter
    BY <1>5 DEF EntryFailed, EntryDone, LeaveEntry
  <2> QED
    BY <2>1
<1>6. CASE EntryTracked(c)
  <2>1. /\ Entering = sym[c] /\ positions[sym[c]] = None
        /\ deal[c] \in Deals /\ DealSym[deal[c]] = sym[c]
        /\ positions' = [positions EXCEPT ![sym[c]] = deal[c]]
        /\ Entering' = None
    BY <1>6 DEF EntryTracked
  <2> HIDE DEF Entering
  <2> QED
    BY <2>1 DEF Serial!Next, Serial!Fill
<1> QED
  BY <1>1, <1>2, <1>3, <1>4, <1>5, <1>6 DEF AnyEntryStep, EntryStep

\* Entries are serial: one at a time, for free symbols only, and a position is
\* given up before its symbol holds another.
THEOREM SerialEntries == Spec => ImplementsSerialEntry
<1>1. Init => Serial!Init
  BY DEF Init, Serial!Init, Entering
<1>2. IInv /\ [Next]_vars => [Serial!Next]_<<positions, Entering>>
  <2> SUFFICES ASSUME IInv, [Next]_vars PROVE [Serial!Next]_<<positions, Entering>>
    OBVIOUS
  <2>1. CASE UNCHANGED vars
    BY <2>1 DEF vars, books, Entering
  <2> QED
    BY <2>1, NextSplit, OtherRefines, EntryRefines
<1> QED
  BY <1>1, <1>2, InitIInv, NextIInv, PTL
     DEF Spec, ImplementsSerialEntry, Serial!Spec

-----------------------------------------------------------------------------
(* The stream.  Its consumer is the candle handler: while it has a confirm *)
(* in hand, no candle is handled, so that the positions a confirm writes   *)
(* are never those of a symbol being entered.                              *)

Fill == [side : {"BUY", "SELL"}, deal : Deals]

StreamTypeOK ==
    /\ queue \in Seq(Fill)
    /\ msg \in Fill \cup {None}
    /\ fillPnl \in BOOLEAN

MessageAlone == msg # None => \A c \in CandleTasks : pc[c] = "idle"

StreamIInv == IInv /\ StreamTypeOK /\ MessageAlone

LEMMA StreamInitIInv == StreamInit => StreamIInv
<1> SUFFICES ASSUME StreamInit PROVE StreamIInv
  OBVIOUS
<1>1. IInv
  BY InitIInv DEF StreamInit
<1>2. queue = <<>> /\ msg = None /\ fillPnl = FALSE
  BY DEF StreamInit
<1>3. <<>> \in Seq(Fill)
  OBVIOUS
<1>4. StreamTypeOK /\ MessageAlone
  BY <1>2, <1>3 DEF StreamTypeOK, MessageAlone
<1> QED
  BY <1>1, <1>4 DEF StreamIInv

\* Every step of a task on its way is one of PositionLifecycle's.
LEMMA StreamedNext == TaskStep => Next /\ Push /\ UNCHANGED <<msg, fillPnl>>
BY DEF TaskStep, Next, Streamed

LEMMA PushTypes ==
    ASSUME queue \in Seq(Fill), Push
    PROVE  queue' \in Seq(Fill)
<1>1. CASE UNCHANGED queue
  BY <1>1
<1>2. CASE \E d \in Deals : \E x \in {"BUY", "SELL"} :
             queue' = Append(queue, [side |-> x, deal |-> d])
  <2>1. PICK d \in Deals, x \in {"BUY", "SELL"} :
          queue' = Append(queue, [side |-> x, deal |-> d])
    BY <1>2
  <2>2. [side |-> x, deal |-> d] \in Fill
    BY DEF Fill
  <2> QED
    BY <2>1, <2>2
<1> QED
  BY <1>1, <1>2 DEF Push

\* A task that takes a step was not idle, and moves no other task.
LEMMA CloseMovesOne ==
    ASSUME TypeOK, NEW t \in Tasks, CloseStep(t)
    PROVE  pc[t] # "idle" /\ \A u \in Tasks \ {t} : pc'[u] = pc[u]
BY DEF TypeOK, CloseStep, IGCloses, CloseDeferred, CloseFails, CloseConfirmed,
       CloseRecorded, IGListsPositions, FetchFails, RecScan, PurgeEnd, ScanRun,
       AlertOrphan, PurgeNext, Return, Goto

LEMMA EntryNotIdle ==
    ASSUME NEW c \in CandleTasks, EntryStep(c)
    PROVE  pc[c] # "idle"
BY DEF EntryStep, LockAcquired, GatePassed, EntrySkipped, PlaceOrder, IGOpens,
       SizeRetry, EntryRaises, EntryFailed, EntryConfirmed, EntryTracked, EntryDone

\* While no candle is handled, no task on its way starts to handle one.
LEMMA CandlesStayIdle ==
    ASSUME TypeOK, TaskStep, \A c \in CandleTasks : pc[c] = "idle"
    PROVE  \A c \in CandleTasks : pc'[c] = "idle"
<1> USE TasksAssumption DEF Tasks
<1>1. ASSUME NEW c \in CandleTasks, EntryStep(c) PROVE FALSE
  BY <1>1, EntryNotIdle
<1>2. ASSUME NEW t \in Tasks, CloseStep(t)
      PROVE  \A c \in CandleTasks : pc'[c] = "idle"
  BY <1>2, CloseMovesOne
<1>3. ASSUME NEW t \in RerankTasks \cup MarginTasks, ListStep(t)
      PROVE  \A c \in CandleTasks : pc'[c] = "idle"
  BY <1>3 DEF TypeOK, ListStep, CloseNext, ListDone, StartClose, Goto
<1>4. ASSUME NEW r \in RerankTasks,
             RerankStart(r) \/ RerankInference(r) \/ RerankSelect(r)
      PROVE  \A c \in CandleTasks : pc'[c] = "idle"
  BY <1>4 DEF TypeOK, RerankStart, RerankInference, RerankSelect, Goto
<1>5. ASSUME NEW m \in MarginTasks, MarginAction(m)
      PROVE  \A c \in CandleTasks : pc'[c] = "idle"
  BY <1>5 DEF TypeOK, MarginAction, Goto
<1>6. ASSUME NEW d \in Deals, ExternalClose(d)
      PROVE  \A c \in CandleTasks : pc'[c] = "idle"
  BY <1>6 DEF ExternalClose
<1> QED
  BY <1>1, <1>2, <1>3, <1>4, <1>5, <1>6 DEF TaskStep

\* A confirm writes a book while no entry is on its way.
LEMMA FillKeeps ==
    ASSUME IInv, \A c \in CandleTasks : pc[c] = "idle",
           positions' \in Book, openPos' \in Book, budget' \in Book,
           UNCHANGED <<broker, used, dealIds, tp, alerted, signals, selected,
                       lock, pc, sym, deal, sig, pnl, todo, rec, back>>
    PROVE  IInv'
<1>1. TypeOK'
  BY DEF IInv, TypeOK
<1>2. Located' /\ Opened' /\ LockHeld' /\ SnapUsed'
  BY DEF IInv, Located, Opened, LockHeld, SnapUsed
<1>3. EntryGuard'
  BY DEF EntryGuard, EnteringPC, LockedPC
<1> QED
  BY <1>1, <1>2, <1>3 DEF IInv

LEMMA FillTakenIInv == StreamIInv /\ FillTaken => StreamIInv'
<1> SUFFICES ASSUME StreamIInv, FillTaken PROVE StreamIInv'
  OBVIOUS
<1> DEFINE f == Head(queue)
           s == DealSym[f.deal]
<1>1. f \in Fill /\ Tail(queue) \in Seq(Fill)
  BY DEF StreamIInv, StreamTypeOK, FillTaken
<1>2. f.deal \in Deals /\ s \in Symbols
  BY <1>1, DealSymAssumption DEF Fill
<1>3. /\ openPos' = [openPos EXCEPT ![s] = IF f.side = "BUY" THEN f.deal ELSE None]
      /\ budget' = [budget EXCEPT ![s] = IF f.side = "BUY" THEN budget[s] ELSE None]
      /\ msg' = f /\ fillPnl' \in BOOLEAN /\ queue' = Tail(queue)
  BY DEF FillTaken
<1>4. openPos \in Book /\ budget \in Book /\ positions \in Book
  BY DEF StreamIInv, IInv, TypeOK
<1>5. openPos' \in Book
  BY <1>2, <1>3, <1>4 DEF Book
<1>6. budget' \in Book
  BY <1>2, <1>3, <1>4 DEF Book
<1>7. IInv'
  BY <1>4, <1>5, <1>6, FillKeeps DEF StreamIInv, FillTaken, Consuming
<1>8. StreamTypeOK' /\ MessageAlone'
  BY <1>1, <1>3 DEF StreamTypeOK, MessageAlone, FillTaken, Consuming
<1> QED
  BY <1>7, <1>8 DEF StreamIInv

LEMMA FillRecordedIInv == StreamIInv /\ FillRecorded => StreamIInv'
<1> SUFFICES ASSUME StreamIInv, FillRecorded PROVE StreamIInv'
  OBVIOUS
<1> DEFINE s == DealSym[msg.deal]
<1>1. msg \in Fill /\ \A c \in CandleTasks : pc[c] = "idle"
  BY DEF StreamIInv, StreamTypeOK, MessageAlone, FillRecorded
<1>2. msg.deal \in Deals /\ s \in Symbols
  BY <1>1, DealSymAssumption DEF Fill
<1>3. /\ positions' = [positions EXCEPT ![s] = IF msg.side = "BUY" THEN msg.deal ELSE None]
      /\ openPos' = [openPos EXCEPT ![s] = IF fillPnl THEN None ELSE openPos[s]]
      /\ budget' = budget
  BY DEF FillRecorded
<1>4. openPos \in Book /\ budget \in Book /\ positions \in Book
  BY DEF StreamIInv, IInv, TypeOK
<1>5. positions' \in Book /\ openPos' \in Book /\ budget' \in Book
  BY <1>2, <1>3, <1>4 DEF Book
<1>6. IInv'
  BY <1>1, <1>5, FillKeeps DEF StreamIInv, FillRecorded
<1>7. StreamTypeOK' /\ MessageAlone'
  BY DEF StreamIInv, StreamTypeOK, MessageAlone, FillRecorded
<1> QED
  BY <1>6, <1>7 DEF StreamIInv

LEMMA StreamNextIInv == StreamIInv /\ [StreamNext]_streamVars => StreamIInv'
<1> SUFFICES ASSUME StreamIInv, [StreamNext]_streamVars PROVE StreamIInv'
  OBVIOUS
<1>1. ASSUME NEW c \in CandleTasks, NEW s \in Symbols, ChartTaken(c, s)
      PROVE  StreamIInv'
  <2>1. Next
    BY <1>1 DEF ChartTaken, Next
  <2>2. IInv'
    BY <2>1, NextIInv DEF StreamIInv
  <2> QED
    BY <1>1, <2>2 DEF ChartTaken, Consuming, stream, StreamIInv, StreamTypeOK,
                      MessageAlone
<1>2. ASSUME NEW m \in MarginTasks, AccountTaken(m) PROVE StreamIInv'
  <2>1. Next
    BY <1>2 DEF AccountTaken, Next
  <2>2. IInv'
    BY <2>1, NextIInv DEF StreamIInv
  <2> QED
    BY <1>2, <2>2 DEF AccountTaken, Consuming, stream, StreamIInv, StreamTypeOK,
                      MessageAlone
<1>3. CASE TaskStep
  <2>1. Next /\ Push /\ UNCHANGED <<msg, fillPnl>>
    BY <1>3, StreamedNext
  <2>2. IInv'
    BY <2>1, NextIInv DEF StreamIInv
  <2>3. StreamTypeOK'
    BY <2>1, PushTypes DEF StreamIInv, StreamTypeOK
  <2>4. MessageAlone'
    BY <1>3, <2>1, CandlesStayIdle DEF StreamIInv, IInv, MessageAlone
  <2> QED
    BY <2>2, <2>3, <2>4 DEF StreamIInv
<1>4. CASE UNCHANGED streamVars
  <2>1. UNCHANGED vars /\ UNCHANGED stream
    BY <1>4 DEF streamVars
  <2>2. IInv'
    BY <2>1, NextIInv DEF StreamIInv
  <2> QED
    BY <2>1, <2>2 DEF StreamIInv, StreamTypeOK, MessageAlone, vars, stream
<1> QED
  BY <1>1, <1>2, <1>3, <1>4, FillTakenIInv, FillRecordedIInv DEF StreamNext

\* With candle_exchange = "ig" every fill may be handled a second time, from a
\* TRADE confirm whose deal the books are not asked about; the books still hold
\* deals of their own symbol.
THEOREM StreamTypeCorrect == StreamSpec => [](TypeOK /\ StreamTypeOK)
<1>1. StreamIInv => TypeOK /\ StreamTypeOK
  BY DEF StreamIInv, IInv
<1> QED
  BY <1>1, StreamInitIInv, StreamNextIInv, PTL DEF StreamSpec

\* No confirm from the stream gives a symbol a position while it is entered: the
\* consumer that handles confirms is the task that enters.
THEOREM StreamEntryGuard == StreamSpec => []EntryGuard
<1>1. StreamIInv => EntryGuard
  BY DEF StreamIInv, IInv
<1> QED
  BY <1>1, StreamInitIInv, StreamNextIInv, PTL DEF StreamSpec
=============================================================================
