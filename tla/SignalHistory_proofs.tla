------------------------- MODULE SignalHistory_proofs -------------------------
(***************************************************************************)
(* For any assets, bars and number of faults: on the connection that three *)
(* threads share, an acknowledged candle is never lost; and for any scans  *)
(* and answers, the escalations to Gemini keep to their hourly cap.        *)
(***************************************************************************)
EXTENDS SignalHistory, FiniteSetTheorems, SequenceTheorems, WellFoundedInduction, TLAPS

Tables(d) == d = [candles |-> d.candles, rows |-> d.rows, pairs |-> d.pairs]

CandleCall == call # None /\ call[1] = "candle"

\* What is acknowledged is committed, and the connection sees what is committed
\* and the candle it is about to commit.
IInv ==
    /\ Tables(view) /\ Tables(disk)
    /\ acked \subseteq disk.candles /\ disk.candles \subseteq view.candles
    /\ CandleCall => call[2] \in view.candles

-----------------------------------------------------------------------------
(* The statements. *)

\* A statement of another table leaves the candles.
LEMMA ExecuteKeeps ==
    ASSUME IInv, NEW field \in {"rows", "pairs"}, NEW value,
           Execute(field, value), UNCHANGED acked, CandleCall' => UNCHANGED call
    PROVE  IInv'
<1>1. view' = [view EXCEPT ![field] = value] /\ disk' = disk
  BY DEF Execute
<1>2. Tables(view') /\ view'.candles = view.candles
  BY <1>1 DEF IInv, Tables
<1> QED
  BY <1>1, <1>2 DEF IInv, CandleCall

LEMMA CommitKeeps ==
    ASSUME IInv, Commit, acked' \subseteq view.candles, CandleCall' => UNCHANGED call
    PROVE  IInv'
BY DEF IInv, Commit, CandleCall

LEMMA RollbackKeeps ==
    ASSUME IInv, Rollback, UNCHANGED acked, ~CandleCall'
    PROVE  IInv'
BY DEF IInv, Rollback

LEMMA UnchangedKeeps ==
    ASSUME IInv, UNCHANGED <<disk, view, acked>>, CandleCall' => UNCHANGED call
    PROVE  IInv'
BY DEF IInv, CandleCall

-----------------------------------------------------------------------------
(* The steps. *)

LEMMA InitIInv == Init => IInv
BY DEF Init, IInv, Tables, Empty, CandleCall

LEMMA CandleSteps ==
    ASSUME IInv, CandleCommitted \/ \E bar \in Assets \X (0..MaxHour) : CandleExecuted(bar)
    PROVE  IInv'
<1>1. ASSUME NEW bar, CandleExecuted(bar)
      PROVE  IInv'
  <2>1. /\ view' = [view EXCEPT !.candles = view.candles \cup {bar}]
        /\ disk' = disk /\ acked' = acked /\ call' = <<"candle", bar>>
    BY <1>1 DEF CandleExecuted, Execute
  <2>2. Tables(view') /\ view'.candles = view.candles \cup {bar}
    BY <2>1 DEF IInv, Tables
  <2> QED
    BY <2>1, <2>2 DEF IInv, CandleCall
<1>2. CASE CandleCommitted
  <2>1. Commit /\ acked' = acked \cup {call[2]} /\ call' = None /\ CandleCall
    BY <1>2 DEF CandleCommitted, CandleCall
  <2>2. acked' \subseteq view.candles /\ ~CandleCall'
    BY <2>1 DEF IInv, CandleCall
  <2> QED
    BY <2>1, <2>2, CommitKeeps
<1> QED
  BY <1>1, <1>2

LEMMA RerankSteps ==
    ASSUME IInv, \/ MacroStored \/ MacroFails \/ RerankStart \/ RowsBegin
                 \/ RowExecuted \/ RowsCommitted \/ RowsFail
    PROVE  IInv'
<1>1. CASE MacroStored
  <2>1. Commit /\ acked' = acked /\ call' = call
    BY <1>1 DEF MacroStored
  <2> QED
    BY <2>1, CommitKeeps DEF IInv
<1>2. CASE MacroFails
  BY <1>2, RollbackKeeps DEF MacroFails, CandleCall
<1>3. CASE RerankStart
  BY <1>3, UnchangedKeeps DEF RerankStart, db
<1>4. CASE RowsBegin
  <2>1. UNCHANGED <<disk, view, acked>> /\ ~CandleCall'
    BY <1>4 DEF RowsBegin, db, CandleCall
  <2> QED
    BY <2>1, UnchangedKeeps
<1>5. CASE RowExecuted
  <2>1. PICK r \in call[2] : /\ Execute("rows", view.rows \cup {r})
                             /\ call' = <<"rows", call[2] \ {r}>>
    BY <1>5 DEF RowExecuted
  <2>2. ~CandleCall' /\ acked' = acked
    BY <1>5, <2>1 DEF RowExecuted, CandleCall
  <2> QED
    BY <2>1, <2>2, ExecuteKeeps
<1>6. CASE RowsCommitted
  <2>1. Commit /\ acked' = acked /\ ~CandleCall'
    BY <1>6 DEF RowsCommitted, CorrelationBegins, CandleCall
  <2> QED
    BY <2>1, CommitKeeps DEF IInv
<1>7. CASE RowsFail
  <2>1. Rollback /\ acked' = acked /\ ~CandleCall'
    BY <1>7 DEF RowsFail, CorrelationBegins, CandleCall
  <2> QED
    BY <2>1, RollbackKeeps
<1> QED
  BY <1>1, <1>2, <1>3, <1>4, <1>5, <1>6, <1>7

LEMMA CorrelationSteps ==
    ASSUME IInv, PairExecuted \/ PairsCommitted \/ PairsFail
    PROVE  IInv'
<1>1. CASE PairExecuted
  <2>1. PICK p \in writer : Execute("pairs", view.pairs \cup {<<now, p>>})
    BY <1>1 DEF PairExecuted
  <2>2. acked' = acked /\ call' = call
    BY <1>1 DEF PairExecuted
  <2> QED
    BY <2>1, <2>2, ExecuteKeeps
<1>2. CASE PairsCommitted
  <2>1. Commit /\ acked' = acked /\ call' = call
    BY <1>2 DEF PairsCommitted
  <2> QED
    BY <2>1, CommitKeeps DEF IInv
<1>3. CASE PairsFail
  BY <1>3, UnchangedKeeps DEF PairsFail, db
<1> QED
  BY <1>1, <1>2, <1>3

LEMMA ResolverSteps ==
    ASSUME IInv, \/ ResolverWakes \/ Select \/ ResolverCommits \/ ResolverFails
                 \/ \E r \in due : Resolve(r)
    PROVE  IInv'
<1>1. CASE ResolverWakes \/ Select \/ ResolverFails
  BY <1>1, UnchangedKeeps DEF ResolverWakes, Select, ResolverFails, Raised, db
<1>2. ASSUME NEW r, Resolve(r)
      PROVE  IInv'
  <2>1. acked' = acked /\ call' = call
    BY <1>2 DEF Resolve
  <2>2. UNCHANGED <<disk, view>> \/ \E rows : Execute("rows", rows)
    BY <1>2 DEF Resolve, db
  <2> QED
    BY <2>1, <2>2, ExecuteKeeps, UnchangedKeeps
<1>3. CASE ResolverCommits
  <2>1. Commit /\ acked' = acked /\ call' = call
    BY <1>3 DEF ResolverCommits
  <2> QED
    BY <2>1, CommitKeeps DEF IInv
<1> QED
  BY <1>1, <1>2, <1>3

LEMMA Inductive == IInv /\ [Next]_vars => IInv'
<1> SUFFICES ASSUME IInv, [Next]_vars
             PROVE  IInv'
  OBVIOUS
<1>1. CASE ScanBegins \/ Scans \/ Tick \/ UNCHANGED vars
  BY <1>1, UnchangedKeeps DEF ScanBegins, Scans, Tick, vars, db
<1>2. CASE Restart
  <2>1. Rollback /\ acked' = acked /\ ~CandleCall'
    BY <1>2 DEF Restart, CandleCall
  <2> QED
    BY <2>1, RollbackKeeps
<1> QED
  BY <1>1, <1>2, CandleSteps, RerankSteps, CorrelationSteps, ResolverSteps DEF Next, Loop

(* A candle whose insert_candle has returned stays in the file, whatever    *)
(* the resolver and the correlation writer were doing on its connection,    *)
(* and whoever of them fails (candle_db.py, signal_history_store.py).       *)
THEOREM AcknowledgedCandlesStay == Spec => []AckedCandlesStay
<1>1. IInv => AckedCandlesStay
  BY DEF IInv, AckedCandlesStay
<1> QED
  BY InitIInv, Inductive, <1>1, PTL DEF Spec

-----------------------------------------------------------------------------
(* The cap on the escalations. *)

\* The slots the aggregator remembers are the last of the calls made, and the
\* k calls it has forgotten are more than an hour old.
Forgot(k) ==
    /\ Len(calls) = k + Len(escalations)
    /\ \A i \in 1..Len(escalations) : escalations[i] = calls[k + i]
    /\ \A i \in 1..k : clock - calls[i] > Parts

CapInv ==
    /\ clock \in Nat /\ calls \in Seq(Int) /\ escalations \in Seq(Int)
    /\ \E k \in Nat : Forgot(k)
    /\ Len(escalations) <= MaxPerHour
    /\ EscalationsCapped

Old(t) == clock - t > Parts
OldUpTo(times, i) == \A j \in 1..i : Old(times[j])

\* The places up to the first time that is not old.
LEMMA OldPlaces ==
    ASSUME NEW n \in Nat, NEW times
    PROVE  \E m \in 0..n : {i \in 1..n : OldUpTo(times, i)} = 1..m
<1> DEFINE P == {i \in 1..n : OldUpTo(times, i)}
           Out == {i \in Nat : i >= 1 /\ i \notin P}
           R == {ss \in Nat \X Nat : ss[1] < ss[2]}
<1>1. IsWellFoundedOn(R, Nat)
  BY NatLessThanWellFounded DEF OpToRel
<1>2. n + 1 \in Out /\ Out \subseteq Nat
  OBVIOUS
<1>3. PICK b \in Out : \A i \in Out : ~(<<i, b>> \in R)
  <2> HIDE DEF R, Out
  <2> QED
    BY <1>1, <1>2, WFMin
<1>4. b \in Nat /\ b >= 1 /\ b \notin P
  OBVIOUS
<1>5. ASSUME NEW i \in Nat, i >= 1, i < b
      PROVE  i \in P
  <2>1. <<i, b>> \in R
    BY <1>4, <1>5
  <2> QED
    BY <1>3, <1>5, <2>1
<1>6. ASSUME NEW i \in P, i >= b
      PROVE  FALSE
  <2>1. b \in 1..n /\ \A j \in 1..b : j \in 1..i
    BY <1>4, <1>6
  <2>2. OldUpTo(times, b)
    BY <2>1 DEF OldUpTo
  <2> QED
    BY <1>4, <2>1, <2>2
<1>7. P \subseteq 1..n
  OBVIOUS
<1>8. b <= n + 1
  <2>1. SUFFICES ASSUME b > n + 1
                 PROVE  FALSE
    BY <1>4
  <2>2. n + 1 \in P
    BY <1>4, <1>5, <2>1
  <2> QED
    BY <1>7, <2>2
<1> HIDE DEF P, R, Out
<1>9. b - 1 \in 0..n
  BY <1>4, <1>8
<1>10. 1..(b - 1) \subseteq P
  BY <1>4, <1>5
<1>11. ASSUME NEW i \in P
       PROVE  i \in 1..(b - 1)
  <2>1. i \in 1..n /\ ~(i >= b)
    BY <1>6, <1>7
  <2> QED
    BY <1>4, <2>1
<1>12. P = 1..(b - 1)
  BY <1>10, <1>11
<1> QED
  BY <1>9, <1>12 DEF P

\* What is left when m are taken from the left.
LEMMA LastPart ==
    ASSUME NEW s \in Seq(Int), NEW m \in Nat, m <= Len(s)
    PROVE  /\ SubSeq(s, m + 1, Len(s)) \in Seq(Int)
           /\ Len(SubSeq(s, m + 1, Len(s))) = Len(s) - m
           /\ \A i \in 1..(Len(s) - m) : SubSeq(s, m + 1, Len(s))[i] = s[i + m]
<1> DEFINE n == Len(s)
           rest == SubSeq(s, m + 1, n)
<1>1. n \in Nat /\ m + 1 \in 1..(n + 1) /\ n \in m..n
  OBVIOUS
<1>2. /\ rest \in Seq(Int)
      /\ Len(rest) = IF m + 1 <= n THEN n - (m + 1) + 1 ELSE 0
      /\ \A i \in 1..(n - (m + 1) + 1) : rest[i] = s[(m + 1) + i - 1]
  BY <1>1, SubSeqProperties
<1> HIDE DEF n, rest
<1>3. n - (m + 1) + 1 = n - m /\ (m + 1 <= n \/ n - m = 0)
  BY <1>1 DEF n
<1>4. \A i \in Int : (m + 1) + i - 1 = i + m
  OBVIOUS
<1>5. rest \in Seq(Int) /\ Len(rest) = n - m /\ \A i \in 1..(n - m) : rest[i] = s[i + m]
  BY <1>1, <1>2, <1>3, <1>4
<1> QED
  BY <1>5 DEF n, rest

\* Popping from the left takes old times, and leaves the others in their order.
LEMMA PoppedOld ==
    ASSUME NEW times \in Seq(Int)
    PROVE  \E m \in 0..Len(times) :
             /\ WithinHour(times) \in Seq(Int) /\ Len(WithinHour(times)) = Len(times) - m
             /\ \A i \in 1..(Len(times) - m) : WithinHour(times)[i] = times[m + i]
             /\ OldUpTo(times, m)
<1> DEFINE n == Len(times)
           popped == {i \in 1..n : OldUpTo(times, i)}
<1>1. n \in Nat /\ DOMAIN times = 1..n
  OBVIOUS
<1>2. PICK m \in 0..n : popped = 1..m
  <2> HIDE DEF n
  <2> QED
    BY <1>1, OldPlaces
<1>3. WithinHour(times) = SubSeq(times, Cardinality(popped) + 1, n)
  BY <1>1 DEF WithinHour, PopWhile, OldUpTo, Old
<1>4. OldUpTo(times, m)
  <2>1. CASE m = 0
    BY <2>1 DEF OldUpTo
  <2>2. CASE m # 0
    BY <1>2, <2>2
  <2> QED
    BY <2>1, <2>2
<1>5. Cardinality(popped) = m
  <2> HIDE DEF popped
  <2>1. Cardinality(1..m) = IF 1 > m THEN 0 ELSE m - 1 + 1
    BY FS_Interval
  <2>2. Cardinality(1..m) = m
    BY <2>1
  <2> QED
    BY <1>2, <2>2
<1> HIDE DEF popped
<1> DEFINE rest == SubSeq(times, m + 1, n)
<1>6. WithinHour(times) = rest
  BY <1>3, <1>5
<1>7. /\ rest \in Seq(Int) /\ Len(rest) = n - m
      /\ \A i \in 1..(n - m) : rest[i] = times[i + m]
  <2>1. m \in Nat /\ m <= n
    BY <1>1
  <2> QED
    BY <1>1, <2>1, LastPart
<1>8. \A i \in 1..(n - m) : rest[i] = times[m + i]
  <2>1. \A i \in 1..(n - m) : rest[i] = times[i + m]
    BY <1>7
  <2>2. \A i \in 1..(n - m) : m + i = i + m
    OBVIOUS
  <2> QED
    BY <2>1, <2>2
<1> HIDE DEF rest
<1> QED
  BY <1>4, <1>6, <1>7, <1>8

-----------------------------------------------------------------------------
LEMMA CapStarts ==
    ASSUME clock' \in Nat, escalations' = <<>>, calls' = <<>>
    PROVE  CapInv'
<1>1. Forgot(0)'
  BY DEF Forgot
<1>2. <<>> \in Seq(Int)
  OBVIOUS
<1>3. EscalationsCapped'
  BY SentimentAssumption DEF EscalationsCapped
<1> QED
  BY <1>1, <1>2, <1>3, SentimentAssumption DEF CapInv

LEMMA InitCap == Init => CapInv
<1> SUFFICES ASSUME Init PROVE CapInv
  OBVIOUS
<1>1. clock = 0 /\ escalations = <<>> /\ calls = <<>>
  BY DEF Init, SentimentInit
<1>2. Forgot(0)
  BY <1>1 DEF Forgot
<1>3. <<>> \in Seq(Int)
  OBVIOUS
<1>4. EscalationsCapped
  BY <1>1, SentimentAssumption DEF EscalationsCapped
<1> QED
  BY <1>1, <1>2, <1>3, <1>4, SentimentAssumption DEF CapInv

\* What a gathering reserves follows what is left of the slots, of which there
\* are no more than the cap.
LEMMA SlotsReserved ==
    ASSUME CapInv, Gathered
    PROVE  \E n \in Nat, k \in Nat, times \in Seq(Int) :
             /\ Len(calls) = k + Len(times)
             /\ \A i \in 1..Len(times) : times[i] = calls[k + i]
             /\ \A i \in 1..k : clock - calls[i] > Parts
             /\ Len(times) + n <= MaxPerHour
             /\ escalations' = times \o Repeat(clock, n)
             /\ calls' = calls \o Repeat(clock, n)
<1>1. PICK g \in Gatherings :
        LET times == IF g.contested = {} THEN escalations ELSE WithinHour(escalations)
            n == Min({Cardinality(g.contested), Free(times)})
        IN /\ escalations' = times \o Repeat(clock, n)
           /\ calls' = calls \o Repeat(clock, n)
  BY DEF Gathered
<1> DEFINE times == IF g.contested = {} THEN escalations ELSE WithinHour(escalations)
           n == Min({Cardinality(g.contested), Free(times)})
<1>2. escalations' = times \o Repeat(clock, n) /\ calls' = calls \o Repeat(clock, n)
  BY <1>1
<1>3. g.contested \in SUBSET Assets
  <2>1. PICK raw : g = [views |-> [a \in Scored(raw) |-> Consensus(raw, a)],
                        contested |-> {a \in Scored(raw) : Contested(raw, a)}]
    BY DEF Gatherings
  <2> QED
    BY <2>1 DEF Scored
<1>4. Cardinality(g.contested) \in Nat
  BY <1>3, SentimentAssumption, FS_Subset, FS_CardinalityType
<1>5. PICK h \in Nat : Forgot(h)
  BY DEF CapInv
<1>6. escalations \in Seq(Int) /\ Len(escalations) \in Nat /\ MaxPerHour \in Nat
      /\ Len(escalations) <= MaxPerHour
  BY SentimentAssumption DEF CapInv
<1>7. PICK m \in 0..Len(escalations) :
        /\ times \in Seq(Int) /\ Len(times) = Len(escalations) - m
        /\ \A i \in 1..(Len(escalations) - m) : times[i] = escalations[m + i]
        /\ OldUpTo(escalations, m)
  <2>1. CASE g.contested = {}
    <3>1. times = escalations
      BY <2>1
    <3> HIDE DEF times
    <3>2. 0 \in 0..Len(escalations) /\ Len(times) = Len(escalations) - 0
      BY <1>6, <3>1
    <3>3. \A i \in 1..(Len(escalations) - 0) : times[i] = escalations[0 + i]
      BY <1>6, <3>1
    <3>4. OldUpTo(escalations, 0)
      BY DEF OldUpTo
    <3> QED
      BY <1>6, <3>1, <3>2, <3>3, <3>4
  <2>2. CASE g.contested # {}
    <3>1. times = WithinHour(escalations)
      BY <2>2
    <3> HIDE DEF times
    <3> QED
      BY <1>6, <3>1, PoppedOld
  <2> QED
    BY <2>1, <2>2
<1> HIDE DEF times
<1> DEFINE k == h + m
<1>8. k \in Nat /\ Len(calls) = k + Len(times)
  BY <1>5, <1>6, <1>7 DEF Forgot
<1>9. ASSUME NEW i \in 1..Len(times)
      PROVE  times[i] = calls[k + i]
  <2>1. m + i \in 1..Len(escalations) /\ h + (m + i) = k + i
    BY <1>6, <1>7
  <2>2. times[i] = escalations[m + i] /\ escalations[m + i] = calls[h + (m + i)]
    BY <1>5, <1>7, <2>1 DEF Forgot
  <2> QED
    BY <2>1, <2>2
<1>10. ASSUME NEW i \in 1..k
       PROVE  clock - calls[i] > Parts
  <2>1. CASE i <= h
    BY <1>5, <2>1 DEF Forgot
  <2>2. CASE i > h
    <3>1. i - h \in 1..m /\ i - h \in 1..Len(escalations) /\ h + (i - h) = i
      BY <1>6, <2>2
    <3>2. Old(escalations[i - h])
      BY <1>7, <3>1 DEF OldUpTo
    <3>3. escalations[i - h] = calls[h + (i - h)]
      BY <1>5, <3>1 DEF Forgot
    <3> QED
      BY <3>1, <3>2, <3>3 DEF Old
  <2> QED
    BY <2>1, <2>2
<1>11. Free(times) = MaxPerHour - Len(times) /\ Free(times) \in Nat
  BY <1>6, <1>7 DEF Free
<1>12. n \in Nat /\ Len(times) + n <= MaxPerHour
  <2> DEFINE c == Cardinality(g.contested)
             f == Free(times)
  <2>1. c \in Nat /\ f \in Nat /\ f = MaxPerHour - Len(times)
    BY <1>4, <1>11
  <2> HIDE DEF c, f
  <2>2. \E x \in {c, f} : \A y \in {c, f} : x <= y
    BY <2>1
  <2>3. Min({c, f}) \in {c, f} /\ \A y \in {c, f} : Min({c, f}) <= y
    BY <2>2, Zenon DEF Min
  <2>4. n = Min({c, f})
    BY DEF c, f
  <2> HIDE DEF n
  <2> QED
    BY <1>6, <1>7, <2>1, <2>3, <2>4
<1> HIDE DEF n, k
<1> QED
  BY <1>2, <1>7, <1>8, <1>9, <1>10, <1>12

\* What is appended comes after what was there.
LEMMA Appended ==
    ASSUME NEW s \in Seq(Int), NEW r \in Seq(Int)
    PROVE  /\ s \o r \in Seq(Int) /\ Len(s \o r) = Len(s) + Len(r)
           /\ \A i \in 1..Len(s) : (s \o r)[i] = s[i]
           /\ \A i \in (Len(s) + 1)..(Len(s) + Len(r)) : (s \o r)[i] = r[i - Len(s)]
<1> Len(s) \in Nat /\ Len(r) \in Nat
  OBVIOUS
<1>1. s \o r \in Seq(Int) /\ Len(s \o r) = Len(s) + Len(r)
  OBVIOUS
<1>2. \A i \in 1..Len(s) : (s \o r)[i] = s[i]
  OBVIOUS
<1>3. \A i \in (Len(s) + 1)..(Len(s) + Len(r)) : (s \o r)[i] = r[i - Len(s)]
  OBVIOUS
<1> QED
  BY <1>1, <1>2, <1>3

LEMMA GatheredCap ==
    ASSUME CapInv, Gathered, clock' = clock
    PROVE  CapInv'
<1>1. PICK n \in Nat, k \in Nat, times \in Seq(Int) :
        /\ Len(calls) = k + Len(times)
        /\ \A i \in 1..Len(times) : times[i] = calls[k + i]
        /\ \A i \in 1..k : clock - calls[i] > Parts
        /\ Len(times) + n <= MaxPerHour
        /\ escalations' = times \o Repeat(clock, n)
        /\ calls' = calls \o Repeat(clock, n)
  BY SlotsReserved
<1> DEFINE new == Repeat(clock, n)
           t == Len(times)
           c == Len(calls)
<1>2. /\ clock \in Nat /\ MaxPerHour \in Nat /\ Parts \in Nat
      /\ calls \in Seq(Int) /\ t \in Nat /\ c \in Nat
  BY SentimentAssumption DEF CapInv
<1>3. new \in Seq(Int) /\ Len(new) = n /\ \A i \in 1..n : new[i] = clock
  BY <1>2 DEF Repeat
<1> HIDE DEF new
<1>4. /\ escalations' \in Seq(Int) /\ Len(escalations') = t + n
      /\ \A i \in 1..t : escalations'[i] = times[i]
      /\ \A i \in (t + 1)..(t + n) : escalations'[i] = new[i - t]
  <2>1. escalations' = times \o new
    BY <1>1 DEF new
  <2> QED
    BY <1>2, <1>3, <2>1, Appended
<1>5. /\ calls' \in Seq(Int) /\ Len(calls') = c + n
      /\ \A i \in 1..c : calls'[i] = calls[i]
      /\ \A i \in (c + 1)..(c + n) : calls'[i] = new[i - c]
  <2>1. calls' = calls \o new
    BY <1>1 DEF new
  <2> QED
    BY <1>2, <1>3, <2>1, Appended
<1> HIDE DEF t, c
<1>6. c = k + t /\ t + n <= MaxPerHour
  BY <1>1 DEF t, c
<1>7. \A i \in (c + 1)..(c + n) : calls'[i] = clock
  <2>1. ASSUME NEW i \in (c + 1)..(c + n)
        PROVE  calls'[i] = clock
    <3>1. i - c \in 1..n
      BY <1>2
    <3> QED
      BY <1>3, <1>5, <3>1
  <2> QED
    BY <2>1
<1>8. \A i \in 1..k : calls'[i] = calls[i] /\ clock - calls'[i] > Parts
  BY <1>1, <1>2, <1>5, <1>6
<1>9. Forgot(k)'
  <2>1. ASSUME NEW i \in 1..(t + n)
        PROVE  escalations'[i] = calls'[k + i]
    <3>1. CASE i <= t
      <4>1. i \in 1..t /\ k + i \in 1..c
        BY <1>2, <1>6, <3>1
      <4> QED
        BY <1>1, <1>4, <1>5, <4>1 DEF t
    <3>2. CASE i > t
      <4>1. /\ i \in (t + 1)..(t + n) /\ k + i \in (c + 1)..(c + n)
            /\ (k + i) - c = i - t
        BY <1>2, <1>6, <3>2
      <4> QED
        BY <1>4, <1>5, <4>1
    <3> QED
      BY <1>2, <3>1, <3>2
  <2>2. Len(calls') = k + Len(escalations')
    BY <1>2, <1>4, <1>5, <1>6
  <2> QED
    BY <1>4, <1>8, <2>1, <2>2 DEF Forgot
<1>10. EscalationsCapped'
  <2>1. ASSUME NEW i \in 1..(Len(calls') - MaxPerHour)
        PROVE  calls'[i + MaxPerHour] - calls'[i] > Parts
    <3>0. i \in Nat /\ i >= 1 /\ i + MaxPerHour <= c + n
      BY <1>2, <1>5
    <3>1. CASE i + MaxPerHour <= c
      <4>1. i \in 1..(c - MaxPerHour) /\ i \in 1..c /\ i + MaxPerHour \in 1..c
        BY <1>2, <3>0, <3>1
      <4>2. calls[i + MaxPerHour] - calls[i] > Parts
        BY <4>1 DEF CapInv, EscalationsCapped, c
      <4> QED
        BY <1>5, <4>1, <4>2
    <3>2. CASE i + MaxPerHour > c
      <4>1. i + MaxPerHour \in (c + 1)..(c + n) /\ i \in 1..k
        BY <1>2, <1>6, <3>0, <3>2
      <4> QED
        BY <1>7, <1>8, <4>1
    <3> QED
      BY <1>2, <3>0, <3>1, <3>2
  <2> QED
    BY <2>1 DEF EscalationsCapped
<1>11. Len(escalations') <= MaxPerHour
  BY <1>4, <1>6
<1> QED
  BY <1>2, <1>4, <1>5, <1>9, <1>10, <1>11 DEF CapInv

LEMMA TickCap ==
    ASSUME CapInv, clock' = clock + 1, UNCHANGED <<escalations, calls>>
    PROVE  CapInv'
<1>1. clock \in Nat /\ Parts \in Nat /\ calls \in Seq(Int)
  BY SentimentAssumption DEF CapInv
<1>2. PICK k \in Nat : Forgot(k)
  BY DEF CapInv
<1>3. ASSUME NEW i \in 1..k
      PROVE  clock' - calls'[i] > Parts
  <2>1. i \in 1..Len(calls) /\ clock - calls[i] > Parts
    BY <1>1, <1>2 DEF Forgot, CapInv
  <2>2. calls[i] \in Int
    BY <1>1, <2>1
  <2> QED
    BY <1>1, <2>1, <2>2
<1>4. Forgot(k)'
  BY <1>2, <1>3 DEF Forgot
<1> QED
  BY <1>1, <1>4 DEF CapInv, EscalationsCapped

LEMMA UnchangedCap ==
    ASSUME CapInv, UNCHANGED <<clock, escalations, calls>>
    PROVE  CapInv'
BY DEF CapInv, Forgot, EscalationsCapped

LEMMA CapInductive == CapInv /\ [Next]_vars => CapInv'
<1> SUFFICES ASSUME CapInv, [Next]_vars
             PROVE  CapInv'
  OBVIOUS
<1>1. CASE Tick
  BY <1>1, TickCap DEF Tick, engine
<1>2. CASE Restart
  BY <1>2, CapStarts DEF Restart, SentimentRestart, CapInv
<1>3. CASE Scans
  BY <1>3, GatheredCap, UnchangedCap DEF Scans, GeminiDone
<1>4. CASE UNCHANGED <<clock, escalations, calls>>
  BY <1>4, UnchangedCap
<1> QED
  BY <1>1, <1>2, <1>3, <1>4
     DEF Next, Loop, vars, engine, CandleExecuted, CandleCommitted, MacroStored,
         MacroFails, RerankStart, RowsBegin, RowExecuted, RowsCommitted, RowsFail,
         ScanBegins, ScanStart, PairExecuted, PairsCommitted, PairsFail,
         ResolverWakes, Select, ResolverCommits, ResolverFails, Resolve

(* The hard cap, in any hour and not only in the clock's: between two       *)
(* starts of the process, escalation_max_per_hour and one more calls to     *)
(* Gemini take longer than an hour, for any agents, answers and scans       *)
(* (SentimentAggregator._try_reserve_escalation_slot).                      *)
THEOREM CappedEscalations == Spec => []EscalationsCapped
<1>1. CapInv => EscalationsCapped
  BY DEF CapInv
<1> QED
  BY InitCap, CapInductive, <1>1, PTL DEF Spec
=============================================================================
