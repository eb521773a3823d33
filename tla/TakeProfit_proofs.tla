--------------------------- MODULE TakeProfit_proofs ---------------------------
(***************************************************************************)
(* For any price grid, stop distance, predictions and time limits: a seen  *)
(* profit stays locked in.                                                 *)
(***************************************************************************)
EXTENDS TakeProfit, TLAPS

Half == Stop \div 2

AtLeast(trail, level) == trail # None /\ trail >= level

\* What the record r keeps of a position entered at e whose best price was b:
\* the trail stands where b put it, and once armed never under the entry.
Keeps(r, e, b) ==
    /\ r \in Records /\ r.entry = e /\ r.peak = b
    /\ r.armed # "no" => AtLeast(r.trail, e)
    /\ b - e >= Stop => AtLeast(r.trail, e)
    /\ b - e >= 2 * Stop => AtLeast(r.trail, b - Half)

TypeOK ==
    /\ price \in Nat /\ best \in Nat /\ pos \in Nat \cup {None} /\ sound \in BOOLEAN

\* A sound position's record keeps what its price has seen, and a candle that
\* held it was over the trail.
Kept ==
    sound => /\ pos # None /\ tp # None /\ Keeps(tp, pos, best)
             /\ decision = "hold" => tp.trail = None \/ price > tp.trail

IInv == TypeOK /\ Kept

LEMMA Halves == Half \in Nat /\ 2 * Half = Stop /\ Stop \in Nat \ {0}
BY TakeProfitAssumption DEF Half

LEMMA Grid == Entries \subseteq Nat /\ Prices \subseteq Nat /\ ScanStops \subseteq Nat
BY TakeProfitAssumption

LEMMA InitIInv == Init => IInv
BY Grid DEF Init, IInv, TypeOK, Kept

-----------------------------------------------------------------------------
(* The trail. *)

Best(b, p) == IF p > b THEN p ELSE b

\* A price first raises the peak.
LEMMA PeakedKeeps ==
    ASSUME NEW r, NEW e \in Nat, NEW b \in Nat, NEW p \in Nat, Keeps(r, e, b)
    PROVE  /\ Peaked(r, p) \in Records
           /\ Peaked(r, p).entry = e /\ Peaked(r, p).peak = Best(b, p)
           /\ Peaked(r, p).trail = r.trail /\ Peaked(r, p).armed = r.armed
BY DEF Keeps, Records, Peaked, Best

\* The higher of a level and the old trail is at least each of them.
LEMMA HigherIsHigher ==
    ASSUME NEW level \in Int, NEW old \in Int \cup {None}
    PROVE  /\ Higher(level, old) \in Int /\ AtLeast(Higher(level, old), level)
           /\ \A l \in Int : AtLeast(old, l) => AtLeast(Higher(level, old), l)
BY TakeProfitAssumption DEF Higher, AtLeast

LEMMA TrailedKeeps ==
    ASSUME NEW r, NEW e \in Nat, NEW b \in Nat, NEW p \in Nat, Keeps(r, e, b)
    PROVE  Keeps(Trailed(Peaked(r, p), p), e, Best(b, p))
<1> DEFINE q == Peaked(r, p)
<1>1. /\ q \in Records /\ q.entry = e /\ q.peak = Best(b, p)
      /\ q.trail = r.trail /\ q.armed = r.armed
  BY PeakedKeeps
<1>2. /\ r.armed # "no" => AtLeast(r.trail, e)
      /\ b - e >= Stop => AtLeast(r.trail, e)
      /\ b - e >= 2 * Stop => AtLeast(r.trail, b - Half)
      /\ r.trail \in Int \cup {None}
  BY DEF Keeps, Records
<1>3. Best(b, p) \in Nat /\ Best(b, p) >= p /\ Best(b, p) >= b
  BY DEF Best
<1> HIDE DEF q
<1>4. CASE p - e >= 2 * Stop
  <2> DEFINE level == Best(b, p) - Half
             h == Higher(level, q.trail)
  <2>1. Trailed(q, p) = [q EXCEPT !.trail = h, !.armed = "trail"]
    <3>1. p - q.entry >= 2 * Stop /\ ~(p - q.entry < 2 * Stop)
      BY <1>1, <1>4, Halves
    <3>2. Trailed(q, p) = Ratchet(q, p)
      BY <3>1 DEF Trailed
    <3>3. q.peak - Stop \div 2 = level
      BY <1>1 DEF Half
    <3> QED
      BY <3>2, <3>3 DEF Ratchet
  <2>2. level \in Int /\ level >= e
    BY <1>3, <1>4, Halves
  <2>3. h \in Int /\ AtLeast(h, level)
    BY <1>1, <1>2, <2>2, HigherIsHigher
  <2>4. AtLeast(h, e)
    BY <2>2, <2>3 DEF AtLeast
  <2> HIDE DEF h
  <2>5. LET t == [q EXCEPT !.trail = h, !.armed = "trail"]
        IN  t \in Records /\ t.entry = e /\ t.peak = Best(b, p) /\ t.trail = h
    BY <1>1, <2>3 DEF Records
  <2> QED
    BY <2>1, <2>3, <2>4, <2>5 DEF Keeps, q
<1>5. CASE p - e >= Stop /\ p - e < 2 * Stop /\ r.armed = "no"
  <2> DEFINE h == Higher(e, q.trail)
  <2>1. Trailed(q, p) = [q EXCEPT !.trail = h, !.armed = "breakeven"]
    BY <1>1, <1>5, Halves DEF Trailed, Breakeven
  <2>2. /\ h \in Int /\ AtLeast(h, e)
        /\ \A l \in Int : AtLeast(r.trail, l) => AtLeast(h, l)
    <3>1. e \in Int /\ q.trail \in Int \cup {None}
      BY <1>1, <1>2
    <3>2. /\ h \in Int /\ AtLeast(h, e)
          /\ \A l \in Int : AtLeast(q.trail, l) => AtLeast(h, l)
      BY <3>1, HigherIsHigher
    <3> QED
      BY <1>1, <3>2
  <2>3. Best(b, p) - e >= 2 * Stop => Best(b, p) = b
    BY <1>5, Halves DEF Best
  <2>4. Best(b, p) - e >= 2 * Stop => AtLeast(h, Best(b, p) - Half)
    BY <1>2, <2>2, <2>3, Halves
  <2> HIDE DEF h
  <2>5. LET t == [q EXCEPT !.trail = h, !.armed = "breakeven"]
        IN  t \in Records /\ t.entry = e /\ t.peak = Best(b, p) /\ t.trail = h
    BY <1>1, <2>2 DEF Records
  <2> QED
    BY <2>1, <2>2, <2>4, <2>5 DEF Keeps, q
<1>6. CASE p - e < Stop \/ (p - e < 2 * Stop /\ r.armed # "no")
  <2>1. Trailed(q, p) = q
    BY <1>1, <1>6, Halves DEF Trailed
  <2>2. Best(b, p) - e >= 2 * Stop => Best(b, p) = b
    BY <1>6, Halves DEF Best
  <2>3. Best(b, p) - e >= Stop => r.armed # "no" \/ Best(b, p) = b
    BY <1>6, Halves DEF Best
  <2> QED
    BY <1>1, <1>2, <2>1, <2>2, <2>3 DEF Keeps, q
<1> QED
  BY <1>4, <1>5, <1>6, Halves

-----------------------------------------------------------------------------
(* The steps. *)

LEMMA StepTypes == TypeOK /\ [Next]_vars => TypeOK'
<1> SUFFICES ASSUME TypeOK, [Next]_vars
             PROVE  TypeOK'
  OBVIOUS
<1> USE Grid DEF TypeOK
<1>1. CASE \E p \in Entries : Tracked(p)
  BY <1>1 DEF Tracked
<1>2. CASE \E p \in Entries, c \in Captures, plan \in Plans : Registered(p, c, plan)
  BY <1>2 DEF Registered
<1>3. CASE \E p \in Prices, stop \in ScanStops : Candle(p, stop)
  BY <1>3 DEF Candle
<1>4. CASE Flatten \/ Closed \/ NotClosed \/ Purged \/ Tick
  BY <1>4 DEF Flatten, Closed, NotClosed, Purged, Gone, Tick
<1>5. CASE Shutdown \/ Crash \/ StartFails
  BY <1>5 DEF Shutdown, Crash, StartedFrom, StartFails
<1>6. CASE UNCHANGED vars
  BY <1>6 DEF vars
<1> QED
  BY <1>1, <1>2, <1>3, <1>4, <1>5, <1>6 DEF Next

LEMMA CandleKeeps ==
    ASSUME IInv, NEW p \in Prices, NEW stop \in ScanStops, Candle(p, stop)
    PROVE  Kept'
<1> SUFFICES ASSUME sound
             PROVE  Kept'
  BY DEF Candle, Kept
<1> DEFINE stopped == pos - p >= stop
           after == Trailed(Peaked(tp, p), p)
<1>1. p \in Nat /\ pos \in Nat /\ best \in Nat /\ pos # None /\ tp # None /\ Keeps(tp, pos, best)
  BY Grid DEF IInv, Kept, TypeOK
<1>2. UNCHANGED <<pos, sound>> /\ price' = p
  BY DEF Candle
<1>3. CASE stopped
  <2>1. tp' = tp /\ best' = best /\ decision' = "exit"
    BY <1>3 DEF Candle
  <2> QED
    BY <1>1, <1>2, <2>1 DEF Kept
<1>4. CASE ~stopped
  <2>1. tp' = after /\ best' = Best(best, p)
    BY <1>1, <1>4 DEF Candle, Best
  <2>2. Keeps(after, pos, Best(best, p))
    BY <1>1, TrailedKeeps
  <2>3. decision' = "hold" => after.trail = None \/ p > after.trail
    <3>1. decision' = "hold" => ~StopHit(after, p)
      BY <1>1, <1>4 DEF Candle, ExitAt
    <3>2. after.trail \in Int \cup {None}
      BY <2>2 DEF Keeps, Records
    <3> QED
      BY <1>1, <3>1, <3>2 DEF StopHit
  <2>4. after # None
    BY <2>2, TakeProfitAssumption DEF Keeps, Records
  <2> QED
    BY <1>1, <1>2, <2>1, <2>2, <2>3, <2>4 DEF Kept
<1> QED
  BY <1>3, <1>4

LEMMA AgedKeeps ==
    ASSUME NEW r, NEW e \in Nat, NEW b \in Nat, Keeps(r, e, b), r # None
    PROVE  /\ Aged(r) # None /\ Keeps(Aged(r), e, b) /\ Aged(r).trail = r.trail
<1>1. r \in Records
  BY DEF Keeps
<1>2. CASE r.age = MaxAge
  BY <1>2 DEF Aged
<1>3. CASE r.age # MaxAge
  <2>1. Aged(r) = [r EXCEPT !.age = @ + 1]
    BY <1>3 DEF Aged
  <2>2. /\ Aged(r) \in Records /\ Aged(r).entry = r.entry /\ Aged(r).peak = r.peak
        /\ Aged(r).trail = r.trail /\ Aged(r).armed = r.armed
    BY <1>1, <2>1 DEF Records
  <2> QED
    BY <2>2, TakeProfitAssumption DEF Keeps
<1> QED
  BY <1>2, <1>3

LEMMA RegisteredKeeps ==
    ASSUME IInv, NEW p \in Entries, NEW c \in Captures, NEW plan \in Plans,
           Registered(p, c, plan)
    PROVE  Kept'
<1> DEFINE r == [entry |-> p, peak |-> p, trail |-> None, armed |-> "no",
                 capture |-> c, plan |-> plan, age |-> 0]
<1>1. p \in Nat /\ c \in Nat
  BY Grid, TakeProfitAssumption
<1>2. /\ r \in Records /\ r.entry = p /\ r.peak = p /\ r.armed = "no" /\ r.trail = None
  BY <1>1 DEF Records
<1>3. tp' = r /\ best' = p /\ decision' = "none" /\ pos' = pos
      /\ (sound' => pos = p)
  BY DEF Registered
<1> HIDE DEF r
<1>4. Keeps(r, p, p)
  BY <1>1, <1>2, Halves DEF Keeps
<1>5. r # None
  BY <1>2, TakeProfitAssumption
<1>6. p # None
  BY <1>1, TakeProfitAssumption
<1> QED
  BY <1>3, <1>4, <1>5, <1>6 DEF Kept

LEMMA StepKeeps == IInv /\ [Next]_vars => Kept'
<1> SUFFICES ASSUME IInv, [Next]_vars
             PROVE  Kept'
  OBVIOUS
<1> USE DEF IInv
<1>1. CASE \E p \in Entries : Tracked(p)
  BY <1>1 DEF Tracked, Kept
<1>2. CASE \E p \in Entries, c \in Captures, plan \in Plans : Registered(p, c, plan)
  BY <1>2, RegisteredKeeps
<1>3. CASE \E p \in Prices, stop \in ScanStops : Candle(p, stop)
  BY <1>3, CandleKeeps
<1>4. CASE Flatten \/ NotClosed \/ UNCHANGED vars
  BY <1>4 DEF Flatten, NotClosed, Kept, vars
<1>5. CASE Closed \/ Purged
  BY <1>5 DEF Closed, Purged, Gone, Kept
<1>6. CASE Shutdown
  <2>1. sound' => sound /\ pos' = pos /\ tp' = tp
    BY <1>6 DEF Shutdown, StartedFrom, Snapshot
  <2>2. best' = best /\ decision' = "none"
    BY <1>6 DEF Shutdown, StartedFrom
  <2> QED
    BY <2>1, <2>2 DEF Kept
<1>7. CASE Crash \/ StartFails
  BY <1>7 DEF Crash, StartFails, Kept
<1>8. CASE Tick
  <2>1. UNCHANGED <<price, pos, best, decision, sound>> /\ tp' = Aged(tp)
    BY <1>8 DEF Tick
  <2> SUFFICES ASSUME sound
               PROVE  Kept'
    BY <2>1 DEF Kept
  <2>2. /\ pos # None /\ tp # None /\ Keeps(tp, pos, best) /\ pos \in Nat /\ best \in Nat
        /\ decision = "hold" => tp.trail = None \/ price > tp.trail
    BY DEF Kept, TypeOK
  <2>3. Aged(tp) # None /\ Keeps(Aged(tp), pos, best) /\ Aged(tp).trail = tp.trail
    BY <2>2, AgedKeeps
  <2> QED
    BY <2>1, <2>2, <2>3 DEF Kept
<1> QED
  BY <1>1, <1>2, <1>3, <1>4, <1>5, <1>6, <1>7, <1>8 DEF Next

-----------------------------------------------------------------------------

LEMMA Enough == IInv => ProfitLocked
<1> SUFFICES ASSUME IInv, sound, decision = "hold"
             PROVE  price > LockedIn
  BY DEF ProfitLocked
<1>1. /\ Keeps(tp, pos, best) /\ (tp.trail = None \/ price > tp.trail)
      /\ price \in Nat /\ pos \in Nat /\ best \in Nat
  BY DEF IInv, Kept, TypeOK
<1>2. /\ tp.trail \in Int \cup {None}
      /\ best - pos >= Stop => AtLeast(tp.trail, pos)
      /\ best - pos >= 2 * Stop => AtLeast(tp.trail, best - Half)
  BY <1>1 DEF Keeps, Records
<1>3. CASE best - pos >= 2 * Stop
  <2>1. LockedIn = best - Half
    BY <1>1, <1>3, Halves DEF LockedIn, Half
  <2> QED
    BY <1>1, <1>2, <1>3, <2>1, Halves DEF AtLeast
<1>4. CASE best - pos >= Stop /\ best - pos < 2 * Stop
  <2>1. LockedIn = pos
    BY <1>1, <1>4, Halves DEF LockedIn
  <2> QED
    BY <1>1, <1>2, <1>4, <2>1 DEF AtLeast
<1>5. CASE best - pos < Stop
  <2>1. LockedIn = -1
    BY <1>1, <1>5, Halves DEF LockedIn
  <2> QED
    BY <1>1, <2>1
<1> QED
  BY <1>1, <1>3, <1>4, <1>5, Halves

(* No evaluation of a registered position decides to hold it at or below   *)
(* what its best price locked in (_check_trailing_stop), whatever closes   *)
(* IG refuses and however often the engine is restarted.                   *)
THEOREM SeenProfitLocked == Spec => []ProfitLocked
<1>1. IInv /\ [Next]_vars => IInv'
  BY StepTypes, StepKeeps DEF IInv
<1> QED
  BY InitIInv, <1>1, Enough, PTL DEF Spec
=============================================================================
