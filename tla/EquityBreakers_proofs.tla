----------------------- MODULE EquityBreakers_proofs -----------------------
(***************************************************************************)
(* For any account values, drawdown lines, band, debounce count and        *)
(* instants: the types, the tier within its band, the halt in step with    *)
(* the tier, what of a saved halt survives restarts, and the stake an      *)
(* entry may have.  The four invariants are inductive with one more, on    *)
(* how the history and the file agree.  Then the loss windows of the same  *)
(* risk manager: no order over a limit.                                    *)
(***************************************************************************)
EXTENDS EquityBreakers, LossLimits, TLAPS

\* What the last save owes is in the file, a lifted halt apart.
Recorded ==
    ~wiped => IF disk = None THEN due = Blank
              ELSE due.peak = disk.peak /\ (due.halted => disk.halted)

IInv == TypeOK /\ TierWithinBand /\ HaltMatchesTier /\ SavedHaltHolds /\ Recorded

\* The history's part of it.
Owed == due \in Saved /\ SavedHaltHolds /\ Recorded

LEMMA TrackerInit == Init => IInv
<1> SUFFICES ASSUME Init PROVE IInv
  OBVIOUS
<1>1. /\ ~synced /\ disk = None /\ peak = 0 /\ ~wiped
      /\ due = Blank /\ due \in Saved /\ due.peak = 0 /\ ~due.halted
  BY DEF Init, Blank, Saved
<1>2. read \in [{"beat", "entry"} -> Marks \cup {None}]
  BY DEF Init
<1>3. TypeOK
  <2>1. red \in 0..RedConfirm /\ restarts \in 0..MaxRestarts /\ tier \in Tiers
    BY ConfirmAssumption, BoundAssumption DEF Init, Tiers, NORMAL, RED
  <2>2. equity \in Nat /\ peak \in Nat /\ equity <= peak
    BY DEF Init
  <2>3. halted \in BOOLEAN /\ warned \in BOOLEAN /\ synced \in BOOLEAN /\ up \in BOOLEAN
    BY DEF Init
  <2>4. stake \in {0, 25, 50, 100}
    BY DEF Init
  <2> QED
    BY <1>1, <1>2, <2>1, <2>2, <2>3, <2>4 DEF Init, TypeOK
<1> QED
  BY <1>1, <1>3 DEF IInv, TierWithinBand, HaltMatchesTier, SavedHaltHolds, Recorded

-----------------------------------------------------------------------------
(* The tiers.                                                              *)

\* Adding the band only makes a line easier to reach.
LEMMA ReachesMonotone ==
    ASSUME NEW e \in Int, NEW p \in Nat, NEW line \in Nat, Reaches(line, e, p, 0)
    PROVE  Reaches(line, e, p, Band)
<1>1. Band * p >= 0 /\ Band * p \in Int /\ 0 * p = 0
  BY BandAssumption
<1>2. CASE p <= 0
  BY <1>2, BandAssumption DEF Reaches
<1>3. CASE ~(p <= 0)
  <2>1. 100 * (p - e) + 0 * p >= line * p
    BY <1>3 DEF Reaches
  <2>2. 100 * (p - e) + Band * p >= line * p
    BY <1>1, <2>1
  <2> QED
    BY <1>3, <2>2 DEF Reaches
<1> QED
  BY <1>2, <1>3

LEMMA TierMonotone ==
    ASSUME NEW e \in Int, NEW p \in Nat
    PROVE  /\ TierFor(e, p, 0) \in Tiers /\ TierFor(e, p, Band) \in Tiers
           /\ TierFor(e, p, 0) <= TierFor(e, p, Band)
<1>1. \A line \in {Yellow, Orange, Red} :
        Reaches(line, e, p, 0) => Reaches(line, e, p, Band)
  BY LinesAssumption, ReachesMonotone
<1> QED
  BY <1>1 DEF TierFor, Tiers, NORMAL, YELLOW, ORANGE, RED

\* Whatever the tier was, hysteresis puts it between the plain tier and the
\* tier one band further.
LEMMA HysteresisWithinBand ==
    ASSUME NEW e \in Int, NEW p \in Nat, NEW t \in Tiers
    PROVE  /\ Hysteresis(e, p, t) \in Tiers
           /\ TierFor(e, p, 0) <= Hysteresis(e, p, t)
           /\ Hysteresis(e, p, t) <= TierFor(e, p, Band)
<1>1. /\ TierFor(e, p, 0) \in Tiers /\ TierFor(e, p, Band) \in Tiers
      /\ TierFor(e, p, 0) <= TierFor(e, p, Band)
  BY TierMonotone
<1> QED
  BY <1>1 DEF Hysteresis, Tiers, NORMAL, RED

\* A drawdown that is RED is RED from any higher peak.
LEMMA RedMonotone ==
    ASSUME NEW e \in Nat, NEW p \in Nat, NEW q \in Nat, e <= p, p <= q,
           TierFor(e, p, 0) = RED
    PROVE  TierFor(e, q, 0) = RED
<1>1. Reaches(Red, e, p, 0) /\ Red \in Nat
  BY LinesAssumption DEF TierFor, NORMAL, YELLOW, ORANGE, RED
<1>2. CASE p = 0
  <2>1. Red = 0 /\ e = 0
    BY <1>1, <1>2 DEF Reaches
  <2> QED
    BY <2>1 DEF TierFor, Reaches
<1>3. CASE p > 0
  <2>1. 100 * (p - e) >= Red * p
    BY <1>1, <1>3 DEF Reaches
  <2>2. Red <= 100
    <3> SUFFICES ASSUME Red >= 101 PROVE FALSE
      BY <1>1
    <3>1. PICK k \in Nat : Red = 101 + k
      <4>1. Red - 101 \in Nat /\ Red = 101 + (Red - 101)
        BY <1>1
      <4> QED
        BY <4>1
    <3>2. Red * p = 101 * p + k * p /\ k * p >= 0 /\ k * p \in Int
      BY <3>1
    <3> QED
      BY <1>3, <2>1, <3>2
  <2>3. PICK d \in Nat : q = p + d
    <3>1. q - p \in Nat /\ q = p + (q - p)
      OBVIOUS
    <3> QED
      BY <3>1
  <2>4. Red * q = Red * p + Red * d /\ Red * d <= 100 * d
    BY <1>1, <2>2, <2>3
  <2>5. 100 * (q - e) + 0 * q >= Red * q
    BY <1>1, <2>1, <2>3, <2>4
  <2> QED
    BY <1>3, <2>5 DEF TierFor, Reaches
<1> QED
  BY <1>2, <1>3

LEMMA StakeMonotone ==
    ASSUME NEW t \in Tiers, NEW u \in Tiers, u <= t
    PROVE  TierStake(t) \in {0, 25, 50, 100} /\ TierStake(t) <= TierStake(u)
BY DEF Tiers, TierStake, NORMAL, YELLOW, ORANGE, RED

-----------------------------------------------------------------------------
(* One applied balance.                                                    *)

TrackerOK ==
    /\ equity \in Nat /\ peak \in Nat /\ equity <= peak
    /\ tier \in Tiers /\ red \in 0..RedConfirm
    /\ halted \in BOOLEAN /\ warned \in BOOLEAN /\ synced \in BOOLEAN
    /\ TierWithinBand /\ HaltMatchesTier

LEMMA UpdateInSync ==
    ASSUME IInv, NEW v \in Marks, UpdateEquity(v), ~in_equity_mark_blackout(now)
    PROVE  /\ TrackerOK' /\ synced'
           /\ equity' = NonNegative(v)
           /\ TierFor(equity', peak', 0) <= tier'
<1>1. v \in Int
  BY MarksAssumption
<1>2. /\ equity' = NonNegative(v) /\ peak' = HigherOf(peak, NonNegative(v))
      /\ tier' = Hysteresis(equity', peak', tier) /\ synced' = TRUE
      /\ warned' = FSCSWarned(v) /\ EvaluateDrawdownHalt
  BY DEF UpdateEquity
<1>3. equity' \in Nat /\ peak' \in Nat /\ equity' <= peak'
  BY <1>1, <1>2 DEF IInv, TypeOK, NonNegative, HigherOf
<1>4. /\ tier' \in Tiers
      /\ TierFor(equity', peak', 0) <= tier'
      /\ tier' <= TierFor(equity', peak', Band)
  BY <1>2, <1>3, HysteresisWithinBand DEF IInv, TypeOK
<1>5. warned' \in BOOLEAN
  BY <1>2, Zenon DEF FSCSWarned
<1>6. /\ red' \in 0..RedConfirm /\ halted' \in BOOLEAN
      /\ (halted' => tier' = RED) /\ (red' > 0 <=> tier' = RED)
      /\ (red' = RedConfirm => halted')
  <2>1. red \in 0..RedConfirm /\ halted \in BOOLEAN /\ RedConfirm \in Nat \ {0}
    BY ConfirmAssumption DEF IInv, TypeOK
  <2>2. CASE tier' = RED
    <3>1. /\ red' = IF red < RedConfirm THEN red + 1 ELSE red
          /\ halted' = (halted \/ red' >= RedConfirm)
      BY <1>2, <2>2 DEF EvaluateDrawdownHalt
    <3>2. red' \in 0..RedConfirm /\ red' > 0 /\ (red' = RedConfirm => red' >= RedConfirm)
      BY <2>1, <3>1
    <3> QED
      BY <2>2, <3>1, <3>2, Zenon
  <2>3. CASE tier' # RED
    <3>1. red' = 0 /\ halted' = FALSE
      BY <1>2, <2>3 DEF EvaluateDrawdownHalt
    <3>2. red' \in 0..RedConfirm /\ ~(red' > 0) /\ red' # RedConfirm
      BY <2>1, <3>1
    <3> QED
      BY <2>3, <3>1, <3>2, Zenon
  <2> QED
    BY <2>2, <2>3
<1> QED
  BY <1>2, <1>3, <1>4, <1>5, <1>6 DEF TrackerOK, TierWithinBand, HaltMatchesTier

LEMMA UpdateTracker ==
    ASSUME IInv, NEW v \in Marks, UpdateEquity(v)
    PROVE  TrackerOK'
<1>1. CASE in_equity_mark_blackout(now)
  <2>1. UNCHANGED tracker
    BY <1>1 DEF UpdateEquity
  <2>2. TrackerOK
    BY DEF IInv, TypeOK, TrackerOK
  <2> QED
    BY <2>1, <2>2 DEF TrackerOK, TierWithinBand, HaltMatchesTier, tracker
<1>2. CASE ~in_equity_mark_blackout(now)
  BY <1>2, UpdateInSync
<1> QED
  BY <1>1, <1>2

\* What a step that leaves the tracker alone, or applies a balance, has to show
\* besides.
OuterOK ==
    /\ now \in Instants /\ mark \in Marks
    /\ disk \in Saved \cup {None} /\ wiped \in BOOLEAN
    /\ up \in BOOLEAN
    /\ beat \in {"idle", "answered", "saving"}
    /\ entry \in {"idle", "waiting", "answered"}
    /\ read \in [{"beat", "entry"} -> Marks \cup {None}]
    /\ beat = "answered" => read["beat"] # None
    /\ entry = "answered" => read["entry"] # None
    /\ stake \in {0, 25, 50, 100}
    /\ restarts \in 0..MaxRestarts

LEMMA Split == IInv <=> TrackerOK /\ OuterOK /\ Owed
BY DEF IInv, TypeOK, TrackerOK, OuterOK, Owed

LEMMA Quiet ==
    ASSUME IInv, UNCHANGED <<tracker, due, file>>
    PROVE  TrackerOK' /\ Owed'
BY DEF IInv, TypeOK, TrackerOK, TierWithinBand, HaltMatchesTier,
       Owed, SavedHaltHolds, Recorded, tracker, file

\* A reading never lowers the peak, and ends a halt only when it lifts what is
\* owed of it: RED from the saved peak is RED from the peak.
LEMMA Applied ==
    ASSUME IInv, NEW v \in Marks, UpdateEquity(v), UNCHANGED file
    PROVE  TrackerOK' /\ Owed'
<1>1. TrackerOK'
  BY UpdateTracker
<1>2. CASE in_equity_mark_blackout(now)
  <2>1. UNCHANGED <<tracker, due, file>>
    BY <1>2 DEF UpdateEquity
  <2> QED
    BY <2>1, Quiet
<1>3. CASE ~in_equity_mark_blackout(now)
  <2>1. /\ equity' = NonNegative(v) /\ peak' = HigherOf(peak, NonNegative(v))
        /\ tier' = Hysteresis(equity', peak', tier) /\ EvaluateDrawdownHalt
        /\ due' = Lifted(NonNegative(v))
    BY <1>3 DEF UpdateEquity
  <2>2. /\ peak \in Nat /\ NonNegative(v) \in Nat /\ due \in Saved
        /\ due.peak \in Nat /\ due.halted \in BOOLEAN /\ tier \in Tiers
    BY MarksAssumption DEF IInv, TypeOK, Saved, NonNegative
  <2>3. /\ due' \in Saved /\ due'.peak = due.peak
        /\ due'.halted => /\ due.halted
                          /\ TierFor(NonNegative(v), HigherOf(due.peak, NonNegative(v)), 0) = RED
    <3> DEFINE stays == due.halted /\ TierFor(NonNegative(v), HigherOf(due.peak, NonNegative(v)), 0) = RED
    <3>1. due' = [due EXCEPT !.halted = stays]
      BY <2>1 DEF Lifted
    <3>2. stays \in BOOLEAN
      OBVIOUS
    <3> HIDE DEF stays
    <3>3. due' \in Saved /\ due'.peak = due.peak /\ due'.halted = stays
      BY <2>2, <3>1, <3>2 DEF Saved
    <3> QED
      BY <3>3, Zenon DEF stays
  <2>4. ASSUME ~wiped PROVE peak' >= due.peak
    BY <2>1, <2>2, <2>4 DEF IInv, SavedHaltHolds, HigherOf
  <2>5. ASSUME ~wiped, due'.halted PROVE halted'
    <3> DEFINE e == NonNegative(v)
    <3>1. peak >= due.peak /\ halted
      BY <2>3, <2>5 DEF IInv, SavedHaltHolds
    <3>2. /\ HigherOf(due.peak, e) \in Nat /\ e <= HigherOf(due.peak, e)
          /\ HigherOf(peak, e) \in Nat /\ HigherOf(due.peak, e) <= HigherOf(peak, e)
      BY <2>2, <3>1 DEF HigherOf
    <3>3. TierFor(e, HigherOf(due.peak, e), 0) = RED
      BY <2>3, <2>5
    <3> HIDE DEF e
    <3>4. TierFor(e, HigherOf(peak, e), 0) = RED
      <4>1. e \in Nat
        BY <2>2 DEF e
      <4> QED
        BY <3>2, <3>3, <4>1, RedMonotone
    <3>5. TierFor(equity', peak', 0) = RED
      BY <2>1, <3>4 DEF e
    <3>6. tier' = RED
      BY <2>1, <2>2, <3>5 DEF Hysteresis, Tiers, NORMAL, RED
    <3> QED
      BY <2>1, <3>1, <3>6, Zenon DEF EvaluateDrawdownHalt
  <2>6. wiped' = wiped /\ disk' = disk
    BY DEF file
  <2>7. SavedHaltHolds'
    BY <2>3, <2>4, <2>5, <2>6 DEF SavedHaltHolds
  <2>8. Recorded'
    <3> SUFFICES ASSUME ~wiped
                 PROVE  IF disk = None THEN due' = Blank
                        ELSE due'.peak = disk.peak /\ (due'.halted => disk.halted)
      BY <2>6 DEF Recorded
    <3>1. CASE disk = None
      <4>1. due = Blank /\ ~due.halted
        BY <3>1 DEF IInv, Recorded, Blank
      <4>2. ~due'.halted /\ due'.peak = 0
        BY <2>3, <4>1 DEF Blank
      <4>3. due' \in [peak : Nat, halted : BOOLEAN]
        BY <2>3 DEF Saved
      <4>4. due' = [peak |-> 0, halted |-> FALSE]
        BY <4>2, <4>3
      <4> QED
        BY <3>1, <4>4 DEF Blank
    <3>2. CASE disk # None
      BY <2>3, <3>2 DEF IInv, Recorded
    <3> QED
      BY <3>1, <3>2
  <2> QED
    BY <1>1, <2>3, <2>7, <2>8 DEF Owed
<1> QED
  BY <1>2, <1>3

-----------------------------------------------------------------------------
(* The steps.                                                              *)

LEMMA BeatInv ==
    ASSUME IInv, BeatAnswered \/ BeatApplied \/ BeatFails
    PROVE  IInv'
<1>0. OuterOK
  BY Split
<1>1. CASE BeatAnswered
  <2>1. TrackerOK' /\ Owed'
    BY <1>1, Quiet DEF BeatAnswered
  <2>2. OuterOK'
    BY <1>0, <1>1, NoneAssumption DEF BeatAnswered, OuterOK, file
  <2> QED
    BY <2>1, <2>2 DEF IInv, TypeOK, TrackerOK, OuterOK, Owed
<1>2. ASSUME BeatDone, UNCHANGED <<now, mark, file, entry, restarts>>
      PROVE  OuterOK'
  BY <1>0, <1>2 DEF BeatDone, OuterOK, file
<1>3. CASE BeatApplied
  <2>1. read["beat"] \in Marks
    BY <1>0, <1>3 DEF BeatApplied, OuterOK
  <2>2. TrackerOK' /\ Owed'
    BY <1>3, <2>1, Applied DEF BeatApplied
  <2> QED
    BY <1>2, <1>3, <2>2 DEF BeatApplied, IInv, TypeOK, TrackerOK, OuterOK, Owed
<1>4. CASE BeatFails
  <2>1. TrackerOK' /\ Owed'
    BY <1>4, Quiet DEF BeatFails
  <2> QED
    BY <1>2, <1>4, <2>1 DEF BeatFails, IInv, TypeOK, TrackerOK, OuterOK, Owed
<1> QED
  BY <1>1, <1>3, <1>4

LEMMA SaveInv == ASSUME IInv, SaveState PROVE IInv'
<1>0. OuterOK /\ TrackerOK /\ Owed
  BY Split
<1>1. CASE UNCHANGED <<due, file>>
  <2>1. TrackerOK' /\ Owed'
    BY <1>1, Quiet DEF SaveState
  <2>2. OuterOK'
    BY <1>0, <1>1 DEF SaveState, OuterOK, file
  <2> QED
    BY <2>1, <2>2 DEF IInv, TypeOK, TrackerOK, OuterOK, Owed
<1>2. CASE disk' = Snapshot /\ due' = Snapshot /\ wiped' = FALSE
  <2>1. /\ Snapshot \in Saved /\ Snapshot.peak = peak /\ Snapshot.halted = halted
    BY <1>0 DEF TrackerOK, Snapshot, Saved
  <2>2. TrackerOK' /\ peak' = peak /\ halted' = halted
    BY <1>0 DEF SaveState, TrackerOK, TierWithinBand, HaltMatchesTier, tracker
  <2>3. OuterOK'
    BY <1>0, <1>2, <2>1 DEF SaveState, OuterOK
  <2>4. SavedHaltHolds'
    BY <1>0, <1>2, <2>1, <2>2 DEF SavedHaltHolds, TrackerOK
  <2>5. Recorded'
    BY <1>2, <2>1, NoneAssumption DEF Recorded
  <2> QED
    BY <1>2, <2>1, <2>2, <2>3, <2>4, <2>5 DEF IInv, TypeOK, TrackerOK, OuterOK
<1> QED
  BY <1>1, <1>2 DEF SaveState

LEMMA EntryInv ==
    ASSUME IInv, EntryStarts \/ EntryAnswered \/ EntryGivenUp \/ EntryEvaluated
    PROVE  IInv'
<1>0. OuterOK /\ TrackerOK
  BY Split
<1>1. CASE EntryStarts
  <2>1. TrackerOK' /\ Owed'
    BY <1>1, Quiet DEF EntryStarts
  <2>2. OuterOK'
    BY <1>0, <1>1 DEF EntryStarts, OuterOK, file
  <2> QED
    BY <2>1, <2>2 DEF IInv, TypeOK, TrackerOK, OuterOK, Owed
<1>2. CASE EntryAnswered
  <2>1. TrackerOK' /\ Owed'
    BY <1>2, Quiet DEF EntryAnswered
  <2>2. OuterOK'
    BY <1>0, <1>2, NoneAssumption DEF EntryAnswered, OuterOK, file
  <2> QED
    BY <2>1, <2>2 DEF IInv, TypeOK, TrackerOK, OuterOK, Owed
<1>3. CASE EntryGivenUp
  <2>1. TrackerOK' /\ Owed'
    BY <1>3, Quiet DEF EntryGivenUp
  <2>2. OuterOK'
    BY <1>0, <1>3 DEF EntryGivenUp, OuterOK, file
  <2> QED
    BY <2>1, <2>2 DEF IInv, TypeOK, TrackerOK, OuterOK, Owed
<1>4. CASE EntryEvaluated
  <2>1. read["entry"] \in Marks
    BY <1>0, <1>4 DEF EntryEvaluated, OuterOK, file
  <2>2. TrackerOK' /\ Owed'
    BY <1>4, <2>1, Applied DEF EntryEvaluated
  <2>3. stake' \in {0, 25, 50, 100}
    <3>1. TierStake(tier') \in {0, 25, 50, 100}
      BY <2>2, StakeMonotone DEF TrackerOK, Tiers, NORMAL, RED
    <3> QED
      BY <1>4, <3>1 DEF EntryEvaluated
  <2>4. OuterOK'
    BY <1>0, <1>4, <2>3 DEF EntryEvaluated, OuterOK, file
  <2> QED
    BY <2>2, <2>4 DEF IInv, TypeOK, TrackerOK, OuterOK, Owed
<1> QED
  BY <1>1, <1>2, <1>3, <1>4

\* A restart puts the process back on what is on the disk.
LEMMA RestartInv == ASSUME IInv, Restart PROVE IInv'
<1>0. OuterOK /\ TrackerOK /\ Owed
  BY Split
<1> PICK saves \in BOOLEAN, fails \in BOOLEAN : Ended(saves, fails)
  BY DEF Restart
<1>a. /\ Snapshot \in Saved /\ Snapshot.peak = peak /\ Snapshot.halted = halted
      /\ Blank \in Saved /\ Blank.peak = 0 /\ ~Blank.halted
  BY <1>0 DEF TrackerOK, Snapshot, Blank, Saved
<1>1. /\ disk' \in Saved \cup {None} /\ due' \in Saved /\ wiped' \in BOOLEAN
  <2>1. disk' \in Saved \cup {None} /\ due' \in Saved
    BY <1>0, <1>a DEF Ended, OuterOK, Owed
  <2>2. wiped' \in BOOLEAN
    BY <1>0, Zenon DEF Ended, OuterOK
  <2> QED
    BY <2>1, <2>2
<1>b. Recorded'
  <2> SUFFICES ASSUME ~wiped' PROVE IF disk' = None THEN due' = Blank
                 ELSE due'.peak = disk'.peak /\ (due'.halted => disk'.halted)
    BY DEF Recorded
  <2>1. ~fails /\ (wiped => saves)
    BY Zenon DEF Ended
  <2>2. CASE saves
    BY <1>a, <2>1, <2>2, NoneAssumption DEF Ended
  <2>3. CASE ~saves
    <3>1. ~wiped /\ due' = due /\ disk' = disk
      BY <2>1, <2>3 DEF Ended
    <3> QED
      BY <1>0, <3>1 DEF Owed, Recorded
  <2> QED
    BY <2>2, <2>3
<1>2. /\ equity' = 0 /\ tier' = NORMAL /\ red' = 0 /\ warned' = FALSE /\ synced' = FALSE
      /\ disk' = None => peak' = 0 /\ halted' = FALSE
      /\ disk' # None => peak' = disk'.peak /\ halted' = disk'.halted
  BY DEF Restart, Fresh
<1>3. peak' \in Nat /\ halted' \in BOOLEAN
  <2>1. CASE disk' = None
    <3>1. peak' = 0 /\ halted' = FALSE
      BY <1>2, <2>1, Zenon
    <3>2. peak' \in Nat
      BY <3>1
    <3> QED
      BY <3>1, <3>2, Zenon
  <2>2. CASE disk' # None
    <3>1. disk' \in [peak : Nat, halted : BOOLEAN]
      BY <1>1, <2>2 DEF Saved
    <3>2. disk'.peak \in Nat
      BY <3>1
    <3>3. disk'.halted \in BOOLEAN
      BY <3>1
    <3>4. peak' = disk'.peak /\ halted' = disk'.halted
      BY <1>2, <2>2
    <3> QED
      BY <3>2, <3>3, <3>4, Zenon
  <2> QED
    BY <2>1, <2>2
<1>4. TrackerOK'
  <2>1. equity' \in Nat /\ equity' <= peak' /\ tier' \in Tiers /\ red' \in 0..RedConfirm
    BY <1>2, <1>3, ConfirmAssumption DEF Tiers, NORMAL, RED
  <2>2. warned' \in BOOLEAN /\ synced' \in BOOLEAN /\ ~synced'
    BY <1>2, Zenon
  <2> QED
    BY <1>3, <2>1, <2>2, Zenon DEF TrackerOK, TierWithinBand, HaltMatchesTier
<1>5. SavedHaltHolds'
  <2> SUFFICES ASSUME ~wiped' PROVE peak' >= due'.peak /\ (due'.halted => halted')
    BY DEF SavedHaltHolds
  <2>1. CASE disk' = None
    <3>1. due' = Blank /\ peak' = 0
      BY <1>2, <1>b, <2>1, Zenon DEF Recorded
    <3> QED
      BY <1>a, <3>1
  <2>2. CASE disk' # None
    <3>1. /\ due'.peak = disk'.peak /\ (due'.halted => disk'.halted)
          /\ peak' = disk'.peak /\ halted' = disk'.halted
      BY <1>2, <1>b, <2>2 DEF Recorded
    <3>2. peak' >= due'.peak
      BY <1>3, <3>1
    <3> QED
      BY <3>1, <3>2
  <2> QED
    BY <2>1, <2>2
<1>6. OuterOK'
  <2>1. restarts' \in 0..MaxRestarts
    BY <1>0, BoundAssumption DEF Restart, OuterOK
  <2>2. read' \in [{"beat", "entry"} -> Marks \cup {None}]
    BY DEF Restart
  <2>3. /\ now' = now /\ mark' = mark /\ up' = FALSE /\ beat' = "idle"
        /\ entry' = "idle" /\ stake' = 0
    BY DEF Restart
  <2> QED
    BY <1>0, <1>1, <2>1, <2>2, <2>3 DEF OuterOK
<1> QED
  BY <1>1, <1>4, <1>5, <1>6, <1>b DEF IInv, TypeOK, TrackerOK, OuterOK, Owed

LEMMA ClockInv ==
    ASSUME IInv, MarkMoves \/ \E i \in Instants : TickTo(i)
    PROVE  IInv'
<1>0. OuterOK
  BY Split
<1>1. TrackerOK' /\ Owed'
  BY Quiet DEF MarkMoves, TickTo
<1>2. OuterOK'
  BY <1>0 DEF MarkMoves, TickTo, OuterOK, file
<1> QED
  BY <1>1, <1>2 DEF IInv, TypeOK, TrackerOK, OuterOK, Owed

LEMMA Inductive == IInv /\ [Next]_vars => IInv'
<1> SUFFICES ASSUME IInv, [Next]_vars PROVE IInv'
  OBVIOUS
<1>1. CASE UNCHANGED vars
  BY <1>1 DEF vars, tracker, file, IInv, TypeOK, TierWithinBand, HaltMatchesTier,
              SavedHaltHolds, Recorded
<1>2. CASE Next
  BY <1>2, BeatInv, SaveInv, EntryInv, RestartInv, ClockInv DEF Next
<1> QED
  BY <1>1, <1>2

-----------------------------------------------------------------------------
\* The types of the tracker, the tasks and the disk, for any instance.
THEOREM TypeCorrect == Spec => []TypeOK
<1>1. IInv => TypeOK
  BY DEF IInv
<1> QED
  BY <1>1, TrackerInit, Inductive, PTL DEF Spec

\* DrawdownTracker: however readings, stale answers, blackouts and restarts come,
\* the tier lies between the plain tier of the drawdown and that one band beyond.
THEOREM TierStaysWithinBand == Spec => []TierWithinBand
<1>1. IInv => TierWithinBand
  BY DEF IInv
<1> QED
  BY <1>1, TrackerInit, Inductive, PTL DEF Spec

\* _evaluate_drawdown_halt: the entry halt, the debounce and the tier agree.
THEOREM HaltInStep == Spec => []HaltMatchesTier
<1>1. IInv => HaltMatchesTier
  BY DEF IInv
<1> QED
  BY <1>1, TrackerInit, Inductive, PTL DEF Spec

\* start, shutdown and load_state: neither crashes and restarts nor readings that
\* are RED lose a saved peak or halt, unless a start failed before its load.
THEOREM SavedHaltKept == Spec => []SavedHaltHolds
<1>1. IInv => SavedHaltHolds
  BY DEF IInv
<1> QED
  BY <1>1, TrackerInit, Inductive, PTL DEF Spec

\* The only step that approves a stake evaluates the balance it has just applied.
LEMMA StakeStep ==
    ASSUME IInv, Next, stake' # 0, ~in_equity_mark_blackout(now)
    PROVE  /\ equity' = NonNegative(read["entry"])
           /\ stake' <= TierStake(TierFor(equity', peak', 0))
<1>1. EntryEvaluated
  BY DEF Next, TickTo, MarkMoves, BeatAnswered, BeatApplied, BeatFails, BeatDone,
         SaveState, EntryStarts, EntryAnswered, EntryGivenUp, Restart
<1>2. read["entry"] \in Marks
  BY <1>1 DEF EntryEvaluated, IInv, TypeOK
<1>3. /\ TrackerOK' /\ equity' = NonNegative(read["entry"])
      /\ TierFor(equity', peak', 0) <= tier'
  BY <1>1, <1>2, UpdateInSync DEF EntryEvaluated
<1>4. TierFor(equity', peak', 0) \in Tiers /\ tier' \in Tiers
  BY <1>3, TierMonotone DEF TrackerOK
<1>5. TierStake(tier') <= TierStake(TierFor(equity', peak', 0))
  BY <1>3, <1>4, StakeMonotone
<1>6. stake' = TierStake(tier')
  BY <1>1 DEF EntryEvaluated
<1> QED
  BY <1>3, <1>5, <1>6

\* evaluate_ig_order: no order gets more stake than the drawdown of its own
\* balance allows.
THEOREM StakeWithinDrawdown == Spec => StakeFitsDrawdown
<1> DEFINE Fits == stake' # 0 /\ ~in_equity_mark_blackout(now)
                     => /\ equity' = NonNegative(read["entry"])
                        /\ stake' <= TierStake(TierFor(equity', peak', 0))
<1>1. IInv /\ [Next]_vars => [Fits]_vars
  BY StakeStep
<1>2. StakeFitsDrawdown <=> [][Fits]_vars
  BY DEF StakeFitsDrawdown
<1> HIDE DEF Fits
<1> QED
  BY <1>1, <1>2, TrackerInit, Inductive, PTL DEF Spec

-----------------------------------------------------------------------------
(* The risk manager's other gate on losses: the loss windows.              *)

Results == [age : 0..(Month + 1), pnl : Pnls, known : BOOLEAN, saved : BOOLEAN]

\* Every close of the last month that was not lost in a crash is in the deque.
Faithful(rs) ==
    /\ BagToSet(rs) \subseteq Results
    /\ \A r \in BagToSet(rs) : r.age <= Month => r.known

LimitsInv ==
    /\ Faithful(results)
    /\ closing \in [Symbols -> Pnls \cup {Nil}]

\* Tidy forgets results, and changes none.
LEMMA TidyFaithful ==
    ASSUME NEW rs, Faithful(rs)
    PROVE  Faithful(Tidy(rs))
BY DEF Faithful, Tidy, Restrict, BagToSet

\* prune takes nothing from the deque that a window may still count.
LEMMA PrunedFaithful ==
    ASSUME NEW rs, Faithful(rs)
    PROVE  Faithful(Pruned(rs))
<1>1. BagToSet(Pruned(rs)) =
          {[r EXCEPT !.known = @ /\ r.age <= Month] : r \in BagToSet(rs)}
  BY DEF Pruned, BagOfAll, BagToSet
<1>2. ASSUME NEW r \in BagToSet(rs)
      PROVE  /\ [r EXCEPT !.known = @ /\ r.age <= Month] \in Results
             /\ r.age <= Month => (r.known /\ r.age <= Month)
  BY <1>2 DEF Faithful, Results
<1> QED
  BY <1>1, <1>2 DEF Faithful, Results

LEMMA AddedFaithful ==
    ASSUME NEW rs, Faithful(rs), NEW pnl \in Pnls
    PROVE  Faithful(rs (+) SetToBag({Result(pnl)}))
<1>1. BagToSet(rs (+) SetToBag({Result(pnl)})) = BagToSet(rs) \cup {Result(pnl)}
  BY DEF (+), SetToBag, BagToSet
<1>2. Result(pnl) \in Results /\ Result(pnl).known
  BY LimitsAssumption DEF Result, Results
<1> QED
  BY <1>1, <1>2 DEF Faithful

\* The snapshot saves what is in the deque, ...
LEMMA SavedFaithful ==
    ASSUME NEW rs, Faithful(rs)
    PROVE  Faithful(BagOfAll(LAMBDA r : [r EXCEPT !.saved = r.known], rs))
<1>1. BagToSet(BagOfAll(LAMBDA r : [r EXCEPT !.saved = r.known], rs)) =
          {[r EXCEPT !.saved = r.known] : r \in BagToSet(rs)}
  BY DEF BagOfAll, BagToSet
<1> QED
  BY <1>1 DEF Faithful, Results

\* ... the load at start makes a deque of what was saved, and the results that
\* were not are lost to the ledger and to the property alike.
LEMMA LoadedFaithful == Faithful(results) => Faithful(Loaded)
<1>1. BagToSet(Loaded) =
          {[r EXCEPT !.known = TRUE] : r \in {r \in BagToSet(results) : r.saved}}
  BY DEF Loaded, BagOfAll, BagToSet, Restrict
<1> QED
  BY <1>1 DEF Faithful, Results

\* Results only leave the month.
Aged(r) == [r EXCEPT !.age = Older(@, Month + 1)]

LEMMA AgedFaithful ==
    ASSUME NEW rs, Faithful(rs)
    PROVE  Faithful(BagOfAll(Aged, rs))
<1>1. BagToSet(BagOfAll(Aged, rs)) = {Aged(r) : r \in BagToSet(rs)}
  BY DEF BagOfAll, BagToSet
<1>2. ASSUME NEW r \in BagToSet(rs)
      PROVE  Aged(r) \in Results /\ (Aged(r).age <= Month => Aged(r).known)
  <2>1. r \in Results /\ (r.age <= Month => r.known) /\ Month \in Nat
    BY LimitsAssumption DEF Faithful
  <2>2. /\ Older(r.age, Month + 1) \in 0..(Month + 1)
        /\ Older(r.age, Month + 1) <= Month => r.age <= Month
    BY <2>1 DEF Results, Older
  <2> QED
    BY <2>1, <2>2 DEF Results, Aged
<1> QED
  BY <1>1, <1>2 DEF Faithful

LEMMA LimitsInductive ==
    ASSUME LimitsInv, [LimitsNext]_limitsVars
    PROVE  LimitsInv'
<1>1. ASSUME NEW s \in Symbols, PositionClosed(s)
      PROVE  LimitsInv'
  <2>1. closing[s] \in Pnls
    BY <1>1 DEF LimitsInv, PositionClosed
  <2>2. Faithful(results')
    BY <1>1, <2>1, AddedFaithful, PrunedFaithful, TidyFaithful
       DEF LimitsInv, PositionClosed, record_close
  <2> QED
    BY <1>1, <2>2 DEF LimitsInv, PositionClosed, Faithful
<1>2. ASSUME NEW s \in Symbols, NEW pnl \in Pnls, Sold(s, pnl)
      PROVE  LimitsInv'
  BY <1>2 DEF LimitsInv, Sold, Faithful
<1>3. CASE Save
  <2>1. Faithful(results')
    BY <1>3, PrunedFaithful, SavedFaithful, TidyFaithful DEF LimitsInv, Save
  <2> QED
    BY <1>3, <2>1 DEF LimitsInv, Save, Faithful
<1>4. CASE LimitsRestart
  <2>1. Faithful(EmptyBag)
    BY DEF EmptyBag, SetToBag, BagToSet, Faithful
  <2>2. Faithful(results')
    BY <1>4, <2>1, LoadedFaithful DEF LimitsInv, LimitsRestart
  <2> QED
    BY <1>4, <2>2 DEF LimitsInv, LimitsRestart, Faithful
<1>5. CASE Tick
  <2>1. Faithful(results')
    BY <1>5, AgedFaithful, TidyFaithful DEF LimitsInv, Tick, Aged
  <2> QED
    BY <1>5, <2>1 DEF LimitsInv, Tick, Faithful
<1>6. CASE \/ \E s \in Symbols : Approve(s) \/ Purged(s)
           \/ Filled \/ Refused \/ UNCHANGED limitsVars
  BY <1>6 DEF Approve, Purged, Filled, Refused, limitsVars, LimitsInv, Faithful
<1> QED
  BY <1>1, <1>2, <1>3, <1>4, <1>5, <1>6 DEF LimitsNext

-----------------------------------------------------------------------------
\* The deque is the whole truth about every window.
LEMMA WindowsExact ==
    ASSUME LimitsInv, NEW w \in Windows
    PROVE  window_pnl(w.span) = ActualPnl(w.span)
<1>1. w.span \in 0..Month /\ Month \in Nat
  BY LimitsAssumption
<1>2. Known \cap Within(w.span) = Within(w.span)
  BY <1>1 DEF LimitsInv, Faithful, Results, Known, Within
<1> QED
  BY <1>2 DEF window_pnl, ActualPnl

LEMMA ApprovalStep ==
    ASSUME LimitsInv, LimitsNext, ordering = Nil, ordering' # Nil
    PROVE  \A w \in Windows : ~Exceeded(w)
<1>1. \E s \in Symbols : Approve(s)
  BY DEF LimitsNext, PositionClosed, Sold, Purged, Filled, Refused, Save, LimitsRestart, Tick
<1>2. \A w \in Windows : ~LimitReached(w)
  BY <1>1 DEF Approve, GatesPass
<1> QED
  BY <1>2, WindowsExact DEF LimitReached, Exceeded

\* LossWindowTracker and _common_entry_gates: whatever was pruned, saved and loaded
\* again, no order is approved while the closes exceed a limit, but for those that
\* the file lost, unsaved in a crash or to the save of a start that failed.
THEOREM LossesWithinLimits == LimitsSpec => ApprovedWithinLimits
<1> DEFINE Fits == ordering = Nil /\ ordering' # Nil
                     => \A w \in Windows : ~Exceeded(w)
<1>1. LimitsInit => LimitsInv
  BY DEF LimitsInit, EmptyBag, SetToBag, BagToSet, LimitsInv, Faithful
<1>2. LimitsInv /\ [LimitsNext]_limitsVars => LimitsInv'
  BY LimitsInductive
<1>3. LimitsInv /\ [LimitsNext]_limitsVars => [Fits]_limitsVars
  BY ApprovalStep
<1>4. ApprovedWithinLimits <=> [][Fits]_limitsVars
  BY DEF ApprovedWithinLimits
<1> HIDE DEF Fits
<1> QED
  BY <1>1, <1>2, <1>3, <1>4, PTL DEF LimitsSpec
=============================================================================
