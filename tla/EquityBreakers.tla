--------------------------- MODULE EquityBreakers ---------------------------
(***************************************************************************)
(* The drawdown breaker of the risk manager: peak equity, the drawdown     *)
(* tier with its hysteresis, the debounced entry halt, the FSCS warning,   *)
(* and what of them survives a restart.                                    *)
(*                                                                         *)
(* Two tasks feed it: the heartbeat (which also saves the state to disk)   *)
(* and an entry, which is evaluated in the same segment that applies its   *)
(* balance.  Each awaits GET /accounts, so IG's answer may be old by the   *)
(* time it is applied, and answers may be applied in either order.         *)
(* Percentages are whole percent points of the peak.                       *)
(***************************************************************************)
EXTENDS Integers, TradingHours

CONSTANTS
    Marks,        \* account equities IG may report
    Instants,     \* the minutes of the week looked at
    Yellow, Orange, Red,  \* RiskConfig.drawdown_*_pct
    Band,         \* RiskConfig.drawdown_tier_rearm_band
    RedConfirm,   \* RiskConfig.drawdown_red_confirm_count
    WarnAt, WarnRearm,    \* RiskConfig.fscs_warn_gbp, _REARM_BAND_GBP
    MaxRestarts,  \* bound on restarts
    None

\* What the heartbeat and the shutdown save of the risk manager here.
Saved == [peak : Nat, halted : BOOLEAN]

ASSUME MarksAssumption == Marks \subseteq Int
ASSUME NoneAssumption == None \notin Marks \cup Saved
ASSUME LinesAssumption == Yellow \in Nat /\ Orange \in Nat /\ Red \in Nat
ASSUME BandAssumption == Band \in Nat
ASSUME ConfirmAssumption == RedConfirm \in Nat \ {0}
ASSUME BoundAssumption == MaxRestarts \in Nat /\ WarnAt \in Int /\ WarnRearm \in Nat
ASSUME InstantsAssumption == Instants \subseteq Nat

VARIABLES
    now,       \* minute of the week
    mark,      \* the equity IG would report now
    equity, peak, tier,  \* DrawdownTracker
    red,       \* RiskManager._consecutive_red, counted up to RedConfirm
    halted,    \* RiskManager._trading_halted
    warned,    \* FSCSCeiling._warned
    synced,    \* some balance was applied since the start
    disk,      \* the risk part of bot_state.json
    due,       \* history: what the last save of a running process recorded, its
               \* halt until a reading milder than RED
    wiped,     \* history: a start that failed has saved over that
    up,        \* start() is past the startup balance
    beat,      \* the await of the heartbeat, or of the startup balance
    entry,     \* the await of the entry in hand (entries are serial)
    read,      \* the answer each task has got from IG
    stake,     \* percent of the sized stake approved in the last step
    restarts

tracker == <<equity, peak, tier, red, halted, warned, synced>>
file    == <<disk, wiped>>
vars == <<now, mark, tracker, due, file, up, beat, entry, read, stake, restarts>>

\* DrawdownTier.severity.
NORMAL == 0
YELLOW == 1
ORANGE == 2
RED    == 3
Tiers == NORMAL..RED

TypeOK ==
    /\ now \in Instants /\ mark \in Marks
    /\ equity \in Nat /\ peak \in Nat /\ equity <= peak
    /\ tier \in Tiers /\ red \in 0..RedConfirm
    /\ halted \in BOOLEAN /\ warned \in BOOLEAN /\ synced \in BOOLEAN
    /\ disk \in Saved \cup {None} /\ due \in Saved /\ wiped \in BOOLEAN
    /\ up \in BOOLEAN
    /\ beat \in {"idle", "answered", "saving"}
    /\ entry \in {"idle", "waiting", "answered"}
    /\ read \in [{"beat", "entry"} -> Marks \cup {None}]
    /\ beat = "answered" => read["beat"] # None
    /\ entry = "answered" => read["entry"] # None
    /\ stake \in {0, 25, 50, 100}
    /\ restarts \in 0..MaxRestarts

\* What a process saves that has neither restored nor read anything.
Blank == [peak |-> 0, halted |-> FALSE]

\* A fresh process: load_state restores the peak and the halt, and leaves the
\* tier, because recompute_tier finds no equity yet.
Fresh(saved) ==
    [equity |-> 0, tier |-> NORMAL, red |-> 0, warned |-> FALSE, synced |-> FALSE,
     peak |-> IF saved = None THEN 0 ELSE saved.peak,
     halted |-> IF saved = None THEN FALSE ELSE saved.halted]

Init ==
    /\ now \in Instants /\ mark \in Marks
    /\ equity = 0 /\ peak = 0 /\ tier = NORMAL /\ red = 0
    /\ halted = FALSE /\ warned = FALSE /\ synced = FALSE
    /\ disk = None /\ due = Blank /\ wiped = FALSE /\ up = FALSE
    /\ beat = "idle" /\ entry = "idle"
    /\ read = [c \in {"beat", "entry"} |-> None]
    /\ stake = 0 /\ restarts = 0

(***************************************************************************)
(* The drawdown as a fraction of the peak, and its tiers.                  *)
(***************************************************************************)

\* The drawdown, with `band' percent points added, reaches the line.
Reaches(line, e, p, band) ==
    IF p <= 0 THEN band >= line ELSE 100 * (p - e) + band * p >= line * p

TierFor(e, p, band) ==
    IF Reaches(Red, e, p, band) THEN RED
    ELSE IF Reaches(Orange, e, p, band) THEN ORANGE
    ELSE IF Reaches(Yellow, e, p, band) THEN YELLOW ELSE NORMAL

\* Mutant: the band is taken off where it should be added.
HysteresisEager(e, p, current) ==
    IF TierFor(e, p, 0) >= current THEN TierFor(e, p, 0) ELSE TierFor(e, p, -Band)

\* Escalation at once, de-escalation only a full band below the line.
Hysteresis(e, p, current) ==
    IF TierFor(e, p, 0) >= current THEN TierFor(e, p, 0) ELSE TierFor(e, p, Band)

(***************************************************************************)
(* RiskManager.update_equity: nothing during the blackout; otherwise the   *)
(* FSCS warning, the tracker, then the debounced entry halt.               *)
(***************************************************************************)
NonNegative(v) == IF v < 0 THEN 0 ELSE v
HigherOf(a, b) == IF a > b THEN a ELSE b

\* The FSCS warning fires once, and re-arms below its band.
FSCSWarned(v) == v >= WarnAt \/ (warned /\ v >= WarnAt - WarnRearm)

\* Mutant: the halt is left on when the drawdown recovers.
EvaluateHaltSticky ==
    IF tier' = RED
      THEN /\ red' = IF red < RedConfirm THEN red + 1 ELSE red
           /\ halted' = (halted \/ red' >= RedConfirm)
      ELSE red' = 0 /\ halted' = halted

\* Mutant: only the step into RED is counted.
EvaluateHaltOnChange ==
    IF tier' = RED
      THEN /\ red' = IF tier # RED /\ red < RedConfirm THEN red + 1 ELSE red
           /\ halted' = (halted \/ red' >= RedConfirm)
      ELSE red' = 0 /\ halted' = FALSE

\* A RED read is counted, and halts entries once RedConfirm of them came in a
\* row; any other read resets the count and ends a halt.
EvaluateDrawdownHalt ==
    IF tier' = RED
      THEN /\ red' = IF red < RedConfirm THEN red + 1 ELSE red
           /\ halted' = (halted \/ red' >= RedConfirm)
      ELSE red' = 0 /\ halted' = FALSE

\* By the drawdown from the peak that was saved, v is milder than RED.
Lifted(v) ==
    [due EXCEPT !.halted = @ /\ TierFor(v, HigherOf(due.peak, v), 0) = RED]

UpdateEquity(v) ==
    IF in_equity_mark_blackout(now)
      THEN UNCHANGED <<tracker, due>>
      ELSE /\ warned' = FSCSWarned(v)
           /\ equity' = NonNegative(v)
           /\ peak' = HigherOf(peak, NonNegative(v))
           /\ tier' = Hysteresis(equity', peak', tier)
           /\ EvaluateDrawdownHalt
           /\ synced' = TRUE
           /\ due' = Lifted(NonNegative(v))

(***************************************************************************)
(* The account and the clock.                                              *)
(***************************************************************************)
TickTo(i) ==
    /\ i # now /\ now' = i /\ stake' = 0
    /\ UNCHANGED <<mark, tracker, due, file, up, beat, entry, read, restarts>>

MarkMoves ==
    /\ \E v \in Marks \ {mark} : mark' = v
    /\ stake' = 0
    /\ UNCHANGED <<now, tracker, due, file, up, beat, entry, read, restarts>>

(***************************************************************************)
(* The heartbeat, and the startup balance before it.                       *)
(***************************************************************************)

\* IG answers with the equity as it is now.
BeatAnswered ==
    /\ beat = "idle"
    /\ beat' = "answered" /\ read' = [read EXCEPT !["beat"] = mark]
    /\ stake' = 0
    /\ UNCHANGED <<now, mark, tracker, due, file, up, entry, restarts>>

\* The startup balance does not save; a heartbeat saves whatever its balance
\* did.
BeatDone ==
    /\ beat' = (IF up THEN "saving" ELSE "idle")
    /\ up' = TRUE
    /\ read' = [read EXCEPT !["beat"] = None]
    /\ stake' = 0

BeatApplied ==
    /\ beat = "answered" /\ UpdateEquity(read["beat"])
    /\ BeatDone
    /\ UNCHANGED <<now, mark, file, entry, restarts>>

BeatFails ==
    /\ beat = "idle" /\ BeatDone
    /\ UNCHANGED <<now, mark, tracker, due, file, entry, restarts>>

Snapshot == [peak |-> peak, halted |-> halted]

\* The heartbeat's atomic save, which may fail and leave the old file.
SaveState ==
    /\ beat = "saving" /\ beat' = "idle" /\ stake' = 0
    /\ \/ disk' = Snapshot /\ due' = Snapshot /\ wiped' = FALSE
       \/ UNCHANGED <<due, file>>
    /\ UNCHANGED <<now, mark, tracker, up, entry, read, restarts>>

(***************************************************************************)
(* An entry, from the trading-hours gate to the risk decision.             *)
(***************************************************************************)

\* The hours allow it now; the lock and the balance are still to come.
EntryStarts ==
    /\ up /\ entry = "idle"
    /\ \E category \in Categories \ {"other"} : is_safe_for_entry(category, now)
    /\ entry' = "waiting" /\ stake' = 0
    /\ UNCHANGED <<now, mark, tracker, due, file, up, beat, read, restarts>>

EntryAnswered ==
    /\ entry = "waiting"
    /\ entry' = "answered" /\ read' = [read EXCEPT !["entry"] = mark]
    /\ stake' = 0
    /\ UNCHANGED <<now, mark, tracker, due, file, up, beat, restarts>>

EntryGivenUp ==
    /\ entry = "waiting"
    /\ entry' = "idle" /\ stake' = 0
    /\ UNCHANGED <<now, mark, tracker, due, file, up, beat, read, restarts>>

\* What the tier leaves of a stake.
TierStake(t) ==
    CASE t = RED -> 0 [] t = ORANGE -> 25 [] t = YELLOW -> 50 [] OTHER -> 100

\* Mutant: the order is evaluated before its balance is applied.
EntryEvaluatedStale ==
    /\ entry = "answered" /\ UpdateEquity(read["entry"])
    /\ stake' \in {0, IF halted THEN 0 ELSE TierStake(tier)}
    /\ entry' = "idle" /\ read' = [read EXCEPT !["entry"] = None]
    /\ UNCHANGED <<now, mark, file, up, beat, restarts>>

\* The balance is applied and evaluate_ig_order decides in one segment.  The
\* gates modelled elsewhere may refuse as well.
EntryEvaluated ==
    /\ entry = "answered" /\ UpdateEquity(read["entry"])
    /\ stake' \in {0, IF halted' THEN 0 ELSE TierStake(tier')}
    /\ entry' = "idle" /\ read' = [read EXCEPT !["entry"] = None]
    /\ UNCHANGED <<now, mark, file, up, beat, restarts>>

(***************************************************************************)
(* The process ends, by a crash or, once start() is through, gracefully    *)
(* with a last save that may fail, and is started again.  A start whose    *)
(* connect() raises has restored nothing yet, but ends in the same         *)
(* shutdown(), which saves what there is; the next one goes on from that.  *)
(***************************************************************************)

Ended(saves, fails) ==
    /\ saves => up
    /\ due' = IF saves THEN Snapshot ELSE due
    /\ disk' = IF fails THEN Blank ELSE IF saves THEN Snapshot ELSE disk
    /\ wiped' = (fails \/ (wiped /\ ~saves))

\* Mutant: the halt is not restored.
RestartUnhalted ==
    /\ restarts < MaxRestarts /\ restarts' = restarts + 1
    /\ \E saves, fails \in BOOLEAN : Ended(saves, fails)
    /\ LET f == Fresh(disk') IN
         /\ equity' = f.equity /\ peak' = f.peak /\ tier' = f.tier /\ red' = f.red
         /\ halted' = FALSE /\ warned' = f.warned /\ synced' = f.synced
    /\ up' = FALSE /\ beat' = "idle" /\ entry' = "idle" /\ stake' = 0
    /\ read' = [c \in {"beat", "entry"} |-> None]
    /\ UNCHANGED <<now, mark>>

Restart ==
    /\ restarts < MaxRestarts /\ restarts' = restarts + 1
    /\ \E saves, fails \in BOOLEAN : Ended(saves, fails)
    /\ LET f == Fresh(disk') IN
         /\ equity' = f.equity /\ peak' = f.peak /\ tier' = f.tier /\ red' = f.red
         /\ halted' = f.halted /\ warned' = f.warned /\ synced' = f.synced
    /\ up' = FALSE /\ beat' = "idle" /\ entry' = "idle" /\ stake' = 0
    /\ read' = [c \in {"beat", "entry"} |-> None]
    /\ UNCHANGED <<now, mark>>

Next ==
    \/ \E i \in Instants : TickTo(i)
    \/ MarkMoves
    \/ BeatAnswered \/ BeatApplied \/ BeatFails \/ SaveState
    \/ EntryStarts \/ EntryAnswered \/ EntryGivenUp \/ EntryEvaluated
    \/ Restart

Spec == Init /\ [][Next]_vars

\* The clock goes on, and the heartbeat with it: every 60 seconds, and the
\* blackout is 75 minutes a day, so its GET /accounts succeeds, and is applied,
\* outside the blackout again and again.  An entry's awaits end.
Fairness ==
    /\ \A i \in Instants : WF_vars(TickTo(i))
    /\ SF_vars(BeatAnswered /\ ~in_equity_mark_blackout(now))
    /\ SF_vars(BeatApplied /\ ~in_equity_mark_blackout(now))
    /\ SF_vars(SaveState /\ ~in_equity_mark_blackout(now))
    /\ WF_vars(BeatApplied) /\ WF_vars(SaveState)
    /\ WF_vars(EntryAnswered \/ EntryGivenUp) /\ WF_vars(EntryEvaluated)

FairSpec == Spec /\ Fairness

-----------------------------------------------------------------------------
\* Once a balance was applied, the tier is never milder than the drawdown by
\* the plain lines, and never harsher than one band beyond it: hysteresis may
\* hold a tier up, but no sequence of readings, restarts and stale answers
\* leaves the tier out of its band (DrawdownTracker.update_equity).
TierWithinBand ==
    synced => /\ TierFor(equity, peak, 0) <= tier
              /\ tier <= TierFor(equity, peak, Band)

\* The halt, its debounce counter and the tier agree after every applied
\* balance: halted only in RED, counting only in RED, and a RED that is counted
\* out halts (_evaluate_drawdown_halt).
HaltMatchesTier ==
    synced => /\ halted => tier = RED
              /\ red > 0 <=> tier = RED
              /\ red = RedConfirm => halted

\* Crashes, restarts and stale answers lose neither the peak nor an entry halt
\* that a running process has saved: the halt goes on until a reading is milder
\* than RED by the saved peak.  Not so once a start has failed before it restored
\* them (start, shutdown): its save leaves nothing of either.
SavedHaltHolds == ~wiped => peak >= due.peak /\ (due.halted => halted)

\* An order approved outside the blackout has no more stake than the drawdown of
\* the very balance it was sized with allows, whatever heartbeats and restarts
\* happened while it waited (evaluate_ig_order after _sync_balance_state).
StakeFitsDrawdown ==
    [][stake' # 0 /\ ~in_equity_mark_blackout(now)
         => /\ equity' = NonNegative(read["entry"])
            /\ stake' <= TierStake(TierFor(equity', peak', 0))]_vars

\* A drawdown that stays RED halts entries in the end, and keeps them halted,
\* although stale answers, failed requests and blackouts intervene.
RedHalts == <>[](TierFor(NonNegative(mark), peak, 0) = RED /\ peak > 0) => <>[]halted

\* A halt ends once the drawdown has recovered by more than the band.
RecoveryResumes == <>[](TierFor(NonNegative(mark), peak, Band) # RED) => <>[]~halted

=============================================================================
