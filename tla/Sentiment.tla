------------------------------ MODULE Sentiment ------------------------------
(***************************************************************************)
(* The sentiment engine (sentiment/engine.py): its periodic scan, the five *)
(* agents, the aggregator with its escalations to Gemini, and the scores   *)
(* kept in memory for the rerank loop.                                     *)
(*                                                                         *)
(* Sentiments are -1, 0 and 1, confidences are in tenths; what a source    *)
(* says is any of its possible answers.  The clock counts parts of an hour. *)
(***************************************************************************)
EXTENDS Integers, Sequences, FiniteSets, FiniteSetsExt, Functions

CONSTANTS Assets, None,
          Market,          \* _MARKET_ASSETS of the fear and greed index
          Queried,         \* _ASSET_QUERY_MAP of GDELT
          Agents, Tones,   \* bounds: the agents that ever answer, what they find
          LLMConfidence,   \* what the LLM may say of its answers
          LowConfidence,   \* escalation_confidence_threshold
          MaxPerHour,      \* escalation_max_per_hour
          Parts            \* ticks of the clock in an hour

ASSUME SentimentAssumption ==
    /\ IsFiniteSet(Assets) /\ Market \cup Queried \subseteq Assets /\ MaxPerHour \in Nat
    /\ Parts \in Nat \ {0}
    /\ Agents \subseteq {"news", "macro", "fear_greed", "gdelt", "central_bank"}
    /\ Tones \subseteq -1..1 /\ LLMConfidence \subseteq 0..10 /\ LowConfidence \in 0..10

VARIABLES clock,        \* time.monotonic, in ticks
          scan,         \* of the engine: "sleep", "fetch", "gemini"
          consensus,    \* what this scan has made of its signals
          doubtful,     \* the assets it escalates
          scores,       \* _current_scores
          escalations,  \* _escalation_times
          calls         \* when Gemini was called since the start of the process

engine == <<scan, consensus, doubtful, scores, escalations, calls>>

NoScores == [a \in Assets |-> None]

SentimentInit ==
    /\ scan = "sleep" /\ consensus = <<>> /\ doubtful = {}
    /\ scores = NoScores /\ escalations = <<>> /\ calls = <<>>

---------------------------------------------------------------------------
(* The agents: signals of some of the assets, of none when a key, a source *)
(* or an answer is missing.                                                *)

Partial(S, V) == UNION {[D -> V] : D \in SUBSET S}

RawSignal(s, c) == [sentiment |-> s, confidence |-> c]

\* _call_llm, _parse_signals: one answer over all assets, its bad items left out
LLMAnswers == Partial(Assets, {RawSignal(s, c) : s \in Tones, c \in LLMConfidence})

\* Every source may fail, and an LLM may have nothing to say of its texts.
NewsAgent        == LLMAnswers
MacroAgent       == LLMAnswers
CentralBankAgent == LLMAnswers

\* One score for all the assets that follow the market.
FearGreedAgent == {<<>>} \cup {[a \in Market |-> RawSignal(s, 7)] : s \in Tones}

\* The tone of one query per asset, each failing alone; surer with more buckets.
GdeltAgent == Partial(Queried, {RawSignal(s, c) : s \in Tones, c \in {5, 8}})

Analyze(agent) ==
    CASE agent = "news"         -> NewsAgent
      [] agent = "macro"        -> MacroAgent
      [] agent = "central_bank" -> CentralBankAgent
      [] agent = "fear_greed"   -> FearGreedAgent
      [] agent = "gdelt"        -> GdeltAgent

---------------------------------------------------------------------------
(* The aggregator. *)

Sources(raw, a) == {g \in Agents : a \in DOMAIN raw[g]}

Total(raw, a, Value(_)) ==
    FoldSet(LAMBDA g, sum : sum + Value(raw[g][a]), 0, Sources(raw, a))

Sign(n) == IF n > 0 THEN 1 ELSE IF n < 0 THEN -1 ELSE 0

\* _compute_consensus: the way the confidence-weighted mean leans
Consensus(raw, a) ==
    LET sum == Total(raw, a, LAMBDA s : s.sentiment * s.confidence)
        flat == Total(raw, a, LAMBDA s : s.sentiment)
        weight == Total(raw, a, LAMBDA s : s.confidence)
    IN [lean |-> Sign(IF weight > 0 THEN sum ELSE flat),
        coverage |-> Cardinality(Sources(raw, a)), escalated |-> FALSE]

Scored(raw) == {a \in Assets : Sources(raw, a) # {}}

\* _should_escalate, before it reserves a slot: two signals differ by more than
\* half a point, or their mean confidence is low
Contested(raw, a) ==
    LET said == {raw[g][a].sentiment : g \in Sources(raw, a)}
        n == Cardinality(Sources(raw, a))
    IN /\ n >= 2
       /\ \/ Cardinality(said) > 1
          \/ Total(raw, a, LAMBDA s : s.confidence) < LowConfidence * n

\* What the agents may make of a scan, all of them gathered.
Gatherings ==
    {[views |-> [a \in Scored(raw) |-> Consensus(raw, a)],
      contested |-> {a \in Scored(raw) : Contested(raw, a)}] :
       raw \in {f \in [Agents -> UNION {Analyze(g) : g \in Agents}] :
                  \A g \in Agents : f[g] \in Analyze(g)}}

\* Entries are popped from the left while they are old.
PopWhile(times, Old(_)) ==
    LET popped == {i \in DOMAIN times : \A j \in 1..i : Old(times[j])}
    IN SubSeq(times, Cardinality(popped) + 1, Len(times))

\* Mutant: the window is the calendar hour.
WithinCalendarHour(times) == PopWhile(times, LAMBDA t : t \div Parts < clock \div Parts)
\* Entries go when they are more than an hour old.
WithinHour(times) == PopWhile(times, LAMBDA t : clock - t > Parts)

Free(times) == MaxPerHour - Len(times)

Repeat(t, n) == [i \in 1..n |-> t]

---------------------------------------------------------------------------
(* The engine. *)

\* A scan is skipped while a rerank runs, but goes on when one starts.
ScanStart(busy) ==
    /\ scan = "sleep" /\ ~busy /\ scan' = "fetch"
    /\ UNCHANGED <<consensus, doubtful, scores, escalations, calls>>

\* _current_scores.update: assets this scan did not score keep their old score
Updated(views) == [a \in Assets |-> IF a \in DOMAIN views THEN views[a] ELSE scores[a]]

\* The gather ends.  Slots are reserved, and Gemini is called, for as many
\* contested assets as the hour allows.
Gathered ==
    /\ scan = "fetch"
    /\ \E g \in Gatherings :
         LET times == IF g.contested = {} THEN escalations ELSE WithinHour(escalations)
             n == Min({Cardinality(g.contested), Free(times)})
         IN \E picked \in kSubset(n, g.contested) :
              /\ escalations' = times \o Repeat(clock, n)
              /\ calls' = calls \o Repeat(clock, n)
              /\ IF n = 0
                 THEN /\ scan' = "sleep" /\ scores' = Updated(g.views)
                      /\ UNCHANGED <<consensus, doubtful>>
                 ELSE /\ scan' = "gemini" /\ UNCHANGED scores
                      /\ consensus' = g.views /\ doubtful' = picked

\* Gemini overrides the sentiment, or fails and the consensus stands.
Overruled(view, lean) == [view EXCEPT !.lean = lean, !.escalated = TRUE]

GeminiDone ==
    /\ scan = "gemini" /\ scan' = "sleep"
    /\ \E answer \in Partial(doubtful, Tones) :
         scores' = Updated([a \in DOMAIN consensus |->
                      IF a \in DOMAIN answer THEN Overruled(consensus[a], answer[a])
                      ELSE consensus[a]])
    /\ consensus' = <<>> /\ doubtful' = {}
    /\ UNCHANGED <<escalations, calls>>

SentimentRestart ==
    /\ scan' = "sleep" /\ consensus' = <<>> /\ doubtful' = {}
    /\ scores' = NoScores /\ escalations' = <<>> /\ calls' = <<>>

---------------------------------------------------------------------------

(* The hard cap, in any hour and not only in the clock's: between two       *)
(* starts of the process, escalation_max_per_hour and one more calls to     *)
(* Gemini take longer than an hour, whichever scans make them.              *)
EscalationsCapped ==
    \A i \in 1..(Len(calls) - MaxPerHour) : calls[i + MaxPerHour] - calls[i] > Parts
===============================================================================
