---------------------------- MODULE Rerank_proofs ----------------------------
(***************************************************************************)
(* For any symbols, forecasts and thresholds: the selection is the greedy  *)
(* one, orders go out on signals that pass the filters, and signal decay   *)
(* closes a position only for what reranks since its entry have seen.      *)
(***************************************************************************)
EXTENDS Rerank, FiniteSetTheorems, WellFoundedInduction, TLAPS

\* The counters of the record r never outrun the n doubts since the entry, if
\* it is the record of that entry.
Counts(r, n) ==
    /\ r = [mean |-> r.mean, misses |-> r.misses, strikes |-> r.strikes, own |-> r.own]
    /\ r.own => /\ r.misses \in Nat /\ r.strikes \in Nat
                /\ r.misses <= n \/ n >= MaxMisses
                /\ r.strikes <= n \/ n >= MaxMisses

TypeOK ==
    /\ doubts \in [Symbols -> Nat]
    /\ tp = [s \in Symbols |-> tp[s]] /\ fileTp = [s \in Symbols |-> fileTp[s]]

\* So are the records in memory, and those in the file.
Owned(records) ==
    \A s \in Symbols : records[s] # None => Counts(records[s], doubts[s])

\* The symbols whose signal passes the filters.
PassingOf(sigs) == {s \in Symbols : sigs[s] # None /\ Tradeable(sigs[s])}
Passing == PassingOf(signals)

\* Between a scan and its assignment: the picks are those of a ranking of
\* symbols that pass; at any other time the selection passes, unless a start
\* restored it with the signals of a later scan.
PicksPass ==
    /\ phase = "assign" =>
         \E S \in SUBSET Passing : ranked \in Rankings(S) /\ chosen = Picked(ranked, matrix)
    /\ phase # "assign" /\ ~torn => selected \subseteq Passing

EntryPasses ==
    entering # None /\ ~raced => phase # "assign" /\ entering \in Passing

\* So does the selection of a saved topk state.
TopkPasses(saved) ==
    saved # None /\ ~saved.torn => saved.selected \subseteq PassingOf(saved.signals)

IInv == TypeOK /\ Owned(tp) /\ Owned(fileTp)
SelectionInv == open \subseteq Symbols /\ PicksPass /\ EntryPasses /\ TopkPasses(fileTopk)

LEMMA Limits == None \notin Symbols /\ MaxStrikes \in Nat \ {0} /\ MaxMisses \in Nat \ {0}
BY RerankAssumption

LEMMA InitIInv == Init => IInv /\ SelectionInv
<1> SUFFICES ASSUME Init
             PROVE  IInv /\ SelectionInv
  OBVIOUS
<1>1. \A r \in OldRecords :
        r = [mean |-> r.mean, misses |-> r.misses, strikes |-> r.strikes, own |-> FALSE]
  BY RerankAssumption
<1>2. ASSUME NEW s \in Symbols, fileTp[s] # None
      PROVE  Counts(fileTp[s], doubts[s])
  <2>1. fileTp[s] \in OldRecords
    BY <1>2 DEF Init
  <2> QED
    BY <1>1, <2>1 DEF Counts
<1>3. IInv
  BY <1>2 DEF Init, IInv, TypeOK, Owned, NoRecords
<1>4. SelectionInv
  BY RerankAssumption DEF Init, SelectionInv, PicksPass, EntryPasses, TopkPasses
<1> QED
  BY <1>3, <1>4

-----------------------------------------------------------------------------
(* The selection, by induction along the ranking. *)

\* Induction over the naturals, of the numbers in a set.
LEMMA Induction ==
    ASSUME NEW G, 0 \in G, \A n \in Nat : n \in G => n + 1 \in G
    PROVE  Nat \subseteq G
<1> DEFINE R == {ss \in Nat \X Nat : ss[1] < ss[2]}
           Bad == Nat \ G
<1>1. IsWellFoundedOn(R, Nat)
  BY NatLessThanWellFounded DEF OpToRel
<1>2. ASSUME Bad # {}
      PROVE  FALSE
  <2> HIDE DEF R
  <2>1. Bad \subseteq Nat
    OBVIOUS
  <2> HIDE DEF Bad
  <2>2. PICK m \in Bad : \A k \in Bad : ~(<<k, m>> \in R)
    BY <1>1, <1>2, <2>1, WFMin
  <2>3. m \in Nat /\ m \notin G
    BY <2>1 DEF Bad
  <2>4. m # 0 /\ m - 1 \in Nat /\ (m - 1) + 1 = m
    BY <2>3
  <2>5. m - 1 \notin G
    BY <2>3, <2>4
  <2>6. m - 1 \in Bad /\ <<m - 1, m>> \in Nat \X Nat /\ m - 1 < m
    BY <2>3, <2>4, <2>5 DEF Bad
  <2>7. <<m - 1, m>> \in R
    BY <2>6 DEF R
  <2> QED
    BY <2>2, <2>6, <2>7
<1> QED
  BY <1>2

\* One step along the ranking, and the table FoldLeft is defined with.
One(picks, s, corr) ==
    IF Cardinality(picks) < K /\ ~Blocked(s, picks, corr) THEN picks \cup {s} ELSE picks
Folded(f, rank, corr, S) ==
    IF S = {} THEN {} ELSE One(f[S \ {Max(S)}], rank[Max(S)], corr)
Folds(f, rank, corr, D) == f = [S \in SUBSET D |-> Folded(f, rank, corr, S)]

LEMMA PickedIsTable ==
    ASSUME NEW rank, NEW corr
    PROVE  Picked(rank, corr) = (CHOOSE f : Folds(f, rank, corr, DOMAIN rank))[DOMAIN rank]
BY DEF Picked, FoldLeft, MapThenFoldSet, Folds, Folded, One

LEMMA LastIsMax ==
    ASSUME NEW n \in Nat, NEW S \in SUBSET (1..(n + 1)), n + 1 \in S
    PROVE  Max(S) = n + 1 /\ S \ {Max(S)} \in SUBSET (1..n)
<1>1. \A y \in S : n + 1 >= y
  OBVIOUS
<1>2. \E x \in S : \A y \in S : x >= y
  BY <1>1
<1>3. Max(S) = n + 1
  <2>1. Max(S) \in S /\ \A y \in S : Max(S) >= y
    BY <1>2, Zenon DEF Max
  <2>2. Max(S) \in 1..(n + 1) /\ Max(S) >= n + 1
    BY <2>1
  <2> QED
    BY <2>2
<1> QED
  BY <1>3

LEMMA TableExists ==
    ASSUME NEW rank, NEW corr, NEW n \in Nat
    PROVE  \E f : Folds(f, rank, corr, 1..n)
<1> DEFINE G == {m \in Nat : \E f : Folds(f, rank, corr, 1..m)}
<1>1. 0 \in G
  <2> DEFINE f == [S \in SUBSET (1..0) |-> {}]
  <2>1. \A S \in SUBSET (1..0) : S = {}
    OBVIOUS
  <2>2. f = [S \in SUBSET (1..0) |-> Folded(f, rank, corr, S)]
    BY <2>1 DEF Folded
  <2> HIDE DEF f
  <2>3. Folds(f, rank, corr, 1..0)
    BY <2>2 DEF Folds
  <2> QED
    BY <2>3
<1>2. ASSUME NEW m \in Nat, m \in G
      PROVE  m + 1 \in G
  <2>1. PICK f : Folds(f, rank, corr, 1..m)
    BY <1>2
  <2> DEFINE h == [S \in SUBSET (1..(m + 1)) |-> Folded(f, rank, corr, S)]
  <2>2. ASSUME NEW S \in SUBSET (1..m)
        PROVE  h[S] = f[S]
    <3>1. S \in SUBSET (1..(m + 1))
      OBVIOUS
    <3> QED
      BY <2>1, <3>1 DEF Folds
  <2>3. ASSUME NEW S \in SUBSET (1..(m + 1)), S # {}
        PROVE  S \ {Max(S)} \in SUBSET (1..m)
    <3>1. CASE m + 1 \in S
      BY <3>1, LastIsMax
    <3>2. CASE m + 1 \notin S
      <4>1. ASSUME NEW x \in S
            PROVE  x \in 1..m
        <5>1. x \in 1..(m + 1) /\ x # m + 1
          BY <3>2
        <5> QED
          BY <5>1
      <4> QED
        BY <4>1
    <3> QED
      BY <3>1, <3>2
  <2>4. ASSUME NEW S \in SUBSET (1..(m + 1))
        PROVE  Folded(f, rank, corr, S) = Folded(h, rank, corr, S)
    <3>1. S # {} => h[S \ {Max(S)}] = f[S \ {Max(S)}]
      BY <2>2, <2>3
    <3> HIDE DEF h
    <3> QED
      BY <3>1 DEF Folded
  <2>5. h = [S \in SUBSET (1..(m + 1)) |-> Folded(h, rank, corr, S)]
    BY <2>4
  <2> HIDE DEF h
  <2>6. Folds(h, rank, corr, 1..(m + 1))
    BY <2>5 DEF Folds
  <2> QED
    BY <2>6
<1> HIDE DEF G
<1>3. Nat \subseteq G
  BY <1>1, <1>2, Induction
<1> QED
  BY <1>3 DEF G

\* The picks after each place of the ranking.
Along(picks, n, rank, corr) ==
    picks[0] = {} /\ \A i \in 1..n : picks[i] = One(picks[i - 1], rank[i], corr)

LEMMA PicksAlong ==
    ASSUME NEW n \in Nat, NEW rank, DOMAIN rank = 1..n, NEW corr
    PROVE  \E picks : Along(picks, n, rank, corr) /\ picks[n] = Picked(rank, corr)
<1> DEFINE f == CHOOSE g : Folds(g, rank, corr, 1..n)
           picks == [i \in 0..n |-> f[1..i]]
<1>1. Folds(f, rank, corr, 1..n)
  BY TableExists
<1>2. Picked(rank, corr) = f[1..n]
  BY PickedIsTable
<1> HIDE DEF f
<1>3. picks[0] = {}
  <2>1. 1..0 = {} /\ {} \in SUBSET (1..n)
    OBVIOUS
  <2>2. f[{}] = {}
    BY <1>1, <2>1 DEF Folds, Folded
  <2> QED
    BY <2>1, <2>2
<1>4. ASSUME NEW i \in 1..n
      PROVE  picks[i] = One(picks[i - 1], rank[i], corr)
  <2>1. i - 1 \in Nat /\ i - 1 \in 0..n /\ i \in 0..n /\ (i - 1) + 1 = i
    OBVIOUS
  <2>2. i \in 1..i /\ 1..i \in SUBSET (1..n)
    OBVIOUS
  <2>3. Max(1..i) = i
    BY <2>1, <2>2, LastIsMax
  <2>4. (1..i) \ {i} = 1..(i - 1)
    OBVIOUS
  <2>5. f[1..i] = Folded(f, rank, corr, 1..i)
    BY <1>1, <2>2 DEF Folds
  <2>6. f[1..i] = One(f[1..(i - 1)], rank[i], corr)
    BY <2>2, <2>3, <2>4, <2>5 DEF Folded
  <2> QED
    BY <2>1, <2>6
<1>5. picks[n] = f[1..n]
  OBVIOUS
<1>6. Along(picks, n, rank, corr)
  BY <1>3, <1>4 DEF Along
<1> HIDE DEF picks
<1> QED
  BY <1>2, <1>5, <1>6

\* A ranking whose picks take no symbol from further down: the picks after
\* place m, cut to the first i places, are the picks after place i.
LEMMA PicksAreFinal ==
    ASSUME NEW n \in Nat, NEW rank, NEW corr, NEW picks,
           \A i, j \in 1..n : rank[i] = rank[j] => i = j,
           Along(picks, n, rank, corr)
    PROVE  \A i \in 0..n : picks[i] = {rank[j] : j \in 1..i} \cap picks[n]
<1> DEFINE First(i) == {rank[j] : j \in 1..i}
           Final(m) == \A i \in 0..m : picks[i] = First(i) \cap picks[m]
           G == {m \in Nat : m <= n => Final(m)}
<1>1. 0 \in G
  <2>1. \A i \in 0..0 : i = 0
    OBVIOUS
  <2> QED
    BY <2>1 DEF Along
<1>2. ASSUME NEW m \in Nat, m \in G
      PROVE  m + 1 \in G
  <2> SUFFICES ASSUME m + 1 <= n
               PROVE  Final(m + 1)
    OBVIOUS
  <2>1. Final(m)
    BY <1>2
  <2> HIDE DEF G
  <2>2. /\ m + 1 \in 1..n /\ (m + 1) - 1 = m
        /\ picks[m + 1] = picks[m] \/ picks[m + 1] = picks[m] \cup {rank[m + 1]}
    <3>1. m + 1 \in 1..n /\ (m + 1) - 1 = m
      OBVIOUS
    <3>2. picks[m + 1] = One(picks[m], rank[m + 1], corr)
      BY <3>1 DEF Along
    <3> QED
      BY <3>1, <3>2 DEF One
  <2>3. ASSUME NEW i \in 0..(m + 1)
        PROVE  picks[i] = First(i) \cap picks[m + 1]
    <3>1. CASE i \in 0..m
      <4>1. rank[m + 1] \notin First(i)
        <5>1. ASSUME NEW j \in 1..i
              PROVE  rank[j] # rank[m + 1]
          <6>1. j \in 1..n /\ m + 1 \in 1..n /\ j # m + 1
            BY <2>2, <3>1
          <6> QED
            BY <6>1
        <5> QED
          BY <5>1
      <4>2. picks[i] = First(i) \cap picks[m]
        BY <2>1, <3>1
      <4> HIDE DEF First
      <4> QED
        BY <2>2, <4>1, <4>2
    <3>2. CASE i = m + 1
      <4>1. picks[m] = First(m) \cap picks[m]
        BY <2>1
      <4>2. ASSUME NEW x \in picks[m + 1]
            PROVE  x \in First(m + 1)
        <5>1. x \in First(m) \/ x = rank[m + 1]
          BY <2>2, <4>1
        <5>2. m + 1 \in 1..(m + 1) /\ 1..m \subseteq 1..(m + 1)
          OBVIOUS
        <5> QED
          BY <5>1, <5>2
      <4> HIDE DEF First
      <4> QED
        BY <3>2, <4>2
    <3> QED
      BY <3>1, <3>2
  <2> QED
    BY <2>3
<1>3. Nat \subseteq G
  <2> HIDE DEF G
  <2> QED
    BY <1>1, <1>2, Induction
<1> QED
  BY <1>3

\* What Picked computes: each symbol judged by the better ones picked.
LEMMA PickedIsGreedy ==
    ASSUME NEW n \in Nat, NEW rank, DOMAIN rank = 1..n, NEW corr,
           \A i, j \in 1..n : rank[i] = rank[j] => i = j
    PROVE  /\ Picked(rank, corr) \subseteq {rank[i] : i \in 1..n}
           /\ \A i \in 1..n :
                LET better == {rank[j] : j \in 1..(i - 1)} \cap Picked(rank, corr)
                IN rank[i] \in Picked(rank, corr)
                     <=> Cardinality(better) < K /\ ~Blocked(rank[i], better, corr)
<1>1. PICK picks : Along(picks, n, rank, corr) /\ picks[n] = Picked(rank, corr)
  BY PicksAlong
<1>2. \A i \in 0..n : picks[i] = {rank[j] : j \in 1..i} \cap Picked(rank, corr)
  <2>1. \A i \in 0..n : picks[i] = {rank[j] : j \in 1..i} \cap picks[n]
    BY <1>1, PicksAreFinal
  <2> QED
    BY <1>1, <2>1
<1>3. Picked(rank, corr) \subseteq {rank[i] : i \in 1..n}
  <2>1. n \in 0..n
    OBVIOUS
  <2>2. Picked(rank, corr) = {rank[j] : j \in 1..n} \cap Picked(rank, corr)
    BY <1>1, <1>2, <2>1
  <2> QED
    BY <2>2
<1>4. ASSUME NEW i \in 1..n
      PROVE  LET better == {rank[j] : j \in 1..(i - 1)} \cap Picked(rank, corr)
             IN rank[i] \in Picked(rank, corr)
                  <=> Cardinality(better) < K /\ ~Blocked(rank[i], better, corr)
  <2> DEFINE better == {rank[j] : j \in 1..(i - 1)} \cap Picked(rank, corr)
  <2>1. i \in 0..n /\ i - 1 \in 0..n /\ i \in 1..i
    OBVIOUS
  <2>2. picks[i - 1] = better
    BY <1>2, <2>1
  <2>3. picks[i] = {rank[j] : j \in 1..i} \cap Picked(rank, corr)
    BY <1>2, <2>1
  <2>4. rank[i] \in {rank[j] : j \in 1..i}
    BY <2>1
  <2>5. rank[i] \in Picked(rank, corr) <=> rank[i] \in picks[i]
    BY <2>3, <2>4
  <2>6. rank[i] \notin better
    <3>1. ASSUME NEW j \in 1..(i - 1)
          PROVE  rank[j] # rank[i]
      <4>1. j \in 1..n /\ j # i
        OBVIOUS
      <4> QED
        BY <4>1
    <3> QED
      BY <3>1
  <2>7. picks[i] = One(better, rank[i], corr)
    BY <1>1, <2>2 DEF Along
  <2> HIDE DEF better
  <2>8. rank[i] \in picks[i] <=> Cardinality(better) < K /\ ~Blocked(rank[i], better, corr)
    BY <2>6, <2>7 DEF One
  <2>9. rank[i] \in Picked(rank, corr)
          <=> Cardinality(better) < K /\ ~Blocked(rank[i], better, corr)
    BY <2>5, <2>8
  <2> QED
    BY <2>9 DEF better
<1> QED
  BY <1>3, <1>4

\* A ranking of a set of symbols has each of them in one place.
LEMMA RankingPlaces ==
    ASSUME NEW S \in SUBSET Symbols, NEW rank \in Rankings(S)
    PROVE  \E n \in Nat : /\ DOMAIN rank = 1..n
                          /\ \A i \in 1..n : rank[i] \in S
                          /\ \A i, j \in 1..n : rank[i] = rank[j] => i = j
<1>1. IsFiniteSet(S)
  BY FS_Subset, RerankAssumption
<1>2. Cardinality(S) \in Nat
  BY <1>1, FS_CardinalityType
<1>3. rank \in [1..Cardinality(S) -> S] /\ IsInjective(rank)
  BY DEF Rankings
<1>4. \A i, j \in DOMAIN rank : rank[i] = rank[j] => i = j
  BY <1>3 DEF IsInjective
<1> QED
  BY <1>2, <1>3, <1>4

-----------------------------------------------------------------------------
(* One position's counters over one rerank. *)

LEMMA UpTo ==
    ASSUME NEW n \in Nat, NEW most \in Nat
    PROVE  Up(n, most) \in Nat /\ n <= Up(n, most) /\ Up(n, most) <= n + 1
           /\ (n < most => Up(n, most) = n + 1)
BY DEF Up

LEMMA CountedCounts ==
    ASSUME NEW r, NEW n \in Nat, NEW q, NEW in_topk \in BOOLEAN, NEW agrees \in BOOLEAN,
           Counts(r, n), agrees => q # None /\ ~Unhealthy(q) /\ in_topk
    PROVE  /\ Counts(Counted(r, q, in_topk), IF agrees THEN n ELSE Up(n, MaxMisses))
           /\ Counted(r, q, in_topk).mean = r.mean
           /\ Counted(r, q, in_topk).own = r.own
<1> DEFINE c == Counted(r, q, in_topk)
           m == IF agrees THEN n ELSE Up(n, MaxMisses)
<1>1. r = [mean |-> r.mean, misses |-> r.misses, strikes |-> r.strikes, own |-> r.own]
  BY DEF Counts
<1>2. r.own => /\ r.misses \in Nat /\ r.strikes \in Nat
               /\ r.misses <= n \/ n >= MaxMisses
               /\ r.strikes <= n \/ n >= MaxMisses
  BY DEF Counts
<1>3. /\ m \in Nat /\ m >= n
      /\ ~agrees => m >= MaxMisses \/ m = n + 1
  <2>1. /\ Up(n, MaxMisses) \in Nat /\ n <= Up(n, MaxMisses)
        /\ n < MaxMisses => Up(n, MaxMisses) = n + 1
    BY Limits, UpTo
  <2> QED
    BY <2>1, Limits
<1>4. CASE q = None
  <2>1. c = [mean |-> r.mean, misses |-> r.misses, strikes |-> Up(r.strikes, MaxStrikes),
             own |-> r.own]
    BY <1>1, <1>4 DEF Counted
  <2>2. ~agrees
    BY <1>4
  <2> HIDE DEF c, m
  <2>3. r.own => Up(r.strikes, MaxStrikes) \in Nat
                 /\ Up(r.strikes, MaxStrikes) <= r.strikes + 1
    BY <1>2, Limits, UpTo
  <2>4. Counts(c, m) /\ c.mean = r.mean /\ c.own = r.own
    BY <1>2, <1>3, <2>1, <2>2, <2>3, Limits DEF Counts
  <2> QED
    BY <2>4 DEF c, m
<1>5. CASE q # None /\ Flipped(r, q)
  <2>1. c = r
    BY <1>5 DEF Counted
  <2> HIDE DEF c, m
  <2>2. Counts(c, m)
    BY <1>1, <1>2, <1>3, <2>1, Limits DEF Counts
  <2> QED
    BY <2>1, <2>2 DEF c, m
<1>6. CASE q # None /\ ~Flipped(r, q)
  <2> DEFINE strikes == IF Unhealthy(q) THEN Up(r.strikes, MaxStrikes) ELSE 0
             misses  == IF in_topk THEN 0 ELSE Up(r.misses, MaxMisses)
  <2>1. c = [mean |-> r.mean, misses |-> misses, strikes |-> strikes, own |-> r.own]
    BY <1>1, <1>6 DEF Counted
  <2>2. ASSUME r.own
        PROVE  /\ strikes \in Nat /\ strikes <= r.strikes + 1
               /\ misses \in Nat /\ misses <= r.misses + 1
    <3>1. r.strikes \in Nat /\ r.misses \in Nat
      BY <1>2, <2>2
    <3>2. /\ Up(r.strikes, MaxStrikes) \in Nat /\ Up(r.strikes, MaxStrikes) <= r.strikes + 1
          /\ Up(r.misses, MaxMisses) \in Nat /\ Up(r.misses, MaxMisses) <= r.misses + 1
      BY <3>1, Limits, UpTo
    <3>3. 0 \in Nat /\ 0 <= r.strikes + 1 /\ 0 <= r.misses + 1
      BY <3>1
    <3> QED
      BY <3>2, <3>3, Zenon
  <2>3. (~Unhealthy(q) => strikes = 0) /\ (in_topk => misses = 0)
    OBVIOUS
  <2> HIDE DEF c, m, strikes, misses
  <2>4. r.own => (misses <= m \/ m >= MaxMisses)
    BY <1>2, <1>3, <2>2, <2>3, Limits
  <2>5. r.own => (strikes <= m \/ m >= MaxMisses)
    BY <1>2, <1>3, <2>2, <2>3, Limits
  <2>6. Counts(c, m) /\ c.mean = r.mean /\ c.own = r.own
    BY <2>1, <2>2, <2>4, <2>5 DEF Counts
  <2> QED
    BY <2>6 DEF c, m
<1> QED
  BY <1>4, <1>5, <1>6

\* More doubts allow what fewer did.
LEMMA CountsMore ==
    ASSUME NEW r, NEW n \in Nat, NEW m \in Nat, n <= m, Counts(r, n)
    PROVE  Counts(r, m)
BY Limits DEF Counts

\* An orphaned record counts for nothing.
LEMMA OrphanedCounts ==
    ASSUME NEW r, NEW n, NEW m, r # None => Counts(r, n), Orphaned(r) # None
    PROVE  Counts(Orphaned(r), m)
<1>1. Orphaned(r) = [r EXCEPT !.own = FALSE] /\ Counts(r, n)
  BY DEF Orphaned
<1>2. Orphaned(r) = [mean |-> r.mean, misses |-> r.misses, strikes |-> r.strikes, own |-> FALSE]
  BY <1>1 DEF Counts
<1> HIDE DEF Orphaned
<1> QED
  BY <1>2 DEF Counts

-----------------------------------------------------------------------------
(* The steps. *)

\* What a rerank makes of one position, and why it closes it.
LEMMA DecayStep ==
    ASSUME IInv, NEW s \in Symbols, DecayNext(s)
    PROVE  /\ IInv'
           /\ closing' # None =>
                /\ closing' = s
                /\ \/ signals[s] # None /\ Flipped(tp[s], signals[s])
                   \/ doubts'[s] >= MaxStrikes \/ doubts'[s] >= MaxMisses
                   \/ ~tp[s].own
<1> DEFINE q == signals[s]
           agrees == q # None /\ ~Unhealthy(q) /\ (s \in selected \/ s \notin open)
           r == IF tp[s] = None THEN None ELSE Counted(tp[s], q, InTopK(s))
           m == IF agrees THEN doubts[s] ELSE Up(doubts[s], MaxMisses)
<1>1. doubts[s] \in Nat /\ m \in Nat /\ doubts[s] <= m
  BY Limits, UpTo DEF IInv, TypeOK
<1>2. tp' = [tp EXCEPT ![s] = r] /\ doubts' = [doubts EXCEPT ![s] = m]
  BY DEF DecayNext
<1>3. fileTp' = fileTp
  BY DEF DecayNext, disk
<1>4. closing' # None => closing' = s /\ r # None /\ Decays(r, q)
  BY DEF DecayNext
<1>5. r # None => /\ tp[s] # None /\ Counts(r, m)
                  /\ r.mean = tp[s].mean /\ r.own = tp[s].own
  <2> SUFFICES ASSUME tp[s] # None
               PROVE  /\ Counts(Counted(tp[s], q, InTopK(s)), m)
                      /\ Counted(tp[s], q, InTopK(s)).mean = tp[s].mean
                      /\ Counted(tp[s], q, InTopK(s)).own = tp[s].own
    OBVIOUS
  <2>1. Counts(tp[s], doubts[s])
    BY DEF IInv, Owned
  <2>2. agrees \in BOOLEAN /\ InTopK(s) \in BOOLEAN
    BY DEF InTopK
  <2>3. agrees => q # None /\ ~Unhealthy(q) /\ InTopK(s)
    BY DEF InTopK
  <2> HIDE DEF agrees, q
  <2> QED
    BY <1>1, <2>1, <2>2, <2>3, CountedCounts
<1> HIDE DEF r, m, q
<1>6. IInv'
  <2>1. TypeOK'
    BY <1>1, <1>2, <1>3 DEF IInv, TypeOK
  <2>2. /\ tp'[s] = r /\ doubts'[s] = m
        /\ \A t \in Symbols \ {s} : tp'[t] = tp[t] /\ doubts'[t] = doubts[t]
    BY <1>2 DEF IInv, TypeOK
  <2>3. Owned(tp)'
    BY <1>5, <2>2 DEF IInv, Owned
  <2>4. fileTp[s] # None => Counts(fileTp[s], m)
    BY <1>1, CountsMore DEF IInv, Owned
  <2>5. Owned(fileTp)'
    BY <1>3, <2>2, <2>4 DEF IInv, Owned
  <2> QED
    BY <2>1, <2>3, <2>5 DEF IInv
<1>7. ASSUME closing' # None
      PROVE  \/ q # None /\ Flipped(tp[s], q)
             \/ m >= MaxStrikes \/ m >= MaxMisses
             \/ ~tp[s].own
  <2> SUFFICES ASSUME tp[s].own
               PROVE  \/ q # None /\ Flipped(tp[s], q)
                      \/ m >= MaxStrikes \/ m >= MaxMisses
    OBVIOUS
  <2>1. /\ Decays(r, q) /\ Counts(r, m) /\ r.mean = tp[s].mean /\ r.own
    BY <1>4, <1>5, <1>7
  <2>2. CASE r.strikes >= MaxStrikes
    BY <1>1, <2>1, <2>2, Limits DEF Counts
  <2>3. CASE q # None /\ Flipped(r, q)
    BY <2>1, <2>3 DEF Flipped
  <2>4. CASE r.misses >= MaxMisses
    BY <1>1, <2>1, <2>4, Limits DEF Counts
  <2> QED
    BY <2>1, <2>2, <2>3, <2>4 DEF Decays
<1>8. doubts'[s] = m
  BY <1>2 DEF IInv, TypeOK
<1> QED
  BY <1>4, <1>6, <1>7, <1>8 DEF q

\* A position that leaves takes its record with it.
LEMMA LeftKeeps ==
    ASSUME IInv, NEW s, Left(s), UNCHANGED <<doubts, disk>>
    PROVE  IInv'
<1>1. tp' = [tp EXCEPT ![s] = None] /\ fileTp' = fileTp /\ doubts' = doubts
  BY DEF Left, disk
<1>2. \A t \in Symbols : tp'[t] = IF t = s THEN None ELSE tp[t]
  BY <1>1 DEF IInv, TypeOK
<1>3. TypeOK'
  BY <1>1 DEF IInv, TypeOK
<1> QED
  BY <1>1, <1>2, <1>3 DEF IInv, Owned

LEMMA FilledKeeps ==
    ASSUME IInv, EntryFilled
    PROVE  IInv'
<1> DEFINE s == entering
           r == Registered(s)
           o == Orphaned(fileTp[s])
<1>1. /\ tp' = [tp EXCEPT ![s] = r] /\ doubts' = [doubts EXCEPT ![s] = 0]
      /\ fileTp' = [fileTp EXCEPT ![s] = o]
  BY DEF EntryFilled
<1>2. CASE s \in Symbols
  <2>1. r # None => Counts(r, 0)
    <3>1. CASE signals[s] = None
      <4>1. r = Orphaned(tp[s])
        BY <3>1 DEF Registered
      <4>2. tp[s] # None => Counts(tp[s], doubts[s])
        BY <1>2 DEF IInv, Owned
      <4> HIDE DEF r, s
      <4> QED
        BY <4>1, <4>2, OrphanedCounts
    <3>2. CASE signals[s] # None
      BY <3>2 DEF Registered, Counts
    <3> QED
      BY <3>1, <3>2
  <2>2. o # None => Counts(o, 0)
    <3>1. fileTp[s] # None => Counts(fileTp[s], doubts[s])
      BY <1>2 DEF IInv, Owned
    <3> QED
      BY <3>1, OrphanedCounts
  <2> HIDE DEF r, o
  <2>3. TypeOK'
    BY <1>1 DEF IInv, TypeOK
  <2>4. /\ tp'[s] = r /\ fileTp'[s] = o /\ doubts'[s] = 0
        /\ \A t \in Symbols \ {s} :
             tp'[t] = tp[t] /\ fileTp'[t] = fileTp[t] /\ doubts'[t] = doubts[t]
    BY <1>1, <1>2 DEF IInv, TypeOK
  <2>5. Owned(tp)' /\ Owned(fileTp)'
    BY <2>1, <2>2, <2>4 DEF IInv, Owned
  <2> QED
    BY <2>3, <2>5 DEF IInv
<1>3. CASE s \notin Symbols
  <2> HIDE DEF r, o
  <2>1. tp' = tp /\ fileTp' = fileTp /\ doubts' = doubts
    BY <1>1, <1>3 DEF IInv, TypeOK
  <2> QED
    BY <2>1 DEF IInv, TypeOK, Owned
<1> QED
  BY <1>2, <1>3

\* A start finds the records that were saved, or none.
LEMMA RestartKeeps ==
    ASSUME IInv, Restart
    PROVE  IInv'
<1>1. doubts' = doubts
  BY DEF Restart
<1>2. PICK file \in {Snapshot, LastSave, Blank} : Restored(file)
  BY DEF Restart
<1>3. file.tp \in {tp, fileTp, NoRecords}
  BY <1>2 DEF Snapshot, LastSave, Blank
<1>4. Owned(NoRecords)
  BY DEF Owned, NoRecords
<1>5. Owned(file.tp) /\ file.tp = [s \in Symbols |-> file.tp[s]]
  BY <1>3, <1>4 DEF IInv, TypeOK, NoRecords
<1>6. fileTp' \in {file.tp, NoRecords}
  BY <1>2 DEF Restored
<1>7. Owned(fileTp)' /\ fileTp' = [s \in Symbols |-> fileTp'[s]]
  BY <1>1, <1>4, <1>5, <1>6 DEF Owned, NoRecords
<1>8. PICK gone : tp' = [s \in Symbols |-> IF s \in gone THEN None ELSE file.tp[s]]
  BY <1>2 DEF Restored
<1>9. Owned(tp)'
  BY <1>1, <1>5, <1>8 DEF Owned
<1>10. TypeOK'
  BY <1>1, <1>7, <1>8 DEF IInv, TypeOK
<1> QED
  BY <1>7, <1>9, <1>10 DEF IInv

LEMMA QuietKeeps ==
    ASSUME IInv, UNCHANGED <<book, disk>>
    PROVE  IInv'
BY DEF book, disk, IInv, TypeOK, Owned

LEMMA Inductive == IInv /\ [Next]_vars => IInv'
<1> SUFFICES ASSUME IInv, [Next]_vars
             PROVE  IInv'
  OBVIOUS
<1>1. CASE Begin \/ RerankStart \/ ScanDone \/ ScanFails \/ RerankRaises \/ Assign
           \/ CloseNotDone \/ RerankDone \/ EntryRefused \/ UNCHANGED vars
  <2>1. UNCHANGED <<book, disk>>
    BY <1>1 DEF Begin, RerankStart, ScanDone, ScanFails, Scanned, RerankRaises, Assign,
                CloseNotDone, RerankDone, EntryRefused, vars
  <2> QED
    BY <2>1, QuietKeeps
<1>2. ASSUME NEW s \in Symbols, DecayNext(s)
      PROVE  IInv'
  BY <1>2, DecayStep
<1>3. ASSUME NEW s \in Symbols, EntryCheck(s) \/ Load(s)
      PROVE  IInv'
  <2>1. UNCHANGED <<book, disk>>
    BY <1>3 DEF EntryCheck, Load
  <2> QED
    BY <2>1, QuietKeeps
<1>4. ASSUME NEW s \in Symbols, Leaves(s)
      PROVE  IInv'
  BY <1>4, LeftKeeps DEF Leaves
<1>5. CASE CloseDone
  BY <1>5, LeftKeeps DEF CloseDone
<1>6. CASE EntryFilled
  BY <1>6, FilledKeeps
<1>7. CASE Restart
  BY <1>7, RestartKeeps
<1>8. ASSUME NEW session, MarketsTurn(session)
      PROVE  IInv'
  BY <1>8, QuietKeeps DEF MarketsTurn
<1> QED
  BY <1>1, <1>2, <1>3, <1>4, <1>5, <1>6, <1>7, <1>8 DEF Next

-----------------------------------------------------------------------------

\* Only the decay exits begin the close of a decayed position.
LEMMA OnlyDecayCloses ==
    ASSUME [Next]_vars, closing = None, closing' # None
    PROVE  \E s \in Symbols : DecayNext(s)
<1> SUFFICES ASSUME ~\E s \in Symbols : DecayNext(s)
             PROVE  closing' = None
  OBVIOUS
<1>1. CASE Begin \/ RerankStart \/ RerankRaises \/ Assign \/ CloseDone \/ CloseNotDone
           \/ RerankDone \/ UNCHANGED vars
  BY <1>1 DEF Begin, RerankStart, RerankRaises, Assign, CloseDone, CloseNotDone,
              RerankDone, vars, loop
<1>2. CASE ScanDone \/ ScanFails
  BY <1>2 DEF ScanDone, ScanFails, Scanned
<1>3. CASE EntryFilled \/ EntryRefused \/ Restart
  BY <1>3 DEF EntryFilled, EntryRefused, Restart, loop
<1>4. CASE \E s \in Symbols : EntryCheck(s) \/ Leaves(s) \/ Load(s)
  BY <1>4 DEF EntryCheck, Leaves, Load, loop
<1>5. CASE \E session \in Sessions : MarketsTurn(session)
  BY <1>5 DEF MarketsTurn, loop
<1> QED
  BY <1>1, <1>2, <1>3, <1>4, <1>5 DEF Next

(* Signal decay closes a position because a rerank saw its direction turn,  *)
(* or several reranks since its entry disagreed with it, unless its record  *)
(* is an earlier position's (evaluate_signal and the counters it keeps over *)
(* re-entries, closed markets, crashes and failed starts).                  *)
THEOREM DecayHasReasons == Spec => DecayDeserved
<1> DEFINE Reasoned ==
             closing = None /\ closing' # None =>
               LET s == closing' IN
               \/ signals[s] # None /\ Flipped(tp[s], signals[s])
               \/ doubts'[s] >= MaxStrikes \/ doubts'[s] >= MaxMisses
               \/ ~tp[s].own
<1>1. IInv /\ [Next]_vars => Reasoned
  <2> SUFFICES ASSUME IInv, [Next]_vars, closing = None, closing' # None
               PROVE  LET s == closing' IN
                      \/ signals[s] # None /\ Flipped(tp[s], signals[s])
                      \/ doubts'[s] >= MaxStrikes \/ doubts'[s] >= MaxMisses
                      \/ ~tp[s].own
    OBVIOUS
  <2>1. PICK s \in Symbols : DecayNext(s)
    BY OnlyDecayCloses
  <2> QED
    BY <2>1, DecayStep
<1>2. IInv /\ [Next]_vars => [Reasoned]_vars
  BY <1>1
<1> HIDE DEF Reasoned
<1>3. Spec => [][Reasoned]_vars
  BY InitIInv, Inductive, <1>2, PTL DEF Spec
<1> QED
  BY <1>3 DEF Reasoned, DecayDeserved

-----------------------------------------------------------------------------
(* The selection and the entries on it. *)

\* A scan leaves the picks of a ranking of symbols that pass.
LEMMA ScannedPicks ==
    ASSUME SelectionInv, NEW sigs, Scanned(sigs)
    PROVE  SelectionInv'
<1>1. /\ phase' = "assign" /\ signals' = sigs /\ raced' = (entering # None)
      /\ ranked' \in Rankings(Candidates(sigs)) /\ chosen' = Picked(ranked', matrix')
      /\ entering' = entering /\ open' = open /\ fileTopk' = fileTopk
  BY DEF Scanned, disk
<1>2. Candidates(sigs) \in SUBSET Passing'
  BY <1>1 DEF Candidates, Passing, PassingOf, SelectionInv
<1>3. PicksPass'
  BY <1>1, <1>2 DEF PicksPass
<1>4. EntryPasses'
  BY <1>1 DEF EntryPasses
<1> QED
  BY <1>1, <1>3, <1>4 DEF SelectionInv, TopkPasses

\* The picks between a scan and its assignment pass, and are greedy.
LEMMA PicksAreGreedy ==
    ASSUME SelectionInv, phase = "assign"
    PROVE  SelectionGreedy /\ chosen \subseteq Passing
<1>1. PICK S \in SUBSET Passing : ranked \in Rankings(S) /\ chosen = Picked(ranked, matrix)
  BY DEF SelectionInv, PicksPass
<1>2. S \in SUBSET Symbols
  BY DEF Passing, PassingOf
<1>3. PICK n \in Nat : /\ DOMAIN ranked = 1..n
                       /\ \A i \in 1..n : ranked[i] \in S
                       /\ \A i, j \in 1..n : ranked[i] = ranked[j] => i = j
  BY <1>1, <1>2, RankingPlaces
<1>4. /\ chosen \subseteq {ranked[i] : i \in 1..n}
      /\ \A i \in 1..n :
           LET better == {ranked[j] : j \in 1..(i - 1)} \cap chosen
           IN ranked[i] \in chosen
                <=> Cardinality(better) < K /\ ~Blocked(ranked[i], better, matrix)
  BY <1>1, <1>3, PickedIsGreedy
<1>5. chosen \subseteq Passing
  BY <1>3, <1>4
<1>6. SelectionGreedy
  BY <1>3, <1>4 DEF SelectionGreedy
<1> QED
  BY <1>5, <1>6

LEMMA AssignKeeps ==
    ASSUME SelectionInv, Assign
    PROVE  SelectionInv'
<1>1. /\ phase = "assign" /\ phase' = "exits" /\ selected' \subseteq chosen
      /\ UNCHANGED <<signals, open, entering, raced, fileTopk>>
  BY DEF Assign, NewSelection, disk
<1>2. Passing' = Passing
  BY <1>1 DEF Passing, PassingOf
<1>3. PicksPass'
  BY <1>1, <1>2, PicksAreGreedy DEF PicksPass
<1>4. EntryPasses'
  BY <1>1 DEF SelectionInv, EntryPasses
<1> QED
  BY <1>1, <1>3, <1>4 DEF SelectionInv, TopkPasses

\* The other steps: the loop neither enters nor leaves the assignment, the
\* signals and picks stay, and an entry begins only on the selection.
LEMMA NoScanKeeps ==
    ASSUME SelectionInv, UNCHANGED <<pick, signals, selected, torn, fileTopk>>,
           open' \subseteq Symbols,
           phase' = phase \/ (phase # "assign" /\ phase' # "assign"),
           \/ entering' = entering /\ raced' = raced
           \/ entering' = None
           \/ entering' \in selected /\ raced' = (phase = "assign" \/ torn)
    PROVE  SelectionInv'
<1>1. Passing' = Passing
  BY DEF Passing, PassingOf
<1>2. PicksPass'
  BY <1>1 DEF SelectionInv, PicksPass, pick
<1>3. EntryPasses'
  BY <1>1 DEF SelectionInv, PicksPass, EntryPasses
<1> QED
  BY <1>2, <1>3 DEF SelectionInv, TopkPasses

\* A shutdown saves a selection that passes, or marks it torn; a start
\* restores what passes, or nothing.
LEMMA RestartSelects ==
    ASSUME SelectionInv, Restart
    PROVE  SelectionInv'
<1>1. phase' = "wait" /\ entering' = None /\ open' = open
  BY DEF Restart
<1>2. PICK file \in {Snapshot, LastSave, Blank} : Restored(file)
  BY DEF Restart
<1>3. TopkPasses(Snapshot.topk)
  <2>1. CASE scanned
    <3>1. Snapshot.topk = [signals |-> signals, selected |-> selected,
                           torn |-> torn \/ phase = "assign"]
      BY <2>1 DEF Snapshot
    <3>2. ~(torn \/ phase = "assign") => selected \subseteq PassingOf(signals)
      BY DEF SelectionInv, PicksPass, Passing
    <3>3. /\ Snapshot.topk.selected = selected /\ Snapshot.topk.signals = signals
          /\ Snapshot.topk.torn = (torn \/ phase = "assign")
      BY <3>1
    <3> HIDE DEF Snapshot
    <3> QED
      BY <3>2, <3>3, Zenon DEF TopkPasses
  <2>2. CASE ~scanned
    BY <2>2 DEF Snapshot, SelectionInv
  <2> QED
    BY <2>1, <2>2
<1>4. TopkPasses(None)
  BY DEF TopkPasses
<1>5. TopkPasses(file.topk)
  BY <1>2, <1>3, <1>4 DEF LastSave, Blank, SelectionInv
<1>6. TopkPasses(fileTopk')
  <2>1. fileTopk' \in {file.topk, None}
    BY <1>2 DEF Restored
  <2> QED
    BY <1>4, <1>5, <2>1
<1>7. \/ /\ file.topk # None /\ torn' = file.topk.torn
         /\ signals' = file.topk.signals /\ selected' = file.topk.selected
      \/ selected' = {}
  BY <1>2 DEF Restored
<1>8. ~torn' => selected' \subseteq PassingOf(signals')
  BY <1>5, <1>7 DEF TopkPasses
<1>9. PicksPass'
  BY <1>1, <1>8 DEF PicksPass, Passing, PassingOf
<1> QED
  BY <1>1, <1>6, <1>9 DEF SelectionInv, EntryPasses, TopkPasses, PassingOf

LEMMA SelectionInductive == SelectionInv /\ [Next]_vars => SelectionInv'
<1> SUFFICES ASSUME SelectionInv, [Next]_vars
             PROVE  SelectionInv'
  OBVIOUS
<1>0. open \subseteq Symbols /\ \A session \in Sessions : session \subseteq Symbols
  BY RerankAssumption DEF SelectionInv
<1>1. CASE ScanDone \/ ScanFails
  BY <1>1, ScannedPicks DEF ScanDone, ScanFails
<1>2. CASE Assign
  BY <1>2, AssignKeeps
<1>3. CASE Restart
  BY <1>3, RestartSelects
<1>4. CASE Begin \/ RerankStart \/ RerankRaises \/ CloseDone \/ CloseNotDone \/ RerankDone
           \/ EntryFilled \/ EntryRefused \/ UNCHANGED vars
  <2>1. /\ UNCHANGED <<pick, signals, selected, torn, fileTopk, open>>
        /\ phase' = phase \/ (phase # "assign" /\ phase' # "assign")
        /\ (entering' = entering /\ raced' = raced) \/ entering' = None
    BY <1>4 DEF Begin, RerankStart, RerankRaises, CloseDone, CloseNotDone, RerankDone,
                EntryFilled, EntryRefused, vars, loop, topk, pick, disk
  <2> QED
    BY <1>0, <2>1, NoScanKeeps
<1>5. ASSUME NEW s \in Symbols, DecayNext(s) \/ Leaves(s) \/ Load(s)
      PROVE  SelectionInv'
  <2>1. /\ UNCHANGED <<pick, signals, selected, torn, fileTopk, open, phase, entering, raced>>
    BY <1>5 DEF DecayNext, Leaves, Load, loop, topk, disk
  <2> QED
    BY <1>0, <2>1, NoScanKeeps
<1>6. ASSUME NEW s \in Symbols, EntryCheck(s)
      PROVE  SelectionInv'
  <2>1. /\ UNCHANGED <<pick, signals, selected, torn, fileTopk, open, phase>>
        /\ entering' \in selected /\ raced' = (phase = "assign" \/ torn)
    BY <1>6 DEF EntryCheck, loop, topk, disk
  <2> QED
    BY <1>0, <2>1, NoScanKeeps
<1>7. ASSUME NEW session \in Sessions, MarketsTurn(session)
      PROVE  SelectionInv'
  <2>1. /\ UNCHANGED <<pick, signals, selected, torn, fileTopk, phase, entering, raced>> /\ open' = session
    BY <1>7 DEF MarketsTurn, loop, topk, disk
  <2> QED
    BY <1>0, <2>1, NoScanKeeps
<1> QED
  BY <1>1, <1>2, <1>3, <1>4, <1>5, <1>6, <1>7 DEF Next

LEMMA GreedyEnough == SelectionInv => SelectionGreedy
<1>1. CASE phase = "assign"
  BY <1>1, PicksAreGreedy
<1>2. CASE phase # "assign"
  BY <1>2 DEF SelectionGreedy
<1> QED
  BY <1>1, <1>2

(* The selection is the greedy one for every number of symbols, every        *)
(* ranking and every correlation matrix: a candidate is in exactly when      *)
(* fewer than k better ones are and none of them is too correlated with it   *)
(* (select_top_k, select_uncorrelated).                                      *)
THEOREM Greedy == Spec => []SelectionGreedy
BY InitIInv, SelectionInductive, GreedyEnough, PTL DEF Spec

\* Only a fill adds a position, of the symbol whose entry is in progress.
LEMMA OnlyFillsHold ==
    ASSUME [Next]_vars, NEW s \in held' \ held
    PROVE  s = entering /\ EntryFilled
<1> SUFFICES ASSUME ~EntryFilled
             PROVE  held' \subseteq held
  BY DEF EntryFilled
<1>1. CASE Begin \/ RerankStart \/ RerankRaises \/ Assign \/ CloseDone \/ CloseNotDone
           \/ RerankDone \/ EntryRefused \/ Restart \/ UNCHANGED vars
  BY <1>1 DEF Begin, RerankStart, RerankRaises, Assign, CloseDone, CloseNotDone,
              RerankDone, EntryRefused, Restart, Restored, vars, book, Left
<1>2. CASE ScanDone \/ ScanFails
  BY <1>2 DEF ScanDone, ScanFails, Scanned, book
<1>3. CASE \E t \in Symbols : DecayNext(t) \/ EntryCheck(t) \/ Leaves(t) \/ Load(t)
  BY <1>3 DEF DecayNext, EntryCheck, Leaves, Load, book, Left
<1>4. CASE \E session \in Sessions : MarketsTurn(session)
  BY <1>4 DEF MarketsTurn, book
<1> QED
  BY <1>1, <1>2, <1>3, <1>4 DEF Next

(* An order goes out against the latest signal of its symbol only if a scan  *)
(* ended, or was not assigned yet, between the entry's selection check and   *)
(* its order (maybe_enter, RerankRunner.run), whatever else interleaves; a   *)
(* shutdown that saves the unassigned scan counts as such a window, up to    *)
(* the next run's first assignment (_restore_persisted_state).               *)
THEOREM EntriesOnSignals == Spec => EntryOnSignal
<1> DEFINE OnSignal ==
             held' \ held # {} /\ ~raced =>
               \A s \in held' \ held : signals[s] # None /\ Tradeable(signals[s])
<1>1. SelectionInv /\ [Next]_vars => OnSignal
  <2> SUFFICES ASSUME SelectionInv, [Next]_vars, ~raced, NEW s \in held' \ held
               PROVE  signals[s] # None /\ Tradeable(signals[s])
    OBVIOUS
  <2>1. s = entering /\ entering \in Fillable
    BY OnlyFillsHold DEF EntryFilled
  <2>2. entering # None
    BY <2>1, RerankAssumption
  <2> QED
    BY <2>1, <2>2 DEF SelectionInv, EntryPasses, Passing, PassingOf
<1>2. SelectionInv /\ [Next]_vars => [OnSignal]_vars
  BY <1>1
<1> HIDE DEF OnSignal
<1>3. Spec => [][OnSignal]_vars
  BY InitIInv, SelectionInductive, <1>2, PTL DEF Spec
<1> QED
  BY <1>3 DEF OnSignal, EntryOnSignal
=============================================================================
