----------------------------- MODULE Feeds_proofs -----------------------------
(***************************************************************************)
(* The candle feeds, for any trading calendar, any size of the buffer and  *)
(* any number of crashes and failures: memory and disk agree about every   *)
(* hour, ticks make no bar of an hour that is not over, and the strategy   *)
(* keeps its bars.  Then the Lightstreamer connections: one client, one    *)
(* recovery, nothing after the shutdown.                                   *)
(***************************************************************************)
EXTENDS CandleFeed, LSStreams, FiniteSetTheorems, WellFoundedInduction, TLAPS

\* One version of an hour at most, as in the candles table.
Single(bars) == \A b, c \in bars : b.hour = c.hour => b = c
Table(bars)  == bars \subseteq Bars /\ IsFiniteSet(bars) /\ Single(bars)

-----------------------------------------------------------------------------
(* Hours, and the largest of finitely many. *)

LEMMA HourIsNat == \A i \in Nat : Hour(i) \in Nat
BY HourlyBarsAssumption DEF Hour

LEMMA HourMonotone == \A i, j \in Nat : i <= j => Hour(i) <= Hour(j)
BY HourlyBarsAssumption DEF Hour

\* Induction over the naturals, of the numbers in a set.
LEMMA Induction ==
    ASSUME NEW G, 0 \in G, \A n \in Nat : n \in G => n + 1 \in G
    PROVE  Nat \subseteq G
<1> DEFINE R == {ss \in Nat \X Nat : ss[1] < ss[2]}
           Bad == Nat \ G
<1>1. IsWellFoundedOn(R, Nat)
  BY NatLessThanWellFounded DEF OpToRel
<1>2. ASSUME Bad # {}
      PROVE  FALSE
  <2> HIDE DEF R
  <2>1. Bad \subseteq Nat
    OBVIOUS
  <2> HIDE DEF Bad
  <2>2. PICK m \in Bad : \A k \in Bad : ~(<<k, m>> \in R)
    BY <1>1, <1>2, <2>1, WFMin
  <2>3. m \in Nat /\ m \notin G
    BY <2>1 DEF Bad
  <2>4. m # 0 /\ m - 1 \in Nat /\ (m - 1) + 1 = m
    BY <2>3
  <2>5. m - 1 \notin G
    BY <2>3, <2>4
  <2>6. m - 1 \in Bad /\ <<m - 1, m>> \in Nat \X Nat /\ m - 1 < m
    BY <2>3, <2>4, <2>5 DEF Bad
  <2>7. <<m - 1, m>> \in R
    BY <2>6 DEF R
  <2> QED
    BY <2>2, <2>6, <2>7
<1> QED
  BY <1>2

Bounded(T) == /\ \E x \in T : \A y \in T : x >= y
              /\ \E x \in T : \A y \in T : x <= y

\* By induction on the number of elements.
LEMMA FiniteBounded ==
    ASSUME NEW S \in SUBSET Int, IsFiniteSet(S), S # {}
    PROVE  Bounded(S)
<1> DEFINE G == {n \in Nat : \A T \in SUBSET Int :
                     IsFiniteSet(T) /\ Cardinality(T) = n + 1 => Bounded(T)}
<1>1. 0 \in G
  <2>1. ASSUME NEW T \in SUBSET Int, IsFiniteSet(T), Cardinality(T) = 0 + 1
        PROVE  Bounded(T)
    <3>0. Cardinality(T) = 1
      BY <2>1
    <3>1. PICK x : T = {x}
      BY <2>1, <3>0, FS_Singleton
    <3> QED
      BY <3>1 DEF Bounded
  <2> QED
    BY <2>1
<1>2. ASSUME NEW n \in Nat, n \in G
      PROVE  n + 1 \in G
  <2>1. ASSUME NEW T \in SUBSET Int, IsFiniteSet(T), Cardinality(T) = (n + 1) + 1
        PROVE  Bounded(T)
    <3>0. Cardinality(T) # 0
      BY <2>1
    <3>1. PICK e \in T : TRUE
      BY <2>1, <3>0, FS_EmptySet
    <3>2. /\ IsFiniteSet(T \ {e}) /\ Cardinality(T \ {e}) = n + 1
          /\ T \ {e} \in SUBSET Int
      BY <2>1, <3>1, FS_RemoveElement
    <3>3. Bounded(T \ {e})
      BY <1>2, <3>2
    <3>4. PICK x \in T \ {e} : \A y \in T \ {e} : x >= y
      BY <3>3 DEF Bounded
    <3>5. PICK z \in T \ {e} : \A y \in T \ {e} : z <= y
      BY <3>3 DEF Bounded
    <3>6. {e, x, z} \subseteq Int
      BY <3>1
    <3>7. \E h \in T : \A y \in T : h >= y
      BY <3>1, <3>4, <3>6
    <3>8. \E h \in T : \A y \in T : h <= y
      BY <3>1, <3>5, <3>6
    <3> QED
      BY <3>7, <3>8 DEF Bounded
  <2> QED
    BY <2>1
<1> HIDE DEF G
<1>3. Nat \subseteq G
  BY <1>1, <1>2, Induction
<1>4. Cardinality(S) \in Nat /\ Cardinality(S) # 0
  BY FS_CardinalityType, FS_EmptySet
<1>5. Cardinality(S) - 1 \in G /\ (Cardinality(S) - 1) + 1 = Cardinality(S)
  BY <1>3, <1>4
<1> QED
  BY <1>5 DEF G

LEMMA MaxIs ==
    ASSUME NEW S \in SUBSET Int, IsFiniteSet(S), S # {}
    PROVE  Max(S) \in S /\ \A y \in S : Max(S) >= y
<1>1. \E x \in S : \A y \in S : x >= y
  BY FiniteBounded DEF Bounded
<1> QED
  BY <1>1, Zenon DEF Max

LEMMA MinIs ==
    ASSUME NEW S \in SUBSET Int, IsFiniteSet(S), S # {}
    PROVE  Min(S) \in S /\ \A y \in S : Min(S) <= y
<1>1. \E x \in S : \A y \in S : x <= y
  BY FiniteBounded DEF Bounded
<1> QED
  BY <1>1, Zenon DEF Min

LEMMA MaxWith ==
    ASSUME NEW S \in SUBSET Int, IsFiniteSet(S), NEW x \in Int
    PROVE  Max({x} \cup S) \in {x} \cup S /\ Max({x} \cup S) >= x
<1>1. {x} \cup S = S \cup {x} /\ x \in {x} \cup S /\ {x} \cup S \in SUBSET Int
  OBVIOUS
<1>2. IsFiniteSet({x} \cup S)
  BY <1>1, FS_AddElement
<1> QED
  BY <1>1, <1>2, MaxIs

LEMMA MaxOfTwo ==
    ASSUME NEW x \in Int, NEW y \in Int
    PROVE  Max({x, y}) \in {x, y} /\ Max({x, y}) >= x
<1>1. {x, y} = {x} \cup {y} /\ {y} \in SUBSET Int /\ IsFiniteSet({y})
  BY FS_Singleton
<1> QED
  BY <1>1, MaxWith

LEMMA FiniteImage ==
    ASSUME NEW S, IsFiniteSet(S), NEW f, f = [x \in S |-> f[x]]
    PROVE  IsFiniteSet({f[x] : x \in S})
<1>1. f \in Surjection(S, {f[x] : x \in S})
  BY DEF Surjection
<1> QED
  BY <1>1, FS_Surjection

-----------------------------------------------------------------------------
(* The buffer and the table. *)

LEMMA SubTable ==
    ASSUME NEW bars, Table(bars), NEW part \in SUBSET bars
    PROVE  Table(part)
<1>1. IsFiniteSet(part)
  BY FS_Subset DEF Table
<1> QED
  BY <1>1 DEF Table, Single

LEMMA HoursAre ==
    ASSUME NEW bars, Table(bars)
    PROVE  Hours(bars) \in SUBSET Nat /\ IsFiniteSet(Hours(bars))
<1> DEFINE f == [b \in bars |-> b.hour]
<1>1. Hours(bars) = {f[b] : b \in bars} /\ f = [b \in bars |-> f[b]]
  BY DEF Hours
<1>2. Hours(bars) \in SUBSET Nat
  BY DEF Hours, Table, Bars
<1> HIDE DEF f
<1> QED
  BY <1>1, <1>2, FiniteImage DEF Table

LEMMA NewestIs ==
    ASSUME NEW bars, Table(bars)
    PROVE  /\ Newest(bars) \in Int
           /\ Newest(bars) = -1 \/ \E b \in bars : b.hour = Newest(bars)
           /\ \A b \in bars : b.hour <= Newest(bars) /\ b.hour \in Nat
<1> DEFINE S == {-1} \cup Hours(bars)
<1>1. S \in SUBSET Int /\ S # {} /\ IsFiniteSet(S)
  <2>1. Hours(bars) \in SUBSET Nat /\ IsFiniteSet(Hours(bars))
    BY HoursAre
  <2>2. IsFiniteSet({-1})
    BY FS_Singleton
  <2>3. IsFiniteSet(S)
    BY <2>1, <2>2, FS_Union
  <2> QED
    BY <2>1, <2>3
<1>2. \A b \in bars : b.hour \in S /\ b.hour \in Nat
  BY DEF Hours, Table, Bars
<1>3. \A h \in S : h = -1 \/ \E b \in bars : b.hour = h
  BY DEF Hours
<1>4. Newest(bars) = Max(S)
  BY DEF Newest
<1> HIDE DEF S
<1>5. Max(S) \in S /\ \A y \in S : Max(S) >= y
  BY <1>1, MaxIs
<1> QED
  BY <1>1, <1>2, <1>3, <1>4, <1>5

\* A full deque leaves out its oldest bars.
LEMMA LastIs ==
    ASSUME NEW bars, Table(bars), NEW n \in Nat \ {0}
    PROVE  /\ Last(bars, n) \subseteq bars
           /\ Table(Last(bars, n))
           /\ Newest(Last(bars, n)) = Newest(bars)
<1>1. Last(bars, n) \in SUBSET bars
  BY DEF Last
<1>2. Table(Last(bars, n))
  BY <1>1, SubTable
<1>3. CASE Newest(bars) = -1
  <2>1. \A b \in Last(bars, n) : b.hour <= -1 /\ b.hour \in Nat
    BY <1>1, <1>3, NewestIs
  <2> QED
    BY <1>2, <1>3, <2>1, NewestIs
<1>4. CASE Newest(bars) # -1
  <2>1. PICK b \in bars : b.hour = Newest(bars)
    BY <1>4, NewestIs
  <2>2. {c \in bars : c.hour > b.hour} = {}
    BY <2>1, NewestIs
  <2>3. Cardinality({c \in bars : c.hour > b.hour}) = 0
    BY <2>2, FS_EmptySet
  <2>4. b \in Last(bars, n)
    BY <2>3 DEF Last
  <2>5. /\ Newest(Last(bars, n)) \in Int /\ Newest(bars) \in Int
        /\ Newest(bars) <= Newest(Last(bars, n))
    BY <1>2, <2>1, <2>4, NewestIs
  <2>6. Newest(bars) \in Nat
    BY <2>1, NewestIs
  <2>7. PICK c \in Last(bars, n) : c.hour = Newest(Last(bars, n))
    BY <1>2, <2>5, <2>6, NewestIs
  <2>8. c \in bars /\ c.hour <= Newest(bars)
    BY <1>1, <2>7, NewestIs
  <2> QED
    BY <1>1, <1>2, <2>5, <2>7, <2>8
<1> QED
  BY <1>1, <1>2, <1>3, <1>4

LEMMA AfterIs ==
    ASSUME NEW bars, NEW h
    PROVE  After(bars, h) \subseteq bars /\ \A b \in After(bars, h) : b.hour > h
BY DEF After

LEMMA UnionTable ==
    ASSUME NEW old, NEW new, Table(old), Table(new),
           \A b \in new : b.hour \notin Hours(old)
    PROVE  Table(old \cup new)
<1>1. IsFiniteSet(old \cup new)
  BY FS_Union DEF Table
<1> QED
  BY <1>1 DEF Table, Single, Hours

LEMMA InsertIs ==
    ASSUME NEW rows, NEW bars, Table(rows), Table(bars)
    PROVE  Table(insert_candles(rows, bars))
<1>1. Table({b \in bars : b.hour \notin Hours(rows)})
  BY SubTable
<1> QED
  BY <1>1, UnionTable DEF insert_candles

LEMMA AddedTable ==
    ASSUME NEW buf, NEW bars, Table(buf), Table(bars)
    PROVE  Table(buf \cup After(bars, Newest(buf)))
<1> DEFINE new == After(bars, Newest(buf))
<1>1. Table(new) /\ \A b \in new : b.hour > Newest(buf)
  BY AfterIs, SubTable
<1>2. \A h \in Hours(buf) : h <= Newest(buf) /\ h \in Nat
  BY NewestIs DEF Hours
<1> HIDE DEF new
<1>3. \A b \in new : b.hour \notin Hours(buf)
  BY <1>1, <1>2, NewestIs
<1>4. Table(buf \cup new)
  BY <1>1, <1>3, UnionTable
<1> QED
  BY <1>4 DEF new

LEMMA AddIs ==
    ASSUME NEW buf, NEW bars, Table(buf), Table(bars)
    PROVE  /\ Table(add_candles(buf, bars))
           /\ add_candles(buf, bars) \subseteq buf \cup After(bars, Newest(buf))
           /\ Newest(buf) <= Newest(add_candles(buf, bars))
           /\ \A b \in bars : b.hour <= Newest(add_candles(buf, bars))
<1> DEFINE new == After(bars, Newest(buf))
<1>1. \A b \in bars : b \in new \/ b.hour <= Newest(buf)
  BY NewestIs DEF After
<1>2. Table(buf \cup new)
  BY AddedTable
<1> HIDE DEF new
<1>3. /\ Last(buf \cup new, Buffer) \subseteq buf \cup new
      /\ Table(Last(buf \cup new, Buffer))
      /\ Newest(Last(buf \cup new, Buffer)) = Newest(buf \cup new)
  BY <1>2, HourlyBarsAssumption, LastIs
<1>4. \A b \in buf \cup new : b.hour <= Newest(buf \cup new)
  BY <1>2, NewestIs
<1>5. Newest(buf) <= Newest(buf \cup new)
  <2>1. /\ Newest(buf) = -1 \/ \E b \in buf : b.hour = Newest(buf)
        /\ Newest(buf \cup new) = -1 \/ \E b \in buf \cup new : b.hour = Newest(buf \cup new)
    BY <1>2, NewestIs
  <2>2. \A b \in buf \cup new : b.hour \in Nat
    BY <1>2, NewestIs
  <2> QED
    BY <1>4, <2>1, <2>2
<1>6. \A b \in bars : b.hour <= Newest(buf \cup new)
  <2>1. Newest(buf) \in Int /\ Newest(buf \cup new) \in Int /\ \A b \in bars : b.hour \in Nat
    BY <1>2, NewestIs
  <2> QED
    BY <1>1, <1>4, <1>5, <2>1
<1>7. add_candles(buf, bars) = Last(buf \cup new, Buffer)
  BY DEF add_candles, new
<1> QED
  BY <1>3, <1>5, <1>6, <1>7 DEF new

\* How many bars of a table are later than x.
Later(bars, x) == {c \in bars : c.hour > x.hour}
Rank(bars, x)  == Cardinality(Later(bars, x))

LEMMA RankIs ==
    ASSUME NEW bars, Table(bars)
    PROVE  /\ \A x \in bars : Rank(bars, x) \in 0..(Cardinality(bars) - 1)
           /\ \A x, y \in bars : x.hour < y.hour => Rank(bars, y) < Rank(bars, x)
<1>1. ASSUME NEW x \in bars
      PROVE  IsFiniteSet(Later(bars, x)) /\ Rank(bars, x) \in 0..(Cardinality(bars) - 1)
  <2>1. IsFiniteSet(bars \ {x}) /\ Cardinality(bars \ {x}) = Cardinality(bars) - 1
    BY FS_RemoveElement DEF Table
  <2>2. x.hour \in Nat
    BY DEF Table, Bars
  <2>3. Later(bars, x) \in SUBSET (bars \ {x})
    BY <2>2 DEF Later
  <2>4. IsFiniteSet(Later(bars, x)) /\ Rank(bars, x) <= Cardinality(bars) - 1
    BY <2>1, <2>3, FS_Subset DEF Rank
  <2>5. Rank(bars, x) \in Nat /\ Cardinality(bars) \in Nat
    BY <2>4, FS_CardinalityType DEF Rank, Table
  <2> QED
    BY <2>4, <2>5
<1>2. ASSUME NEW x \in bars, NEW y \in bars, x.hour < y.hour
      PROVE  Rank(bars, y) < Rank(bars, x)
  <2>1. \A c \in bars : c.hour \in Nat
    BY DEF Table, Bars
  <2>2. /\ y \in Later(bars, x) /\ y \notin Later(bars, y)
        /\ Later(bars, y) \in SUBSET Later(bars, x)
    BY <1>2, <2>1 DEF Later
  <2>3. Rank(bars, y) <= Rank(bars, x) /\ Rank(bars, y) # Rank(bars, x)
    BY <1>1, <2>2, FS_Subset DEF Rank
  <2> QED
    BY <1>1, <2>3
<1> QED
  BY <1>1, <1>2

\* A bar that a full deque has dropped leaves it full, of later bars: the ranks
\* of the bars are the numbers below their count, each once.
LEMMA LastKeeps ==
    ASSUME NEW bars, Table(bars), NEW n \in Nat \ {0},
           NEW b \in bars, b \notin Last(bars, n)
    PROVE  /\ Cardinality(Last(bars, n)) = n
           /\ \A c \in Last(bars, n) : b.hour < c.hour
<1> DEFINE N == Cardinality(bars)
           f == [x \in bars |-> Rank(bars, x)]
           kept == Last(bars, n)
           g == [x \in kept |-> Rank(bars, x)]
<1>1. /\ \A x \in bars : Rank(bars, x) \in 0..(N - 1) /\ x.hour \in Nat
      /\ \A x, y \in bars : x.hour < y.hour => Rank(bars, y) < Rank(bars, x)
  BY RankIs DEF Table, Bars
<1>2. \A x, y \in bars : Rank(bars, x) = Rank(bars, y) => x = y
  <2> SUFFICES ASSUME NEW x \in bars, NEW y \in bars, Rank(bars, x) = Rank(bars, y)
               PROVE  x = y
    OBVIOUS
  <2>1. ~(x.hour < y.hour) /\ ~(y.hour < x.hour)
    BY <1>1
  <2>2. x.hour = y.hour
    BY <1>1, <2>1
  <2> QED
    BY <2>2 DEF Table, Single
<1>3. kept = {x \in bars : Rank(bars, x) < n}
  BY DEF Last, Rank, Later
<1>4. N \in Nat /\ Rank(bars, b) >= n /\ n <= N - 1
  <2>1. N \in Nat
    BY FS_CardinalityType DEF Table
  <2>2. Rank(bars, b) \in 0..(N - 1) /\ ~(Rank(bars, b) < n)
    BY <1>1, <1>3
  <2> QED
    BY <2>1, <2>2
<1>5. Cardinality(0..(N - 1)) = N /\ IsFiniteSet(0..(N - 1))
  <2> HIDE DEF N
  <2>1. /\ IsFiniteSet(0..(N - 1))
        /\ Cardinality(0..(N - 1)) = IF 0 > N - 1 THEN 0 ELSE (N - 1) - 0 + 1
    BY <1>4, FS_Interval
  <2> QED
    BY <1>4, <2>1
<1>6. f \in Injection(bars, 0..(N - 1))
  BY <1>1, <1>2 DEF Injection, IsInjective
<1> HIDE DEF kept
<1>7. f \in Surjection(bars, 0..(N - 1))
  BY <1>5, <1>6, FS_Injection
<1>8. \A k \in 0..(n - 1) : \E x \in kept : g[x] = k
  <2> SUFFICES ASSUME NEW k \in 0..(n - 1)
               PROVE  \E x \in kept : g[x] = k
    OBVIOUS
  <2>1. k \in 0..(N - 1) /\ k < n
    BY <1>4
  <2>2. PICK x \in bars : f[x] = k
    BY <1>7, <2>1 DEF Surjection
  <2>3. Rank(bars, x) = k /\ x \in kept
    BY <1>3, <2>1, <2>2
  <2> QED
    BY <2>3
<1>9. g \in Bijection(kept, 0..(n - 1))
  <2>1. \A x \in kept : g[x] \in 0..(n - 1)
    BY <1>1, <1>3
  <2>2. \A x, y \in kept : g[x] = g[y] => x = y
    BY <1>2, <1>3
  <2> QED
    BY <1>8, <2>1, <2>2 DEF Bijection, Injection, Surjection, IsInjective
<1>10. Cardinality(kept) = n
  <2>1. IsFiniteSet(kept)
    BY <1>3, FS_Subset DEF Table
  <2>2. ExistsBijection(kept, 0..(n - 1))
    BY <1>9 DEF ExistsBijection
  <2>3. Cardinality(0..(n - 1)) = Cardinality(kept)
    BY <2>1, <2>2, FS_Bijection
  <2>4. Cardinality(0..(n - 1)) = IF 0 > n - 1 THEN 0 ELSE (n - 1) - 0 + 1
    BY FS_Interval
  <2> QED
    BY <2>3, <2>4
<1>11. ASSUME NEW c \in kept
       PROVE  b.hour < c.hour
  <2>1. c \in bars /\ Rank(bars, c) < Rank(bars, b)
    BY <1>1, <1>3, <1>4
  <2>2. c # b /\ ~(c.hour < b.hour)
    BY <1>1, <2>1
  <2>3. c.hour # b.hour
    BY <2>1, <2>2 DEF Table, Single
  <2> QED
    BY <1>1, <2>1, <2>2, <2>3
<1> QED
  BY <1>10, <1>11 DEF kept

LEMMA AddOneIs ==
    ASSUME NEW buf, Table(buf), NEW bar \in Bars
    PROVE  /\ Table(add_candle(buf, bar))
           /\ Newest(buf) <= Newest(add_candle(buf, bar))
           /\ bar.hour <= Newest(add_candle(buf, bar))
           /\ \/ add_candle(buf, bar) = buf
              \/ /\ bar.hour > Newest(buf)
                 /\ add_candle(buf, bar) \subseteq buf \cup {bar}
<1>1. Table({bar})
  BY FS_Singleton DEF Table, Single
<1>2. Newest(buf) \in Int /\ bar.hour \in Int
  BY NewestIs DEF Bars
<1>3. CASE bar.hour > Newest(buf)
  <2>1. After({bar}, Newest(buf)) = {bar}
    BY <1>3 DEF After
  <2>2. add_candle(buf, bar) = add_candles(buf, {bar})
    BY <1>3, <2>1 DEF add_candle, add_candles
  <2> QED
    BY <1>1, <1>3, <2>1, <2>2, AddIs
<1>4. CASE ~(bar.hour > Newest(buf))
  BY <1>2, <1>4 DEF add_candle
<1> QED
  BY <1>3, <1>4

\* A buffer whose bars are rows, and that has the newest of them.
Mirror(buf, rows) == buf \subseteq rows /\ Newest(rows) <= Newest(buf)

LEMMA LastMirrors ==
    ASSUME NEW rows, Table(rows)
    PROVE  Mirror(Last(rows, Buffer), rows)
<1>1. Newest(rows) \in Int
  BY NewestIs
<1> QED
  BY <1>1, LastIs, HourlyBarsAssumption DEF Mirror

LEMMA WarmedMirrors ==
    ASSUME NEW rows, Table(rows)
    PROVE  Mirror(warmed(rows), rows) /\ Table(warmed(rows))
<1> DEFINE kept == Last(rows, Buffer)
<1>1. Table(kept) /\ Mirror(kept, rows) /\ Newest(rows) \in Int /\ Newest(kept) \in Int
  BY LastMirrors, LastIs, NewestIs, HourlyBarsAssumption
<1>2. Table({})
  BY FS_EmptySet DEF Table, Single
<1>3. Newest({}) = -1
  BY <1>2, NewestIs
<1> HIDE DEF kept
<1>4. After(kept, -1) = kept
  BY <1>1, NewestIs DEF After
<1>5. warmed(rows) = Last(kept, Buffer)
  BY <1>3, <1>4 DEF warmed, add_candles, get_candles, kept
<1>6. Mirror(Last(kept, Buffer), kept) /\ Table(Last(kept, Buffer))
  BY <1>1, LastMirrors, LastIs, HourlyBarsAssumption
<1>7. Newest(Last(kept, Buffer)) \in Int
  BY <1>6, NewestIs
<1> QED
  BY <1>1, <1>5, <1>6, <1>7 DEF Mirror

LEMMA IngestMirrors ==
    ASSUME NEW buf, NEW rows, NEW bars, Table(rows), Table(bars), Table(buf), Mirror(buf, rows)
    PROVE  Mirror(add_candles(buf, bars), insert_candles(rows, bars))
<1> DEFINE buf2 == add_candles(buf, bars)
           rows2 == insert_candles(rows, bars)
<1>1. /\ Newest(buf) \in Int /\ Newest(rows) \in Int /\ Newest(rows) <= Newest(buf)
      /\ \A r \in rows : r.hour <= Newest(rows) /\ r.hour \in Nat
  BY NewestIs DEF Mirror
<1>2. Table(buf2) /\ Table(rows2)
  BY AddIs, InsertIs
<1>3. buf2 \subseteq rows2
  <2>1. ASSUME NEW b \in After(bars, Newest(buf))
        PROVE  b \in bars /\ b.hour \notin Hours(rows)
    <3>1. b \in bars /\ b.hour > Newest(buf) /\ b.hour \in Nat
      BY NewestIs DEF After
    <3> QED
      BY <1>1, <3>1 DEF Hours
  <2>2. buf2 \subseteq buf \cup After(bars, Newest(buf))
    BY AddIs
  <2> QED
    BY <2>1, <2>2 DEF insert_candles, Mirror
<1>4. Newest(buf) <= Newest(buf2) /\ \A b \in bars : b.hour <= Newest(buf2)
  BY AddIs
<1>5. rows2 \subseteq rows \cup bars
  BY DEF insert_candles
<1> HIDE DEF buf2, rows2
<1>6. Newest(buf2) \in Int /\ Newest(buf2) >= -1 /\ Newest(rows2) \in Int
  BY <1>2, NewestIs
<1>7. \A r \in rows2 : r.hour <= Newest(buf2)
  BY <1>1, <1>4, <1>5, <1>6
<1>8. Newest(rows2) = -1 \/ \E r \in rows2 : r.hour = Newest(rows2)
  BY <1>2, NewestIs
<1>9. Newest(rows2) <= Newest(buf2)
  BY <1>6, <1>7, <1>8
<1> QED
  BY <1>3, <1>9 DEF Mirror, buf2, rows2

-----------------------------------------------------------------------------
(* The invariant. *)

\* The next bucket that ticks can emit is of a later hour.
Over(h) ==
    IF bucket = None
    THEN h < Hour(now) /\ \A k \in DOMAIN wire : h < Hour(wire[k])
    ELSE h < bucket.hour

TypeOK ==
    /\ now \in Nat \ {0} /\ final \in Nat /\ final <= Hour(now)
    /\ feed \in Feeds
    /\ Table(db) /\ Table(store)
    /\ fetch \in Nat \cup {None}
    /\ bucket # None => bucket \in Buckets /\ bucket.hour <= Hour(now)
    /\ wire \in Seq(Nat) /\ \A k \in DOMAIN wire : wire[k] <= now
    /\ pending \subseteq Nat /\ \A h \in pending : Over(h)

\* What each feed and each phase leaves unused.
Phases ==
    /\ proc \in {"down", "probe", "fetch"} => store = {}
    /\ proc # "live" => bucket = None /\ pending = {} /\ ~up /\ wire = <<>>
    /\ feed # "eodhd" => pending = {}
    /\ feed = "twelvedata" => bucket = None
    /\ proc \in {"backfill", "ready"} => feed \in {"eodhd", "twelvedata"}

\* Until there are ticks, memory holds the newest rows of the disk.
Mirrored == feed = "eodhd" /\ proc \in {"backfill", "ready"} => Mirror(store, db)

\* A bar only memory has: whole, or refused while its hour was forming.
Covered(b) == \/ b \in db \/ b.hour \in refused
              \/ b.hour \notin Hours(db) /\ b = Bar(b.hour) /\ b.hour < Hour(now)

\* So may memory be ahead of the disk where the feed polls.
Polls ==
    feed = "twelvedata" /\ proc \in {"backfill", "ready", "live"} =>
        Newest(db) <= Newest(store) /\ \A b \in store : Covered(b)

\* A row that is newer than all of memory is one that a repair has saved before
\* it failed, and ticks are past its hour.
Ahead ==
    proc = "live" =>
        \A r \in db : r.hour <= Newest(store) \/ (feed = "eodhd" /\ Over(r.hour))

\* A bar that the disk refused is behind the ticks and is not repaired.
Unsaved ==
    proc = "live" /\ feed # "twelvedata" =>
    \A b \in store : \/ b.hour \in Hours(db)
                     \/ bucket # None /\ b.hour < bucket.hour /\ b.hour \notin pending

IInv == TypeOK /\ Phases /\ Mirrored /\ Polls /\ Ahead /\ Unsaved /\ OneVersion

-----------------------------------------------------------------------------
(* What the providers answer. *)

LEMMA BarIs ==
    ASSUME NEW h \in Nat
    PROVE  Bar(h) \in Bars /\ Bar(h).hour = h
BY CandleFeedAssumption, HourlyBarsAssumption DEF Bar, Bars, PrintsOf, Traded

LEMMA BarsTable ==
    ASSUME NEW S \in SUBSET Nat, IsFiniteSet(S)
    PROVE  Table({Bar(h) : h \in S})
<1> DEFINE f == [h \in S |-> Bar(h)]
<1>1. {Bar(h) : h \in S} = {f[h] : h \in S} /\ f = [h \in S |-> f[h]]
  OBVIOUS
<1>2. IsFiniteSet({Bar(h) : h \in S})
  <2> HIDE DEF f
  <2> QED
    BY <1>1, FiniteImage
<1>3. {Bar(h) : h \in S} \subseteq Bars /\ Single({Bar(h) : h \in S})
  BY BarIs DEF Single
<1> QED
  BY <1>2, <1>3 DEF Table

LEMMA ServedTable ==
    ASSUME NEW h \in Nat, NEW end \in Nat
    PROVE  Table(Served(h, end)) /\ \A b \in Served(h, end) : b.hour < end
<1> DEFINE S == {k \in h..(end - 1) : PrintsOf(k) # {}}
<1>1. S \in SUBSET (h..(end - 1)) /\ S \in SUBSET Nat
  OBVIOUS
<1>2. IsFiniteSet(S)
  <2>1. IsFiniteSet(h..(end - 1))
    BY FS_Interval
  <2> HIDE DEF S
  <2> QED
    BY <1>1, <2>1, FS_Subset
<1>3. Served(h, end) = {Bar(k) : k \in S}
  BY DEF Served
<1>4. \A k \in S : Bar(k).hour < end
  BY <1>1, BarIs
<1> HIDE DEF S
<1> QED
  BY <1>1, <1>2, <1>3, <1>4, BarsTable

LEMMA AnswersTable ==
    ASSUME NEW h \in Nat, final \in Nat, NEW bars \in Answers(h)
    PROVE  Table(bars) /\ \A b \in bars : b.hour < final
<1>1. Table({})
  BY FS_EmptySet DEF Table, Single
<1> QED
  BY <1>1, ServedTable DEF Answers

LEMMA LatestTable ==
    ASSUME now \in Nat, NEW n, NEW bars \in Latest(n)
    PROVE  /\ Table(bars)
           /\ \A b \in bars : b.hour < Hour(now) => b = Bar(b.hour)
           /\ \A b \in bars : b.hour = Hour(now) \/ b.hour < Hour(now)
<1>1. Table({})
  BY FS_EmptySet DEF Table, Single
<1>2. Hour(now) \in Nat
  BY HourIsNat
<1>3. Table(Forming) /\ \A b \in Forming : b.hour = Hour(now)
  <2> DEFINE b == [hour |-> Hour(now), of |-> PrintsOf(Hour(now)) \cap 0..now]
  <2>1. b \in Bars
    BY <1>2 DEF Bars
  <2>2. Forming \in SUBSET {b}
    BY DEF Forming
  <2>3. Table({b})
    BY <2>1, FS_Singleton DEF Table, Single
  <2> QED
    BY <2>2, <2>3, SubTable
<1>4. ASSUME NEW f \in {{}, Forming}
      PROVE  Table(Served(0, Hour(now)) \cup f)
  <2>1. Table(f) /\ \A b \in f : b.hour = Hour(now)
    BY <1>1, <1>3
  <2>2. Table(Served(0, Hour(now))) /\ \A b \in Served(0, Hour(now)) : b.hour < Hour(now)
    BY <1>2, ServedTable
  <2>3. \A b \in f : b.hour \notin Hours(Served(0, Hour(now)))
    BY <1>2, <2>1, <2>2 DEF Hours
  <2> QED
    BY <2>1, <2>2, <2>3, UnionTable
<1>5. \A f \in {{}, Forming} : Last(Served(0, Hour(now)) \cup f, n)
                                   \in SUBSET (Served(0, Hour(now)) \cup f)
  BY DEF Last
<1>6. CASE bars = {}
  BY <1>1, <1>6
<1>7. CASE \E f \in {{}, Forming} : bars = Last(Served(0, Hour(now)) \cup f, n)
  <2>1. PICK f \in {{}, Forming} : bars = Last(Served(0, Hour(now)) \cup f, n)
    BY <1>7
  <2>2. bars \in SUBSET (Served(0, Hour(now)) \cup f) /\ Table(bars)
    BY <1>4, <1>5, <2>1, SubTable
  <2>3. \A b \in f : b.hour = Hour(now)
    BY <1>3
  <2>4. \A b \in Served(0, Hour(now)) : b.hour < Hour(now) /\ b = Bar(b.hour)
    <3>1. \A b \in Served(0, Hour(now)) : b.hour < Hour(now)
      BY <1>2, ServedTable
    <3>2. \A b \in Served(0, Hour(now)) : \E k \in Nat : b = Bar(k)
      BY <1>2 DEF Served
    <3> QED
      BY <3>1, <3>2, BarIs
  <2> QED
    BY <1>2, <2>2, <2>3, <2>4
<1> QED
  BY <1>6, <1>7 DEF Latest

-----------------------------------------------------------------------------
(* The steps. *)

LEMMA MirrorAgrees ==
    ASSUME NEW buf, NEW rows, Table(buf), Table(rows), Mirror(buf, rows)
    PROVE  /\ \A b \in buf, r \in rows : b.hour = r.hour => b = r
           /\ \A b \in buf : b.hour \in Hours(rows)
           /\ \A r \in rows : r.hour <= Newest(buf)
<1>1. /\ Newest(rows) \in Int /\ Newest(buf) \in Int /\ Newest(rows) <= Newest(buf)
      /\ \A r \in rows : r.hour <= Newest(rows) /\ r.hour \in Nat
  BY NewestIs DEF Mirror
<1> QED
  BY <1>1 DEF Mirror, Table, Single, Hours

\* After a step that leaves memory a mirror of the disk, as loads and polls do.
LEMMA MirrorStep ==
    ASSUME TypeOK', Phases', Mirror(store', db')
    PROVE  IInv'
<1>1. /\ \A b \in store', r \in db' : b.hour = r.hour => b = r
      /\ \A b \in store' : b.hour \in Hours(db')
      /\ \A r \in db' : r.hour <= Newest(store')
  BY MirrorAgrees DEF TypeOK
<1>2. Mirrored' /\ Polls' /\ Ahead' /\ Unsaved' /\ OneVersion'
  BY <1>1 DEF Mirrored, Polls, Covered, Mirror, Ahead, Unsaved, OneVersion
<1> QED
  BY <1>2 DEF IInv

LEMMA EmptyTable == Table({})
BY FS_EmptySet DEF Table, Single

LEMMA HistoryIs == History \in SUBSET Nat /\ IsFiniteSet(History)
BY CandleFeedAssumption

LEMMA InitIInv == Init => IInv
<1> SUFFICES ASSUME Init
             PROVE  IInv
  OBVIOUS
<1>1. Slots \in Nat \ {0} /\ Hour(Slots) = 1
  BY HourlyBarsAssumption DEF Hour
<1>2. Table({Bar(h) : h \in History})
  BY HistoryIs, BarsTable
<1>3. Table({OldScale(h) : h \in History})
  <2> DEFINE f == [h \in History |-> OldScale(h)]
  <2>1. {OldScale(h) : h \in History} = {f[h] : h \in History} /\ f = [h \in History |-> f[h]]
    OBVIOUS
  <2>2. IsFiniteSet({OldScale(h) : h \in History})
    <3> HIDE DEF f
    <3> QED
      BY <2>1, HistoryIs, FiniteImage
  <2>3. /\ {OldScale(h) : h \in History} \subseteq Bars
        /\ Single({OldScale(h) : h \in History})
    <3>1. \A h \in History : OldScale(h) \in Bars /\ OldScale(h).hour = h
      BY HistoryIs DEF OldScale, Bars
    <3> QED
      BY <3>1 DEF Single
  <2> QED
    BY <2>2, <2>3 DEF Table
<1>4. Table(db) /\ Table(store)
  BY <1>2, <1>3, EmptyTable DEF Init
<1>5. wire \in Seq(Nat) /\ DOMAIN wire = {}
  <2>1. <<>> \in Seq(Nat) /\ DOMAIN <<>> = {}
    OBVIOUS
  <2> QED
    BY <2>1 DEF Init
<1>6. TypeOK
  BY <1>1, <1>4, <1>5 DEF Init, TypeOK, Over
<1> QED
  BY <1>5, <1>6 DEF Init, IInv, Phases, Mirrored, Polls, Ahead, Unsaved, OneVersion

\* Time passes and ticks arrive: an hour that is over stays over.
LEMMA AdvanceKeeps == IInv /\ Advance => IInv'
<1> SUFFICES ASSUME IInv, Advance
             PROVE  IInv'
  OBVIOUS
<1>1. /\ now \in Nat /\ now' = now + 1 /\ Hour(now) \in Nat /\ Hour(now') \in Nat
      /\ Hour(now) <= Hour(now')
  BY HourIsNat, HourMonotone DEF IInv, TypeOK, Advance
<1>2. /\ wire' \in Seq(Nat)
      /\ \A k \in DOMAIN wire' : /\ wire'[k] <= now'
                                 /\ \/ k \in DOMAIN wire /\ wire'[k] = wire[k]
                                    \/ wire'[k] = now'
  <2>1. CASE wire' = wire
    BY <1>1, <2>1 DEF IInv, TypeOK
  <2>2. CASE wire' = Append(wire, now + 1)
    BY <1>1, <2>2 DEF IInv, TypeOK
  <2> QED
    BY <2>1, <2>2 DEF Advance, Received
<1>3. ASSUME NEW h \in Nat, Over(h)
      PROVE  Over(h)'
  BY <1>1, <1>2, <1>3 DEF Over, Advance
<1>4. TypeOK'
  <2>1. bucket' # None => bucket' \in Buckets /\ bucket'.hour <= Hour(now')
    <3>1. bucket # None => bucket \in Buckets /\ bucket.hour \in Nat
      BY DEF IInv, TypeOK, Buckets
    <3> QED
      BY <1>1, <3>1 DEF IInv, TypeOK, Advance
  <2> QED
    BY <1>1, <1>2, <1>3, <2>1 DEF IInv, TypeOK, Advance
<1>5. Ahead'
  <2>1. \A r \in db : r.hour \in Nat
    BY DEF IInv, TypeOK, Table, Bars
  <2> QED
    BY <1>3, <2>1 DEF IInv, Ahead, Advance
<1>6. Phases'
  BY DEF IInv, Phases, Advance, Received
<1>7. Polls'
  <2>1. \A b \in store : b.hour \in Nat
    BY DEF IInv, TypeOK, Table, Bars
  <2>2. \A b \in store : Covered(b) => Covered(b)'
    BY <1>1, <2>1 DEF Covered, Bar, PrintsOf, Traded, Advance
  <2> QED
    BY <2>2 DEF IInv, Polls, Advance
<1> QED
  BY <1>4, <1>5, <1>6, <1>7 DEF IInv, Mirrored, Unsaved, OneVersion, Advance

\* Steps that touch neither memory, disk, bucket nor queue of repairs.
LEMMA QuietKeeps ==
    ASSUME IInv, UNCHANGED <<now, feed, proc, store, db, bucket, pending, refused>>,
           final' \in Nat, final' <= Hour(now), fetch' \in Nat \cup {None},
           \/ UNCHANGED <<up, wire>>
           \/ proc = "live" /\ wire' = <<>>
    PROVE  IInv'
<1>1. wire' \in Seq(Nat) /\ \A k \in DOMAIN wire' : k \in DOMAIN wire /\ wire'[k] = wire[k]
  <2>1. <<>> \in Seq(Nat) /\ DOMAIN <<>> = {}
    OBVIOUS
  <2> QED
    BY <2>1 DEF IInv, TypeOK
<1>2. \A h : Over(h) => Over(h)'
  BY <1>1 DEF Over
<1>3. TypeOK' /\ Phases' /\ Ahead'
  BY <1>1, <1>2 DEF IInv, TypeOK, Phases, Ahead
<1>4. Polls'
  BY DEF IInv, Polls, Covered, Bar, PrintsOf, Traded
<1> QED
  BY <1>3, <1>4 DEF IInv, Mirrored, Unsaved, OneVersion

\* A snapshot after a rebuild may be old, but the metals have no repairs.
LEMMA RebuildKeeps == IInv /\ Rebuild => IInv'
<1> SUFFICES ASSUME IInv, Rebuild
             PROVE  IInv'
  OBVIOUS
<1>1. \A i \in Nat : <<i>> \in Seq(Nat) /\ DOMAIN <<i>> = {1} /\ <<i>>[1] = i
  OBVIOUS
<1>2. wire' \in Seq(Nat) /\ \A k \in DOMAIN wire' : wire'[k] <= now'
  <2>1. now \in Nat /\ now - 1 \in Nat /\ now' = now
    BY DEF Rebuild, IInv, TypeOK
  <2>2. PICK i \in {now, now - 1} : wire' = <<i>>
    BY DEF Rebuild
  <2>3. i \in Nat /\ i <= now'
    BY <2>1, <2>2
  <2> QED
    BY <1>1, <2>2, <2>3
<1>3. feed # "eodhd" /\ pending = {} /\ pending' = {}
  BY DEF IInv, Phases, Rebuild, Live
<1>4. TypeOK'
  BY <1>2, <1>3 DEF IInv, TypeOK, Rebuild
<1>5. Phases' /\ Ahead'
  BY <1>3 DEF IInv, Phases, Ahead, Rebuild, Live
<1> QED
  BY <1>4, <1>5 DEF IInv, Mirrored, Polls, Live, Unsaved, OneVersion, Rebuild

LEMMA CrashKeeps == IInv /\ Crash => IInv'
<1> SUFFICES ASSUME IInv, Crash
             PROVE  IInv'
  OBVIOUS
<1>1. <<>> \in Seq(Nat) /\ DOMAIN <<>> = {}
  OBVIOUS
<1>2. TypeOK' /\ Phases'
  BY <1>1, EmptyTable DEF IInv, TypeOK, Phases, Crash
<1> QED
  BY <1>2 DEF IInv, Mirrored, Polls, Ahead, Unsaved, OneVersion, Crash

\* Loads, backfills and polls.
LEMMA StartKeeps == IInv /\ Start => IInv'
<1> SUFFICES ASSUME IInv, Start
             PROVE  IInv'
  OBVIOUS
<1>1. /\ feed' \in Feeds /\ bucket' = None /\ pending' = {} /\ wire' = <<>> /\ ~up' /\ db' = db
      /\ DOMAIN wire' = {}
  BY DEF IInv, TypeOK, Phases, Start
<1>2. CASE feed' = "metals"
  <2>1. store' = {} /\ proc' = "probe"
    BY <1>2 DEF Start
  <2>2. TypeOK' /\ Phases'
    BY <1>1, <1>2, <2>1, EmptyTable DEF IInv, TypeOK, Phases, Start
  <2> QED
    BY <1>1, <1>2, <2>1, <2>2 DEF IInv, Mirrored, Polls, Ahead, Unsaved, OneVersion
<1>3. CASE feed' # "metals"
  <2>1. store' = warmed(db) /\ proc' \in {"backfill", "ready"} /\ feed' \in {"eodhd", "twelvedata"}
    BY <1>1, <1>3, CandleFeedAssumption DEF Start
  <2>2. Mirror(store', db') /\ Table(store')
    BY <1>1, <2>1, WarmedMirrors DEF IInv, TypeOK
  <2>3. TypeOK' /\ Phases'
    BY <1>1, <2>1, <2>2 DEF IInv, TypeOK, Phases, Start
  <2> QED
    BY <2>2, <2>3, MirrorStep
<1> QED
  BY <1>2, <1>3

\* EODHD's backfill: memory and disk, or memory one bar ahead and run() ended.
LEMMA BackfilledKeeps ==
    ASSUME IInv, NEW bars, Table(bars), feed = "eodhd", proc = "backfill", Backfilled(bars),
           UNCHANGED <<now, final, feed, bucket, pending, fetch, up, wire, refused>>
    PROVE  IInv'
<1>1. Table(db) /\ Table(store) /\ Mirror(store, db)
  BY DEF IInv, TypeOK, Mirrored
<1>2. \A h : Over(h) => Over(h)'
  BY DEF Over
<1>3. Phases'
  BY DEF IInv, Phases, Backfilled
<1>4. Table(db') /\ Table(store') => TypeOK'
  BY <1>2 DEF IInv, TypeOK
<1>5. CASE Ingested(bars, bars)
  <2>1. Table(db') /\ Table(store') /\ Mirror(store', db')
    BY <1>1, <1>5, AddIs, InsertIs, IngestMirrors DEF Ingested
  <2> QED
    BY <1>3, <1>4, <2>1, MirrorStep
<1>6. CASE proc' = "ended" /\ ~Ingested(bars, bars)
  <2>1. PICK b \in bars : Ingested({c \in bars : c.hour <= b.hour},
                                   {c \in bars : c.hour < b.hour})
    BY <1>6 DEF Backfilled
  <2> DEFINE added == {c \in bars : c.hour <= b.hour}
             rows  == {c \in bars : c.hour < b.hour}
             full  == insert_candles(db, added)
  <2>2. \A c \in bars : c.hour \in Nat
    BY DEF Table, Bars
  <2>3. Table(added) /\ Table(rows) /\ rows \subseteq added
    BY <2>2, SubTable
  <2>4. store' = add_candles(store, added) /\ db' = insert_candles(db, rows)
    BY <2>1 DEF Ingested
  <2>5. db' \subseteq full
    BY <2>3, <2>4 DEF insert_candles
  <2> HIDE DEF added, rows
  <2>6. Table(full) /\ Table(db') /\ Table(store') /\ Mirror(store', full)
    BY <1>1, <2>3, <2>4, AddIs, InsertIs, IngestMirrors
  <2> HIDE DEF full
  <2>7. \A c \in store', r \in full : c.hour = r.hour => c = r
    BY <2>6, MirrorAgrees
  <2>8. OneVersion'
    BY <2>5, <2>7 DEF OneVersion
  <2> QED
    BY <1>3, <1>4, <1>6, <2>6, <2>8 DEF IInv, Mirrored, Polls, Ahead, Unsaved
<1> QED
  BY <1>5, <1>6 DEF Backfilled

\* Polls: what the disk refuses stays in memory, and only an hour that was
\* forming can be saved in another version later.
LEMMA PolledKeeps ==
    ASSUME IInv, NEW n, NEW bars \in Latest(n), Polled(bars),
           feed = "twelvedata", proc \in {"backfill", "live"}, proc' \in {proc, "ready"},
           UNCHANGED <<now, final, feed, bucket, pending, up, wire>>,
           fetch' \in Nat \cup {None}, Phases'
    PROVE  IInv'
<1>1. PICK rows \in SUBSET bars :
          /\ Ingested(bars, rows) /\ refused \subseteq refused'
          /\ \A b \in (bars \ rows) \cap (store' \ store) :
                b.hour = Hour(now) => b.hour \in refused'
  <2>1. CASE Ingested(bars, bars) /\ refused' = refused
    BY <2>1
  <2>2. CASE \E b \in bars :
                /\ Ingested(bars, bars \ {b})
                /\ refused' = refused \cup {h \in {Hour(now)} : b.hour = h /\ b \in store' \ store}
    BY <2>2
  <2> QED
    BY <2>1, <2>2 DEF Polled
<1>2. /\ Table(bars) /\ Table(rows) /\ Hour(now) \in Nat
      /\ \A b \in bars : b.hour < Hour(now) => b = Bar(b.hour)
      /\ \A b \in bars : b.hour = Hour(now) \/ b.hour < Hour(now)
  <2>1. now \in Nat
    BY DEF IInv, TypeOK
  <2>2. Table(bars)
    BY <2>1, LatestTable
  <2> QED
    BY <2>1, <2>2, LatestTable, SubTable, HourIsNat
<1>3. /\ store' = add_candles(store, bars) /\ db' = insert_candles(db, rows)
      /\ Table(db) /\ Table(store) /\ Table(db') /\ Table(store')
  BY <1>1, <1>2, AddIs, InsertIs DEF Ingested, IInv, TypeOK
<1>4. /\ Newest(store) \in Int /\ Newest(db) \in Int /\ Newest(store') \in Int
      /\ Newest(db') \in Int /\ Newest(db) <= Newest(store) /\ Newest(store') >= -1
      /\ \A r \in db : r.hour <= Newest(db) /\ r.hour \in Nat
      /\ Newest(db') = -1 \/ \E r \in db' : r.hour = Newest(db')
      /\ \A r \in db' : r.hour <= Newest(db') /\ r.hour \in Nat
  BY <1>3, NewestIs DEF IInv, Polls
<1>5. /\ Newest(store) <= Newest(store') /\ \A b \in bars : b.hour <= Newest(store')
      /\ store' \subseteq store \cup After(bars, Newest(store))
  BY <1>2, <1>3, AddIs
<1>6. db' \subseteq db \cup rows /\ db \subseteq db'
      /\ \A r \in rows : r.hour \notin Hours(db) => r \in db'
  BY <1>3 DEF insert_candles
<1>7. Newest(db') <= Newest(store')
  <2>1. \A r \in db' : r.hour <= Newest(store')
    BY <1>4, <1>5, <1>6
  <2> QED
    BY <1>4, <2>1
<1>8. ASSUME NEW h
      PROVE  Bar(h)' = Bar(h)
  BY DEF Bar, PrintsOf, Traded
<1>9. ASSUME NEW b \in store
      PROVE  Covered(b)'
  <2>1. Covered(b)
    BY DEF IInv, Polls
  <2>2. CASE b \in db \/ b.hour \in refused
    BY <1>1, <1>6, <2>2 DEF Covered
  <2>3. CASE b.hour \notin Hours(db) /\ b = Bar(b.hour) /\ b.hour < Hour(now)
    <3>1. ASSUME NEW r \in db', r.hour = b.hour
          PROVE  r = b
      <4>1. r \in rows
        BY <1>6, <2>3, <3>1 DEF Hours
      <4> QED
        BY <1>2, <2>3, <3>1, <4>1
    <3> QED
      BY <1>8, <2>3, <3>1 DEF Covered, Hours
  <2> QED
    BY <2>1, <2>2, <2>3 DEF Covered
<1>10. ASSUME NEW b \in store', b \notin store
       PROVE  Covered(b)'
  <2>1. b \in bars /\ b.hour > Newest(store) /\ b.hour \in Nat
    BY <1>2, <1>5, <1>10 DEF After, Table, Bars
  <2>2. b.hour \notin Hours(db)
    BY <1>4, <2>1 DEF Hours
  <2>3. CASE b \in rows
    BY <1>6, <2>2, <2>3 DEF Covered
  <2>4. CASE b \notin rows /\ b.hour = Hour(now)
    BY <1>1, <1>10, <2>1, <2>4 DEF Covered
  <2>5. CASE b \notin rows /\ b.hour < Hour(now)
    <3>1. b.hour \notin Hours(db')
      BY <1>2, <1>6, <2>1, <2>2, <2>5 DEF Hours, Table, Single
    <3> QED
      BY <1>2, <1>8, <2>1, <2>5, <3>1 DEF Covered
  <2> QED
    BY <1>2, <2>1, <2>3, <2>4, <2>5
<1>11. Polls' /\ Mirrored' /\ Unsaved'
  BY <1>7, <1>9, <1>10 DEF Polls, Mirrored, Unsaved
<1>12. Ahead'
  <2>1. \A r \in db' : r.hour <= Newest(store')
    BY <1>4, <1>7
  <2> QED
    BY <2>1 DEF Ahead
<1>13. OneVersion'
  <2>1. \A b \in store' : Covered(b)'
    BY <1>9, <1>10
  <2> QED
    BY <1>3, <2>1 DEF OneVersion, Covered, Table, Single, Hours
<1>14. TypeOK'
  <2>1. \A h : Over(h) => Over(h)'
    BY DEF Over
  <2> QED
    BY <1>3, <2>1 DEF IInv, TypeOK
<1> QED
  BY <1>11, <1>12, <1>13, <1>14 DEF IInv

LEMMA BackfillKeeps == IInv /\ Backfill => IInv'
<1> SUFFICES ASSUME IInv, Backfill
             PROVE  IInv'
  OBVIOUS
<1>1. CASE feed = "eodhd"
  <2>1. PICK bars \in Answers(0) : Backfilled(bars)
    BY <1>1 DEF Backfill
  <2>2. Table(bars)
    BY AnswersTable DEF IInv, TypeOK
  <2> QED
    BY <1>1, <2>1, <2>2, BackfilledKeeps DEF Backfill
<1>2. CASE feed = "twelvedata"
  <2>1. PICK bars \in Latest(Buffer) : Polled(bars)
    BY <1>2 DEF Backfill
  <2>2. Phases'
    BY <1>2 DEF IInv, Phases, Backfill
  <2> QED
    BY <1>2, <2>1, <2>2, PolledKeeps DEF Backfill, IInv, TypeOK
<1> QED
  BY <1>1, <1>2 DEF Backfill

LEMMA RunEndsKeeps == IInv /\ RunEnds => IInv'
<1> SUFFICES ASSUME IInv, RunEnds
             PROVE  IInv'
  OBVIOUS
<1>1. TypeOK' /\ Phases'
  BY DEF IInv, TypeOK, Over, Phases, RunEnds, memory
<1> QED
  BY <1>1 DEF IInv, Mirrored, Polls, Ahead, Unsaved, OneVersion, RunEnds, memory

LEMMA PollDoneKeeps == IInv /\ PollDone => IInv'
<1> SUFFICES ASSUME IInv, PollDone
             PROVE  IInv'
  OBVIOUS
<1>1. PICK bars \in Latest(PollSize) : Polled(bars)
  BY DEF PollDone
<1>2. Phases'
  BY DEF IInv, Phases, PollDone, Live
<1> QED
  BY <1>1, <1>2, PolledKeeps DEF PollDone, Live

LEMMA ProbeKeeps == IInv /\ (ProbeDone \/ FetchDone) => IInv'
<1> SUFFICES ASSUME IInv, ProbeDone \/ FetchDone
             PROVE  IInv'
  OBVIOUS
<1>1. Table(db')
  <2>1. CASE ProbeDone
    BY <2>1, EmptyTable DEF ProbeDone, IInv, TypeOK
  <2>2. CASE FetchDone
    <3>1. PICK bars \in Latest(Buffer) : db' = insert_candles(db, bars) \/ db' = db
      BY <2>2 DEF FetchDone
    <3>2. Table(bars)
      BY LatestTable DEF IInv, TypeOK
    <3> QED
      BY <3>1, <3>2, InsertIs DEF IInv, TypeOK
  <2> QED
    BY <2>1, <2>2
<1>2. /\ proc \in {"probe", "fetch"}
      /\ UNCHANGED <<now, final, feed, bucket, pending, fetch, up, wire>>
      /\ bucket = None /\ pending = {} /\ ~up /\ wire = <<>>
      /\ store = {}
  BY DEF ProbeDone, FetchDone, IInv, Phases
<1>3. CASE proc' = "fetch" /\ store' = store
  <2>1. TypeOK' /\ Phases'
    BY <1>1, <1>2, <1>3 DEF IInv, TypeOK, Phases
  <2> QED
    BY <1>2, <1>3, <2>1 DEF IInv, Mirrored, Polls, Ahead, Unsaved, OneVersion
<1>4. CASE Warm(db')
  <2>1. Mirror(store', db') /\ Table(store') /\ proc' = "live"
    BY <1>1, <1>4, WarmedMirrors DEF Warm
  <2>2. TypeOK' /\ Phases'
    BY <1>1, <1>2, <2>1 DEF IInv, TypeOK, Phases
  <2> QED
    BY <2>1, <2>2, MirrorStep
<1> QED
  BY <1>3, <1>4 DEF ProbeDone, FetchDone

\* The repairs are seeded once memory mirrors the disk.
LEMMA ReadyFeeds == IInv /\ GoLive => feed \in {"eodhd", "twelvedata"}
BY DEF IInv, Phases, GoLive

LEMMA GoLiveKeeps == IInv /\ GoLive => IInv'
<1> SUFFICES ASSUME IInv, GoLive
             PROVE  IInv'
  OBVIOUS
<1>1. /\ now \in Nat /\ Hour(now) \in Nat /\ bucket = None /\ wire = <<>> /\ DOMAIN wire = {}
      /\ pending = {} /\ proc' = "live"
      /\ UNCHANGED <<now, final, feed, store, db, bucket, fetch, up, wire>>
  BY HourIsNat DEF IInv, TypeOK, Phases, GoLive
<1>2. last_expected(now) \in Int /\ last_expected(now) < Hour(now)
  <2> DEFINE past == {h \in 0..(Hour(now) - 1) : h * Slots \in Open}
  <2>1. past \in SUBSET (0..(Hour(now) - 1)) /\ past \in SUBSET Int
    OBVIOUS
  <2>2. IsFiniteSet(past)
    <3>1. IsFiniteSet(0..(Hour(now) - 1))
      BY <1>1, FS_Interval
    <3> HIDE DEF past
    <3> QED
      BY <2>1, <3>1, FS_Subset
  <2>3. last_expected(now) = Max({-1} \cup past)
    BY DEF last_expected
  <2>4. \A h \in past : h < Hour(now)
    BY <1>1
  <2> HIDE DEF past
  <2>5. Max({-1} \cup past) \in {-1} \cup past
    BY <2>1, <2>2, MaxWith
  <2>6. \A h \in {-1} \cup past : h \in Int /\ h < Hour(now)
    BY <1>1, <2>1, <2>4
  <2> QED
    BY <2>3, <2>5, <2>6
<1>3. ASSUME NEW h \in Missing
      PROVE  h \in Nat /\ h < Hour(now)
  <2> DEFINE first == last_expected(now) - Lookback + 1
  <2>1. first \in Int
    BY <1>2, CandleFeedAssumption
  <2>2. h \in Max({0, first})..last_expected(now)
    BY DEF Missing
  <2> HIDE DEF first
  <2>3. Max({0, first}) \in Int /\ Max({0, first}) >= 0
    BY <2>1, MaxOfTwo
  <2> QED
    BY <1>1, <1>2, <2>2, <2>3
<1>4. \A h \in pending' : h \in Nat /\ Over(h)'
  BY <1>1, <1>3 DEF GoLive, Over
<1>5. TypeOK' /\ Phases'
  BY <1>1, <1>4 DEF IInv, TypeOK, Phases, GoLive
<1>6. CASE feed = "eodhd"
  <2>1. Mirror(store', db')
    BY <1>1, <1>6 DEF IInv, Mirrored, GoLive
  <2> QED
    BY <1>5, <2>1, MirrorStep
<1>7. CASE feed = "twelvedata"
  <2>1. Polls'
    BY <1>1, <1>7 DEF IInv, Polls, Covered, Bar, PrintsOf, Traded, GoLive
  <2>2. Ahead'
    <3>1. \A r \in db : r.hour <= Newest(db)
      BY NewestIs DEF IInv, TypeOK
    <3>2. Newest(db) \in Int /\ Newest(store) \in Int /\ \A r \in db : r.hour \in Nat
      BY NewestIs DEF IInv, TypeOK
    <3> QED
      BY <1>1, <1>7, <3>1, <3>2 DEF IInv, Polls, Ahead, GoLive
  <2> QED
    BY <1>1, <1>5, <1>7, <2>1, <2>2 DEF IInv, Mirrored, Unsaved, OneVersion, GoLive
<1> QED
  BY <1>6, <1>7, ReadyFeeds

LEMMA RepairPassKeeps == IInv /\ RepairPass => IInv'
<1> SUFFICES ASSUME IInv, RepairPass
             PROVE  IInv'
  OBVIOUS
<1>1. /\ UNCHANGED <<now, final, feed, proc, store, db, bucket, up, wire, refused>>
      /\ pending' \subseteq pending
  BY DEF RepairPass
<1>2. fetch' \in Nat \cup {None}
  <2>1. CASE pending' = {}
    BY <2>1 DEF RepairPass
  <2>2. CASE pending' # {}
    <3>1. pending' \in SUBSET Nat /\ now \in Nat /\ Hour(now) \in Nat
      BY <1>1, HourIsNat DEF IInv, TypeOK
    <3>2. \A h \in pending' : h <= Hour(now)
      <4>1. bucket # None => bucket.hour \in Nat /\ bucket.hour <= Hour(now)
        BY DEF IInv, TypeOK, Buckets
      <4>2. \A h \in pending' : h \in Nat /\ Over(h)
        BY <1>1 DEF IInv, TypeOK
      <4> QED
        BY <3>1, <4>1, <4>2 DEF Over
    <3>3. IsFiniteSet(pending')
      BY <3>1, <3>2, FS_BoundedSetOfNaturals
    <3>4. pending' \in SUBSET Int
      BY <3>1
    <3>5. Min(pending') \in Nat
      BY <2>2, <3>1, <3>3, <3>4, MinIs
    <3>6. fetch' = Max({0, Min(pending') - 1}) /\ Min(pending') - 1 \in Int
      BY <2>2, <3>5 DEF RepairPass
    <3>7. fetch' \in Int /\ fetch' >= 0
      BY <3>6, MaxOfTwo
    <3> QED
      BY <3>7
  <2> QED
    BY <2>1, <2>2
<1>3. \A h : Over(h) => Over(h)'
  BY <1>1 DEF Over
<1>4. TypeOK' /\ Phases' /\ Ahead' /\ Unsaved'
  BY <1>1, <1>2, <1>3 DEF IInv, TypeOK, Phases, Ahead, Unsaved
<1> QED
  BY <1>1, <1>4 DEF IInv, Mirrored, Polls, Live, OneVersion, RepairPass

\* Repaired rows are of hours that ticks are past and memory has no bar of its
\* own of; when the pass ends well, memory is loaded from the disk.
LEMMA RepairKeeps == IInv /\ RepairDone => IInv'
<1> SUFFICES ASSUME IInv, RepairDone
             PROVE  IInv'
  OBVIOUS
<1>1. PICK bars \in Answers(fetch) : RepairAnswered(bars) \/ RepairRaises(bars)
  BY DEF RepairDone
<1>2. /\ UNCHANGED <<now, final, feed, proc, bucket, up, wire, refused>> /\ fetch' = None
      /\ proc = "live" /\ feed = "eodhd" /\ fetch \in Nat
  BY DEF RepairDone, Live, IInv, TypeOK
<1>3. Table(bars) /\ Table(db) /\ Table(store)
  BY <1>2, AnswersTable DEF IInv, TypeOK
<1>4. ASSUME NEW h
      PROVE  /\ Table(insert_candles(db, Repaired(bars, h)))
             /\ \A r \in insert_candles(db, Repaired(bars, h)) \ db :
                   r.hour \in pending /\ r.hour \notin Hours(db)
             /\ db \subseteq insert_candles(db, Repaired(bars, h))
  <2>1. Table(Repaired(bars, h))
    BY <1>3, SubTable DEF Repaired
  <2> QED
    BY <1>3, <2>1, InsertIs DEF insert_candles, Repaired
<1>5. Table(db') /\ pending' \subseteq pending /\ db \subseteq db'
      /\ \A r \in db' \ db : r.hour \in pending /\ r.hour \notin Hours(db)
  BY <1>1, <1>4 DEF RepairAnswered, RepairRaises
<1>6. \A h : Over(h) => Over(h)'
  BY <1>2 DEF Over
<1>7. Table(store') => TypeOK' /\ Phases'
  BY <1>2, <1>5, <1>6 DEF IInv, TypeOK, Phases
<1>8. CASE store' = store
  <2>1. Ahead'
    BY <1>2, <1>5, <1>6, <1>8 DEF IInv, TypeOK, Ahead
  <2>2. Hours(db) \subseteq Hours(db')
    BY <1>5 DEF Hours
  <2>3. Unsaved'
    BY <1>2, <1>5, <1>8, <2>2 DEF IInv, Unsaved
  <2>4. OneVersion'
    <3> SUFFICES ASSUME NEW b \in store, NEW r \in db', b.hour = r.hour, b.hour \notin refused
                 PROVE  b = r
      BY <1>2, <1>8 DEF OneVersion
    <3>1. CASE r \in db
      BY <3>1 DEF IInv, OneVersion
    <3>2. CASE r \notin db
      BY <1>2, <1>5, <3>2 DEF IInv, Unsaved
    <3> QED
      BY <3>1, <3>2
  <2> QED
    BY <1>2, <1>3, <1>7, <1>8, <2>1, <2>3, <2>4 DEF IInv, Mirrored, Polls
<1>9. CASE store' = get_candles(db', Buffer)
  <2>1. Mirror(store', db') /\ Table(store')
    BY <1>5, <1>9, LastMirrors, LastIs, HourlyBarsAssumption DEF get_candles
  <2> QED
    BY <1>7, <2>1, MirrorStep
<1> QED
  BY <1>1, <1>8, <1>9 DEF RepairAnswered, RepairRaises

LEMMA NoneIs == None \notin Nat /\ None \notin Bars /\ None \notin Buckets
BY HourlyBarsAssumption

\* What a tick does to the bucket: the hour of a bucket only grows, and a bucket
\* is emitted or dropped when a tick of a later hour takes its place.
LEMMA TickIs ==
    ASSUME TypeOK, NEW i \in Nat, i <= now, NEW r, r = ingest_tick(bucket, i, now)
    PROVE  /\ r.bucket # None => r.bucket \in Buckets /\ r.bucket.hour <= Hour(now)
           /\ bucket # None => r.bucket # None /\ bucket.hour <= r.bucket.hour
           /\ bucket = None => /\ r.bucket # None => r.bucket.hour = Hour(i)
                               /\ r.emit = None /\ r.drop = None
           /\ r.emit # None => /\ bucket # None /\ r.emit = Finalised(bucket)
                               /\ bucket.hour < r.bucket.hour /\ r.drop = None
           /\ r.drop # None => /\ bucket # None /\ r.drop = bucket.hour
                               /\ bucket.hour < r.bucket.hour
<1>1. now \in Nat
  BY DEF TypeOK
<1>2. Hour(i) \in Nat /\ Hour(now) \in Nat /\ Hour(i) <= Hour(now)
  BY <1>1, HourIsNat, HourMonotone
<1>3. FirstTick(i) \in Buckets /\ FirstTick(i).hour = Hour(i) /\ FirstTick(i) # None
  <2>1. Opening(i) \in BOOLEAN
    BY DEF Opening
  <2>2. FirstTick(i) \in Buckets /\ FirstTick(i).hour = Hour(i)
    BY <1>1, <1>2, <2>1 DEF FirstTick, Buckets
  <2> QED
    BY <2>2, NoneIs
<1>4. bucket # None => bucket \in Buckets /\ bucket.hour \in Nat /\ bucket.hour <= Hour(now)
  BY DEF TypeOK, Buckets
<1>5. CASE now \notin Open
  BY <1>4, <1>5 DEF ingest_tick
<1>6. CASE now \in Open /\ bucket = None
  BY <1>2, <1>3, <1>6 DEF ingest_tick
<1>7. CASE now \in Open /\ bucket # None /\ Hour(i) < bucket.hour
  BY <1>4, <1>7 DEF ingest_tick
<1>8. CASE now \in Open /\ bucket # None /\ Hour(i) = bucket.hour
  <2>1. [bucket EXCEPT !.of = @ \cup {i}] \in Buckets
        /\ [bucket EXCEPT !.of = @ \cup {i}].hour = bucket.hour
    BY <1>1, <1>4, <1>8 DEF Buckets
  <2>2. [bucket EXCEPT !.of = @ \cup {i}] # None
    BY <2>1, NoneIs
  <2>3. ~(Hour(i) < bucket.hour)
    BY <1>2, <1>4, <1>8
  <2>4. r.bucket = [bucket EXCEPT !.of = @ \cup {i}] /\ r.emit = None /\ r.drop = None
    BY <1>8, <2>3 DEF ingest_tick
  <2> QED
    BY <1>4, <1>8, <2>1, <2>2, <2>4
<1>9. CASE now \in Open /\ bucket # None /\ Hour(i) > bucket.hour
  <2>0. ~(Hour(i) < bucket.hour) /\ ~(Hour(i) = bucket.hour)
    BY <1>2, <1>4, <1>9
  <2>1. CASE bucket.eligible
    <3>1. r = [bucket |-> FirstTick(i), emit |-> Finalised(bucket), drop |-> None]
      BY <1>9, <2>0, <2>1 DEF ingest_tick
    <3> QED
      BY <1>2, <1>3, <1>4, <1>9, <3>1
  <2>2. CASE ~bucket.eligible
    <3>1. r = [bucket |-> FirstTick(i), emit |-> None, drop |-> bucket.hour]
      BY <1>9, <2>0, <2>2 DEF ingest_tick
    <3> QED
      BY <1>2, <1>3, <1>4, <1>9, <3>1
  <2> QED
    BY <2>1, <2>2
<1> QED
  BY <1>2, <1>4, <1>5, <1>6, <1>7, <1>8, <1>9

\* A tick that emits a bar: the disk may refuse it, and memory may have moved on.
LEMMA EmittedAgrees ==
    ASSUME IInv, proc = "live", feed # "twelvedata", refused' = refused,
           NEW bar, bucket # None, bar = Finalised(bucket), Emitted(bar)
    PROVE  /\ Table(store') /\ Table(db')
           /\ \A r \in db' : \/ r.hour <= Newest(store')
                             \/ r \in db /\ feed = "eodhd" /\ Over(r.hour)
           /\ \A b \in store' : \/ b.hour \in Hours(db')
                                \/ b.hour <= bucket.hour /\ b.hour \notin pending
           /\ OneVersion'
<1>1. bar \in Bars /\ bar.hour = bucket.hour /\ bar.hour \in Nat
  BY DEF IInv, TypeOK, Finalised, Bars, Buckets
<1>2. Table(db) /\ Table(store)
  BY DEF IInv, TypeOK
<1>3. Table({bar})
  BY <1>1, FS_Singleton DEF Table, Single
<1>4. /\ Table(db') /\ db \subseteq db'
      /\ \A r \in db' : r \in db \/ (r = bar /\ bar.hour \notin Hours(db))
  BY <1>2, <1>3, InsertIs DEF Emitted, insert_candle, insert_candles
<1>5. store' = add_candle(store, bar)
  BY DEF Emitted
<1>6. /\ Table(store') /\ Newest(store) <= Newest(store') /\ bar.hour <= Newest(store')
      /\ \A b \in store' : b \in store \/ (b = bar /\ bar.hour > Newest(store))
  BY <1>1, <1>2, <1>5, AddOneIs
<1>7. Newest(store) \in Int /\ Newest(store') \in Int /\ \A r \in db' : r.hour \in Nat
  BY <1>2, <1>4, <1>6, NewestIs
<1>8. ASSUME NEW r \in db'
      PROVE  \/ r.hour <= Newest(store')
             \/ r \in db /\ feed = "eodhd" /\ Over(r.hour)
  <2>1. CASE r \in db
    BY <1>6, <1>7, <2>1 DEF IInv, Ahead
  <2>2. CASE r = bar
    BY <1>6, <2>2
  <2> QED
    BY <1>4, <2>1, <2>2
<1>9. bar.hour \notin pending
  BY <1>1 DEF IInv, TypeOK, Over
<1>10. \A b \in store' : \/ b.hour \in Hours(db')
                         \/ b.hour <= bucket.hour /\ b.hour \notin pending
  <2>1. Hours(db) \subseteq Hours(db')
    BY <1>4 DEF Hours
  <2>2. \A b \in store : b.hour \in Nat
    BY <1>2 DEF Table, Bars
  <2> QED
    BY <1>1, <1>6, <1>9, <2>1, <2>2 DEF IInv, Unsaved
<1>11. ASSUME NEW b \in store', NEW r \in db', b.hour = r.hour, b.hour \notin refused
       PROVE  b = r
  <2>1. CASE b \in store /\ r \in db
    BY <1>11, <2>1 DEF IInv, OneVersion
  <2>2. CASE b \in store /\ r = bar /\ bar.hour \notin Hours(db)
    BY <1>1, <1>11, <2>2 DEF IInv, Unsaved
  <2>3. CASE b = bar /\ bar.hour > Newest(store) /\ r \in db
    <3>1. ~(r.hour <= Newest(store))
      BY <1>1, <1>7, <1>11, <2>3
    <3>2. Over(r.hour)
      BY <2>3, <3>1 DEF IInv, Ahead
    <3>3. r.hour < bucket.hour
      BY <3>2 DEF Over
    <3> QED
      BY <1>1, <1>11, <2>3, <3>3
  <2> QED
    BY <1>4, <1>6, <2>1, <2>2, <2>3
<1> QED
  BY <1>4, <1>6, <1>8, <1>10, <1>11 DEF OneVersion

LEMMA TickKeeps ==
    ASSUME IInv, proc = "live", feed # "twelvedata", wire # <<>>,
           NEW r, r = ingest_tick(bucket, Head(wire), now), Ticked(r),
           \/ pending' = pending
           \/ feed = "eodhd" /\ r.drop # None /\ pending' = pending \cup {r.drop}
    PROVE  IInv'
<1> DEFINE i == Head(wire)
<1>1. /\ i \in Nat /\ i <= now /\ 1 \in DOMAIN wire /\ i = wire[1]
      /\ Tail(wire) \in Seq(Nat)
      /\ \A k \in DOMAIN Tail(wire) : k + 1 \in DOMAIN wire /\ Tail(wire)[k] = wire[k + 1]
  BY DEF IInv, TypeOK
<1>2. /\ wire' = Tail(wire) /\ bucket' = r.bucket
      /\ UNCHANGED <<now, final, feed, proc, fetch, up, refused>>
  BY DEF Ticked
<1>3. /\ r.bucket # None => r.bucket \in Buckets /\ r.bucket.hour <= Hour(now)
      /\ bucket # None => r.bucket # None /\ bucket.hour <= r.bucket.hour
      /\ bucket = None => /\ r.bucket # None => r.bucket.hour = Hour(i)
                          /\ r.emit = None /\ r.drop = None
      /\ r.emit # None => /\ bucket # None /\ r.emit = Finalised(bucket)
                          /\ bucket.hour < r.bucket.hour /\ r.drop = None
      /\ r.drop # None => /\ bucket # None /\ r.drop = bucket.hour
                          /\ bucket.hour < r.bucket.hour
  BY <1>1, TickIs DEF IInv
<1> HIDE DEF i
<1>4. /\ bucket # None => bucket \in Buckets /\ bucket.hour \in Nat
      /\ r.bucket # None => r.bucket.hour \in Nat
  BY <1>3 DEF IInv, TypeOK, Buckets
<1>5. ASSUME NEW h \in Nat, Over(h)
      PROVE  Over(h)'
  <2>1. CASE r.bucket = None
    BY <1>1, <1>2, <1>3, <1>5, <2>1 DEF Over
  <2>2. CASE r.bucket # None /\ bucket = None
    BY <1>1, <1>2, <1>3, <1>5, <2>2 DEF Over
  <2>3. CASE r.bucket # None /\ bucket # None
    BY <1>2, <1>3, <1>4, <1>5, <2>3 DEF Over
  <2> QED
    BY <2>1, <2>2, <2>3
<1>6. \A h \in pending' : h \in Nat /\ Over(h)'
  <2>1. r.drop # None => r.drop \in Nat /\ r.drop < r.bucket.hour /\ r.bucket # None
    BY <1>3, <1>4
  <2>2. r.drop # None => Over(r.drop)'
    BY <1>2, <2>1 DEF Over
  <2> QED
    BY <1>5, <2>1, <2>2 DEF IInv, TypeOK
<1>7. Table(store') /\ Table(db') => TypeOK' /\ Phases'
  <2>1. \A k \in DOMAIN wire' : wire'[k] <= now'
    BY <1>1, <1>2 DEF IInv, TypeOK
  <2> QED
    BY <1>1, <1>2, <1>3, <1>6, <2>1 DEF IInv, TypeOK, Phases
<1>8. ASSUME NEW h \in Nat, bucket # None, h <= bucket.hour, h \notin pending,
             h < bucket.hour \/ r.emit # None
      PROVE  bucket' # None /\ h < bucket'.hour /\ h \notin pending'
  BY <1>2, <1>3, <1>4, <1>8
<1>9. CASE r.emit = None
  <2>1. store' = store /\ db' = db
    BY <1>9 DEF Ticked
  <2>2. Table(store) /\ Table(db) /\ \A b \in store \cup db : b.hour \in Nat
    BY DEF IInv, TypeOK, Table, Bars
  <2>3. Ahead'
    BY <1>2, <1>5, <2>1, <2>2 DEF IInv, Ahead
  <2>4. Unsaved'
    BY <1>4, <1>8, <2>1, <2>2 DEF IInv, Unsaved
  <2> QED
    BY <1>2, <1>7, <2>1, <2>2, <2>3, <2>4 DEF IInv, Mirrored, Polls, OneVersion
<1>10. CASE r.emit # None
  <2>1. Emitted(r.emit) /\ bucket # None /\ r.emit = Finalised(bucket)
    BY <1>3, <1>10 DEF Ticked
  <2>2. /\ Table(store') /\ Table(db')
        /\ \A q \in db' : \/ q.hour <= Newest(store')
                          \/ q \in db /\ feed = "eodhd" /\ Over(q.hour)
        /\ \A b \in store' : \/ b.hour \in Hours(db')
                             \/ b.hour <= bucket.hour /\ b.hour \notin pending
        /\ OneVersion'
    BY <1>2, <2>1, EmittedAgrees
  <2>3. \A b \in store' \cup db' : b.hour \in Nat
    BY <2>2 DEF Table, Bars
  <2>4. Ahead'
    BY <1>2, <1>5, <2>2, <2>3 DEF Ahead
  <2>5. Unsaved'
    BY <1>8, <1>10, <2>1, <2>2, <2>3 DEF Unsaved
  <2> QED
    BY <1>2, <1>7, <2>2, <2>4, <2>5 DEF IInv, Mirrored, Polls
<1> QED
  BY <1>9, <1>10

LEMMA TicksKeep == IInv /\ (HandleTick \/ Dispatch) => IInv'
<1> SUFFICES ASSUME IInv, HandleTick \/ Dispatch
             PROVE  IInv'
  OBVIOUS
<1> DEFINE r == ingest_tick(bucket, Head(wire), now)
<1>1. proc = "live" /\ feed # "twelvedata" /\ wire # <<>> /\ Ticked(r)
  BY DEF HandleTick, Dispatch, Live
<1>2. \/ pending' = pending
      \/ feed = "eodhd" /\ r.drop # None /\ pending' = pending \cup {r.drop}
  BY DEF HandleTick, Dispatch, Live, Recorded
<1> HIDE DEF r
<1>3. r = ingest_tick(bucket, Head(wire), now)
  BY DEF r
<1> QED
  BY <1>1, <1>2, <1>3, TickKeeps

LEMMA Inductive == IInv /\ [Next]_vars => IInv'
<1> SUFFICES ASSUME IInv, [Next]_vars
             PROVE  IInv'
  OBVIOUS
<1>1. CASE Finalise
  <2>1. final + 1 \in Nat /\ final + 1 <= Hour(now)
    BY <1>1, HourIsNat DEF IInv, TypeOK, Finalise
  <2> QED
    BY <1>1, <2>1, QuietKeeps DEF Finalise, memory, IInv, TypeOK
<1>2. CASE Disconnect
  <2>1. proc = "live"
    BY <1>2 DEF IInv, Phases, Disconnect
  <2> QED
    BY <1>2, <2>1, QuietKeeps DEF Disconnect, IInv, TypeOK
<1>3. CASE Connect
  <2>1. TypeOK' /\ Phases' /\ Ahead'
    BY <1>3 DEF IInv, TypeOK, Phases, Ahead, Over, Connect, Live
  <2> QED
    BY <1>3, <2>1 DEF IInv, Mirrored, Polls, Live, Unsaved, OneVersion, Connect
<1>4. CASE PollStart
  BY <1>4, QuietKeeps DEF PollStart, IInv, TypeOK
<1>5. CASE UNCHANGED vars
  BY <1>5, QuietKeeps DEF vars, memory, IInv, TypeOK
<1> QED
  BY <1>1, <1>2, <1>3, <1>4, <1>5, AdvanceKeeps, RebuildKeeps, CrashKeeps, StartKeeps,
     BackfillKeeps, RunEndsKeeps, GoLiveKeeps, ProbeKeeps, TicksKeep, RepairPassKeeps, RepairKeeps,
     PollDoneKeeps DEF Next, Stopped

LEMMA Invariant == Spec => []IInv
BY InitIInv, Inductive, PTL DEF Spec

\* DataStore and CandleDB: whatever ticks, repairs, polls and reloads race, and
\* whatever inserts fail, an hour has one bar in memory and another on disk only
\* if a poll's insert of it failed while it was forming.
THEOREM MemoryAndDiskAgree == Spec => []OneVersion
BY Invariant, PTL DEF IInv

-----------------------------------------------------------------------------
(* Which bars are made. *)

LEMMA TicksClose ==
    ASSUME IInv, HandleTick \/ Dispatch
    PROVE  \A b \in (db' \ db) \cup (store' \ store) : b.hour < Hour(now)
<1> DEFINE r == ingest_tick(bucket, Head(wire), now)
           i == Head(wire)
<1>1. proc = "live" /\ Ticked(r)
  BY DEF HandleTick, Dispatch, Live
<1>2. i \in Nat /\ i <= now
  BY DEF HandleTick, Dispatch, IInv, TypeOK
<1> HIDE DEF i
<1>3. r = ingest_tick(bucket, i, now)
  BY DEF i
<1> HIDE DEF r
<1>4. CASE r.emit = None
  BY <1>1, <1>4 DEF Ticked
<1>5. CASE r.emit # None
  <2>1. /\ bucket # None /\ r.emit = Finalised(bucket) /\ bucket.hour < r.bucket.hour
        /\ r.bucket # None => r.bucket \in Buckets /\ r.bucket.hour <= Hour(now)
        /\ r.bucket # None
    BY <1>2, <1>3, <1>5, TickIs DEF IInv
  <2>2. /\ r.emit \in Bars /\ r.emit.hour = bucket.hour /\ bucket.hour \in Nat
        /\ r.bucket.hour \in Nat /\ Hour(now) \in Nat
    <3>1. r.emit \in Bars /\ r.emit.hour = bucket.hour /\ bucket.hour \in Nat
      BY <2>1 DEF IInv, TypeOK, Buckets, Finalised, Bars
    <3>2. r.bucket.hour \in Nat
      BY <2>1 DEF Buckets
    <3>3. Hour(now) \in Nat
      BY HourIsNat DEF IInv, TypeOK
    <3> QED
      BY <3>1, <3>2, <3>3
  <2>3. r.emit.hour < Hour(now)
    BY <2>1, <2>2
  <2>4. Table(store) /\ Emitted(r.emit)
    BY <1>1, <1>5 DEF Ticked, IInv, TypeOK
  <2>5. store' \subseteq store \cup {r.emit}
    BY <2>2, <2>4, AddOneIs DEF Emitted
  <2>6. db' \subseteq db \cup {r.emit}
    BY <2>4 DEF Emitted, insert_candle, insert_candles
  <2> QED
    BY <2>3, <2>5, <2>6
<1> QED
  BY <1>4, <1>5

LEMMA RepairsClose ==
    ASSUME IInv, RepairDone
    PROVE  \A b \in (db' \ db) \cup (store' \ (store \cup db)) : b.hour < Hour(now)
<1>1. PICK bars : RepairAnswered(bars) \/ RepairRaises(bars)
  BY DEF RepairDone
<1>2. \A b \in db' \ db : b.hour \in pending
  BY <1>1 DEF RepairAnswered, RepairRaises, insert_candles, Repaired
<1>3. store' \subseteq store \cup db'
  BY <1>1 DEF RepairAnswered, RepairRaises, get_candles, Last
<1>4. Hour(now) \in Nat
  BY HourIsNat DEF IInv, TypeOK
<1>5. \A h \in pending : h < Hour(now)
  BY <1>4 DEF IInv, TypeOK, Over, Buckets
<1> QED
  BY <1>2, <1>3, <1>5

\* IGCandleAggregator and the repair pass: no bar of an hour that is not over,
\* whatever old snapshots a reconnect replays.
THEOREM BarsOfClosedHours == Spec => TicksCloseHours
<1> DEFINE Closes == proc = "live" /\ feed # "twelvedata" =>
                \A b \in (db' \ db) \cup (store' \ (store \cup db)) : b.hour < Hour(now)
<1>1. IInv /\ [Next]_vars => [Closes]_vars
  <2> SUFFICES ASSUME IInv, Next, proc = "live", feed # "twelvedata"
               PROVE  \A b \in (db' \ db) \cup (store' \ (store \cup db)) :
                          b.hour < Hour(now)
    OBVIOUS
  <2>1. CASE HandleTick \/ Dispatch
    BY <2>1, TicksClose
  <2>2. CASE RepairDone
    BY <2>2, RepairsClose
  <2>3. CASE db' = db /\ store' \subseteq store
    BY <2>3
  <2> QED
    BY <2>1, <2>2, <2>3 DEF Next, Advance, Finalise, Disconnect, Connect, Rebuild, Crash, Start,
       Backfill, RunEnds, GoLive, ProbeDone, FetchDone, RepairPass, PollStart, PollDone, Live,
       memory, Stopped, vars
<1>2. TicksCloseHours <=> [][Closes]_vars
  BY DEF TicksCloseHours
<1> HIDE DEF Closes
<1> QED
  BY <1>1, <1>2, Invariant, PTL DEF Spec

-----------------------------------------------------------------------------
(* Which bars are kept. *)

Kept(b, buf) ==
    b \in buf \/ (Cardinality(buf) = Buffer /\ \A c \in buf : b.hour < c.hour)

LEMMA AddKeeps ==
    ASSUME NEW buf, NEW bars, Table(buf), Table(bars), NEW b \in buf
    PROVE  Kept(b, add_candles(buf, bars))
<1> DEFINE new == After(bars, Newest(buf))
<1>1. Table(buf \cup new)
  BY AddedTable
<1> HIDE DEF new
<1>2. Kept(b, Last(buf \cup new, Buffer))
  BY <1>1, LastKeeps, HourlyBarsAssumption DEF Kept
<1> QED
  BY <1>2 DEF add_candles, new

LEMMA AddOneKeeps ==
    ASSUME NEW buf, Table(buf), NEW bar \in Bars, NEW b \in buf
    PROVE  Kept(b, add_candle(buf, bar))
<1>1. Table({bar})
  BY FS_Singleton DEF Table, Single
<1>2. CASE bar.hour > Newest(buf)
  <2>1. After({bar}, Newest(buf)) = {bar}
    BY <1>2 DEF After
  <2>2. add_candle(buf, bar) = add_candles(buf, {bar})
    BY <1>2, <2>1 DEF add_candle, add_candles
  <2> QED
    BY <1>1, <2>2, AddKeeps
<1>3. CASE ~(bar.hour > Newest(buf))
  BY <1>3 DEF add_candle, Kept
<1> QED
  BY <1>2, <1>3

\* DataStore: memory has at least the newest of the saved bars it had, through
\* late ticks, polls and the reload of a repair.
THEOREM SavedBarsStay == Spec => ReloadKeepsBars
<1> DEFINE Keeps == proc' = proc => \A b \in store \cap db :
                b \in store' \/ (Cardinality(store') = Buffer /\ \A c \in store' : b.hour < c.hour)
<1>1. IInv /\ [Next]_vars => [Keeps]_vars
  <2> SUFFICES ASSUME IInv, Next, proc' = proc, NEW b \in store, b \in db
               PROVE  Kept(b, store')
    BY DEF Kept
  <2>1. Table(store) /\ Table(db)
    BY DEF IInv, TypeOK
  <2>2. CASE HandleTick \/ Dispatch
    <3> DEFINE r == ingest_tick(bucket, Head(wire), now)
               i == Head(wire)
    <3>1. Ticked(r) /\ i \in Nat /\ i <= now
      BY <2>2 DEF HandleTick, Dispatch, IInv, TypeOK
    <3> HIDE DEF i
    <3>2. r = ingest_tick(bucket, i, now)
      BY DEF i
    <3> HIDE DEF r
    <3>3. CASE r.emit = None
      BY <3>1, <3>3 DEF Ticked, Kept
    <3>4. CASE r.emit # None
      <4>1. bucket # None /\ r.emit = Finalised(bucket)
        BY <3>1, <3>2, <3>4, TickIs DEF IInv
      <4>2. r.emit \in Bars
        BY <4>1 DEF IInv, TypeOK, Buckets, Finalised, Bars
      <4>3. store' = add_candle(store, r.emit)
        BY <3>1, <3>4 DEF Ticked, Emitted
      <4> QED
        BY <2>1, <4>2, <4>3, AddOneKeeps
    <3> QED
      BY <3>3, <3>4
  <2>3. CASE RepairDone
    <3>1. PICK bars \in Answers(fetch) : RepairAnswered(bars) \/ RepairRaises(bars)
      BY <2>3 DEF RepairDone
    <3>2. Table(bars)
      BY <2>3, AnswersTable DEF IInv, TypeOK, RepairDone
    <3>3. Table(Repaired(bars, MaxNow))
      BY <3>2, SubTable DEF Repaired
    <3>4. CASE store' = store
      BY <3>4 DEF Kept
    <3>5. CASE store' = get_candles(insert_candles(db, Repaired(bars, MaxNow)), Buffer)
      <4>1. Table(insert_candles(db, Repaired(bars, MaxNow)))
        BY <2>1, <3>3, InsertIs
      <4>2. b \in insert_candles(db, Repaired(bars, MaxNow))
        BY DEF insert_candles
      <4> QED
        BY <3>5, <4>1, <4>2, LastKeeps, HourlyBarsAssumption DEF get_candles, Kept
    <3> QED
      BY <3>1, <3>4, <3>5 DEF RepairAnswered, RepairRaises
  <2>4. CASE PollDone
    <3>1. PICK bars \in Latest(PollSize) : Polled(bars)
      BY <2>4 DEF PollDone
    <3>2. Table(bars)
      BY LatestTable DEF IInv, TypeOK
    <3> QED
      BY <2>1, <3>1, <3>2, AddKeeps DEF Polled, Ingested
  <2>5. CASE store' = store
    BY <2>5 DEF Kept
  <2> QED
    BY <2>2, <2>3, <2>4, <2>5 DEF Next, Advance, Finalise, Disconnect, Connect, Rebuild, Crash,
       Start, Backfill, Backfilled, RunEnds, GoLive, ProbeDone, FetchDone, Warm, RepairPass, PollStart, memory,
       Stopped, vars
<1>2. ReloadKeepsBars <=> [][Keeps]_vars
  BY DEF ReloadKeepsBars
<1> HIDE DEF Keeps
<1> QED
  BY <1>1, <1>2, Invariant, PTL DEF Spec

-----------------------------------------------------------------------------
(* The Lightstreamer connections the feeds listen on: for any number of SDK  *)
(* clients, any delays and any faults, one client, one recovery at a time,   *)
(* and nothing opened after the shutdown.                                    *)

States == {"off", "opening", "barred", "up", "silent"}

\* What the three invariants do not say of the control state: the heartbeat
\* logs in without a client, and the shutdown ends both loops.
Control ==
    /\ client \in [Clients -> States]
    /\ cur \in Clients \cup {Nil} /\ scheduled \in BOOLEAN
    /\ hb = "auth" => cur = Nil
    /\ closing => cur = Nil /\ hb = "ended" /\ mloop = "ended" /\ mclient = "off"

StreamsInv == Control /\ OneClient /\ OneRecovery

LEMMA StreamsInit == LSInit => StreamsInv
BY LSStreamsAssumption DEF LSInit, StreamsInv, Control, States, OneClient, OneRecovery, Alive

\* Whatever client there was is off once it was torn down.
LEMMA NoneAfterTearDown ==
    ASSUME StreamsInv, NEW report
    PROVE  /\ TornDown(report).clients \in [Clients -> States]
           /\ \A c \in Clients : ~Alive(TornDown(report).clients[c])
<1>1. CASE cur = Nil
  BY <1>1, LSStreamsAssumption DEF TornDown, StreamsInv, Control, States, OneClient
<1>2. CASE cur \in Clients
  BY <1>2, LSStreamsAssumption DEF TornDown, StreamsInv, Control, States, OneClient, Alive
<1> QED
  BY <1>1, <1>2 DEF StreamsInv, Control

\* A connect over clients that are off leaves one, _ls_client.
LEMMA OneConnected ==
    ASSUME NEW clients, NEW t,
           clients \in [Clients -> States],
           \A c \in Clients : ~Alive(clients[c]),
           Connects(clients, t) \/ ConnectRaises(clients)
    PROVE  /\ client' \in [Clients -> States]
           /\ cur' \in Clients \cup {Nil}
           /\ OneClient'
BY DEF Connects, ConnectRaises, OpeningWith, States, OneClient, Alive

-----------------------------------------------------------------------------
LEMMA StreamsInductive ==
    ASSUME StreamsInv, [LSNext]_lsVars
    PROVE  StreamsInv'
<1> USE DEF StreamsInv
<1>1. CASE Opened \/ Refused \/ Drop \/ Silence
  <2>1. Control'
    BY <1>1, LSStreamsAssumption DEF Opened, Refused, Drop, Silence, Disconnected, Control,
                States, metals
  <2>2. OneClient'
    BY <1>1 DEF Opened, Refused, Drop, Silence, Disconnected, Control,
                States, OneClient, Alive
  <2> QED
    BY <1>1, <2>1, <2>2 DEF Opened, Refused, Drop, Silence, OneRecovery
<1>2. CASE ServerError \/ Update \/ Pass \/ TokensRenewed
  BY <1>2 DEF ServerError, Update, Pass, TokensRenewed, Control, OneClient,
              OneRecovery, feedVars, metals
<1>3. CASE schedule_reconnect
  BY <1>3 DEF schedule_reconnect, metals, Control, OneClient, OneRecovery
<1>4. CASE Reconnect
  <2>1. hb # "auth" /\ UNCHANGED <<hb, closing, metals>>
    BY <1>4 DEF Reconnect, OneRecovery
  <2>2. OneRecovery' /\ scheduled' \in BOOLEAN
    BY <1>4, <2>1 DEF Reconnect, OneRecovery
  <2>3. CASE closing
    BY <1>4, <2>1, <2>2, <2>3 DEF Reconnect, Stopping, Control, OneClient,
                                  metals
  <2>4. CASE ~closing
    <3>1. PICK report \in {0, 1} :
              \/ Connects(TornDown(report).clients, tokens)
              \/ ConnectRaises(TornDown(report).clients)
      BY <1>4, <2>4 DEF Reconnect, Stopping
    <3>2. /\ client' \in [Clients -> States]
          /\ cur' \in Clients \cup {Nil}
          /\ OneClient'
      BY <3>1, NoneAfterTearDown, OneConnected
    <3> QED
      BY <2>1, <2>2, <2>4, <3>2 DEF Control
  <2> QED
    BY <2>3, <2>4
<1>5. CASE HeartbeatTrips
  <2>1. PICK report \in {0, 1} : client' = TornDown(report).clients
    BY <1>5 DEF HeartbeatTrips
  <2>2. client' \in [Clients -> States] /\ OneClient'
    BY <2>1, NoneAfterTearDown DEF OneClient
  <2> QED
    BY <1>5, <2>2 DEF HeartbeatTrips, Control, OneRecovery, metals
<1>6. CASE ReauthSucceeds \/ ReauthFails
  <2>1. \A c \in Clients : ~Alive(client[c])
    BY <1>6, LSStreamsAssumption DEF ReauthSucceeds, ReauthFails, Control, OneClient
  <2>2. /\ client' \in [Clients -> States]
        /\ cur' \in Clients \cup {Nil}
        /\ OneClient'
    <3>1. CASE Connects(client, "good") \/ ConnectRaises(client)
      BY <2>1, <3>1, OneConnected DEF Control
    <3>2. CASE UNCHANGED <<client, cur>>
      BY <3>2 DEF Control, OneClient
    <3> QED
      BY <1>6, <3>1, <3>2 DEF ReauthSucceeds, ReauthFails
  <2>3. /\ hb = "auth" /\ hb' = "wait" /\ scheduled' = FALSE
        /\ UNCHANGED <<rec, closing, mloop, mclient>>
    BY <1>6 DEF ReauthSucceeds, ReauthFails, FlagCleared, metals
  <2>4. ~closing /\ rec # "sleep"
    BY <2>3 DEF Control, OneRecovery
  <2> QED
    BY <2>2, <2>3, <2>4 DEF Control, OneRecovery
<1>7. CASE \/ MOpened \/ MDrop \/ MLate \/ MRebuild \/ MTearDown
           \/ MReauthFails \/ MConnects \/ MConnectRaises \/ MSubscribed
  <2>1. UNCHANGED <<feedVars, closing>>
    BY <1>7 DEF MOpened, MDrop, MLate, MRebuild, MTearDown, MReauthFails,
                MConnects, MConnectRaises, MSubscribed
  <2>2. closing => mloop' = "ended" /\ mclient' = "off"
    BY <1>7 DEF MOpened, MDrop, MDisconnected, MLate, MRebuild, MTearDown,
                MReauthFails, MConnects, MConnectRaises, MSubscribed, Control
  <2> QED
    BY <2>1, <2>2 DEF feedVars, Control, OneClient, OneRecovery, Alive
<1>8. CASE Close
  <2>1. PICK report \in {0, 1} : client' = TornDown(report).clients
    BY <1>8 DEF Close
  <2>2. client' \in [Clients -> States] /\ OneClient'
    BY <2>1, NoneAfterTearDown DEF OneClient
  <2> QED
    BY <1>8, <2>2 DEF Close, Control, OneRecovery
<1>9. CASE UNCHANGED lsVars
  BY <1>9 DEF lsVars, feedVars, metals, Control, OneClient, OneRecovery
<1> QED
  BY <1>1, <1>2, <1>3, <1>4, <1>5, <1>6, <1>7, <1>8, <1>9 DEF LSNext

LEMMA StreamsInvariant == LSSpec => []StreamsInv
<1>1. LSInit => StreamsInv
  BY StreamsInit
<1>2. StreamsInv /\ [LSNext]_lsVars => StreamsInv'
  BY StreamsInductive
<1> QED
  BY <1>1, <1>2, PTL DEF LSSpec

-----------------------------------------------------------------------------
\* connect_lightstreamer, reconnect_with_backoff and force_full_reconnect: no
\* two SDK clients of IGFeed exist at a time.
THEOREM NoSecondClient == LSSpec => []OneClient
BY StreamsInvariant, PTL DEF StreamsInv

\* schedule_reconnect, reconnect_with_backoff and force_full_reconnect: one of
\* them recovers at a time, and _reconnect_scheduled tells whether.
THEOREM NoSecondRecovery == LSSpec => []OneRecovery
BY StreamsInvariant, PTL DEF StreamsInv

\* close(): no stream is open after the shutdown, though a reconnect may still
\* sleep and a login may still be under way.
THEOREM ShutdownFinal == LSSpec => []ClosedStaysClosed
<1>1. StreamsInv => ClosedStaysClosed
  BY LSStreamsAssumption DEF StreamsInv, Control, OneClient, Alive, ClosedStaysClosed
<1> QED
  BY <1>1, StreamsInvariant, PTL
=============================================================================
