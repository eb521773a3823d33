--------------------------- MODULE Exposure_proofs ---------------------------
(***************************************************************************)
(* For any symbols, amounts, caps and rates: the books the exposure caps   *)
(* add up count every tracked deal at no less than it has at risk, and a   *)
(* fill leaves the deals' risk within the caps.                            *)
(***************************************************************************)
EXTENDS Exposure, FiniteSetTheorems, WellFoundedInduction, TLAPS

Deals == [stake : Nat, dist : Nat]

TypeOK ==
    /\ deal \in [Symbols -> Deals \cup {None}]
    /\ lock \in [Symbols -> Nat]
    /\ budget \in [Symbols -> Nat]

\* The proposal in flight.
OrderOK ==
    order # None => /\ order.sym \in Symbols /\ order.stake \in Nat
                    /\ order.dist \in Nat /\ order.equity \in Nat

\* What the books say of one deal before a trailing stop shrinks it.
Booked(s) == s \in open /\ budget[s] = deal[s].stake * deal[s].dist

AllBooked == ~blind => \A s \in tracked \cap Live : Booked(s)

\* What the tracked deals among S have at risk together.
TrackedRisk(S) == SumFunctionOnSet(AtRisk, tracked \cap S)

\* Until it fills, there is room under both caps for the proposal in flight.
Room(S, pct) ==
    100 * (TrackedRisk(S) + order.stake * order.dist) <= pct * order.equity
OrderFits ==
    order # None /\ ~order.blind =>
        Room(Symbols, TotalPct) /\ Room(SectorOf(order.sym), SectorPct)

IInv == TypeOK /\ OrderOK /\ AllBooked /\ OrderFits

LEMMA InitIInv == Init => IInv
BY DEF Init, IInv, TypeOK, OrderOK, AllBooked, OrderFits

-----------------------------------------------------------------------------
(* Sums over finite sets, by induction on the number of elements: a set of  *)
(* counterexamples has a smallest one.                                      *)

\* A set of naturals that is not empty has a least element.
LEMMA MinNat ==
    ASSUME NEW T \in SUBSET Nat, T # {}
    PROVE  \E m \in T : \A k \in T : m <= k
<1> DEFINE R == {ss \in Nat \X Nat : ss[1] < ss[2]}
<1>1. IsWellFoundedOn(R, Nat)
  BY NatLessThanWellFounded DEF OpToRel
<1> HIDE DEF R
<1>2. PICK m \in T : \A k \in T : ~(<<k, m>> \in R)
  BY <1>1, WFMin
<1>3. ASSUME NEW k \in T
      PROVE  m <= k
  <2>1. k \in Nat /\ m \in Nat /\ <<k, m>> \in Nat \X Nat
    OBVIOUS
  <2>2. <<k, m>> \notin R
    BY <1>2
  <2>3. ~(k < m)
    BY <2>1, <2>2 DEF R
  <2> QED
    BY <2>1, <2>3
<1> QED
  BY <1>3

\* The table of partial sums SumFunctionOnSet is defined with.
Least(s) == CHOOSE x \in s : TRUE
Unfolded(f, g, s) == IF s = {} THEN 0 ELSE g[Least(s)] + f[s \ {Least(s)}]
Unfolds(f, g, S) == f = [s \in SUBSET S |-> Unfolded(f, g, s)]

\* A sum is the last entry of such a table.
LEMMA SumIsTable ==
    ASSUME NEW g, NEW S
    PROVE  SumFunctionOnSet(g, S) = (CHOOSE f : Unfolds(f, g, S))[S]
BY DEF SumFunctionOnSet, FoldFunctionOnSet, MapThenFoldSet, Unfolds, Unfolded, Least

\* The subsets of S with at most n elements, and a table of their sums.
Small(S, n) == {s \in SUBSET S : Cardinality(s) <= n}
Table(f, g, S, n) ==
    f \in [Small(S, n) -> Int] /\ \A s \in Small(S, n) : f[s] = Unfolded(f, g, s)
NoTable(g, S) == {n \in Nat : \A f : ~Table(f, g, S, n)}

\* Taking the chosen element off a set.
LEMMA LeastRemoved ==
    ASSUME NEW S, IsFiniteSet(S), S # {}
    PROVE  /\ Least(S) \in S /\ IsFiniteSet(S \ {Least(S)})
           /\ Cardinality(S) \in Nat \ {0}
           /\ Cardinality(S \ {Least(S)}) = Cardinality(S) - 1
<1>1. Least(S) \in S
  BY DEF Least
<1> QED
  BY <1>1, FS_CardinalityType, FS_EmptySet, FS_RemoveElement

\* Every finite set has a table of its sums.
LEMMA TableExists ==
    ASSUME NEW S, IsFiniteSet(S), NEW g \in [S -> Int]
    PROVE  \E f \in [SUBSET S -> Int] : Unfolds(f, g, S)
<1>1. 0 \notin NoTable(g, S)
  <2> DEFINE f == [s \in Small(S, 0) |-> 0]
  <2>1. ASSUME NEW s \in Small(S, 0)
        PROVE  s = {} /\ f[s] = Unfolded(f, g, s)
    <3>1. s \in SUBSET S /\ Cardinality(s) <= 0
      BY DEF Small
    <3>2. IsFiniteSet(s) /\ Cardinality(s) \in Nat
      BY <3>1, FS_Subset, FS_CardinalityType
    <3>3. s = {}
      BY <3>1, <3>2, FS_EmptySet
    <3> QED
      BY <3>3 DEF Unfolded
  <2>2. Table(f, g, S, 0)
    BY <2>1 DEF Table
  <2> QED
    BY <2>2 DEF NoTable
<1>2. ASSUME NEW n \in Nat, n \notin NoTable(g, S)
      PROVE  n + 1 \notin NoTable(g, S)
  <2>1. PICK f : Table(f, g, S, n)
    BY <1>2 DEF NoTable
  <2> DEFINE h == [s \in Small(S, n + 1) |-> Unfolded(f, g, s)]
  <2>2. ASSUME NEW s \in Small(S, n + 1), s # {}
        PROVE  Least(s) \in S /\ s \ {Least(s)} \in Small(S, n)
    <3>1. s \in SUBSET S /\ Cardinality(s) <= n + 1 /\ IsFiniteSet(s)
      BY FS_Subset DEF Small
    <3>2. Least(s) \in s /\ Cardinality(s \ {Least(s)}) <= n
      BY <2>2, <3>1, LeastRemoved
    <3> QED
      BY <3>1, <3>2 DEF Small
  <2>3. ASSUME NEW s \in Small(S, n + 1)
        PROVE  Unfolded(f, g, s) \in Int
    <3>1. CASE s = {}
      BY <3>1 DEF Unfolded
    <3>2. CASE s # {}
      <4>1. g[Least(s)] \in Int /\ f[s \ {Least(s)}] \in Int
        BY <2>1, <2>2, <3>2 DEF Table
      <4> QED
        BY <3>2, <4>1 DEF Unfolded
    <3> QED
      BY <3>1, <3>2
  <2>4. ASSUME NEW s \in Small(S, n)
        PROVE  s \in Small(S, n + 1) /\ h[s] = f[s]
    <3>1. s \in SUBSET S /\ Cardinality(s) <= n /\ Cardinality(s) \in Nat
      BY FS_Subset, FS_CardinalityType DEF Small
    <3>2. s \in Small(S, n + 1)
      BY <3>1 DEF Small
    <3> QED
      BY <2>1, <3>2 DEF Table
  <2>5. ASSUME NEW s \in Small(S, n + 1)
        PROVE  h[s] = Unfolded(h, g, s)
    <3>1. CASE s = {}
      BY <3>1 DEF Unfolded
    <3>2. CASE s # {}
      <4>1. h[s \ {Least(s)}] = f[s \ {Least(s)}]
        BY <2>2, <2>4, <3>2
      <4> HIDE DEF h
      <4>2. Unfolded(h, g, s) = Unfolded(f, g, s)
        BY <3>2, <4>1 DEF Unfolded
      <4> QED
        BY <4>2 DEF h
    <3> QED
      BY <3>1, <3>2
  <2>6. h \in [Small(S, n + 1) -> Int]
    BY <2>3
  <2> HIDE DEF h
  <2>7. Table(h, g, S, n + 1)
    BY <2>5, <2>6 DEF Table
  <2> QED
    BY <2>7 DEF NoTable
<1>3. NoTable(g, S) = {}
  <2> SUFFICES ASSUME NoTable(g, S) # {}
               PROVE  FALSE
    OBVIOUS
  <2>1. PICK m \in NoTable(g, S) : \A k \in NoTable(g, S) : m <= k
    BY MinNat DEF NoTable
  <2>2. m # 0 /\ m \in Nat
    BY <1>1 DEF NoTable
  <2>3. m - 1 \in Nat /\ m - 1 \notin NoTable(g, S)
    BY <2>1, <2>2
  <2>4. (m - 1) + 1 \notin NoTable(g, S)
    BY <1>2, <2>3
  <2> QED
    BY <2>2, <2>4
<1>4. Cardinality(S) \in Nat /\ Small(S, Cardinality(S)) = SUBSET S
  BY FS_CardinalityType, FS_Subset DEF Small
<1>5. PICK f : Table(f, g, S, Cardinality(S))
  BY <1>3, <1>4 DEF NoTable
<1>6. f \in [SUBSET S -> Int] /\ \A s \in SUBSET S : f[s] = Unfolded(f, g, s)
  BY <1>4, <1>5 DEF Table
<1> QED
  BY <1>6 DEF Unfolds

\* The table of a set and the table of a subset agree.
LEMMA TablesAgree ==
    ASSUME NEW S, IsFiniteSet(S), NEW T \in SUBSET S, NEW g, NEW f, NEW h,
           Unfolds(f, g, S), Unfolds(h, g, T)
    PROVE  f[T] = h[T]
<1> DEFINE Differ == {n \in Nat : \E s \in SUBSET T : Cardinality(s) = n /\ f[s] # h[s]}
<1>1. ASSUME NEW s \in SUBSET T
      PROVE  IsFiniteSet(s) /\ f[s] = Unfolded(f, g, s) /\ h[s] = Unfolded(h, g, s)
  <2>1. s \in SUBSET S
    OBVIOUS
  <2> QED
    BY <2>1, FS_Subset DEF Unfolds
<1>2. Differ = {}
  <2> SUFFICES ASSUME Differ # {}
               PROVE  FALSE
    OBVIOUS
  <2>1. PICK n \in Differ : \A k \in Differ : n <= k
    BY MinNat
  <2>2. PICK s \in SUBSET T : Cardinality(s) = n /\ f[s] # h[s]
    OBVIOUS
  <2>3. s # {}
    BY <1>1, <2>2 DEF Unfolded
  <2>4. /\ s \ {Least(s)} \in SUBSET T
        /\ Cardinality(s \ {Least(s)}) = n - 1 /\ n - 1 \in Nat
    <3> HIDE DEF Differ
    <3>1. IsFiniteSet(s)
      BY <1>1
    <3>2. Cardinality(s) \in Nat \ {0} /\ Cardinality(s \ {Least(s)}) = Cardinality(s) - 1
      BY <2>3, <3>1, LeastRemoved
    <3> QED
      BY <2>2, <3>2
  <2>5. n - 1 \notin Differ
    BY <2>1, <2>4
  <2>6. f[s \ {Least(s)}] = h[s \ {Least(s)}]
    BY <2>4, <2>5
  <2> QED
    BY <1>1, <2>2, <2>3, <2>6 DEF Unfolded
<1>3. Cardinality(T) \in Nat /\ T \in SUBSET T
  BY FS_Subset, FS_CardinalityType
<1> QED
  BY <1>2, <1>3

\* A sum over a finite set takes off one element's share at a time.
LEMMA SumTakesLeast ==
    ASSUME NEW U, IsFiniteSet(U), NEW g \in [U -> Int], NEW S \in SUBSET U
    PROVE  /\ SumFunctionOnSet(g, S) \in Int
           /\ SumFunctionOnSet(g, {}) = 0
           /\ S # {} => SumFunctionOnSet(g, S) = g[Least(S)] + SumFunctionOnSet(g, S \ {Least(S)})
<1> DEFINE Of(T) == CHOOSE f : Unfolds(f, g, T)
<1>1. ASSUME NEW T \in SUBSET U
      PROVE  /\ Unfolds(Of(T), g, T) /\ SumFunctionOnSet(g, T) = Of(T)[T]
             /\ Of(T)[T] = Unfolded(Of(T), g, T)
  <2> DEFINE e == [x \in T |-> g[x]]
  <2>1. IsFiniteSet(T) /\ e \in [T -> Int]
    BY FS_Subset
  <2>2. PICK f \in [SUBSET T -> Int] : Unfolds(f, e, T)
    BY <2>1, TableExists
  <2>3. \A s \in SUBSET T : Unfolded(f, e, s) = Unfolded(f, g, s)
    BY DEF Unfolded, Least
  <2>4. Unfolds(f, g, T)
    BY <2>2, <2>3 DEF Unfolds
  <2>5. Unfolds(Of(T), g, T)
    BY <2>4
  <2>6. Of(T)[T] = Unfolded(Of(T), g, T)
    BY <2>5 DEF Unfolds
  <2> QED
    BY <2>5, <2>6, SumIsTable
<1>2. ASSUME NEW T \in SUBSET U
      PROVE  SumFunctionOnSet(g, T) \in Int
  <2> DEFINE e == [x \in T |-> g[x]]
  <2>1. IsFiniteSet(T) /\ e \in [T -> Int]
    BY FS_Subset
  <2>2. PICK f \in [SUBSET T -> Int] : Unfolds(f, e, T)
    BY <2>1, TableExists
  <2>3. \A s \in SUBSET T : Unfolded(f, e, s) = Unfolded(f, g, s)
    BY DEF Unfolded, Least
  <2>4. Unfolds(f, g, T)
    BY <2>2, <2>3 DEF Unfolds
  <2> HIDE DEF Of
  <2>5. Of(T)[T] = f[T]
    BY <1>1, <2>1, <2>4, TablesAgree
  <2> QED
    BY <1>1, <2>2, <2>5
<1> HIDE DEF Of
<1>3. SumFunctionOnSet(g, {}) = 0
  BY <1>1 DEF Unfolded
<1>4. ASSUME S # {}
      PROVE  SumFunctionOnSet(g, S) = g[Least(S)] + SumFunctionOnSet(g, S \ {Least(S)})
  <2> DEFINE R == S \ {Least(S)}
  <2>1. IsFiniteSet(S) /\ R \in SUBSET S /\ R \in SUBSET U
    BY FS_Subset
  <2>2. Of(S)[S] = g[Least(S)] + Of(S)[R]
    BY <1>1, <1>4 DEF Unfolded
  <2> HIDE DEF R
  <2>3. Of(S)[R] = Of(R)[R]
    BY <1>1, <2>1, TablesAgree
  <2>4. SumFunctionOnSet(g, S) = g[Least(S)] + SumFunctionOnSet(g, R)
    BY <1>1, <2>1, <2>2, <2>3
  <2> QED
    BY <2>4 DEF R
<1> QED
  BY <1>2, <1>3, <1>4

\* ... whichever element is taken off.
LEMMA SumTakes ==
    ASSUME NEW U, IsFiniteSet(U), NEW g \in [U -> Int], NEW S \in SUBSET U, NEW x \in S
    PROVE  SumFunctionOnSet(g, S) = g[x] + SumFunctionOnSet(g, S \ {x})
<1> DEFINE Takes(T) == \A y \in T : SumFunctionOnSet(g, T) = g[y] + SumFunctionOnSet(g, T \ {y})
           Bad == {n \in Nat : \E T \in SUBSET U : Cardinality(T) = n /\ ~Takes(T)}
<1>1. ASSUME NEW T \in SUBSET U
      PROVE  IsFiniteSet(T) /\ Cardinality(T) \in Nat /\ SumFunctionOnSet(g, T) \in Int
  BY FS_Subset, FS_CardinalityType, SumTakesLeast
<1>2. Bad = {}
  <2> SUFFICES ASSUME Bad # {}
               PROVE  FALSE
    OBVIOUS
  <2>1. PICK n \in Bad : \A k \in Bad : n <= k
    BY MinNat
  <2>2. PICK T \in SUBSET U : Cardinality(T) = n /\ ~Takes(T)
    OBVIOUS
  <2>3. ASSUME NEW V \in SUBSET U, Cardinality(V) < n
        PROVE  Takes(V)
    BY <1>1, <2>1, <2>3
  <2> HIDE DEF Bad
  <2>4. PICK y \in T : SumFunctionOnSet(g, T) # g[y] + SumFunctionOnSet(g, T \ {y})
    BY <2>2
  <2> DEFINE c == Least(T)
  <2>5. /\ SumFunctionOnSet(g, T) = g[c] + SumFunctionOnSet(g, T \ {c})
        /\ c \in T /\ Cardinality(T \ {c}) = n - 1 /\ n \in Nat
    BY <1>1, <2>2, SumTakesLeast, LeastRemoved
  <2> HIDE DEF c
  <2>6. y # c /\ y \in T \ {c} /\ c \in T \ {y}
    BY <2>4, <2>5
  <2>7. Cardinality(T \ {y}) = n - 1
    BY <1>1, <2>2, FS_RemoveElement
  <2>8. SumFunctionOnSet(g, T \ {c}) = g[y] + SumFunctionOnSet(g, (T \ {c}) \ {y})
    <3>1. Takes(T \ {c})
      BY <2>3, <2>5
    <3> QED
      BY <2>6, <3>1
  <2>9. SumFunctionOnSet(g, T \ {y}) = g[c] + SumFunctionOnSet(g, (T \ {y}) \ {c})
    <3>1. Takes(T \ {y})
      BY <2>3, <2>5, <2>7
    <3> QED
      BY <2>6, <3>1
  <2>10. (T \ {y}) \ {c} = (T \ {c}) \ {y}
    OBVIOUS
  <2>11. g[c] \in Int /\ g[y] \in Int /\ SumFunctionOnSet(g, (T \ {c}) \ {y}) \in Int
    BY <1>1, <2>5
  <2> DEFINE t == SumFunctionOnSet(g, (T \ {c}) \ {y})
  <2>12. SumFunctionOnSet(g, T) = g[c] + (g[y] + t) /\ SumFunctionOnSet(g, T \ {y}) = g[c] + t
    BY <2>5, <2>8, <2>9, <2>10
  <2> HIDE DEF t
  <2>13. t \in Int
    BY <2>11 DEF t
  <2> QED
    BY <2>4, <2>11, <2>12, <2>13
<1> QED
  BY <1>1, <1>2

\* One sum is at most another when every share of it is.
LEMMA SumMonotone ==
    ASSUME NEW U, IsFiniteSet(U), NEW g \in [U -> Int], NEW h \in [U -> Int],
           NEW S \in SUBSET U, NEW T \in SUBSET U,
           \A x \in S \cap T : g[x] <= h[x],
           \A x \in S \ T : g[x] <= 0,
           \A x \in T \ S : h[x] >= 0
    PROVE  SumFunctionOnSet(g, S) <= SumFunctionOnSet(h, T)
<1> DEFINE G(V) == SumFunctionOnSet(g, S \cap V)
           H(V) == SumFunctionOnSet(h, T \cap V)
           Bad == {n \in Nat : \E V \in SUBSET U : Cardinality(V) = n /\ ~(G(V) <= H(V))}
<1>1. ASSUME NEW V \in SUBSET U
      PROVE  IsFiniteSet(V) /\ Cardinality(V) \in Nat /\ G(V) \in Int /\ H(V) \in Int
  <2>1. S \cap V \in SUBSET U /\ T \cap V \in SUBSET U
    OBVIOUS
  <2> QED
    BY <2>1, FS_Subset, FS_CardinalityType, SumTakesLeast
<1>2. Bad = {}
  <2> SUFFICES ASSUME Bad # {}
               PROVE  FALSE
    OBVIOUS
  <2>1. PICK n \in Bad : \A k \in Bad : n <= k
    BY MinNat
  <2>2. PICK V \in SUBSET U : Cardinality(V) = n /\ ~(G(V) <= H(V))
    OBVIOUS
  <2>3. V # {}
    <3>1. SumFunctionOnSet(g, {}) = 0 /\ SumFunctionOnSet(h, {}) = 0
      BY SumTakesLeast
    <3>2. S \cap {} = {} /\ T \cap {} = {}
      OBVIOUS
    <3> QED
      BY <2>2, <3>1, <3>2
  <2>4. PICK x \in V : TRUE
    BY <2>3
  <2> DEFINE W == V \ {x}
  <2>5. W \in SUBSET U /\ Cardinality(W) = n - 1 /\ n \in Nat
    BY <1>1, <2>2, FS_RemoveElement
  <2>6. G(W) <= H(W)
    <3> HIDE DEF G, H
    <3>1. n - 1 \in Nat /\ n - 1 \notin Bad
      BY <1>1, <2>1, <2>5
    <3> QED
      BY <2>5, <3>1
  <2> HIDE DEF Bad
  <2>7. G(V) = (IF x \in S THEN g[x] ELSE 0) + G(W)
    <3>1. x \in S => (S \cap V) \ {x} = S \cap W
      OBVIOUS
    <3>2. x \notin S => S \cap V = S \cap W
      OBVIOUS
    <3>3. x \in S => G(V) = g[x] + G(W)
      <4>1. SUFFICES ASSUME x \in S
                     PROVE  G(V) = g[x] + G(W)
        OBVIOUS
      <4>2. S \cap V \in SUBSET U /\ x \in S \cap V
        BY <4>1
      <4>3. G(V) = g[x] + SumFunctionOnSet(g, (S \cap V) \ {x})
        BY <4>2, SumTakes
      <4> QED
        BY <3>1, <4>1, <4>3
    <3>4. x \notin S => G(V) = G(W)
      BY <3>2
    <3>5. G(W) \in Int
      BY <1>1, <2>5
    <3> HIDE DEF G
    <3> QED
      BY <3>3, <3>4, <3>5
  <2>8. H(V) = (IF x \in T THEN h[x] ELSE 0) + H(W)
    <3>1. x \in T => (T \cap V) \ {x} = T \cap W
      OBVIOUS
    <3>2. x \notin T => T \cap V = T \cap W
      OBVIOUS
    <3>3. x \in T => H(V) = h[x] + H(W)
      <4>1. SUFFICES ASSUME x \in T
                     PROVE  H(V) = h[x] + H(W)
        OBVIOUS
      <4>2. T \cap V \in SUBSET U /\ x \in T \cap V
        BY <4>1
      <4>3. H(V) = h[x] + SumFunctionOnSet(h, (T \cap V) \ {x})
        BY <4>2, SumTakes
      <4> QED
        BY <3>1, <4>1, <4>3
    <3>4. x \notin T => H(V) = H(W)
      BY <3>2
    <3>5. H(W) \in Int
      BY <1>1, <2>5
    <3> HIDE DEF H
    <3> QED
      BY <3>3, <3>4, <3>5
  <2>9. (IF x \in S THEN g[x] ELSE 0) <= (IF x \in T THEN h[x] ELSE 0)
    BY <2>2
  <2>10. g[x] \in Int /\ h[x] \in Int
    BY <2>2
  <2>11. G(W) \in Int /\ H(W) \in Int
    BY <1>1, <2>5
  <2> HIDE DEF G, H
  <2> QED
    BY <2>2, <2>6, <2>7, <2>8, <2>9, <2>10, <2>11
<1>3. G(U) <= H(U)
  BY <1>1, <1>2
<1>4. S \cap U = S /\ T \cap U = T
  OBVIOUS
<1> QED
  BY <1>3, <1>4

-----------------------------------------------------------------------------
(* Arithmetic. *)

\* The size of an order is a whole number.
LEMMA SizeIsWhole ==
    ASSUME NEW equity \in Equities, NEW dist \in Distances
    PROVE  compute_ig_size(equity, dist) \in Int
<1> DEFINE base == IF equity < SizingCap THEN equity ELSE SizingCap
           n == base * RiskPct
           d == 100 * (dist + Slip)
<1>1. base \in Int /\ RiskPct \in Int /\ d \in Int /\ d > 0
  BY ExposureAssumption
<1> HIDE DEF base, d
<1>2. n \in Int
  BY <1>1
<1> HIDE DEF n
<1>3. (2 * n + d) \div (2 * d) \in Int
  BY <1>1, <1>2
<1> QED
  BY <1>3 DEF compute_ig_size, Rounded, n, base, d

LEMMA SnapIsWhole ==
    ASSUME NEW stake \in Nat, SnapUp(stake) > stake
    PROVE  SnapUp(stake) \in Nat
<1>1. Grid \in Nat \ {0}
  BY ExposureAssumption
<1>2. (stake + Grid - 1) \div Grid \in Int
  BY <1>1
<1>3. SnapUp(stake) \in Int
  BY <1>1, <1>2 DEF SnapUp
<1> QED
  BY <1>3

\* Locking l points of a stop takes at most l points' worth off the budget.
LEMMA LockedShrinks ==
    ASSUME NEW stake \in Nat, NEW dist \in Nat, NEW l \in Nat
    PROVE  Above0(stake * dist - l * stake) >= stake * Above0(dist - l)
<1>1. /\ stake * dist \in Int /\ l * stake \in Int /\ stake * l \in Int
      /\ l * stake = stake * l
  OBVIOUS
<1>2. CASE dist > l
  <2>1. stake * (dist - l) = stake * dist - stake * l
    OBVIOUS
  <2> QED
    BY <1>1, <1>2, <2>1 DEF Above0
<1>3. CASE dist <= l
  <2>1. stake * Above0(dist - l) = 0
    BY <1>3 DEF Above0
  <2>2. Above0(stake * dist - l * stake) >= 0
    BY <1>1 DEF Above0
  <2> QED
    BY <2>1, <2>2
<1> QED
  BY <1>2, <1>3

\* A whole number of whole numbers.
LEMMA ProductIsWhole ==
    ASSUME NEW a \in Nat, NEW b \in Nat
    PROVE  a * b \in Nat
OBVIOUS

\* The drawdown tier never raises the stake.
LEMMA ScaledFits ==
    ASSUME NEW stake \in Nat, NEW q \in {1, 2, 4}, NEW dist \in Nat,
           (stake * q) \div 4 > 0
    PROVE  ((stake * q) \div 4) * dist <= stake * dist
<1> DEFINE scaled == (stake * q) \div 4
<1>1. scaled \in Nat /\ scaled <= stake
  OBVIOUS
<1> HIDE DEF scaled
<1>2. /\ (stake - scaled) * dist \in Nat
      /\ stake * dist = scaled * dist + (stake - scaled) * dist
      /\ scaled * dist \in Nat
  BY <1>1
<1> QED
  BY <1>2 DEF scaled

\* The size retry adds less than one grid step.
LEMMA SnapAddsLess ==
    ASSUME NEW stake \in Nat, NEW dist \in Nat
    PROVE  /\ SnapUp(stake) \in Int
           /\ SnapUp(stake) * dist <= stake * dist + (Grid - 1) * dist
<1>1. Grid \in Nat \ {0}
  BY ExposureAssumption
<1> DEFINE n == stake + Grid - 1
           m == (n \div Grid) * Grid
<1>2. n \in Nat /\ n = stake + (Grid - 1)
  BY <1>1
<1>3. m \in Int /\ m <= n
  <2> HIDE DEF n
  <2> QED
    BY <1>1, <1>2
<1> HIDE DEF n, m
<1>4. (n - m) * dist \in Nat /\ n * dist = m * dist + (n - m) * dist
  BY <1>2, <1>3
<1>5. n * dist = stake * dist + (Grid - 1) * dist
  BY <1>1, <1>2
<1>6. m * dist \in Int /\ n * dist \in Int
  BY <1>2, <1>3
<1>7. m = SnapUp(stake)
  BY DEF m, n, SnapUp
<1> QED
  BY <1>3, <1>4, <1>5, <1>6, <1>7

LEMMA SectorHasSymbols == \A s : SectorOf(s) \in SUBSET Symbols
BY DEF SectorOf

\* What a deal has at risk is a whole number, before a step and after it.
LEMMA RiskIsWhole ==
    ASSUME NEW d \in [Symbols -> Deals \cup {None}], NEW l \in [Symbols -> Nat],
           NEW s \in Symbols, d[s] # None
    PROVE  d[s].stake * Above0(d[s].dist - l[s]) \in Nat
<1>1. d[s].stake \in Nat /\ Above0(d[s].dist - l[s]) \in Nat
  BY DEF Deals, Above0
<1> QED
  BY <1>1, ProductIsWhole

LEMMA RisksAreWhole == TypeOK => AtRisk \in [Symbols -> Nat]
BY RiskIsWhole DEF TypeOK, AtRisk

LEMMA RisksStayWhole == TypeOK' => AtRisk' \in [Symbols -> Nat]
BY RiskIsWhole DEF TypeOK, AtRisk

\* The risk of a set of deals does not rise when no deal joins and none of
\* those that stay has more at risk.
LEMMA RiskFalls ==
    ASSUME TypeOK, TypeOK', NEW S \in SUBSET Symbols,
           tracked' \subseteq tracked, \A s \in tracked' \cap Symbols : AtRisk'[s] <= AtRisk[s]
    PROVE  /\ TrackedRisk(S)' <= TrackedRisk(S)
           /\ TrackedRisk(S) \in Int /\ TrackedRisk(S)' \in Int
<1> DEFINE g == AtRisk'
           h == AtRisk
           A == tracked' \cap S
           B == tracked \cap S
<1>1. /\ g \in [Symbols -> Nat] /\ h \in [Symbols -> Nat] /\ IsFiniteSet(Symbols)
      /\ A \in SUBSET Symbols /\ B \in SUBSET Symbols
  BY RisksAreWhole, RisksStayWhole, ExposureAssumption
<1>2. /\ \A s \in A \cap B : g[s] <= h[s]
      /\ A \subseteq B
  OBVIOUS
<1>3. TrackedRisk(S)' = SumFunctionOnSet(g, A) /\ TrackedRisk(S) = SumFunctionOnSet(h, B)
  BY DEF TrackedRisk
<1> HIDE DEF g, h, A, B
<1>4. /\ g \in [Symbols -> Int] /\ h \in [Symbols -> Int]
      /\ \A s \in A \ B : g[s] <= 0
      /\ \A s \in B \ A : h[s] >= 0
  BY <1>1, <1>2
<1>5. SumFunctionOnSet(g, A) <= SumFunctionOnSet(h, B)
  BY <1>1, <1>2, <1>4, SumMonotone
<1>6. SumFunctionOnSet(g, A) \in Int /\ SumFunctionOnSet(h, B) \in Int
  BY <1>1, <1>4, SumTakesLeast
<1> QED
  BY <1>3, <1>5, <1>6

\* ... so an order that fitted still fits.
LEMMA StillFits ==
    ASSUME IInv, TypeOK', order' = order,
           tracked' \subseteq tracked, \A s \in tracked' \cap Symbols : AtRisk'[s] <= AtRisk[s]
    PROVE  OrderFits'
<1> SUFFICES ASSUME order # None, ~order.blind
             PROVE  (Room(Symbols, TotalPct) /\ Room(SectorOf(order.sym), SectorPct))'
  BY DEF OrderFits
<1>1. TypeOK /\ order.stake * order.dist \in Nat
  BY ProductIsWhole DEF IInv, OrderOK
<1>2. Room(Symbols, TotalPct) /\ Room(SectorOf(order.sym), SectorPct)
  BY DEF IInv, OrderFits
<1>3. SectorOf(order.sym)' = SectorOf(order.sym)
  BY DEF SectorOf
<1>4. ASSUME NEW S \in SUBSET Symbols, NEW pct \in Nat, Room(S, pct)
      PROVE  100 * (TrackedRisk(S)' + order.stake * order.dist) <= pct * order.equity
  <2>1. /\ TrackedRisk(S)' <= TrackedRisk(S)
        /\ TrackedRisk(S) \in Int /\ TrackedRisk(S)' \in Int
    BY <1>1, RiskFalls
  <2>2. pct * order.equity \in Int
    BY DEF IInv, OrderOK
  <2>3. 100 * (TrackedRisk(S) + order.stake * order.dist) <= pct * order.equity
    BY <1>4 DEF Room
  <2> QED
    BY <1>1, <2>1, <2>2, <2>3
<1>5. TotalPct \in Nat /\ SectorPct \in Nat /\ SectorOf(order.sym) \in SUBSET Symbols
  BY ExposureAssumption, SectorHasSymbols
<1>6. /\ 100 * (TrackedRisk(Symbols)' + order.stake * order.dist) <= TotalPct * order.equity
      /\ 100 * (TrackedRisk(SectorOf(order.sym))' + order.stake * order.dist)
           <= SectorPct * order.equity
  BY <1>2, <1>4, <1>5
<1>7. TrackedRisk(SectorOf(order.sym))' = SumFunctionOnSet(AtRisk', tracked' \cap SectorOf(order.sym))
  BY <1>3 DEF TrackedRisk
<1> QED
  BY <1>3, <1>6, <1>7 DEF Room, TrackedRisk

\* A higher trailing stop leaves no more at risk.
LEMMA LockLowersRisk ==
    ASSUME NEW stake \in Nat, NEW dist \in Nat, NEW l \in Nat
    PROVE  stake * Above0(dist - (l + 1)) <= stake * Above0(dist - l)
<1> DEFINE a == Above0(dist - (l + 1))
           b == Above0(dist - l)
<1>1. a \in Nat /\ b \in Nat /\ a <= b
  BY DEF Above0
<1> HIDE DEF a, b
<1>2. stake * (b - a) \in Nat /\ stake * b = stake * a + stake * (b - a)
  BY <1>1
<1>3. stake * a \in Nat /\ stake * b \in Nat
  BY <1>1
<1> QED
  BY <1>2, <1>3 DEF a, b

\* The books on a deal are at least what it has at risk.
LEMMA Enough == IInv => BooksCoverDeals
<1> SUFFICES ASSUME IInv, ~blind, NEW s \in tracked \cap Live
             PROVE  s \in open /\ live_risk_gbp[s] >= AtRisk[s]
  BY DEF BooksCoverDeals
<1>1. s \in Symbols /\ deal[s] # None
  BY DEF Live
<1>2. deal[s].stake \in Nat /\ deal[s].dist \in Nat /\ lock[s] \in Nat
  BY <1>1 DEF IInv, TypeOK, Deals
<1>3. s \in open /\ budget[s] = deal[s].stake * deal[s].dist
  BY DEF IInv, AllBooked, Booked
<1>4. live_risk_gbp[s] = Above0(deal[s].stake * deal[s].dist - lock[s] * deal[s].stake)
  BY <1>1, <1>3 DEF live_risk_gbp
<1>5. AtRisk[s] = deal[s].stake * Above0(deal[s].dist - lock[s])
  BY <1>1 DEF AtRisk
<1> QED
  BY <1>2, <1>3, <1>4, <1>5, LockedShrinks

LEMMA BooksAreWhole == TypeOK => live_risk_gbp \in [Symbols -> Nat]
<1> SUFFICES ASSUME TypeOK, NEW s \in Symbols
             PROVE  live_risk_gbp[s] \in Nat
  BY DEF live_risk_gbp
<1>1. CASE deal[s] = None
  BY <1>1 DEF live_risk_gbp, TypeOK
<1>2. CASE deal[s] # None
  <2>1. lock[s] * deal[s].stake \in Nat /\ budget[s] \in Nat
    BY <1>2, ProductIsWhole DEF TypeOK, Deals
  <2>2. Above0(budget[s] - lock[s] * deal[s].stake) \in Nat
    BY <2>1 DEF Above0
  <2> QED
    BY <1>2, <2>2 DEF live_risk_gbp
<1> QED
  BY <1>1, <1>2

\* The sum the caps add up is at least the risk of the tracked deals.
LEMMA BooksCoverRisk ==
    ASSUME IInv, ~blind, NEW S \in SUBSET Symbols
    PROVE  /\ TrackedRisk(S) <= OpenRisk(S)
           /\ TrackedRisk(S) \in Int /\ OpenRisk(S) \in Int
<1> DEFINE A == tracked \cap S
           B == open \cap S
<1>1. /\ AtRisk \in [Symbols -> Nat] /\ live_risk_gbp \in [Symbols -> Nat]
      /\ IsFiniteSet(Symbols) /\ A \in SUBSET Symbols /\ B \in SUBSET Symbols
  BY RisksAreWhole, BooksAreWhole, ExposureAssumption DEF IInv
<1>2. ASSUME NEW s \in A \cap Live
      PROVE  s \in B /\ AtRisk[s] <= live_risk_gbp[s]
  <2>1. s \in open /\ live_risk_gbp[s] >= AtRisk[s]
    BY Enough DEF BooksCoverDeals
  <2> QED
    BY <1>1, <2>1
<1>3. ASSUME NEW s \in Symbols, s \notin Live
      PROVE  AtRisk[s] = 0
  BY <1>3 DEF AtRisk, Live
<1> HIDE DEF A, B
<1>4. /\ AtRisk \in [Symbols -> Int] /\ live_risk_gbp \in [Symbols -> Int]
      /\ \A s \in A \cap B : AtRisk[s] <= live_risk_gbp[s]
      /\ \A s \in A \ B : AtRisk[s] <= 0
      /\ \A s \in B \ A : live_risk_gbp[s] >= 0
  BY <1>1, <1>2, <1>3
<1>5. SumFunctionOnSet(AtRisk, A) <= SumFunctionOnSet(live_risk_gbp, B)
  BY <1>1, <1>4, SumMonotone
<1>6. SumFunctionOnSet(AtRisk, A) \in Int /\ SumFunctionOnSet(live_risk_gbp, B) \in Int
  BY <1>1, <1>4, SumTakesLeast
<1> QED
  BY <1>5, <1>6 DEF A, B, TrackedRisk, OpenRisk

-----------------------------------------------------------------------------
(* The steps. *)

LEMMA ApproveKeeps ==
    ASSUME IInv, NEW s \in Symbols, NEW e \in Equities, NEW d \in Distances,
           NEW r \in Rates, NEW q \in {1, 2, 4}, Approve(s, e, d, r, q)
    PROVE  IInv'
<1> DEFINE stake == compute_ig_size(e, d)
           scaled == (stake * q) \div 4
<1>1. stake \in Int /\ e \in Nat /\ d \in Nat
  BY SizeIsWhole, ExposureAssumption
<1>2. /\ stake > 0 /\ scaled > 0
      /\ ExposureAllows(s, stake * d, e)
      /\ order' = [sym |-> s, stake |-> scaled, dist |-> d, equity |-> e, blind |-> blind]
      /\ UNCHANGED <<deal, lock, tracked, open, budget, blind>>
  BY DEF Approve
<1> HIDE DEF stake
<1>3. scaled \in Nat /\ scaled * d <= stake * d
  BY <1>1, <1>2, ScaledFits
<1> HIDE DEF scaled
<1>4. OrderOK'
  BY <1>1, <1>2, <1>3 DEF OrderOK
<1>5. TypeOK' /\ AllBooked'
  BY <1>2 DEF IInv, TypeOK, AllBooked, Booked, Live
<1>6. OrderFits'
  <2> SUFFICES ASSUME ~blind
               PROVE  (Room(Symbols, TotalPct) /\ Room(SectorOf(s), SectorPct))'
    BY <1>2 DEF OrderFits, SectorOf
  <2>1. ASSUME NEW S \in SUBSET Symbols, NEW pct \in Nat,
               100 * (OpenRisk(S) + stake * d) <= pct * e
        PROVE  Room(S, pct)'
    <3>1. TrackedRisk(S)' = TrackedRisk(S)
      BY <1>2 DEF TrackedRisk, AtRisk
    <3>2. /\ TrackedRisk(S) <= OpenRisk(S)
          /\ TrackedRisk(S) \in Int /\ OpenRisk(S) \in Int
      BY BooksCoverRisk
    <3>3. stake * d \in Int /\ scaled * d \in Int /\ pct * e \in Int
      BY <1>1, <1>3
    <3>4. 100 * (TrackedRisk(S) + scaled * d) <= pct * e
      BY <1>3, <2>1, <3>2, <3>3
    <3> QED
      BY <1>2, <3>1, <3>4 DEF Room
  <2>2. Room(Symbols, TotalPct)' /\ Room(SectorOf(s), SectorPct)'
    BY <1>2, <2>1, SectorHasSymbols, ExposureAssumption DEF ExposureAllows
  <2> QED
    BY <2>2
<1> QED
  BY <1>4, <1>5, <1>6 DEF IInv

LEMMA FilledKeeps ==
    ASSUME IInv, Filled
    PROVE  IInv'
<1>1. PICK s \in Symbols, d \in Nat : s = order.sym /\ d = order.dist /\ order.stake \in Nat
  BY DEF IInv, OrderOK, Filled
<1>2. PICK stake \in Nat : FilledWith(stake)
  BY <1>1, SnapIsWhole DEF Filled
<1>3. /\ deal' = [deal EXCEPT ![s] = [stake |-> stake, dist |-> d]]
      /\ lock' = [lock EXCEPT ![s] = 0]
      /\ budget' = [budget EXCEPT ![s] = stake * d]
      /\ open' = open \cup {s} /\ tracked' = tracked \cup {s}
      /\ order' = None /\ blind' = blind
  BY <1>1, <1>2 DEF FilledWith
<1>4. TypeOK'
  BY <1>1, <1>3 DEF IInv, TypeOK, Deals
<1>5. Booked(s)'
  <2>1. deal'[s].stake = stake /\ deal'[s].dist = d /\ budget'[s] = stake * d
    BY <1>1, <1>3 DEF IInv, TypeOK
  <2> QED
    BY <1>3, <2>1 DEF Booked
<1>6. ASSUME NEW t \in Symbols \ {s}, t \in tracked' \cap Live', ~blind'
      PROVE  Booked(t)'
  <2>1. deal'[t] = deal[t] /\ budget'[t] = budget[t] /\ t \in tracked \cap Live
    BY <1>3, <1>6 DEF IInv, TypeOK, Live
  <2> QED
    BY <1>3, <1>6, <2>1 DEF IInv, AllBooked, Booked
<1>7. AllBooked'
  BY <1>5, <1>6 DEF AllBooked, Live
<1> QED
  BY <1>3, <1>4, <1>7 DEF IInv, OrderOK, OrderFits

\* A deal that ends takes nothing from the others' books.
LEMMA ClosedKeeps ==
    ASSUME IInv, NEW s \in Symbols, Closed(s) \/ ClosedByIG(s)
    PROVE  IInv'
<1>1. /\ deal' = [deal EXCEPT ![s] = None]
      /\ lock' = lock \/ lock' = [lock EXCEPT ![s] = 0]
      /\ budget' = budget \/ budget' = [budget EXCEPT ![s] = 0]
      /\ tracked' \subseteq tracked /\ open \ {s} \subseteq open'
      /\ UNCHANGED <<order, blind>>
  BY DEF Closed, ClosedByIG
<1>2. TypeOK'
  BY <1>1 DEF IInv, TypeOK
<1>3. Live' = Live \ {s}
  BY <1>1 DEF IInv, TypeOK, Live
<1>4. ASSUME NEW t \in tracked' \cap Live', ~blind'
      PROVE  Booked(t)'
  <2>1. t \in tracked \cap Live /\ t # s /\ t \in Symbols
    BY <1>1, <1>3, <1>4 DEF Live
  <2>2. deal'[t] = deal[t] /\ budget'[t] = budget[t] /\ (t \in open => t \in open')
    BY <1>1, <2>1 DEF IInv, TypeOK
  <2> QED
    BY <1>1, <1>4, <2>1, <2>2 DEF IInv, AllBooked, Booked
<1>5. AllBooked'
  BY <1>4 DEF AllBooked
<1>6. ASSUME NEW t \in Symbols
      PROVE  AtRisk'[t] <= AtRisk[t]
  <2>1. AtRisk[t] \in Nat
    BY RisksAreWhole DEF IInv
  <2>2. CASE t = s
    BY <1>1, <2>1, <2>2 DEF IInv, TypeOK, AtRisk
  <2>3. CASE t # s
    BY <1>1, <2>1, <2>3 DEF IInv, TypeOK, AtRisk
  <2> QED
    BY <2>2, <2>3
<1>7. OrderFits'
  BY <1>1, <1>2, <1>6, StillFits
<1> QED
  BY <1>1, <1>2, <1>5, <1>7 DEF IInv, OrderOK

LEMMA ReconciledBooks ==
    ASSUME IInv, NEW locks \in [Symbols -> Nat], Reconciled(locks), UNCHANGED deal
    PROVE  /\ TypeOK' /\ AllBooked'
           /\ locks = lock /\ order' = order => OrderFits'
<1> DEFINE matched == tracked \cap Live
<1>1. /\ open' = matched /\ tracked' = matched
      /\ budget' = [s \in Symbols |-> IF s \in matched THEN deal[s].stake * deal[s].dist ELSE 0]
      /\ lock' = [s \in Symbols |-> IF s \in matched THEN locks[s] ELSE 0]
  BY DEF Reconciled, Seeded
<1>2. Live' = Live /\ matched \subseteq Symbols
  BY DEF Live
<1>3. ASSUME NEW s \in matched
      PROVE  deal[s].stake * deal[s].dist \in Nat
  <2>1. deal[s].stake \in Nat /\ deal[s].dist \in Nat
    BY DEF IInv, TypeOK, Deals, Live
  <2> QED
    BY <2>1, ProductIsWhole
<1>4. matched \subseteq tracked
  OBVIOUS
<1> HIDE DEF matched
<1>5. TypeOK'
  BY <1>1, <1>3 DEF IInv, TypeOK
<1>6. AllBooked'
  BY <1>1, <1>2 DEF AllBooked, Booked
<1>7. ASSUME locks = lock, order' = order
      PROVE  OrderFits'
  <2>1. ASSUME NEW t \in matched
        PROVE  AtRisk'[t] <= AtRisk[t]
    <3>1. AtRisk'[t] = AtRisk[t]
      BY <1>1, <1>2, <1>7 DEF AtRisk
    <3>2. AtRisk[t] \in Nat
      BY <1>2, RisksAreWhole DEF IInv
    <3> QED
      BY <3>1, <3>2
  <2> QED
    BY <1>1, <1>4, <1>5, <1>7, <2>1, StillFits
<1> QED
  BY <1>5, <1>6, <1>7

LEMMA RestartKeeps ==
    ASSUME IInv, Restart
    PROVE  IInv'
<1>1. order' = None /\ deal' = deal
  BY DEF Restart
<1>2. PICK locks \in {lock, [s \in Symbols |-> 0]} :
        \/ Reconciled(locks)
        \/ blind' = TRUE /\ lock' = locks /\ UNCHANGED <<tracked, budget>>
  BY DEF Restart
<1>3. locks \in [Symbols -> Nat]
  BY DEF IInv, TypeOK
<1>4. CASE Reconciled(locks)
  BY <1>1, <1>3, <1>4, ReconciledBooks DEF IInv, OrderOK, OrderFits
<1>5. CASE blind' = TRUE /\ lock' = locks /\ UNCHANGED <<tracked, budget>>
  BY <1>1, <1>3, <1>5 DEF IInv, TypeOK, OrderOK, AllBooked, OrderFits
<1> QED
  BY <1>2, <1>4, <1>5

LEMMA RatchetKeeps ==
    ASSUME IInv, NEW s \in Symbols, Ratchet(s)
    PROVE  IInv'
<1>1. /\ lock' = [lock EXCEPT ![s] = @ + 1] /\ lock' \in [Symbols -> Nat]
      /\ UNCHANGED <<deal, tracked, open, budget, order, blind>>
  BY DEF Ratchet, IInv, TypeOK
<1>2. TypeOK' /\ OrderOK' /\ AllBooked'
  BY <1>1 DEF IInv, TypeOK, OrderOK, AllBooked, Booked, Live
<1>3. ASSUME NEW t \in Symbols
      PROVE  AtRisk'[t] <= AtRisk[t]
  <2>1. AtRisk[t] \in Nat
    BY RisksAreWhole DEF IInv
  <2>2. CASE t = s /\ deal[t] # None
    <3>1. deal[t].stake \in Nat /\ deal[t].dist \in Nat /\ lock[t] \in Nat
      BY <2>2 DEF IInv, TypeOK, Deals
    <3>2. deal'[t] = deal[t] /\ lock'[t] = lock[t] + 1
      BY <1>1, <2>2 DEF IInv, TypeOK
    <3>3. /\ AtRisk'[t] = deal[t].stake * Above0(deal[t].dist - (lock[t] + 1))
          /\ AtRisk[t] = deal[t].stake * Above0(deal[t].dist - lock[t])
      BY <2>2, <3>2 DEF AtRisk
    <3> QED
      BY <3>1, <3>3, LockLowersRisk
  <2>3. CASE t # s \/ deal[t] = None
    <3>1. AtRisk'[t] = AtRisk[t]
      BY <1>1, <2>3 DEF IInv, TypeOK, AtRisk
    <3> QED
      BY <2>1, <3>1
  <2> QED
    BY <2>2, <2>3
<1>4. OrderFits'
  BY <1>1, <1>2, <1>3, StillFits
<1> QED
  BY <1>2, <1>4 DEF IInv

LEMMA UnchangedKeeps ==
    ASSUME IInv, UNCHANGED <<deal, lock, tracked, open, budget, order, blind>>
    PROVE  IInv'
<1>1. TypeOK' /\ OrderOK' /\ AllBooked'
  BY DEF IInv, TypeOK, OrderOK, AllBooked, Booked, Live
<1>2. OrderFits'
  BY DEF IInv, OrderFits, Room, TrackedRisk, AtRisk, SectorOf
<1> QED
  BY <1>1, <1>2 DEF IInv

LEMMA Inductive == IInv /\ [Next]_vars => IInv'
<1> SUFFICES ASSUME IInv, [Next]_vars
             PROVE  IInv'
  OBVIOUS
<1>1. ASSUME NEW s \in Symbols, NEW e \in Equities, NEW d \in Distances,
             NEW r \in Rates, NEW q \in {1, 2, 4}, Approve(s, e, d, r, q)
      PROVE  IInv'
  BY <1>1, ApproveKeeps
<1>2. CASE Filled
  BY <1>2, FilledKeeps
<1>3. CASE Refused
  BY <1>3 DEF Refused, IInv, TypeOK, OrderOK, AllBooked, Booked, Live, OrderFits
<1>4. ASSUME NEW s \in Symbols, Ratchet(s)
      PROVE  IInv'
  BY <1>4, RatchetKeeps
<1>5. ASSUME NEW s \in Symbols, Closed(s) \/ ClosedByIG(s)
      PROVE  IInv'
  BY <1>5, ClosedKeeps
<1>6. CASE Reconcile
  <2>1. Reconciled(lock) /\ UNCHANGED <<deal, order>>
    BY <1>6 DEF Reconcile
  <2> QED
    BY <2>1, ReconciledBooks DEF IInv, TypeOK, OrderOK
<1>7. CASE Restart
  BY <1>7, RestartKeeps
<1>8. ASSUME NEW e, NEW r, AccountPush(e, r)
      PROVE  IInv'
  BY <1>8, UnchangedKeeps DEF AccountPush
<1>9. CASE UNCHANGED vars
  BY <1>9, UnchangedKeeps DEF vars
<1> QED
  BY <1>1, <1>2, <1>3, <1>4, <1>5, <1>6, <1>7, <1>8, <1>9 DEF Next

-----------------------------------------------------------------------------
(* What follows. *)

(* Unless the reconcile at the last start failed, the exposure caps count   *)
(* every tracked deal at no less than it has at risk, for every sequence of *)
(* fills, size retries, trailing stops, closes, reconciles and restarts     *)
(* (budgets.py, _reconcile_matched_position).                               *)
THEOREM BooksCover == Spec => []BooksCoverDeals
BY InitIInv, Inductive, Enough, PTL DEF Spec

\* What a fill adds to the tracked deals' risk is the filled stake's.
LEMMA FillAdds ==
    ASSUME IInv, IInv', order # None, NEW stake \in Nat, FilledWith(stake),
           NEW S \in SUBSET Symbols
    PROVE  /\ TrackedRisk(S)' <= TrackedRisk(S) + stake * order.dist
           /\ TrackedRisk(S) \in Int /\ TrackedRisk(S)' \in Int
<1> DEFINE s == order.sym
           g == AtRisk'
           h == AtRisk
           A == tracked' \cap S
           B == tracked \cap S
           added == stake * order.dist
<1>1. s \in Symbols /\ order.dist \in Nat
  BY DEF IInv, OrderOK
<1>2. /\ g \in [Symbols -> Nat] /\ h \in [Symbols -> Nat] /\ IsFiniteSet(Symbols)
      /\ A \in SUBSET Symbols /\ B \in SUBSET Symbols /\ added \in Nat
  BY <1>1, RisksAreWhole, RisksStayWhole, ProductIsWhole, ExposureAssumption DEF IInv
<1>3. /\ deal' = [deal EXCEPT ![s] = [stake |-> stake, dist |-> order.dist]]
      /\ lock' = [lock EXCEPT ![s] = 0]
      /\ tracked' = tracked \cup {s}
  BY DEF FilledWith
<1>4. g[s] <= added
  <2>1. deal'[s] = [stake |-> stake, dist |-> order.dist] /\ lock'[s] = 0
    BY <1>1, <1>3 DEF IInv, TypeOK
  <2>2. Above0(order.dist - 0) = order.dist
    BY <1>1 DEF Above0
  <2>3. g[s] = 0 \/ g[s] = added
    BY <1>1, <2>1, <2>2 DEF AtRisk
  <2> QED
    BY <1>2, <2>3
<1>5. \A t \in Symbols \ {s} : g[t] = h[t]
  BY <1>1, <1>3 DEF IInv, TypeOK, AtRisk
<1>6. A \ {s} = B \ {s} /\ B \subseteq A
  BY <1>3
<1>7. TrackedRisk(S)' = SumFunctionOnSet(g, A) /\ TrackedRisk(S) = SumFunctionOnSet(h, B)
  BY DEF TrackedRisk
<1> HIDE DEF g, h, A, B, s, added
<1>8. /\ g \in [Symbols -> Int] /\ h \in [Symbols -> Int] /\ A \ {s} \in SUBSET Symbols
      /\ \A t \in (A \ {s}) \cap B : g[t] <= h[t]
      /\ \A t \in (A \ {s}) \ B : g[t] <= 0
      /\ \A t \in B \ (A \ {s}) : h[t] >= 0
  BY <1>2, <1>5, <1>6
<1>9. SumFunctionOnSet(g, A \ {s}) <= SumFunctionOnSet(h, B)
  BY <1>2, <1>8, SumMonotone
<1>10. /\ SumFunctionOnSet(g, A) \in Int /\ SumFunctionOnSet(h, B) \in Int
       /\ SumFunctionOnSet(g, A \ {s}) \in Int
  BY <1>2, <1>8, SumTakesLeast
<1>11. s \in A => SumFunctionOnSet(g, A) = g[s] + SumFunctionOnSet(g, A \ {s})
  BY <1>2, <1>8, SumTakes
<1>12. s \notin A => A \ {s} = A
  OBVIOUS
<1>13. SumFunctionOnSet(g, A) <= SumFunctionOnSet(h, B) + added
  BY <1>1, <1>2, <1>4, <1>9, <1>10, <1>11, <1>12
<1> QED
  BY <1>7, <1>10, <1>13 DEF added

LEMMA FillFits ==
    ASSUME IInv, IInv', [Next]_vars, order # None, order' = None, deal' # deal, ~order.blind
    PROVE  LET Total(S) == SumFunctionOnSet(AtRisk', tracked' \cap S)
               slack == 100 * (Grid - 1) * order.dist
           IN /\ 100 * Total(Symbols) <= TotalPct * order.equity + slack
              /\ 100 * Total(SectorOf(order.sym)) <= SectorPct * order.equity + slack
<1>1. Filled
  BY DEF Next, vars, Approve, Refused, Ratchet, Closed, ClosedByIG, Reconcile, Restart, AccountPush
<1>2. order.stake \in Nat /\ order.dist \in Nat /\ order.equity \in Nat
  BY DEF IInv, OrderOK
<1>3. Grid \in Nat \ {0} /\ TotalPct \in Nat /\ SectorPct \in Nat
  BY ExposureAssumption
<1>4. PICK stake \in Nat :
        FilledWith(stake) /\ stake * order.dist <= order.stake * order.dist + (Grid - 1) * order.dist
  <2>1. CASE FilledWith(order.stake)
    <3>1. (Grid - 1) * order.dist \in Nat /\ order.stake * order.dist \in Nat
      BY <1>2, <1>3, ProductIsWhole
    <3> QED
      BY <1>2, <2>1, <3>1
  <2>2. CASE SnapUp(order.stake) > order.stake /\ FilledWith(SnapUp(order.stake))
    BY <1>2, <2>2, SnapIsWhole, SnapAddsLess
  <2> QED
    BY <1>1, <2>1, <2>2 DEF Filled
<1>5. ASSUME NEW S \in SUBSET Symbols, NEW pct \in Nat, Room(S, pct)
      PROVE  100 * SumFunctionOnSet(AtRisk', tracked' \cap S)
               <= pct * order.equity + 100 * (Grid - 1) * order.dist
  <2> DEFINE slack == (Grid - 1) * order.dist
             cap == pct * order.equity
             asked == order.stake * order.dist
             filled == stake * order.dist
  <2>1. /\ TrackedRisk(S)' <= TrackedRisk(S) + filled
        /\ TrackedRisk(S) \in Int /\ TrackedRisk(S)' \in Int
    BY <1>4, FillAdds
  <2>2. /\ slack \in Int /\ cap \in Int /\ asked \in Int /\ filled \in Int
        /\ 100 * (Grid - 1) * order.dist = 100 * slack
    BY <1>2, <1>3
  <2>3. 100 * (TrackedRisk(S) + asked) <= cap
    BY <1>5 DEF Room
  <2>4. filled <= asked + slack
    BY <1>4
  <2> HIDE DEF slack, cap, asked, filled
  <2>5. 100 * TrackedRisk(S)' <= cap + 100 * slack
    BY <2>1, <2>2, <2>3, <2>4
  <2> QED
    BY <2>2, <2>5 DEF TrackedRisk, cap
<1>6. Room(Symbols, TotalPct) /\ Room(SectorOf(order.sym), SectorPct)
  BY DEF IInv, OrderFits
<1> QED
  BY <1>3, <1>5, <1>6, SectorHasSymbols

(* A fill leaves the tracked deals' risk within the total and the sector   *)
(* cap of the equity its approval saw, whatever closed, ratcheted or was   *)
(* reconciled since; the size retry exceeds them by less than a grid step  *)
(* (_check_exposure_limits, _place_with_size_retry).                       *)
THEOREM Capped == Spec => ExposureCapped
<1>1. IInv /\ IInv' /\ [Next]_vars =>
        [order # None /\ order' = None /\ deal' # deal /\ ~order.blind =>
           LET Total(S) == SumFunctionOnSet(AtRisk', tracked' \cap S)
               slack == 100 * (Grid - 1) * order.dist
           IN /\ 100 * Total(Symbols) <= TotalPct * order.equity + slack
              /\ 100 * Total(SectorOf(order.sym)) <= SectorPct * order.equity + slack]_vars
  BY FillFits
<1> QED
  BY <1>1, InitIInv, Inductive, PTL DEF Spec, ExposureCapped
=============================================================================
