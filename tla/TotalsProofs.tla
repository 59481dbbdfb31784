---------------------------- MODULE TotalsProofs ----------------------------
(***************************************************************************)
(* What a total is when rows are added, left out or changed.               *)
(***************************************************************************)
EXTENDS Totals, FiniteSetTheorems, TLAPS

(* One row contributes as many pieces as its number says. *)
LEMMA PiecesOfOne ==
    ASSUME NEW x, NEW n \in Nat
    PROVE  IsFiniteSet(PiecesOf(x, n)) /\ Cardinality(PiecesOf(x, n)) = n
<1> DEFINE A == {x}
           B == 1..n
<1>1. IsFiniteSet(A) /\ Cardinality(A) = 1
  BY FS_Singleton
<1>2. IsFiniteSet(B) /\ Cardinality(B) = n
  BY FS_Interval
<1>3. PiecesOf(x, n) = A \X B
  BY DEF PiecesOf
<1> HIDE DEF A, B
<1>4. IsFiniteSet(A \X B) /\ Cardinality(A \X B) = Cardinality(A) * Cardinality(B)
  BY <1>1, <1>2, FS_Product
<1> QED BY <1>1, <1>2, <1>3, <1>4

(* What a piece is. *)
LEMMA PieceIs ==
    ASSUME NEW S, NEW f, NEW e
    PROVE  e \in Pieces(S, f) <=> \E x \in S : \E k \in 1..f[x] : e = <<x, k>>
BY DEF Pieces, PiecesOf

(* Finitely many rows have finitely many pieces. *)
LEMMA PiecesFinite ==
    ASSUME NEW S, IsFiniteSet(S), NEW f, \A x \in S : f[x] \in Nat
    PROVE  IsFiniteSet(Pieces(S, f))
<1> DEFINE T == {PiecesOf(x, f[x]) : x \in S}
           g == [x \in S |-> PiecesOf(x, f[x])]
<1>1. g \in Surjection(S, T)
  BY DEF Surjection
<1>2. \A P \in T : IsFiniteSet(P)
  BY PiecesOfOne
<1> HIDE DEF T, g
<1>3. IsFiniteSet(T)
  BY <1>1, FS_Surjection
<1>4. IsFiniteSet(UNION T)
  BY <1>2, <1>3, FS_UNION
<1> QED BY <1>4 DEF Pieces, T

(* A total is a natural number. *)
LEMMA TotalType ==
    ASSUME NEW S, IsFiniteSet(S), NEW f, \A x \in S : f[x] \in Nat
    PROVE  TotalOf(S, f) \in Nat
BY PiecesFinite, FS_CardinalityType DEF TotalOf

(* Nothing adds up to nothing. *)
LEMMA TotalEmpty == ASSUME NEW f PROVE TotalOf({}, f) = 0
<1>1. Pieces({}, f) = {}
  BY DEF Pieces
<1> QED BY <1>1, FS_EmptySet DEF TotalOf

(* Rows that all say nothing add up to nothing. *)
LEMMA TotalNone == ASSUME NEW S, NEW f, \A x \in S : f[x] = 0 PROVE TotalOf(S, f) = 0
<1>1. Pieces(S, f) = {}
  BY PieceIs
<1> QED BY <1>1, FS_EmptySet DEF TotalOf

(* Only the numbers of the rows added up matter. *)
LEMMA TotalSame ==
    ASSUME NEW S, NEW f, NEW g, \A x \in S : f[x] = g[x]
    PROVE  TotalOf(S, f) = TotalOf(S, g)
<1>1. Pieces(S, f) = Pieces(S, g)
  BY DEF Pieces
<1> QED BY <1>1 DEF TotalOf

(* One more row adds its own number. *)
LEMMA TotalAdd ==
    ASSUME NEW S, IsFiniteSet(S), NEW y, y \notin S, NEW f,
           \A x \in S \cup {y} : f[x] \in Nat
    PROVE  TotalOf(S \cup {y}, f) = TotalOf(S, f) + f[y]
<1> DEFINE P == Pieces(S, f)
           Q == PiecesOf(y, f[y])
<1>0. f[y] \in Nat
  OBVIOUS
<1>1. Pieces(S \cup {y}, f) = P \cup Q
  BY DEF Pieces
<1>2. IsFiniteSet(P)
  BY PiecesFinite
<1>3. IsFiniteSet(Q) /\ Cardinality(Q) = f[y]
  BY PiecesOfOne
<1>4. P \cap Q = {}
  BY PieceIs DEF PiecesOf
<1> HIDE DEF P, Q
<1>5. Cardinality(P) \in Nat
  BY <1>2, FS_CardinalityType
<1>6. Cardinality(P \cup Q) = Cardinality(P) + Cardinality(Q) - Cardinality(P \cap Q)
  BY <1>2, <1>3, FS_Union
<1>7. Cardinality(P \cap Q) = 0
  BY <1>4, FS_EmptySet, Zenon
<1>8. Cardinality(P \cup Q) = Cardinality(P) + f[y]
  BY <1>0, <1>3, <1>5, <1>6, <1>7
<1> QED BY <1>1, <1>8 DEF TotalOf, P

(* A row that is among those added up can be told from the rest. *)
LEMMA TotalSplit ==
    ASSUME NEW S, IsFiniteSet(S), NEW y \in S, NEW f, \A x \in S : f[x] \in Nat
    PROVE  /\ TotalOf(S, f) = TotalOf(S \ {y}, f) + f[y]
           /\ TotalOf(S \ {y}, f) \in Nat
<1>1. IsFiniteSet(S \ {y})
  BY FS_RemoveElement
<1>2. (S \ {y}) \cup {y} = S
  OBVIOUS
<1> DEFINE R == S \ {y}
<1>3. \A x \in R \cup {y} : f[x] \in Nat
  OBVIOUS
<1>4. TotalOf(R \cup {y}, f) = TotalOf(R, f) + f[y]
  BY <1>1, <1>3, TotalAdd
<1>5. TotalOf(R, f) \in Nat
  BY <1>1, <1>3, TotalType
<1> QED BY <1>2, <1>4, <1>5

(* A change of one row changes the total by as much. *)
LEMMA TotalChange ==
    ASSUME NEW S, IsFiniteSet(S), NEW y \in S, NEW f, NEW g,
           \A x \in S : f[x] \in Nat /\ g[x] \in Nat,
           \A x \in S \ {y} : g[x] = f[x]
    PROVE  /\ TotalOf(S, g) = TotalOf(S, f) - f[y] + g[y]
           /\ f[y] <= TotalOf(S, f)
<1>1. /\ TotalOf(S, f) = TotalOf(S \ {y}, f) + f[y] /\ TotalOf(S \ {y}, f) \in Nat
      /\ TotalOf(S, g) = TotalOf(S \ {y}, g) + g[y]
  BY TotalSplit
<1>2. TotalOf(S \ {y}, f) = TotalOf(S \ {y}, g)
  BY TotalSame
<1> QED BY <1>1, <1>2

(* If one row at most says anything, the rows add up to no more than it. *)
LEMMA TotalOne ==
    ASSUME NEW S, IsFiniteSet(S), NEW f, NEW b \in Nat, \A x \in S : f[x] \in Nat,
           \A x \in S : f[x] # 0 => f[x] = b, \A x, y \in S : f[x] # 0 /\ f[y] # 0 => x = y
    PROVE  TotalOf(S, f) <= b
<1>1. CASE \A x \in S : f[x] = 0
  <2>1. TotalOf(S, f) = 0
    BY <1>1, TotalNone
  <2> QED BY <2>1
<1>2. CASE \E x \in S : f[x] # 0
  <2>1. PICK x \in S : f[x] # 0
    BY <1>2
  <2>2. \A y \in S \ {x} : f[y] = 0
    BY <2>1
  <2>3. TotalOf(S \ {x}, f) = 0
    BY <2>2, TotalNone
  <2>4. TotalOf(S, f) = TotalOf(S \ {x}, f) + f[x]
    BY TotalSplit
  <2> QED BY <2>1, <2>3, <2>4
<1> QED BY <1>1, <1>2

(* A net sum is an integer, and depends on the numbers of the rows only. *)
LEMMA NetSame ==
    ASSUME NEW S, IsFiniteSet(S), NEW f, NEW g, \A x \in S : f[x] \in Int /\ g[x] = f[x]
    PROVE  NetOf(S, g) = NetOf(S, f) /\ NetOf(S, f) \in Int
<1> DEFINE up(h) == [x \in S |-> IF h[x] > 0 THEN h[x] ELSE 0]
           down(h) == [x \in S |-> IF h[x] < 0 THEN -h[x] ELSE 0]
<1>1. up(g) = up(f) /\ down(g) = down(f)
  OBVIOUS
<1>2. \A x \in S : up(f)[x] \in Nat /\ down(f)[x] \in Nat
  OBVIOUS
<1>3. NetOf(S, f) = TotalOf(S, up(f)) - TotalOf(S, down(f))
      /\ NetOf(S, g) = TotalOf(S, up(g)) - TotalOf(S, down(g))
  BY DEF NetOf
<1> HIDE DEF up, down
<1>4. TotalOf(S, up(f)) \in Nat /\ TotalOf(S, down(f)) \in Nat
  BY <1>2, TotalType
<1> QED BY <1>1, <1>3, <1>4

(* A change of one row changes a net sum by as much. *)
LEMMA NetChange ==
    ASSUME NEW S, IsFiniteSet(S), NEW y \in S, NEW f, NEW g,
           \A x \in S : f[x] \in Int /\ g[x] \in Int, \A x \in S \ {y} : g[x] = f[x]
    PROVE  NetOf(S, g) = NetOf(S, f) - f[y] + g[y] /\ NetOf(S, f) \in Int
<1> DEFINE up(h) == [x \in S |-> IF h[x] > 0 THEN h[x] ELSE 0]
           down(h) == [x \in S |-> IF h[x] < 0 THEN -h[x] ELSE 0]
<1>1. \A x \in S : up(f)[x] \in Nat /\ down(f)[x] \in Nat /\ up(g)[x] \in Nat /\ down(g)[x] \in Nat
  OBVIOUS
<1>2. \A x \in S \ {y} : up(g)[x] = up(f)[x] /\ down(g)[x] = down(f)[x]
  OBVIOUS
<1>3. up(f)[y] - down(f)[y] = f[y] /\ up(g)[y] - down(g)[y] = g[y]
  OBVIOUS
<1>4. NetOf(S, f) = TotalOf(S, up(f)) - TotalOf(S, down(f))
      /\ NetOf(S, g) = TotalOf(S, up(g)) - TotalOf(S, down(g))
  BY DEF NetOf
<1> HIDE DEF up, down
<1>5. TotalOf(S, up(g)) = TotalOf(S, up(f)) - up(f)[y] + up(g)[y]
  BY <1>1, <1>2, TotalChange
<1>6. TotalOf(S, down(g)) = TotalOf(S, down(f)) - down(f)[y] + down(g)[y]
  BY <1>1, <1>2, TotalChange
<1>7. TotalOf(S, up(f)) \in Nat /\ TotalOf(S, down(f)) \in Nat
  BY <1>1, TotalType
<1>8. /\ up(f)[y] \in Nat /\ down(f)[y] \in Nat /\ up(g)[y] \in Nat /\ down(g)[y] \in Nat
      /\ f[y] \in Int /\ g[y] \in Int
  BY <1>1
<1> QED BY <1>3, <1>4, <1>5, <1>6, <1>7, <1>8

(* Rows that all say nothing have no net sum. *)
LEMMA NetNone == ASSUME NEW S, NEW f, \A x \in S : f[x] = 0 PROVE NetOf(S, f) = 0
<1> DEFINE up == [x \in S |-> IF f[x] > 0 THEN f[x] ELSE 0]
           down == [x \in S |-> IF f[x] < 0 THEN -f[x] ELSE 0]
<1>1. \A x \in S : up[x] = 0 /\ down[x] = 0
  OBVIOUS
<1>2. NetOf(S, f) = TotalOf(S, up) - TotalOf(S, down)
  BY DEF NetOf
<1> HIDE DEF up, down
<1>3. TotalOf(S, up) = 0 /\ TotalOf(S, down) = 0
  BY <1>1, TotalNone
<1> QED BY <1>2, <1>3
(* The laws that the proofs about the counter and its books start from. *)
THEOREM TotalsObeySumLaws == SumLaws
<1>1. CountLaw
  BY FS_CardinalityType, FS_Subset, FS_Interval, FS_EmptySet, FS_AddElement DEF CountLaw
<1>2. TotalLaw
  BY TotalType DEF TotalLaw
<1>3. ChangeLaw
  BY TotalChange DEF ChangeLaw
<1>4. NetLaw
  BY NetChange DEF NetLaw
<1>5. JoinLaw
  BY FS_Singleton, FS_Union, FS_Product DEF JoinLaw
<1>6. SameLaw
  BY TotalSame, TotalNone, NetNone, Zenon DEF SameLaw
<1>7. AddLaw
  BY TotalAdd, Zenon DEF AddLaw
<1>8. OneLaw
  BY TotalOne, Zenon DEF OneLaw
<1> QED BY <1>1, <1>2, <1>3, <1>4, <1>5, <1>6, <1>7, <1>8, Zenon DEF SumLaws
=============================================================================
