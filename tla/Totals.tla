------------------------------- MODULE Totals -------------------------------
(***************************************************************************)
(* Sums of natural numbers over a finite set, as SQL's SUM over rows: each *)
(* x of S contributes f[x] pieces of its own, and the total is how many    *)
(* pieces there are.  Counting needs no recursion, so that what a change   *)
(* of one row does to a total can be proved (TotalsProofs).                *)
(***************************************************************************)
EXTENDS Integers, FiniteSets

PiecesOf(x, n) == {x} \X (1..n)
Pieces(S, f) == UNION {PiecesOf(x, f[x]) : x \in S}
TotalOf(S, f) == Cardinality(Pieces(S, f))

(* A sum of numbers that may be negative: what is gained less what is lost. *)
NetOf(S, f) == TotalOf(S, [x \in S |-> IF f[x] > 0 THEN f[x] ELSE 0])
                 - TotalOf(S, [x \in S |-> IF f[x] < 0 THEN -f[x] ELSE 0])

(* The sum of F over those of S that are In. *)
SumWhere(S, F(_), In(_)) == TotalOf(S, [x \in S |-> IF In(x) THEN F(x) ELSE 0])

(***************************************************************************)
(* What a proof about sums may use of finite sets and of totals, each for  *)
(* any set S and any rows f, g (proved in TotalsProofs).                   *)
(***************************************************************************)
CountLaw ==
    /\ \A S : IsFiniteSet(S) => Cardinality(S) \in Nat
    /\ \A S, T : IsFiniteSet(S) /\ T \subseteq S => IsFiniteSet(T)
    /\ \A a, b \in Int : IsFiniteSet(a..b)
    /\ IsFiniteSet({}) /\ Cardinality({}) = 0
    /\ \A S, x : IsFiniteSet(S) /\ x \notin S => Cardinality(S \cup {x}) = Cardinality(S) + 1
TotalLaw == \A S, f : IsFiniteSet(S) /\ (\A x \in S : f[x] \in Nat) => TotalOf(S, f) \in Nat
ChangeLaw ==
    \A S, f, g : \A y \in S :
        IsFiniteSet(S) /\ (\A x \in S : f[x] \in Nat /\ g[x] \in Nat)
          /\ (\A x \in S \ {y} : g[x] = f[x])
            => TotalOf(S, g) = TotalOf(S, f) - f[y] + g[y] /\ f[y] <= TotalOf(S, f)
NetLaw ==
    \A S, f, g : \A y \in S :
        IsFiniteSet(S) /\ (\A x \in S : f[x] \in Int /\ g[x] \in Int)
          /\ (\A x \in S \ {y} : g[x] = f[x])
            => NetOf(S, g) = NetOf(S, f) - f[y] + g[y] /\ NetOf(S, f) \in Int
JoinLaw ==
    /\ \A x : IsFiniteSet({x}) /\ Cardinality({x}) = 1
    /\ \A S, T : IsFiniteSet(S) /\ IsFiniteSet(T) => IsFiniteSet(S \cup T) /\ IsFiniteSet(S \X T)
SameLaw ==
    /\ \A S, f, g : (\A x \in S : f[x] = g[x]) => TotalOf(S, f) = TotalOf(S, g)
    /\ \A S, f : (\A x \in S : f[x] = 0) => TotalOf(S, f) = 0 /\ NetOf(S, f) = 0
AddLaw ==
    \A S, f, y : IsFiniteSet(S) /\ y \notin S /\ (\A x \in S \cup {y} : f[x] \in Nat)
                   => TotalOf(S \cup {y}, f) = TotalOf(S, f) + f[y]
OneLaw ==
    \A S, f : \A b \in Nat :
        IsFiniteSet(S) /\ (\A x \in S : f[x] \in Nat) /\ (\A x \in S : f[x] # 0 => f[x] = b)
          /\ (\A x, y \in S : f[x] # 0 /\ f[y] # 0 => x = y)
            => TotalOf(S, f) <= b
SumLaws == /\ CountLaw /\ TotalLaw /\ ChangeLaw /\ NetLaw
           /\ JoinLaw /\ SameLaw /\ AddLaw /\ OneLaw
=============================================================================
