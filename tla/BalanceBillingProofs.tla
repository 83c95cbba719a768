------------------------- MODULE BalanceBillingProofs -------------------------
(***************************************************************************)
(* Proofs about BalanceBilling, for any number of requests, any balance,   *)
(* estimates, queue and lifetime of reservations, and any number of        *)
(* faults.                                                                 *)
(***************************************************************************)
EXTENDS BalanceBilling, FiniteSetTheorems, TLAPS
-----------------------------------------------------------------------------
(* Sums.  SumOf is a fold; what follows establishes that its recursion is  *)
(* well-founded, and that the order in which it takes the elements does    *)
(* not matter.                                                             *)

\* Of any sets of elements of a finite set, one contains no other.
LEMMA SmallestSet ==
  ASSUME NEW S, IsFiniteSet(S), NEW B \in SUBSET SUBSET S, B # {}
  PROVE  \E m \in B : \A t \in B : t \subseteq m => t = m
  <1>1. IsWellFoundedOn(StrictSubsetOrdering(S), SUBSET S)
    BY FS_StrictSubsetOrderingWellFounded, FS_FiniteSubsetsOfFinite
  <1>2. PICK m \in B : \A t \in B : ~(<<t, m>> \in StrictSubsetOrdering(S))
    BY <1>1, WFMin, Zenon
  <1> QED
    BY <1>2 DEF StrictSubsetOrdering

Picked(s) == CHOOSE x \in s : TRUE

Folded(f, S, g) ==
    g = [s \in SUBSET S |-> IF s = {} THEN 0 ELSE f[Picked(s)] + g[s \ {Picked(s)}]]

SumFcn(f, S) == CHOOSE g : Folded(f, S, g)

LEMMA SumDef ==
  ASSUME NEW f, NEW S
  PROVE  SumOf(f, S) = SumFcn(f, S)[S]
  BY DEF SumOf, MapThenSumSet, MapThenFoldSet, SumFcn, Folded, Picked

LEMMA PickedIn ==
  ASSUME NEW s, s # {}
  PROVE  Picked(s) \in s
  BY DEF Picked

LEMMA FoldedAt ==
  ASSUME NEW f, NEW S, NEW g, Folded(f, S, g), NEW s \in SUBSET S
  PROVE  g[s] = IF s = {} THEN 0 ELSE f[Picked(s)] + g[s \ {Picked(s)}]
  BY DEF Folded

\* What a set adds up to does not depend on the set it is part of.
LEMMA FoldsAgree ==
  ASSUME NEW f, NEW S, IsFiniteSet(S), NEW T, NEW g, NEW h,
         Folded(f, S, g), Folded(f, T, h)
  PROVE  \A s \in SUBSET (S \cap T) : g[s] = h[s]
  <1> DEFINE B == {s \in SUBSET (S \cap T) : g[s] # h[s]}
  <1> SUFFICES ASSUME B # {} PROVE FALSE
    OBVIOUS
  <1>0. B \in SUBSET SUBSET S /\ B # {}
    OBVIOUS
  <1>1. PICK m \in B : \A t \in B : t \subseteq m => t = m
    <2> HIDE DEF B
    <2> QED
      BY <1>0, SmallestSet
  <1>2. m \in SUBSET S /\ m \in SUBSET T /\ g[m] # h[m]
    BY <1>1
  <1>3. m # {}
    BY <1>2, FoldedAt
  <1>4. Picked(m) \in m
    BY <1>3, PickedIn
  <1>5. g[m \ {Picked(m)}] = h[m \ {Picked(m)}]
    <2> DEFINE t == m \ {Picked(m)}
    <2>1. t \in SUBSET (S \cap T) /\ t \subseteq m /\ t # m
      BY <1>2, <1>4
    <2> QED
      BY <1>1, <2>1
  <1>6. g[m] = f[Picked(m)] + g[m \ {Picked(m)}]
    BY <1>2, <1>3, FoldedAt
  <1>7. h[m] = f[Picked(m)] + h[m \ {Picked(m)}]
    BY <1>2, <1>3, FoldedAt
  <1> QED
    BY <1>2, <1>5, <1>6, <1>7

LEMMA FoldExists ==
  ASSUME NEW f, NEW S, IsFiniteSet(S)
  PROVE  Folded(f, S, SumFcn(f, S))
  <1> DEFINE B == {s \in SUBSET S : ~Folded(f, s, SumFcn(f, s))}
  <1> SUFFICES ASSUME B # {} PROVE FALSE
    <2>1. S \in SUBSET S
      OBVIOUS
    <2> QED
      BY <2>1
  <1>0. B \in SUBSET SUBSET S /\ B # {}
    OBVIOUS
  <1>1. PICK m \in B : \A t \in B : t \subseteq m => t = m
    <2> HIDE DEF B
    <2> QED
      BY <1>0, SmallestSet
  <1>2. m \in SUBSET S /\ ~Folded(f, m, SumFcn(f, m))
    BY <1>1
  <1>3. \A t \in SUBSET m : t # m => Folded(f, t, SumFcn(f, t)) /\ IsFiniteSet(t)
    <2> TAKE t \in SUBSET m
    <2>1. t \in SUBSET S /\ IsFiniteSet(t)
      BY <1>2, FS_Subset
    <2> QED
      BY <1>1, <2>1
  <1> DEFINE h == [t \in SUBSET m |->
                     IF t = {} THEN 0 ELSE f[Picked(t)] + SumOf(f, t \ {Picked(t)})]
  <1>4. ASSUME NEW u \in SUBSET m, u # m
        PROVE  h[u] = SumOf(f, u)
    <2>1. Folded(f, u, SumFcn(f, u)) /\ IsFiniteSet(u) /\ u \in SUBSET u
      BY <1>3, <1>4
    <2>2. SumOf(f, u) = SumFcn(f, u)[u]
      BY SumDef
    <2>3. CASE u = {}
      BY <2>1, <2>2, <2>3, FoldedAt
    <2>4. CASE u # {}
      <3> DEFINE v == u \ {Picked(u)}
      <3>1. Picked(u) \in u
        BY <2>4, PickedIn
      <3>2. v \in SUBSET m /\ v # m /\ v \in SUBSET (u \cap v)
        BY <1>4, <3>1
      <3>3. Folded(f, v, SumFcn(f, v))
        BY <1>3, <3>2
      <3>4. SumFcn(f, u)[v] = SumFcn(f, v)[v]
        BY <2>1, <3>2, <3>3, FoldsAgree
      <3>5. SumFcn(f, u)[u] = f[Picked(u)] + SumFcn(f, u)[v]
        BY <2>1, <2>4, FoldedAt
      <3>6. SumOf(f, v) = SumFcn(f, v)[v]
        BY SumDef
      <3>7. h[u] = f[Picked(u)] + SumOf(f, v)
        BY <2>4
      <3> QED
        BY <2>2, <3>4, <3>5, <3>6, <3>7
    <2> QED
      BY <2>3, <2>4
  <1>5. ASSUME NEW t \in SUBSET m, t # {}
        PROVE  h[t] = f[Picked(t)] + h[t \ {Picked(t)}]
    <2>1. Picked(t) \in t
      BY <1>5, PickedIn
    <2>2. t \ {Picked(t)} \in SUBSET m /\ t \ {Picked(t)} # m
      BY <2>1
    <2>3. h[t \ {Picked(t)}] = SumOf(f, t \ {Picked(t)})
      BY <1>4, <2>2
    <2>4. h[t] = f[Picked(t)] + SumOf(f, t \ {Picked(t)})
      BY <1>5
    <2> QED
      BY <2>3, <2>4
  <1>6. h[{}] = 0
    OBVIOUS
  <1>7. h = [t \in SUBSET m |-> h[t]]
    OBVIOUS
  <1> HIDE DEF h
  <1>8. Folded(f, m, h)
    BY <1>5, <1>6, <1>7 DEF Folded
  <1>9. Folded(f, m, SumFcn(f, m))
    BY <1>8 DEF SumFcn
  <1> QED
    BY <1>2, <1>9

LEMMA SumNone == ASSUME NEW f PROVE SumOf(f, {}) = 0
  <1>1. Folded(f, {}, SumFcn(f, {}))
    BY FoldExists, FS_EmptySet
  <1> QED
    BY <1>1, SumDef, FoldedAt

LEMMA SumPicked ==
  ASSUME NEW f, NEW S, IsFiniteSet(S), S # {}
  PROVE  SumOf(f, S) = f[Picked(S)] + SumOf(f, S \ {Picked(S)})
  <1> DEFINE T == S \ {Picked(S)}
  <1>1. IsFiniteSet(T) /\ T \in SUBSET (S \cap T)
    BY FS_Subset
  <1>2. Folded(f, S, SumFcn(f, S)) /\ Folded(f, T, SumFcn(f, T))
    BY <1>1, FoldExists
  <1>3. SumFcn(f, S)[T] = SumFcn(f, T)[T]
    BY <1>1, <1>2, FoldsAgree
  <1>4. SumFcn(f, S)[S] = f[Picked(S)] + SumFcn(f, S)[T]
    BY <1>2, FoldedAt
  <1> QED
    BY <1>3, <1>4, SumDef

\* The sum is that of any element and of the rest.
LEMMA SumTake ==
  ASSUME NEW f, NEW S, IsFiniteSet(S), \A x \in S : f[x] \in Int
  PROVE  SumOf(f, S) \in Int /\ \A x \in S : SumOf(f, S) = f[x] + SumOf(f, S \ {x})
  <1> DEFINE Good(s) == /\ SumOf(f, s) \in Int
                        /\ \A x \in s : SumOf(f, s) = f[x] + SumOf(f, s \ {x})
             B == {s \in SUBSET S : ~Good(s)}
  <1> SUFFICES ASSUME B # {} PROVE FALSE
    <2>1. S \in SUBSET S
      OBVIOUS
    <2> QED
      BY <2>1
  <1>0. B \in SUBSET SUBSET S /\ B # {}
    OBVIOUS
  <1>1. PICK m \in B : \A t \in B : t \subseteq m => t = m
    <2> HIDE DEF B
    <2> QED
      BY <1>0, SmallestSet
  <1>2. m \in SUBSET S /\ ~Good(m) /\ IsFiniteSet(m)
    BY <1>1, FS_Subset
  <1>3. \A t \in SUBSET m : t # m => Good(t)
    BY <1>1, <1>2
  <1>4. m # {}
    BY <1>2, SumNone
  <1> DEFINE p == Picked(m)
  <1>5. p \in m
    BY <1>4, PickedIn
  <1> HIDE DEF p
  <1>6. Good(m \ {p}) /\ f[p] \in Int
    <2>1. m \ {p} \in SUBSET m /\ m \ {p} # m
      BY <1>5
    <2> QED
      BY <1>2, <1>3, <1>5, <2>1
  <1>7. SumOf(f, m) = f[p] + SumOf(f, m \ {p})
    BY <1>2, <1>4, SumPicked DEF p
  <1>8. SumOf(f, m) \in Int
    BY <1>6, <1>7
  <1>9. ASSUME NEW x \in m, x # p
        PROVE  SumOf(f, m) = f[x] + SumOf(f, m \ {x})
    <2>1. SumOf(f, m \ {p}) = f[x] + SumOf(f, (m \ {p}) \ {x})
      BY <1>6, <1>9
    <2>2. Good(m \ {x})
      <3>1. m \ {x} \in SUBSET m /\ m \ {x} # m
        BY <1>9
      <3> QED
        BY <1>3, <3>1
    <2>3. SumOf(f, m \ {x}) = f[p] + SumOf(f, (m \ {x}) \ {p})
      BY <1>5, <1>9, <2>2
    <2>4. (m \ {x}) \ {p} = (m \ {p}) \ {x}
      OBVIOUS
    <2>5. Good((m \ {p}) \ {x})
      <3>1. (m \ {p}) \ {x} \in SUBSET m /\ (m \ {p}) \ {x} # m
        BY <1>9
      <3> QED
        BY <1>3, <3>1
    <2>6. f[x] \in Int /\ SumOf(f, (m \ {p}) \ {x}) \in Int
      BY <1>2, <1>9, <2>5
    <2>7. SumOf(f, m \ {x}) = f[p] + SumOf(f, (m \ {p}) \ {x})
      BY <2>3, <2>4
    <2> QED
      BY <1>6, <1>7, <2>1, <2>6, <2>7
  <1> QED
    BY <1>2, <1>7, <1>8, <1>9

LEMMA SumAdd ==
  ASSUME NEW f, NEW S, IsFiniteSet(S), \A y \in S : f[y] \in Int, NEW x, x \notin S,
         f[x] \in Int
  PROVE  SumOf(f, S \cup {x}) = SumOf(f, S) + f[x]
  <1>1. IsFiniteSet(S \cup {x}) /\ (S \cup {x}) \ {x} = S
    BY FS_AddElement
  <1>2. SumOf(f, S \cup {x}) = f[x] + SumOf(f, S)
    BY <1>1, SumTake
  <1>3. SumOf(f, S) \in Int
    BY SumTake
  <1> QED
    BY <1>2, <1>3

\* What is less in every element is less in all.
LEMMA SumLess ==
  ASSUME NEW f, NEW g, NEW S, IsFiniteSet(S),
         \A x \in S : f[x] \in Int /\ g[x] \in Int /\ f[x] <= g[x]
  PROVE  SumOf(f, S) <= SumOf(g, S)
  <1> DEFINE B == {s \in SUBSET S : ~(SumOf(f, s) <= SumOf(g, s))}
  <1> SUFFICES ASSUME B # {} PROVE FALSE
    <2>1. S \in SUBSET S
      OBVIOUS
    <2> QED
      BY <2>1
  <1>0. B \in SUBSET SUBSET S /\ B # {}
    OBVIOUS
  <1>1. PICK m \in B : \A t \in B : t \subseteq m => t = m
    <2> HIDE DEF B
    <2> QED
      BY <1>0, SmallestSet
  <1>2. m \in SUBSET S /\ ~(SumOf(f, m) <= SumOf(g, m)) /\ IsFiniteSet(m)
    BY <1>1, FS_Subset
  <1>3. m # {}
    BY <1>2, SumNone
  <1>4. PICK x \in m : TRUE
    BY <1>3
  <1> DEFINE t == m \ {x}
  <1>5. t \in SUBSET S /\ IsFiniteSet(t) /\ SumOf(f, t) <= SumOf(g, t)
    BY <1>1, <1>2, <1>4, FS_Subset
  <1>6. /\ SumOf(f, m) = f[x] + SumOf(f, t) /\ SumOf(f, t) \in Int
        /\ SumOf(g, m) = g[x] + SumOf(g, t) /\ SumOf(g, t) \in Int
    BY <1>2, <1>4, <1>5, SumTake
  <1>7. f[x] \in Int /\ g[x] \in Int /\ f[x] <= g[x]
    BY <1>2, <1>4
  <1> HIDE DEF t, B
  <1> QED
    BY <1>2, <1>5, <1>6, <1>7

\* What is no more than two amounts in every element is no more than their sums.
LEMMA SumSplit ==
  ASSUME NEW f, NEW g, NEW h, NEW S, IsFiniteSet(S),
         \A x \in S : f[x] \in Int /\ g[x] \in Int /\ h[x] \in Int /\ f[x] <= g[x] + h[x]
  PROVE  SumOf(f, S) <= SumOf(g, S) + SumOf(h, S)
  <1> DEFINE B == {s \in SUBSET S : ~(SumOf(f, s) <= SumOf(g, s) + SumOf(h, s))}
  <1> SUFFICES ASSUME B # {} PROVE FALSE
    <2>1. S \in SUBSET S
      OBVIOUS
    <2> QED
      BY <2>1
  <1>0. B \in SUBSET SUBSET S /\ B # {}
    OBVIOUS
  <1>1. PICK m \in B : \A t \in B : t \subseteq m => t = m
    <2> HIDE DEF B
    <2> QED
      BY <1>0, SmallestSet
  <1>2. m \in SUBSET S /\ ~(SumOf(f, m) <= SumOf(g, m) + SumOf(h, m)) /\ IsFiniteSet(m)
    BY <1>1, FS_Subset
  <1>3. m # {}
    <2>1. ASSUME m = {} PROVE SumOf(f, m) = 0 /\ SumOf(g, m) = 0 /\ SumOf(h, m) = 0
      BY <2>1, SumNone
    <2>2. 0 <= 0 + 0
      OBVIOUS
    <2> HIDE DEF B
    <2> QED
      BY <1>2, <2>1, <2>2
  <1>4. PICK x \in m : TRUE
    BY <1>3
  <1> DEFINE t == m \ {x}
  <1>5. t \in SUBSET S /\ IsFiniteSet(t) /\ SumOf(f, t) <= SumOf(g, t) + SumOf(h, t)
    BY <1>1, <1>2, <1>4, FS_Subset
  <1>6. /\ SumOf(f, m) = f[x] + SumOf(f, t) /\ SumOf(f, t) \in Int
        /\ SumOf(g, m) = g[x] + SumOf(g, t) /\ SumOf(g, t) \in Int
        /\ SumOf(h, m) = h[x] + SumOf(h, t) /\ SumOf(h, t) \in Int
    BY <1>2, <1>4, <1>5, SumTake
  <1>7. f[x] \in Int /\ g[x] \in Int /\ h[x] \in Int /\ f[x] <= g[x] + h[x]
    BY <1>2, <1>4
  <1> HIDE DEF t, B
  <1> QED
    BY <1>2, <1>5, <1>6, <1>7

LEMMA SumZero ==
  ASSUME NEW f, NEW S, IsFiniteSet(S), \A x \in S : f[x] = 0
  PROVE  SumOf(f, S) = 0
  <1> DEFINE B == {s \in SUBSET S : SumOf(f, s) # 0}
  <1> SUFFICES ASSUME B # {} PROVE FALSE
    <2>1. S \in SUBSET S
      OBVIOUS
    <2> QED
      BY <2>1
  <1>0. B \in SUBSET SUBSET S /\ B # {}
    OBVIOUS
  <1>1. PICK m \in B : \A t \in B : t \subseteq m => t = m
    <2> HIDE DEF B
    <2> QED
      BY <1>0, SmallestSet
  <1>2. m \in SUBSET S /\ IsFiniteSet(m) /\ SumOf(f, m) # 0
    BY <1>1, FS_Subset
  <1>3. PICK x \in m : TRUE
    BY <1>2, SumNone
  <1>4. SumOf(f, m \ {x}) = 0
    BY <1>1, <1>2, <1>3
  <1>5. SumOf(f, m) = f[x] + SumOf(f, m \ {x}) /\ f[x] = 0
    BY <1>2, <1>3, SumTake
  <1> QED
    BY <1>2, <1>4, <1>5

LEMMA SumSame ==
  ASSUME NEW f, NEW g, NEW S, IsFiniteSet(S), \A x \in S : f[x] \in Int /\ f[x] = g[x]
  PROVE  SumOf(f, S) = SumOf(g, S)
  <1>1. SumOf(f, S) <= SumOf(g, S) /\ SumOf(g, S) <= SumOf(f, S)
    BY SumLess
  <1>2. SumOf(f, S) \in Int /\ SumOf(g, S) \in Int
    BY SumTake
  <1> QED
    BY <1>1, <1>2

\* Disjoint sets of amounts add up.
LEMMA SumUnion ==
  ASSUME NEW f, NEW S, NEW T, IsFiniteSet(S), IsFiniteSet(T), S \cap T = {},
         \A x \in S \cup T : f[x] \in Int
  PROVE  SumOf(f, S \cup T) = SumOf(f, S) + SumOf(f, T)
  <1> DEFINE B == {s \in SUBSET T : SumOf(f, S \cup s) # SumOf(f, S) + SumOf(f, s)}
  <1> SUFFICES ASSUME B # {} PROVE FALSE
    <2>1. T \in SUBSET T
      OBVIOUS
    <2> QED
      BY <2>1
  <1>0. B \in SUBSET SUBSET T /\ B # {}
    OBVIOUS
  <1>1. PICK m \in B : \A t \in B : t \subseteq m => t = m
    <2> HIDE DEF B
    <2> QED
      BY <1>0, SmallestSet
  <1>2. m \in SUBSET T /\ IsFiniteSet(m) /\ SumOf(f, S \cup m) # SumOf(f, S) + SumOf(f, m)
    BY <1>1, FS_Subset
  <1>s. SumOf(f, S) \in Int
    BY SumTake
  <1>3. m # {}
    <2>1. SumOf(f, {}) = 0 /\ S \cup {} = S
      BY SumNone
    <2> QED
      BY <1>2, <1>s, <2>1
  <1>4. PICK x \in m : TRUE
    BY <1>3
  <1> DEFINE t == m \ {x}
  <1>5. t \in SUBSET T /\ IsFiniteSet(t) /\ SumOf(f, S \cup t) = SumOf(f, S) + SumOf(f, t)
    BY <1>1, <1>2, <1>4, FS_Subset
  <1>6. SumOf(f, m) = f[x] + SumOf(f, t) /\ SumOf(f, t) \in Int /\ f[x] \in Int
    BY <1>2, <1>4, <1>5, SumTake
  <1>7. SumOf(f, S \cup m) = f[x] + SumOf(f, S \cup t)
    <2>1. IsFiniteSet(S \cup m) /\ x \in S \cup m /\ (S \cup m) \ {x} = S \cup t
      BY <1>2, <1>4, FS_Union
    <2>2. \A y \in S \cup m : f[y] \in Int
      BY <1>2
    <2> QED
      BY <2>1, <2>2, SumTake
  <1> HIDE DEF t, B
  <1> QED
    BY <1>2, <1>s, <1>5, <1>6, <1>7

LEMMA SumNat ==
  ASSUME NEW f, NEW S, IsFiniteSet(S), \A x \in S : f[x] \in Nat
  PROVE  SumOf(f, S) \in Nat
  <1> DEFINE B == {s \in SUBSET S : SumOf(f, s) \notin Nat}
  <1> SUFFICES ASSUME B # {} PROVE FALSE
    <2>1. S \in SUBSET S
      OBVIOUS
    <2> QED
      BY <2>1
  <1>0. B \in SUBSET SUBSET S /\ B # {}
    OBVIOUS
  <1>1. PICK m \in B : \A t \in B : t \subseteq m => t = m
    <2> HIDE DEF B
    <2> QED
      BY <1>0, SmallestSet
  <1>2. m \in SUBSET S /\ IsFiniteSet(m) /\ SumOf(f, m) \notin Nat
    BY <1>1, FS_Subset
  <1>3. PICK x \in m : TRUE
    BY <1>2, SumNone
  <1>4. SumOf(f, m \ {x}) \in Nat
    BY <1>1, <1>2, <1>3
  <1>5. SumOf(f, m) = f[x] + SumOf(f, m \ {x}) /\ f[x] \in Nat
    BY <1>2, <1>3, SumTake
  <1> QED
    BY <1>2, <1>4, <1>5

\* No amount is negative, so a part is no more than all.
LEMMA SumPart ==
  ASSUME NEW f, NEW S, IsFiniteSet(S), \A x \in S : f[x] \in Nat, NEW T \in SUBSET S
  PROVE  SumOf(f, T) <= SumOf(f, S) /\ SumOf(f, T) \in Nat /\ SumOf(f, S) \in Nat
  <1>1. IsFiniteSet(T) /\ IsFiniteSet(S \ T)
    BY FS_Subset
  <1>2. SumOf(f, T) \in Nat /\ SumOf(f, S \ T) \in Nat
    BY <1>1, SumNat
  <1>3. SumOf(f, T \cup (S \ T)) = SumOf(f, T) + SumOf(f, S \ T)
    <2>1. T \cap (S \ T) = {} /\ \A x \in T \cup (S \ T) : f[x] \in Int
      OBVIOUS
    <2> QED
      BY <1>1, <2>1, SumUnion
  <1>4. T \cup (S \ T) = S
    OBVIOUS
  <1>5. SumOf(f, S) = SumOf(f, T) + SumOf(f, S \ T)
    BY <1>3, <1>4
  <1> QED
    BY <1>2, <1>5

-----------------------------------------------------------------------------
LEMMA Constants ==
  /\ IsFiniteSet(Requests) /\ StartBalance \in Nat /\ MaxEst \in Nat /\ MaxEst > 0
  /\ MaxCost \in Nat
  /\ TTL \in Nat /\ TTL >= 2 /\ MaxFaults \in Nat /\ NoBalance \notin Int
  BY BillingAssumption

USE Constants
-----------------------------------------------------------------------------
(* The inductive invariant.                                                *)

Tasks == {"none", "queued", "deduct", "invalidate", "done"}

\* Requests that may have been deducted from users.balance.
Billed == {r \in Requests : task[r] \notin {"none", "queued"}}

\* Requests whose deduction the cached balance has still to see.
Pending == {r \in Requests : task[r] \in {"deduct", "invalidate"}}

\* A request that is not billed, or not taken from the cache, has a handler that
\* runs or waits for it.
StepsInv ==
    /\ pc \in [Requests -> PCs] /\ task \in [Requests -> Tasks]
    /\ \A r \in Requests :
         task[r] \in {"queued", "deduct", "invalidate"} => pc[r] \in {"run", "ended"}

\* Each request is deducted once.
MoneyInv ==
    /\ est \in [Requests -> 0..MaxEst] /\ cost \in [Requests -> 0..MaxCost]
    /\ db \in Int /\ db <= StartBalance
    /\ db >= StartBalance - MaxCost * Cardinality(Billed)

Excess == [r \in Requests |-> Beyond(r)]

\* Whatever a billed request costs beyond its estimate has been counted.
BeyondInv == beyond \in Nat /\ SumOf(Excess, Billed) <= beyond

CacheTypeInv ==
    /\ bal \in [Requests -> Int]
    /\ cache \in Int \cup {NoBalance} /\ flight \in Balances \cup {NoBalance}
    /\ sets \in [Balances -> Nat] /\ deducts \subseteq Requests
    /\ faults \in 0..MaxFaults /\ blind \in BOOLEAN /\ raced \in BOOLEAN

\* A reservation lives a TTL from its last renewal, which was in this tick or in
\* the one before; since counts what has gone of it after the handler.
HoldInv ==
    /\ left \in [Requests -> 0..TTL] /\ since \in [Requests -> 0..TTL]
    /\ renewed \subseteq Requests /\ missed \subseteq Requests
    /\ \A r \in Requests :
         /\ left[r] + since[r] <= TTL
         /\ r \in renewed => pc[r] = "run" /\ left[r] = TTL
         /\ pc[r] \notin Returned => since[r] = 0
         /\ r \notin missed /\ pc[r] \in {"run", "ended"} => left[r] + since[r] >= TTL - 1

\* Whatever is in Redis or on the way to it is the balance, or its deduction is
\* pending.
Fresh ==
    /\ deducts = {}
    /\ flight # NoBalance => flight = db
    /\ \A b \in Balances : sets[b] > 0 => b = db
    /\ cache # NoBalance => cache <= db + SumOf(cost, Pending)

CacheInv == raced \/ faults < MaxFaults \/ Fresh

IInv == /\ StepsInv /\ MoneyInv /\ BeyondInv /\ CacheTypeInv /\ HoldInv /\ CacheInv /\ OverdraftOnlyIfBlind


LEMMA ReadGoesOn ==
  ASSUME NEW step, NEW b
  PROVE  AfterRead(step, b) \in {"read", "refused", "reserve"}
  BY DEF AfterRead

-----------------------------------------------------------------------------
(* Handlers and usage tasks.                                               *)

LEMMA StepsInit == Init => StepsInv
  BY DEF Init, StepsInv, Tasks, PCs, Arriving

LEMMA StepsStep == StepsInv /\ [Next]_vars => StepsInv'
  <1> SUFFICES ASSUME StepsInv, [Next]_vars PROVE StepsInv'
    OBVIOUS
  <1> USE DEF StepsInv, Tasks, PCs, Arriving, Returned
  <1>0. CASE UNCHANGED <<pc, task>>
    BY <1>0
  <1>1. ASSUME NEW r \in Requests, ReadCache(r) PROVE StepsInv'
    BY <1>1, ReadGoesOn DEF ReadCache
  <1>2. ASSUME NEW r \in Requests, MissCache(r) PROVE StepsInv'
    BY <1>2 DEF MissCache, GoTo
  <1>3. ASSUME NEW r \in Requests, Reserve(r) PROVE StepsInv'
    BY <1>3 DEF Reserve, Leave
  <1>4. ASSUME NEW r \in Requests, ReserveFails(r) PROVE StepsInv'
    BY <1>4 DEF ReserveFails, Leave
  <1>5. ASSUME NEW r \in Requests, SubmitUsage(r) PROVE StepsInv'
    BY <1>5 DEF SubmitUsage, TaskTo
  <1>6. ASSUME NEW r \in Requests, HandlerDone(r) PROVE StepsInv'
    BY <1>6 DEF HandlerDone, GoTo, LastReference
  <1>7. ASSUME NEW r \in Requests, Release(r) PROVE StepsInv'
    BY <1>7 DEF Release
  <1>8. ASSUME NEW r \in Requests, ApplyBilling(r) PROVE StepsInv'
    BY <1>8 DEF ApplyBilling, TaskTo
  <1>9. ASSUME NEW r \in Requests, ApplyFails(r) PROVE StepsInv'
    BY <1>9 DEF ApplyFails, TaskDone
  <1>10. ASSUME NEW r \in Requests, SyncBalanceCache(r) PROVE StepsInv'
    BY <1>10 DEF SyncBalanceCache, TaskDone
  <1>11. CASE LoadReturns
    BY <1>11, ReadGoesOn DEF LoadReturns, Loading
  <1>12. CASE LoadFails
    BY <1>12 DEF LoadFails, Loading
  <1>13. CASE Restart
    BY <1>13 DEF Restart
  <1>14. ASSUME NEW r \in Requests, Renew(r) \/ WriteDeduct(r)
         PROVE  UNCHANGED <<pc, task>>
    BY <1>14 DEF Renew, WriteDeduct, reqVars
  <1>15. ASSUME LoadBalance \/ (\E b \in Balances : WriteLoaded(b))
                \/ CacheExpires \/ Tick \/ UNCHANGED vars
         PROVE  UNCHANGED <<pc, task>>
    BY <1>15 DEF LoadBalance, WriteLoaded, CacheExpires, Tick, vars, reqVars
  <1> HIDE DEF StepsInv
  <1> QED
    BY <1>0, <1>1, <1>2, <1>3, <1>4, <1>5, <1>6, <1>7, <1>8, <1>9, <1>10, <1>11, <1>12,
       <1>13, <1>14, <1>15 DEF Next

-----------------------------------------------------------------------------
(* Money.                                                                  *)

\* The debt of more requests is no less.
LEMMA DebtGrows ==
  ASSUME NEW S \in SUBSET Requests, NEW T \in SUBSET S
  PROVE  /\ MaxCost * Cardinality(S) \in Nat /\ MaxCost * Cardinality(T) \in Nat
         /\ MaxCost * Cardinality(T) <= MaxCost * Cardinality(S)
  <1>1. IsFiniteSet(S) /\ IsFiniteSet(T)
    BY FS_Subset
  <1>2. Cardinality(S) \in Nat /\ Cardinality(T) \in Nat /\ Cardinality(T) <= Cardinality(S)
    BY <1>1, FS_CardinalityType, FS_Subset
  <1>3. ASSUME NEW m \in Nat, NEW i \in Nat, NEW j \in Nat, i <= j
        PROVE  m * i \in Nat /\ m * j \in Nat /\ m * i <= m * j
    BY <1>3
  <1> QED
    BY <1>2, <1>3

\* One request more adds at most the highest cost.
LEMMA DebtOfOne ==
  ASSUME NEW S \in SUBSET Requests, NEW r \in Requests \ S
  PROVE  MaxCost * Cardinality(S \cup {r}) = MaxCost * Cardinality(S) + MaxCost
  <1>1. IsFiniteSet(S)
    BY FS_Subset
  <1>2. Cardinality(S) \in Nat /\ Cardinality(S \cup {r}) = Cardinality(S) + 1
    BY <1>1, FS_CardinalityType, FS_AddElement
  <1>3. ASSUME NEW m \in Nat, NEW i \in Nat
        PROVE  m * (i + 1) = m * i + m
    OBVIOUS
  <1> QED
    BY <1>2, <1>3

LEMMA DbInBalances == MoneyInv => db \in Balances
  <1> SUFFICES ASSUME MoneyInv PROVE db \in Balances
    OBVIOUS
  <1>1. Billed \in SUBSET Requests /\ Requests \in SUBSET Requests
    BY DEF Billed
  <1> QED
    BY <1>1, DebtGrows DEF MoneyInv, Balances

LEMMA MoneyInit == Init => MoneyInv
  <1> SUFFICES ASSUME Init PROVE MoneyInv
    OBVIOUS
  <1>1. Billed = {}
    BY DEF Init, Billed
  <1>2. MaxCost * Cardinality(Billed) \in Nat
    BY <1>1, DebtGrows
  <1> QED
    BY <1>2 DEF Init, MoneyInv

LEMMA MoneyStep == StepsInv /\ MoneyInv /\ [Next]_vars => MoneyInv'
  <1> SUFFICES ASSUME StepsInv, MoneyInv, [Next]_vars PROVE MoneyInv'
    OBVIOUS
  <1> USE DEF dbVars
  <1>b. Billed \in SUBSET Requests /\ Billed' \in SUBSET Requests
    BY DEF Billed
  <1>m. MaxCost * Cardinality(Billed) \in Nat
    BY <1>b, DebtGrows
  <1>0. CASE UNCHANGED <<est, cost, db>> /\ Billed' = Billed
    BY <1>0 DEF MoneyInv
  <1>1. ASSUME NEW r \in Requests,
               \/ ReadCache(r) \/ MissCache(r) \/ Reserve(r) \/ ReserveFails(r)
               \/ Renew(r) \/ HandlerDone(r) \/ WriteDeduct(r)
        PROVE  UNCHANGED <<est, cost, db>> /\ Billed' = Billed
    BY <1>1 DEF ReadCache, MissCache, Reserve, ReserveFails, Renew, HandlerDone, WriteDeduct,
                GoTo, Leave, reqVars, Billed
  <1>2. ASSUME NEW r \in Requests, SubmitUsage(r)
        PROVE  UNCHANGED <<est, cost, db>> /\ Billed' = Billed
    BY <1>2 DEF SubmitUsage, TaskTo, Billed, StepsInv
  <1>3. ASSUME NEW r \in Requests, SyncBalanceCache(r)
        PROVE  UNCHANGED <<est, cost, db>> /\ Billed' = Billed
    BY <1>3 DEF SyncBalanceCache, TaskDone, Billed, StepsInv
  <1>4. ASSUME \/ LoadBalance \/ LoadReturns \/ LoadFails
               \/ (\E b \in Balances : WriteLoaded(b))
               \/ CacheExpires \/ Tick \/ UNCHANGED vars
        PROVE  UNCHANGED <<est, cost, db>> /\ Billed' = Billed
    BY <1>4 DEF LoadBalance, LoadReturns, LoadFails, WriteLoaded, CacheExpires, Tick,
                vars, reqVars, Billed
  <1>5. ASSUME NEW r \in Requests, Release(r) PROVE MoneyInv'
    <2>1. Billed' = Billed /\ UNCHANGED db
      BY <1>5 DEF Release, Billed
    <2>2. \/ UNCHANGED <<est, cost>>
          \/ est' = [est EXCEPT ![r] = 0] /\ cost' = [cost EXCEPT ![r] = 0]
      BY <1>5 DEF Release
    <2> QED
      BY <2>1, <2>2 DEF MoneyInv
  <1>6. ASSUME NEW r \in Requests, task[r] = "queued", Billed' = Billed \cup {r},
               est' = est, db' \in {db, db - cost[r]},
               cost' \in {cost, [cost EXCEPT ![r] = 0]}
        PROVE  MoneyInv'
    <2>1. r \in Requests \ Billed
      BY <1>6 DEF Billed
    <2>2. MaxCost * Cardinality(Billed') = MaxCost * Cardinality(Billed) + MaxCost
      BY <1>6, <1>b, <2>1, DebtOfOne
    <2>3. cost[r] \in 0..MaxCost
      BY DEF MoneyInv
    <2>4. db' \in Int /\ db' <= StartBalance
      BY <1>6, <2>3 DEF MoneyInv
    <2>5. db' >= db - MaxCost
      BY <1>6, <2>3 DEF MoneyInv
    <2>6. db' >= StartBalance - MaxCost * Cardinality(Billed)'
      BY <1>m, <2>2, <2>4, <2>5 DEF MoneyInv
    <2> QED
      BY <1>6, <2>4, <2>6 DEF MoneyInv
  <1>7. ASSUME NEW r \in Requests, ApplyBilling(r) PROVE MoneyInv'
    <2>1. Billed' = Billed \cup {r}
      BY <1>7 DEF ApplyBilling, TaskTo, Billed, StepsInv
    <2> QED
      BY <1>6, <1>7, <2>1 DEF ApplyBilling, TaskTo, Deduct
  <1>8. ASSUME NEW r \in Requests, ApplyFails(r) PROVE MoneyInv'
    <2>1. Billed' = Billed \cup {r}
      BY <1>8 DEF ApplyFails, TaskDone, Billed, StepsInv
    <2> QED
      BY <1>6, <1>8, <2>1 DEF ApplyFails, TaskDone, Deduct
  <1>9. CASE Restart
    <2>1. Billed \in SUBSET Billed'
      BY <1>9 DEF Restart, Billed
    <2>2. /\ MaxCost * Cardinality(Billed) <= MaxCost * Cardinality(Billed)'
          /\ MaxCost * Cardinality(Billed)' \in Nat
      BY <1>b, <2>1, DebtGrows
    <2>3. db' = db /\ est' = est
          /\ cost' = [r \in Requests |-> IF task[r] = "queued" THEN 0 ELSE cost[r]]
      BY <1>9 DEF Restart
    <2> QED
      BY <1>m, <2>2, <2>3 DEF MoneyInv
  <1> QED
    BY <1>0, <1>1, <1>2, <1>3, <1>4, <1>5, <1>7, <1>8, <1>9 DEF Next

-----------------------------------------------------------------------------
(* What billed requests cost beyond their estimates.                       *)

LEMMA ExcessType ==
  ASSUME MoneyInv
  PROVE  /\ \A r \in Requests : Excess[r] = Beyond(r) /\ Excess[r] \in Nat
         /\ IsFiniteSet(Billed) /\ SumOf(Excess, Billed) \in Nat
  <1>1. \A r \in Requests : Excess[r] = Beyond(r) /\ Excess[r] \in Nat
    BY DEF Excess, Beyond, MoneyInv
  <1>2. IsFiniteSet(Billed) /\ \A r \in Billed : Excess[r] \in Nat
    BY <1>1, FS_Subset DEF Billed
  <1> QED
    BY <1>1, <1>2, SumNat

LEMMA BeyondInit == Init => BeyondInv
  <1> SUFFICES ASSUME Init PROVE BeyondInv
    OBVIOUS
  <1>1. Billed = {}
    BY DEF Init, Billed
  <1> QED
    BY <1>1, SumNone DEF Init, BeyondInv

\* What r adds is counted as it is billed; a request never billed adds nothing.
LEMMA BeyondGrows ==
  ASSUME MoneyInv, BeyondInv, NEW Q \in SUBSET Requests, Q \cap Billed = {},
         Billed' = Billed \cup Q, IsFiniteSet(Q), beyond' \in Nat,
         \A x \in Billed : Excess'[x] = Excess[x],
         \A x \in Q : Excess'[x] \in Int,
         beyond' >= beyond + SumOf(Excess', Q), SumOf(Excess', Q) \in Int
  PROVE  BeyondInv'
  <1>1. IsFiniteSet(Billed) /\ SumOf(Excess, Billed) \in Nat /\ \A x \in Billed : Excess[x] \in Int
    BY ExcessType DEF Billed
  <1>2. SumOf(Excess, Billed) = SumOf(Excess', Billed)
    BY <1>1, SumSame
  <1>3. \A x \in Billed \cup Q : Excess'[x] \in Int
    BY <1>1
  <1>4. SumOf(Excess', Billed \cup Q) = SumOf(Excess', Billed) + SumOf(Excess', Q)
    BY <1>1, <1>3, SumUnion
  <1>5. SumOf(Excess', Billed') <= beyond'
    BY <1>1, <1>2, <1>4 DEF BeyondInv
  <1> QED
    BY <1>5 DEF BeyondInv

LEMMA SumOfOne ==
  ASSUME NEW f, NEW x, f[x] \in Int
  PROVE  SumOf(f, {x}) = f[x]
  <1>1. IsFiniteSet({}) /\ {} \cup {x} = {x} /\ SumOf(f, {}) = 0
    BY FS_EmptySet, SumNone
  <1>2. SumOf(f, {} \cup {x}) = SumOf(f, {}) + f[x]
    BY <1>1, SumAdd
  <1> QED
    BY <1>1, <1>2

LEMMA BeyondStep == StepsInv /\ MoneyInv /\ BeyondInv /\ [Next]_vars => BeyondInv'
  <1> SUFFICES ASSUME StepsInv, MoneyInv, BeyondInv, [Next]_vars PROVE BeyondInv'
    OBVIOUS
  <1> USE DEF dbVars
  <1>m. MoneyInv'
    BY MoneyStep
  <1>e. /\ \A x \in Requests : Excess[x] = Beyond(x) /\ Excess[x] \in Nat
        /\ IsFiniteSet(Billed) /\ SumOf(Excess, Billed) \in Nat
    BY ExcessType
  <1>0. CASE UNCHANGED <<est, cost, beyond>> /\ Billed' = Billed
    <2>1. Excess' = Excess
      BY <1>0 DEF Excess, Beyond
    <2> QED
      BY <1>0, <2>1 DEF BeyondInv
  <1>1. ASSUME NEW r \in Requests,
               \/ ReadCache(r) \/ MissCache(r) \/ Reserve(r) \/ ReserveFails(r)
               \/ Renew(r) \/ HandlerDone(r) \/ WriteDeduct(r)
        PROVE  UNCHANGED <<est, cost, beyond>> /\ Billed' = Billed
    BY <1>1 DEF ReadCache, MissCache, Reserve, ReserveFails, Renew, HandlerDone, WriteDeduct,
                GoTo, Leave, reqVars, Billed
  <1>2. ASSUME NEW r \in Requests, SubmitUsage(r)
        PROVE  UNCHANGED <<est, cost, beyond>> /\ Billed' = Billed
    BY <1>2 DEF SubmitUsage, TaskTo, Billed, StepsInv
  <1>3. ASSUME NEW r \in Requests, SyncBalanceCache(r)
        PROVE  UNCHANGED <<est, cost, beyond>> /\ Billed' = Billed
    BY <1>3 DEF SyncBalanceCache, TaskDone, Billed, StepsInv
  <1>4. ASSUME \/ LoadBalance \/ LoadReturns \/ LoadFails
               \/ (\E b \in Balances : WriteLoaded(b))
               \/ CacheExpires \/ Tick \/ UNCHANGED vars
        PROVE  UNCHANGED <<est, cost, beyond>> /\ Billed' = Billed
    BY <1>4 DEF LoadBalance, LoadReturns, LoadFails, WriteLoaded, CacheExpires, Tick,
                vars, reqVars, Billed
  <1>5. ASSUME NEW r \in Requests, Release(r) PROVE BeyondInv'
    <2>1. Billed' = Billed /\ beyond' = beyond
      BY <1>5 DEF Release, Billed
    <2>2. \/ UNCHANGED <<est, cost>>
          \/ est' = [est EXCEPT ![r] = 0] /\ cost' = [cost EXCEPT ![r] = 0]
      BY <1>5 DEF Release
    <2>3. \A x \in Requests : Excess'[x] \in Int /\ Excess'[x] <= Excess[x]
      BY <1>e, <2>2 DEF Excess, Beyond, MoneyInv
    <2>4. SumOf(Excess', Billed) <= SumOf(Excess, Billed)
      <3>1. \A x \in Billed : Excess'[x] \in Int /\ Excess[x] \in Int /\ Excess'[x] <= Excess[x]
        BY <1>e, <2>3 DEF Billed
      <3> QED
        BY <1>e, <3>1, SumLess
    <2>5. SumOf(Excess', Billed) \in Int
      <3>1. \A x \in Billed : Excess'[x] \in Int
        BY <2>3 DEF Billed
      <3> QED
        BY <1>e, <3>1, SumTake
    <2> QED
      BY <1>e, <2>1, <2>4, <2>5 DEF BeyondInv
  <1>6. ASSUME NEW r \in Requests, task[r] = "queued", Billed' = Billed \cup {r},
               \/ UNCHANGED <<est, cost>> /\ beyond' = beyond + Beyond(r)
               \/ est' = est /\ cost' = [cost EXCEPT ![r] = 0] /\ beyond' = beyond
        PROVE  BeyondInv'
    <2>1. {r} \in SUBSET Requests /\ {r} \cap Billed = {} /\ IsFiniteSet({r})
      BY <1>6, FS_Singleton DEF Billed
    <2>2. \A x \in Billed : Excess'[x] = Excess[x]
      BY <1>6, <2>1 DEF Excess, Beyond, Billed, MoneyInv
    <2>3. Excess'[r] \in Nat /\ beyond' = beyond + Excess'[r] /\ beyond \in Nat
      <3>1. CASE UNCHANGED <<est, cost>> /\ beyond' = beyond + Beyond(r)
        <4>1. Excess' = Excess
          BY <3>1 DEF Excess, Beyond
        <4> QED
          BY <1>e, <3>1, <4>1 DEF BeyondInv
      <3>2. CASE est' = est /\ cost' = [cost EXCEPT ![r] = 0] /\ beyond' = beyond
        <4>1. Excess'[r] = 0
          BY <3>2 DEF Excess, Beyond, MoneyInv
        <4> QED
          BY <3>2, <4>1 DEF BeyondInv
      <3> QED
        BY <1>6, <3>1, <3>2
    <2>4. SumOf(Excess', {r}) = Excess'[r]
      BY <2>3, SumOfOne
    <2> QED
      BY <1>6, <2>1, <2>2, <2>3, <2>4, BeyondGrows
  <1>7. ASSUME NEW r \in Requests, ApplyBilling(r) PROVE BeyondInv'
    <2>1. Billed' = Billed \cup {r}
      BY <1>7 DEF ApplyBilling, TaskTo, Billed, StepsInv
    <2> QED
      BY <1>6, <1>7, <2>1 DEF ApplyBilling, TaskTo, Deduct
  <1>8. ASSUME NEW r \in Requests, ApplyFails(r) PROVE BeyondInv'
    <2>1. Billed' = Billed \cup {r}
      BY <1>8 DEF ApplyFails, TaskDone, Billed, StepsInv
    <2> QED
      BY <1>6, <1>8, <2>1 DEF ApplyFails, TaskDone, Deduct
  <1>9. CASE Restart
    <2> DEFINE Q == {r \in Requests : task[r] = "queued"}
    <2>1. /\ Q \in SUBSET Requests /\ Q \cap Billed = {} /\ IsFiniteSet(Q)
          /\ Billed' = Billed \cup Q
      BY <1>9, FS_Subset DEF Restart, Billed, StepsInv, Tasks
    <2>2. est' = est /\ beyond' = beyond
          /\ cost' = [r \in Requests |-> IF task[r] = "queued" THEN 0 ELSE cost[r]]
      BY <1>9 DEF Restart
    <2>3. \A x \in Billed : Excess'[x] = Excess[x]
      BY <2>2 DEF Excess, Beyond, Billed
    <2>4. \A x \in Q : Excess'[x] = 0
      BY <2>2 DEF Excess, Beyond, MoneyInv
    <2> HIDE DEF Q
    <2>5. SumOf(Excess', Q) = 0
      BY <2>1, <2>4, SumZero
    <2>6. \A x \in Q : Excess'[x] \in Int
      BY <2>4
    <2>7. beyond' \in Nat /\ beyond' >= beyond + SumOf(Excess', Q) /\ SumOf(Excess', Q) \in Int
      BY <2>2, <2>5 DEF BeyondInv
    <2> QED
      BY <2>1, <2>3, <2>6, <2>7, BeyondGrows
  <1> QED
    BY <1>0, <1>1, <1>2, <1>3, <1>4, <1>5, <1>7, <1>8, <1>9 DEF Next

-----------------------------------------------------------------------------
(* The cache and what is on its way to it.                                 *)

LEMMA FaultSpent ==
  ASSUME SpendFault, faults \in 0..MaxFaults
  PROVE  faults' \in 0..MaxFaults /\ faults' < MaxFaults
  BY DEF SpendFault

LEMMA DeductedType ==
  ASSUME MoneyInv, CacheTypeInv, NEW r \in Requests
  PROVE  Deducted(r) \in Int \cup {NoBalance}
  <1>1. cost[r] \in Int
    BY DEF MoneyInv
  <1> QED
    BY <1>1 DEF Deducted, CacheTypeInv

LEMMA CacheTypeInit == Init => CacheTypeInv
  <1> SUFFICES ASSUME Init PROVE CacheTypeInv
    OBVIOUS
  <1>1. cache \in Int \cup {NoBalance} /\ faults \in 0..MaxFaults
    BY DEF Init
  <1>2. bal \in [Requests -> Int] /\ sets \in [Balances -> Nat]
    BY DEF Init
  <1> QED
    BY <1>1, <1>2 DEF Init, CacheTypeInv

LEMMA CacheTypeStep == MoneyInv /\ CacheTypeInv /\ [Next]_vars => CacheTypeInv'
  <1> SUFFICES ASSUME MoneyInv, CacheTypeInv, [Next]_vars PROVE CacheTypeInv'
    OBVIOUS
  <1> USE DEF dbVars, cacheVars, ghosts
  <1>f. ASSUME SpendFault PROVE faults' \in 0..MaxFaults
    BY <1>f, FaultSpent DEF CacheTypeInv
  <1>k. ASSUME NEW r \in Requests, NEW b \in Int, NEW step
        PROVE  Kept(r, step, b) \in Int
    BY DEF CacheTypeInv, Kept
  <1>1. ASSUME NEW r \in Requests, ReadCache(r) PROVE CacheTypeInv'
    <2>1. cache \in Int
      BY <1>1 DEF ReadCache, CacheTypeInv
    <2>2. Kept(r, pc[r], cache) \in Int
      BY <1>k, <2>1
    <2>3. bal' \in [Requests -> Int]
      BY <1>1, <2>2 DEF ReadCache, CacheTypeInv
    <2> QED
      BY <1>1, <2>3 DEF ReadCache, CacheTypeInv
  <1>2. ASSUME NEW r \in Requests, MissCache(r) PROVE CacheTypeInv'
    BY <1>2, <1>f DEF MissCache, GoTo, CacheTypeInv
  <1>3. ASSUME NEW r \in Requests, Reserve(r) PROVE CacheTypeInv'
    <2>1. blind' \in BOOLEAN
      BY <1>3 DEF Reserve, CacheTypeInv
    <2> QED
      BY <1>3, <2>1 DEF Reserve, Leave, CacheTypeInv
  <1>4. ASSUME NEW r \in Requests, ReserveFails(r) PROVE CacheTypeInv'
    BY <1>4, <1>f DEF ReserveFails, Leave, CacheTypeInv
  <1>5. ASSUME NEW r \in Requests, Renew(r) \/ SubmitUsage(r) \/ HandlerDone(r)
        PROVE  CacheTypeInv'
    BY <1>5 DEF Renew, SubmitUsage, HandlerDone, TaskTo, GoTo, reqVars, CacheTypeInv
  <1>6. ASSUME NEW r \in Requests, Release(r) PROVE CacheTypeInv'
    BY <1>6, <1>f DEF Release, CacheTypeInv
  <1>7. ASSUME NEW r \in Requests, ApplyBilling(r) PROVE CacheTypeInv'
    <2>1. raced' \in BOOLEAN
      BY <1>7, Zenon DEF ApplyBilling, CacheTypeInv
    <2> QED
      BY <1>7, <2>1 DEF ApplyBilling, TaskTo, CacheTypeInv
  <1>8. ASSUME NEW r \in Requests, ApplyFails(r) PROVE CacheTypeInv'
    BY <1>8, <1>f DEF ApplyFails, TaskDone, CacheTypeInv
  <1>9. ASSUME NEW r \in Requests, SyncBalanceCache(r) PROVE CacheTypeInv'
    <2>1. /\ cache' \in {cache, Deducted(r), NoBalance}
          /\ deducts' \in {deducts, deducts \cup {r}}
          /\ faults' = faults \/ SpendFault
      BY <1>9 DEF SyncBalanceCache, DeductCache, InvalidateCache
    <2> QED
      BY <1>9, <1>f, <2>1, DeductedType DEF SyncBalanceCache, TaskDone, CacheTypeInv
  <1>10. ASSUME NEW r \in Requests, WriteDeduct(r) PROVE CacheTypeInv'
    BY <1>10, <1>f, DeductedType DEF WriteDeduct, reqVars, CacheTypeInv
  <1>11. CASE LoadBalance
    BY <1>11, DbInBalances DEF LoadBalance, reqVars, CacheTypeInv
  <1>12. CASE LoadReturns
    <2>1. flight \in Balances /\ flight \in Int
      BY <1>12 DEF LoadReturns, CacheTypeInv, Balances
    <2>2. bal' \in [Requests -> Int]
      BY <1>12, <1>k, <2>1 DEF LoadReturns, CacheTypeInv
    <2>3. sets' \in [Balances -> Nat]
      BY <1>12, <2>1 DEF LoadReturns, CacheTypeInv
    <2> QED
      BY <1>12, <2>2, <2>3 DEF LoadReturns, CacheTypeInv
  <1>13. CASE LoadFails
    <2>1. blind' \in BOOLEAN
      BY <1>13 DEF LoadFails, CacheTypeInv
    <2> QED
      BY <1>13, <1>f, <2>1 DEF LoadFails, CacheTypeInv
  <1>14. ASSUME NEW b \in Balances, WriteLoaded(b) PROVE CacheTypeInv'
    <2>1. b \in Int
      BY DEF Balances
    <2>2. sets' \in [Balances -> Nat]
      BY <1>14 DEF WriteLoaded, CacheTypeInv
    <2> QED
      BY <1>14, <1>f, <2>1, <2>2 DEF WriteLoaded, reqVars, CacheTypeInv
  <1>15. CASE CacheExpires
    BY <1>15 DEF CacheExpires, reqVars, CacheTypeInv
  <1>16. CASE Tick
    BY <1>16, <1>f DEF Tick, reqVars, CacheTypeInv
  <1>17. CASE Restart
    BY <1>17, <1>f DEF Restart, CacheTypeInv
  <1>18. CASE UNCHANGED vars
    BY <1>18 DEF vars, reqVars, CacheTypeInv
  <1> QED
    BY <1>1, <1>2, <1>3, <1>4, <1>5, <1>6, <1>7, <1>8, <1>9, <1>10, <1>11, <1>12,
       <1>13, <1>14, <1>15, <1>16, <1>17, <1>18 DEF Next

-----------------------------------------------------------------------------
(* Reservations.                                                           *)

LEMMA HoldInit == Init => HoldInv
  BY DEF Init, HoldInv, Returned

LEMMA HoldStep == StepsInv /\ HoldInv /\ [Next]_vars => HoldInv'
  <1> SUFFICES ASSUME StepsInv, HoldInv, [Next]_vars PROVE HoldInv'
    OBVIOUS
  <1> USE DEF HoldInv, holdVars, ghosts, Returned
  <1>0. CASE UNCHANGED <<pc, left, since, renewed, missed>>
    BY <1>0
  <1>1. ASSUME NEW r \in Requests, ReadCache(r) PROVE HoldInv'
    BY <1>1, ReadGoesOn DEF ReadCache, StepsInv
  <1>2. ASSUME NEW r \in Requests, MissCache(r) PROVE HoldInv'
    BY <1>2 DEF MissCache, GoTo, StepsInv
  <1>3. ASSUME NEW r \in Requests, Reserve(r) PROVE HoldInv'
    <2>1. pc[r] = "reserve" /\ since[r] = 0
      BY <1>3 DEF Reserve
    <2>2. CASE /\ Leave(r, "run")
               /\ left' = [left EXCEPT ![r] = TTL] /\ renewed' = renewed \cup {r}
      BY <1>3, <2>1, <2>2 DEF Reserve, Leave, StepsInv
    <2>3. CASE Leave(r, "refused") /\ UNCHANGED <<left, renewed>>
      BY <1>3, <2>1, <2>3 DEF Reserve, Leave, StepsInv
    <2> QED
      BY <1>3, <2>2, <2>3 DEF Reserve
  <1>4. ASSUME NEW r \in Requests, ReserveFails(r) PROVE HoldInv'
    <2>1. pc[r] = "reserve" /\ since[r] = 0
      BY <1>4 DEF ReserveFails
    <2>2. CASE left' = left
      BY <1>4, <2>1, <2>2 DEF ReserveFails, Leave, StepsInv
    <2>3. CASE left' = [left EXCEPT ![r] = TTL]
      BY <1>4, <2>1, <2>3 DEF ReserveFails, Leave, StepsInv
    <2> QED
      BY <1>4, <2>2, <2>3 DEF ReserveFails
  <1>5. ASSUME NEW r \in Requests, Renew(r) PROVE HoldInv'
    <2>1. pc[r] = "run" /\ since[r] = 0
      BY <1>5 DEF Renew, Renewing
    <2> QED
      BY <1>5, <2>1 DEF Renew, reqVars, StepsInv
  <1>6. ASSUME NEW r \in Requests, HandlerDone(r) PROVE HoldInv'
    BY <1>6 DEF HandlerDone, GoTo, StepsInv
  <1>7. ASSUME NEW r \in Requests, Release(r) PROVE HoldInv'
    BY <1>7 DEF Release, StepsInv
  <1>8. ASSUME NEW r \in Requests, TaskDone(r), UNCHANGED <<holdVars, missed>>
        PROVE  HoldInv'
    BY <1>8 DEF TaskDone, StepsInv
  <1>9. ASSUME NEW r \in Requests, ApplyFails(r) \/ SyncBalanceCache(r) PROVE HoldInv'
    BY <1>8, <1>9 DEF ApplyFails, SyncBalanceCache
  <1>10. CASE LoadReturns
    BY <1>10, ReadGoesOn DEF LoadReturns, Loading, StepsInv
  <1>11. CASE LoadFails
    BY <1>11 DEF LoadFails, Loading, StepsInv
  <1>12. CASE Tick
    <2>1. Due \in SUBSET missed'
      BY <1>12 DEF Tick
    <2>2. missed' \in SUBSET Requests /\ missed \in SUBSET missed'
      BY <1>12 DEF Tick, Due, Held
    <2>3. ASSUME NEW r \in Requests
          PROVE  /\ left'[r] \in 0..TTL /\ since'[r] \in 0..TTL
                 /\ left'[r] + since'[r] <= TTL
                 /\ pc[r] \notin Returned => since'[r] = 0
                 /\ r \notin missed' /\ pc[r] \in {"run", "ended"}
                      => left'[r] + since'[r] >= TTL - 1
      <3>1. left'[r] = IF left[r] > 0 THEN left[r] - 1 ELSE 0
        BY <1>12 DEF Tick, Less
      <3>2. since'[r] = IF pc[r] \in Returned /\ left[r] > 0 THEN since[r] + 1 ELSE since[r]
        BY <1>12 DEF Tick, Held
      <3>3. left[r] \in 0..TTL /\ since[r] \in 0..TTL
        OBVIOUS
      <3>4. ASSUME pc[r] = "run", r \notin missed'
            PROVE  left[r] = TTL
        <4>1. r \notin Due /\ r \notin missed
          BY <2>1, <2>2, <3>4
        <4>2. left[r] > 0
          BY <3>3, <3>4, <4>1
        <4> QED
          BY <3>4, <4>1, <4>2 DEF Due, Held, Renewing
      <3> QED
        BY <2>2, <3>1, <3>2, <3>3, <3>4
    <2>4. left' \in [Requests -> 0..TTL] /\ since' \in [Requests -> 0..TTL]
      BY <1>12, <2>3 DEF Tick
    <2> QED
      BY <1>12, <2>2, <2>3, <2>4 DEF Tick, reqVars
  <1>13. CASE Restart
    <2>1. \A r \in Requests : pc'[r] \notin {"run", "ended"}
                              /\ (pc'[r] \notin Returned => pc[r] \notin Returned)
      BY <1>13 DEF Restart, StepsInv, PCs, Arriving
    <2> QED
      BY <1>13, <2>1 DEF Restart
  <1>14. ASSUME NEW r \in Requests, SubmitUsage(r) \/ ApplyBilling(r) \/ WriteDeduct(r)
         PROVE  UNCHANGED <<pc, left, since, renewed, missed>>
    BY <1>14 DEF SubmitUsage, ApplyBilling, WriteDeduct, TaskTo, reqVars
  <1>15. ASSUME \/ LoadBalance \/ (\E b \in Balances : WriteLoaded(b))
                \/ CacheExpires \/ UNCHANGED vars
         PROVE  UNCHANGED <<pc, left, since, renewed, missed>>
    BY <1>15 DEF LoadBalance, WriteLoaded, CacheExpires, vars, reqVars
  <1> HIDE DEF HoldInv
  <1> QED
    BY <1>0, <1>1, <1>2, <1>3, <1>4, <1>5, <1>6, <1>7, <1>9, <1>10, <1>11, <1>12,
       <1>13, <1>14, <1>15 DEF Next

\* A reservation that missed no renewal outlives its handler, and the task that
\* bills it for all but a tick of its lifetime; it never outlives the handler by
\* more than its lifetime.
LEMMA HoldSuffices == StepsInv /\ HoldInv => HeldUntilBilled
  <1> SUFFICES ASSUME StepsInv, HoldInv PROVE HeldUntilBilled
    OBVIOUS
  <1>1. ASSUME NEW r \in Requests \ missed,
               pc[r] = "run" \/ (Unbilled(r) /\ since[r] < TTL - 1)
        PROVE  left[r] > 0
    <2>1. pc[r] \in {"run", "ended"}
      BY <1>1 DEF Unbilled, StepsInv
    <2>2. /\ left[r] + since[r] >= TTL - 1 /\ (pc[r] = "run" => since[r] = 0)
          /\ left[r] \in 0..TTL /\ since[r] \in 0..TTL
      BY <1>1, <2>1 DEF HoldInv, Returned
    <2> QED
      BY <1>1, <2>2
  <1>2. ASSUME NEW r \in Requests, since[r] = TTL
        PROVE  left[r] = 0
    BY <1>2 DEF HoldInv
  <1> QED
    BY <1>1, <1>2 DEF HeldUntilBilled

-----------------------------------------------------------------------------
(* The cached balance.                                                     *)

LEMMA CacheInit == Init => CacheInv
  <1> SUFFICES ASSUME Init PROVE Fresh
    BY DEF CacheInv
  <1>1. Pending = {}
    BY DEF Init, Pending
  <1>2. SumOf(cost, Pending) = 0
    BY <1>1, SumNone
  <1>3. cache # NoBalance => cache <= db + SumOf(cost, Pending)
    BY <1>2 DEF Init
  <1> QED
    BY <1>3 DEF Init, Fresh

\* A fault and a race stay on record.
LEMMA OnRecord ==
  ASSUME CacheTypeInv, CacheTypeInv', [Next]_vars, ~raced', ~(faults' < MaxFaults)
  PROVE  ~raced /\ faults = MaxFaults /\ ~SpendFault
  <1> USE DEF ghosts, CacheTypeInv, SpendFault
  <1>1. ASSUME NEW r \in Requests,
               \/ ReadCache(r) \/ MissCache(r) \/ Reserve(r) \/ ReserveFails(r)
               \/ Renew(r) \/ SubmitUsage(r) \/ HandlerDone(r) \/ Release(r)
        PROVE  (raced => raced') /\ faults' <= faults
    BY <1>1 DEF ReadCache, MissCache, Reserve, ReserveFails, Renew, SubmitUsage, HandlerDone,
                Release
  <1>2. ASSUME NEW r \in Requests, ApplyBilling(r)
        PROVE  (raced => raced') /\ faults' <= faults
    BY <1>2 DEF ApplyBilling
  <1>3. ASSUME NEW r \in Requests, ApplyFails(r) \/ SyncBalanceCache(r) \/ WriteDeduct(r)
        PROVE  (raced => raced') /\ faults' <= faults
    BY <1>3 DEF ApplyFails, SyncBalanceCache, WriteDeduct, DeductCache, InvalidateCache
  <1>4. ASSUME \/ LoadBalance \/ LoadReturns \/ LoadFails
               \/ (\E b \in Balances : WriteLoaded(b))
               \/ CacheExpires \/ Tick \/ Restart \/ UNCHANGED vars
        PROVE  (raced => raced') /\ faults' <= faults
    BY <1>4 DEF LoadBalance, LoadReturns, LoadFails, WriteLoaded, CacheExpires, Tick, Restart, vars
  <1>5. (raced => raced') /\ faults' <= faults
    BY <1>1, <1>2, <1>3, <1>4 DEF Next
  <1>6. faults = MaxFaults /\ faults' = faults
    BY <1>5
  <1>7. ~raced
    BY <1>5, Zenon
  <1> QED
    BY <1>6, <1>7

LEMMA PendingSum ==
  ASSUME MoneyInv
  PROVE  /\ IsFiniteSet(Pending) /\ \A r \in Requests : cost[r] \in Nat
         /\ SumOf(cost, Pending) \in Nat
  <1>1. IsFiniteSet(Pending) /\ \A r \in Requests : cost[r] \in Nat
    BY FS_Subset DEF Pending, MoneyInv
  <1>2. \A r \in Pending : cost[r] \in Nat
    BY <1>1 DEF Pending
  <1> QED
    BY <1>1, <1>2, SumNat

LEMMA CacheStep ==
  StepsInv /\ MoneyInv /\ CacheTypeInv /\ CacheInv /\ [Next]_vars => CacheInv'
  <1> SUFFICES ASSUME StepsInv, MoneyInv, CacheTypeInv, CacheInv, [Next]_vars,
                      ~raced', ~(faults' < MaxFaults)
               PROVE  Fresh'
    BY DEF CacheInv
  <1>f. ~raced /\ faults = MaxFaults /\ ~SpendFault
    BY CacheTypeStep, OnRecord
  <1>g. Fresh
    BY <1>f DEF CacheInv
  <1>s. /\ IsFiniteSet(Pending) /\ \A r \in Requests : cost[r] \in Nat
        /\ SumOf(cost, Pending) \in Nat
    BY PendingSum
  <1>d. db \in Int /\ cache \in Int \cup {NoBalance}
    BY DEF MoneyInv, CacheTypeInv
  <1> USE DEF dbVars, cacheVars
  <1>0. CASE UNCHANGED <<db, cacheVars, cost>> /\ Pending' = Pending
    BY <1>0, <1>g DEF Fresh
  <1>1. ASSUME NEW r \in Requests,
               \/ ReadCache(r) \/ MissCache(r) \/ Reserve(r) \/ Renew(r) \/ HandlerDone(r)
        PROVE  UNCHANGED <<db, cacheVars, cost>> /\ Pending' = Pending
    BY <1>1 DEF ReadCache, MissCache, Reserve, Renew, HandlerDone, GoTo, Leave, reqVars, Pending
  <1>2. ASSUME NEW r \in Requests, SubmitUsage(r)
        PROVE  UNCHANGED <<db, cacheVars, cost>> /\ Pending' = Pending
    BY <1>2 DEF SubmitUsage, TaskTo, StepsInv, Pending
  <1>3. ASSUME Tick \/ UNCHANGED vars
        PROVE  UNCHANGED <<db, cacheVars, cost>> /\ Pending' = Pending
    BY <1>3 DEF Tick, vars, reqVars, Pending
  <1>4. ASSUME NEW r \in Requests, ReserveFails(r) \/ ApplyFails(r) PROVE FALSE
    BY <1>4, <1>f DEF ReserveFails, ApplyFails
  <1>5. ASSUME LoadFails \/ Restart PROVE FALSE
    BY <1>5, <1>f DEF LoadFails, Restart
  <1>6. ASSUME NEW r \in Requests, WriteDeduct(r) PROVE FALSE
    BY <1>6, <1>g DEF WriteDeduct, Fresh
  <1>7. ASSUME NEW r \in Requests, Release(r) PROVE Fresh'
    <2>1. UNCHANGED <<db, cacheVars>> /\ Pending' = Pending /\ r \notin Pending
      BY <1>7 DEF Release, Pending, StepsInv
    <2>2. \A x \in Pending : cost[x] \in Int /\ cost[x] = cost'[x]
      BY <1>7, <1>s, <2>1 DEF Release, Pending, MoneyInv
    <2>3. SumOf(cost, Pending) = SumOf(cost', Pending)
      BY <1>s, <2>2, SumSame
    <2> QED
      BY <1>g, <2>1, <2>3 DEF Fresh
  <1>8. ASSUME NEW r \in Requests, ApplyBilling(r) PROVE Fresh'
    <2>1. flight = NoBalance /\ \A b \in Balances : ~(sets[b] > 0)
      BY <1>8 DEF ApplyBilling
    <2>2. Pending' = Pending \cup {r} /\ r \notin Pending
      BY <1>8 DEF ApplyBilling, TaskTo, Pending, StepsInv
    <2>3. SumOf(cost, Pending \cup {r}) = SumOf(cost, Pending) + cost[r]
      <3>1. \A x \in Pending : cost[x] \in Int
        BY <1>s DEF Pending
      <3> QED
        BY <1>s, <2>2, <3>1, SumAdd
    <2>4. UNCHANGED <<cacheVars, cost>> /\ db' = db - cost[r]
      BY <1>8 DEF ApplyBilling, TaskTo, Deduct
    <2>5. SumOf(cost, Pending)' = SumOf(cost, Pending) + cost[r]
      BY <2>2, <2>3, <2>4
    <2>6. (cache # NoBalance => cache <= db + SumOf(cost, Pending))'
      BY <1>g, <1>d, <1>s, <2>4, <2>5 DEF Fresh
    <2> QED
      BY <1>g, <2>1, <2>4, <2>6 DEF Fresh
  <1>9. ASSUME NEW r \in Requests, SyncBalanceCache(r) PROVE Fresh'
    <2>1. UNCHANGED <<db, flight, sets, cost>> /\ deducts' = deducts
      BY <1>9, <1>f DEF SyncBalanceCache, DeductCache, InvalidateCache
    <2>2. Pending' = Pending \ {r} /\ r \in Pending
      BY <1>9 DEF SyncBalanceCache, TaskDone, Pending, StepsInv
    <2>3. SumOf(cost, Pending) = cost[r] + SumOf(cost, Pending \ {r})
      <3>1. \A x \in Pending : cost[x] \in Int
        BY <1>s DEF Pending
      <3> QED
        BY <1>s, <2>2, <3>1, SumTake
    <2>4. SumOf(cost, Pending \ {r}) \in Nat
      <3>1. \A x \in Pending : cost[x] \in Nat
        BY <1>s DEF Pending
      <3> QED
        BY <1>s, <3>1, SumPart
    <2>5. cache' \in {Deducted(r), NoBalance}
      BY <1>9, <1>f DEF SyncBalanceCache, DeductCache, InvalidateCache
    <2>6. cost[r] \in Nat
      BY <1>s
    <2>7. SumOf(cost, Pending)' = SumOf(cost, Pending \ {r})
      BY <2>1, <2>2
    <2>8. cache' = NoBalance \/ (cache # NoBalance /\ cache' = cache - cost[r])
      BY <2>5 DEF Deducted
    <2>9. (cache # NoBalance => cache <= db + SumOf(cost, Pending))'
      BY <1>g, <1>d, <2>1, <2>3, <2>4, <2>6, <2>7, <2>8 DEF Fresh
    <2> QED
      BY <1>g, <2>1, <2>9 DEF Fresh
  <1>10. CASE LoadBalance
    <2>1. UNCHANGED <<db, cache, sets, deducts, cost>> /\ Pending' = Pending /\ flight' = db
      BY <1>10 DEF LoadBalance, reqVars, Pending
    <2> QED
      BY <1>g, <2>1 DEF Fresh
  <1>11. CASE LoadReturns
    <2>1. UNCHANGED <<db, cache, deducts, cost>> /\ Pending' = Pending /\ flight' = NoBalance
      BY <1>11 DEF LoadReturns, Pending
    <2>2. flight = db
      BY <1>11, <1>g DEF LoadReturns, Fresh
    <2>3. \A b \in Balances : sets'[b] > 0 => b = db
      BY <1>11, <1>g, <2>2 DEF LoadReturns, Fresh, CacheTypeInv
    <2> QED
      BY <1>g, <2>1, <2>3 DEF Fresh
  <1>12. ASSUME NEW b \in Balances, WriteLoaded(b) PROVE Fresh'
    <2>1. UNCHANGED <<db, flight, deducts, cost>> /\ Pending' = Pending /\ cache' = b
      BY <1>12, <1>f DEF WriteLoaded, reqVars, Pending
    <2>2. b = db
      BY <1>12, <1>g DEF WriteLoaded, Fresh
    <2>3. \A c \in Balances : sets'[c] > 0 => c = db
      BY <1>12, <1>g, <2>2 DEF WriteLoaded, Fresh, CacheTypeInv
    <2>4. cache' <= db + SumOf(cost, Pending)
      BY <1>d, <1>s, <2>1, <2>2
    <2> QED
      BY <1>g, <2>1, <2>3, <2>4 DEF Fresh
  <1>13. CASE CacheExpires
    <2>1. UNCHANGED <<db, flight, sets, deducts, cost>> /\ cache' = NoBalance
      BY <1>13 DEF CacheExpires, reqVars
    <2> QED
      BY <1>g, <2>1 DEF Fresh
  <1> QED
    BY <1>0, <1>1, <1>2, <1>3, <1>4, <1>5, <1>6, <1>7, <1>8, <1>9, <1>10, <1>11, <1>12,
       <1>13 DEF Next

\* A pending deduction is that of a request whose reservation is not released.
LEMMA CacheSuffices == StepsInv /\ MoneyInv /\ CacheTypeInv /\ CacheInv => StaleOnlyIfRaced
  <1> SUFFICES ASSUME StepsInv, MoneyInv, CacheTypeInv, Fresh, cache # NoBalance
               PROVE  ReleasedIsDeducted
    BY DEF CacheInv, StaleOnlyIfRaced, ReleasedIsDeducted
  <1> DEFINE S == {r \in Requests : /\ task[r] \notin {"none", "queued"}
                                    /\ pc[r] \in {"run", "ended", "release"}}
  <1>1. IsFiniteSet(S) /\ Pending \in SUBSET S
    BY FS_Subset DEF Pending, StepsInv
  <1>2. \A r \in S : cost[r] \in Nat
    BY DEF MoneyInv
  <1>3. SumOf(cost, Pending) <= SumOf(cost, S)
        /\ SumOf(cost, Pending) \in Nat /\ SumOf(cost, S) \in Nat
    <2> HIDE DEF S
    <2> QED
      BY <1>1, <1>2, SumPart
  <1>4. cache \in Int /\ db \in Int /\ cache <= db + SumOf(cost, Pending)
    BY DEF Fresh, MoneyInv, CacheTypeInv
  <1>5. cache <= db + SumOf(cost, S)
    <2> HIDE DEF S
    <2> QED
      BY <1>3, <1>4
  <1> QED
    BY <1>5 DEF ReleasedIsDeducted

-----------------------------------------------------------------------------
(* Overdraft.                                                              *)

LEMMA OverdraftInit == Init => OverdraftOnlyIfBlind
  <1> SUFFICES ASSUME Init PROVE OverdraftOnlyIfBlind
    OBVIOUS
  <1>1. Owing = {}
    BY DEF Init, Owing
  <1>2. SumOf(est, Owing) = 0
    BY <1>1, SumNone
  <1> QED
    BY <1>2 DEF Init, OverdraftOnlyIfBlind

LEMMA OwingSum ==
  ASSUME MoneyInv
  PROVE  /\ IsFiniteSet(Owing) /\ \A r \in Requests : est[r] \in Nat /\ est[r] <= MaxEst
         /\ SumOf(est, Owing) \in Nat
  <1>1. IsFiniteSet(Owing) /\ \A r \in Requests : est[r] \in Nat /\ est[r] <= MaxEst
    BY FS_Subset DEF Owing, MoneyInv
  <1>2. \A r \in Owing : est[r] \in Nat
    BY <1>1 DEF Owing
  <1> QED
    BY <1>1, <1>2, SumNat

\* What is owed is within the reservations, and so is what the script still
\* counts of the requests already billed, but for what they cost beyond it.
LEMMA ReservedCoversDebt ==
  ASSUME MoneyInv, BeyondInv, Owing \in SUBSET Held
  PROVE  /\ SumOf(est, Held) \in Nat /\ SumOf(cost, Landing) \in Nat
         /\ SumOf(est, Owing) + SumOf(cost, Landing) <= SumOf(est, Held) + beyond
  <1>1. /\ Landing \in SUBSET Held /\ Owing \cap Landing = {}
        /\ (Owing \cup Landing) \in SUBSET Held
    BY DEF Landing, Owing
  <1>2. IsFiniteSet(Held) /\ IsFiniteSet(Owing) /\ IsFiniteSet(Landing)
    BY FS_Subset DEF Held, Owing, Landing
  <1>3. \A r \in Held : est[r] \in Nat
    BY DEF Held, MoneyInv
  <1>4. \A r \in Landing : /\ est[r] \in Int /\ cost[r] \in Nat /\ cost[r] \in Int
                           /\ Excess[r] \in Int /\ cost[r] <= est[r] + Excess[r]
    BY DEF Landing, Held, MoneyInv, Excess, Beyond
  <1>5. SumOf(est, Owing \cup Landing) = SumOf(est, Owing) + SumOf(est, Landing)
    <2>1. \A r \in Owing \cup Landing : est[r] \in Int
      BY <1>1, <1>3
    <2> QED
      BY <1>1, <1>2, <2>1, SumUnion
  <1>6. SumOf(cost, Landing) <= SumOf(est, Landing) + SumOf(Excess, Landing)
    BY <1>2, <1>4, SumSplit
  <1>e. /\ SumOf(Excess, Landing) \in Nat /\ beyond \in Nat
        /\ SumOf(Excess, Landing) <= beyond
    <2>1. Landing \in SUBSET Billed /\ IsFiniteSet(Billed) /\ \A r \in Billed : Excess[r] \in Nat
      BY ExcessType DEF Landing, Billed, Held
    <2>2. /\ SumOf(Excess, Landing) <= SumOf(Excess, Billed)
          /\ SumOf(Excess, Landing) \in Nat /\ SumOf(Excess, Billed) \in Nat
      BY <2>1, SumPart
    <2> QED
      BY <2>2 DEF BeyondInv
  <1>7. SumOf(est, Owing \cup Landing) <= SumOf(est, Held) /\ SumOf(est, Held) \in Nat
    BY <1>1, <1>2, <1>3, SumPart
  <1>8. SumOf(cost, Landing) \in Nat
    BY <1>2, <1>4, SumNat
  <1>9. SumOf(est, Owing) \in Nat /\ SumOf(est, Landing) \in Nat
    BY <1>1, <1>2, <1>3, SumPart
  <1> QED
    BY <1>5, <1>6, <1>7, <1>8, <1>9, <1>e

\* The script admits a request whose estimate the balance covers beside all that
\* is owed, or a request alone that any positive balance admits.
LEMMA AdmittedWithin ==
  ASSUME MoneyInv, BeyondInv, CacheTypeInv, NEW r \in Requests, Held = {} \/ Room(r), Judged(r)
  PROVE  db - (SumOf(est, Owing) + est[r]) >= 1 - MaxEst - beyond
  <1>1. /\ est[r] \in Nat /\ est[r] <= MaxEst /\ db \in Int /\ bal[r] \in Int
        /\ SumOf(est, Owing) \in Nat /\ beyond \in Nat
    BY OwingSum DEF MoneyInv, BeyondInv, CacheTypeInv
  <1>2. Owing \in SUBSET Held
    BY DEF Judged
  <1>3. /\ SumOf(est, Held) \in Nat /\ SumOf(cost, Landing) \in Nat
        /\ SumOf(est, Owing) + SumOf(cost, Landing) <= SumOf(est, Held) + beyond
    BY <1>2, ReservedCoversDebt
  <1>4. bal[r] >= 1 /\ bal[r] <= db + SumOf(cost, Landing)
    BY <1>1, <1>3 DEF Judged
  <1>5. CASE Held = {}
    <2>1. Owing = {} /\ Landing = {}
      BY <1>2, <1>5 DEF Landing
    <2>2. SumOf(est, Owing) = 0 /\ SumOf(cost, Landing) = 0
      BY <2>1, SumNone
    <2> QED
      BY <1>1, <1>4, <2>2
  <1>6. CASE Room(r)
    <2>1. bal[r] - SumOf(est, Held) >= est[r]
      BY <1>6 DEF Room
    <2> QED
      BY <1>1, <1>3, <1>4, <2>1
  <1> QED
    BY <1>5, <1>6

\* Neither a request that is refused, billed or over, nor a release, adds debt.
LEMMA DebtShrinks ==
  ASSUME MoneyInv, BeyondInv, OverdraftOnlyIfBlind, ~blind, db' = db, beyond' = beyond,
         Owing' \in SUBSET Owing,
         \A r \in Owing' : est'[r] = est[r]
  PROVE  OverdraftOnlyIfBlind'
  <1>1. /\ IsFiniteSet(Owing) /\ IsFiniteSet(Owing') /\ SumOf(est, Owing) \in Nat
        /\ \A r \in Owing : est[r] \in Nat
    BY OwingSum, FS_Subset DEF Owing
  <1>2. SumOf(est, Owing') <= SumOf(est, Owing) /\ SumOf(est, Owing') \in Nat
    BY <1>1, SumPart
  <1>3. SumOf(est, Owing') = SumOf(est', Owing')
    <2>1. \A r \in Owing' : est[r] \in Int /\ est[r] = est'[r]
      BY <1>1
    <2> QED
      BY <1>1, <2>1, SumSame
  <1>4. db \in Int /\ beyond \in Nat
    BY DEF MoneyInv, BeyondInv
  <1> QED
    BY <1>2, <1>1, <1>3, <1>4 DEF OverdraftOnlyIfBlind

\* A request that is billed falls out of the debt with its estimate, and out of
\* the balance with no more than that and what is counted beyond it.
LEMMA BilledWithin ==
  ASSUME MoneyInv, BeyondInv, OverdraftOnlyIfBlind, ~blind, NEW r \in Owing,
         UNCHANGED dbVars \/ Deduct(r), est' = est, Owing' \in SUBSET (Owing \ {r})
  PROVE  OverdraftOnlyIfBlind'
  <1>1. /\ IsFiniteSet(Owing) /\ IsFiniteSet(Owing \ {r}) /\ r \in Requests
        /\ \A x \in Owing : est[x] \in Nat /\ est[x] \in Int
    BY OwingSum, FS_Subset DEF Owing
  <1>2. SumOf(est, Owing) = est[r] + SumOf(est, Owing \ {r})
    BY <1>1, SumTake
  <1>3. /\ SumOf(est, Owing') <= SumOf(est, Owing \ {r}) /\ SumOf(est, Owing') \in Nat
        /\ SumOf(est, Owing \ {r}) \in Nat
    BY <1>1, SumPart
  <1>4. /\ db \in Int /\ beyond \in Nat /\ cost[r] \in Nat /\ est[r] \in Nat
        /\ Beyond(r) \in Nat /\ cost[r] <= est[r] + Beyond(r)
    BY <1>1 DEF MoneyInv, BeyondInv, Beyond
  <1>5. \/ db' = db /\ beyond' = beyond
        \/ db' = db - cost[r] /\ beyond' = beyond + Beyond(r)
    BY DEF Deduct, dbVars
  <1>6. db' - SumOf(est, Owing') >= 1 - MaxEst - beyond'
    BY <1>2, <1>3, <1>4, <1>5 DEF OverdraftOnlyIfBlind
  <1> QED
    BY <1>6 DEF OverdraftOnlyIfBlind

LEMMA OverdraftStep ==
  StepsInv /\ MoneyInv /\ BeyondInv /\ CacheTypeInv /\ OverdraftOnlyIfBlind /\ [Next]_vars
    => OverdraftOnlyIfBlind'
  <1> SUFFICES ASSUME StepsInv, MoneyInv, BeyondInv, CacheTypeInv, OverdraftOnlyIfBlind, [Next]_vars,
                      ~blind'
               PROVE  OverdraftOnlyIfBlind'
    BY DEF OverdraftOnlyIfBlind
  <1> USE DEF dbVars, ghosts
  <1>0. CASE blind' = blind /\ UNCHANGED <<db, beyond, est>> /\ Owing' \in SUBSET Owing
    BY <1>0, DebtShrinks
  <1>1. ASSUME NEW r \in Requests, ReadCache(r) \/ MissCache(r)
        PROVE  blind' = blind /\ UNCHANGED <<db, beyond, est>> /\ Owing' \in SUBSET Owing
    BY <1>1, ReadGoesOn DEF ReadCache, MissCache, GoTo, Owing, StepsInv
  <1>2. ASSUME NEW r \in Requests, Reserve(r) PROVE OverdraftOnlyIfBlind'
    <2>1. CASE Leave(r, "refused") /\ UNCHANGED blind
      <3>1. blind' = blind /\ UNCHANGED <<db, beyond, est>> /\ Owing' \in SUBSET Owing
        BY <1>2, <2>1 DEF Reserve, Leave, Owing, StepsInv
      <3> QED
        BY <1>0, <3>1
    <2>2. CASE (Held = {} \/ Room(r)) /\ Leave(r, "run") /\ blind' = (blind \/ ~Judged(r))
      <3>1. Judged(r)
        BY <2>2
      <3>2. db - (SumOf(est, Owing) + est[r]) >= 1 - MaxEst - beyond
        BY <2>2, <3>1, AdmittedWithin
      <3>3. UNCHANGED <<db, beyond, est>> /\ r \notin Owing /\ Owing' \in SUBSET (Owing \cup {r})
        BY <1>2, <2>2 DEF Reserve, Leave, Owing, StepsInv
      <3>4. /\ IsFiniteSet(Owing) /\ \A x \in Owing : est[x] \in Int
            /\ \A x \in Owing \cup {r} : est[x] \in Nat
        BY OwingSum DEF Owing
      <3>5. SumOf(est, Owing \cup {r}) = SumOf(est, Owing) + est[r]
        <4>1. est[r] \in Int
          BY <3>4
        <4> QED
          BY <3>3, <3>4, <4>1, SumAdd
      <3>6. IsFiniteSet(Owing \cup {r})
        BY <3>4, FS_AddElement
      <3>7. /\ SumOf(est, Owing') <= SumOf(est, Owing \cup {r}) /\ SumOf(est, Owing') \in Nat
            /\ SumOf(est, Owing \cup {r}) \in Nat
        BY <3>3, <3>4, <3>6, SumPart
      <3>8. db - SumOf(est, Owing') >= 1 - MaxEst - beyond
        BY <3>2, <3>5, <3>7 DEF MoneyInv, BeyondInv
      <3> QED
        BY <3>3, <3>8 DEF OverdraftOnlyIfBlind
    <2> QED
      BY <1>2, <2>1, <2>2 DEF Reserve
  <1>3. ASSUME NEW r \in Requests, ReserveFails(r) PROVE FALSE
    BY <1>3 DEF ReserveFails
  <1>4. ASSUME NEW r \in Requests, Renew(r) \/ WriteDeduct(r)
        PROVE  blind' = blind /\ UNCHANGED <<db, beyond, est>> /\ Owing' \in SUBSET Owing
    BY <1>4 DEF Renew, WriteDeduct, reqVars, Owing
  <1>5. ASSUME NEW r \in Requests, SubmitUsage(r) \/ HandlerDone(r)
        PROVE  blind' = blind /\ UNCHANGED <<db, beyond, est>> /\ Owing' \in SUBSET Owing
    BY <1>5 DEF SubmitUsage, HandlerDone, TaskTo, GoTo, Owing, StepsInv
  <1>6. ASSUME NEW r \in Requests, Release(r) PROVE OverdraftOnlyIfBlind'
    <2>1. blind' = blind /\ UNCHANGED <<db, beyond>> /\ Owing' \in SUBSET Owing /\ r \notin Owing'
      BY <1>6 DEF Release, Owing, StepsInv
    <2>2. \A x \in Owing' : est'[x] = est[x]
      BY <1>6, <2>1 DEF Release, Owing, MoneyInv
    <2> QED
      BY <2>1, <2>2, DebtShrinks
  <1>7. ASSUME NEW r \in Requests, ApplyBilling(r) PROVE OverdraftOnlyIfBlind'
    <2>1. blind' = blind /\ est' = est /\ Deduct(r)
      BY <1>7 DEF ApplyBilling, TaskTo
    <2>2. r \in Owing /\ Owing' \in SUBSET (Owing \ {r})
      BY <1>7 DEF ApplyBilling, TaskTo, Owing, StepsInv
    <2> QED
      BY <2>1, <2>2, BilledWithin
  <1>8. ASSUME NEW r \in Requests, ApplyFails(r) PROVE OverdraftOnlyIfBlind'
    <2>1. blind' = blind /\ est' = est /\ (UNCHANGED dbVars \/ Deduct(r))
      BY <1>8 DEF ApplyFails, TaskDone
    <2>2. r \in Owing /\ Owing' \in SUBSET (Owing \ {r})
      BY <1>8 DEF ApplyFails, TaskDone, Owing, StepsInv
    <2> QED
      BY <2>1, <2>2, BilledWithin
  <1>9. ASSUME NEW r \in Requests, SyncBalanceCache(r)
        PROVE  blind' = blind /\ UNCHANGED <<db, beyond, est>> /\ Owing' \in SUBSET Owing
    BY <1>9 DEF SyncBalanceCache, TaskDone, Owing, StepsInv
  <1>10. ASSUME LoadReturns
         PROVE  blind' = blind /\ UNCHANGED <<db, beyond, est>> /\ Owing' \in SUBSET Owing
    BY <1>10, ReadGoesOn DEF LoadReturns, Owing
  <1>11. ASSUME LoadFails
         PROVE  blind' = blind /\ UNCHANGED <<db, beyond, est>> /\ Owing' \in SUBSET Owing
    <2>1. {r \in Loading : pc[r] = "readLoad"} = {}
      BY <1>11 DEF LoadFails
    <2>2. \A r \in Requests : pc'[r] \in {pc[r], "refused"}
      BY <1>11, <2>1 DEF LoadFails
    <2>3. blind' = blind
      BY <1>11, <2>1 DEF LoadFails, CacheTypeInv
    <2> QED
      BY <1>11, <2>2, <2>3 DEF LoadFails, Owing
  <1>12. ASSUME Restart
         PROVE  blind' = blind /\ UNCHANGED <<db, beyond, est>> /\ Owing' \in SUBSET Owing
    BY <1>12 DEF Restart, Owing
  <1>13. ASSUME \/ LoadBalance \/ (\E b \in Balances : WriteLoaded(b))
                \/ CacheExpires \/ Tick \/ UNCHANGED vars
         PROVE  blind' = blind /\ UNCHANGED <<db, beyond, est>> /\ Owing' \in SUBSET Owing
    BY <1>13 DEF LoadBalance, WriteLoaded, CacheExpires, Tick, vars, reqVars, Owing
  <1> QED
    BY <1>0, <1>1, <1>2, <1>3, <1>4, <1>5, <1>6, <1>7, <1>8, <1>9, <1>10, <1>11, <1>12,
       <1>13 DEF Next

-----------------------------------------------------------------------------
(* Theorems.                                                               *)

\* The inductive invariant holds throughout: the reservations, the debt they cover
\* and the cached balance stay in step whatever handlers, usage tasks, cache
\* writers, failures and restarts do.
THEOREM Inductive == Spec => []IInv
  <1>1. Init => IInv
    BY StepsInit, MoneyInit, BeyondInit, CacheTypeInit, HoldInit, CacheInit, OverdraftInit DEF IInv
  <1>2. IInv /\ [Next]_vars => IInv'
    BY StepsStep, MoneyStep, BeyondStep, CacheTypeStep, HoldStep, CacheStep, OverdraftStep DEF IInv
  <1> QED
    BY <1>1, <1>2, PTL DEF Spec

\* Every variable keeps its type: the balance never falls by more than the highest
\* cost of every request, however often usage tasks fail, lose their answer
\* or die with the process.
THEOREM TypeCorrect == Spec => []TypeOK
  <1>1. IInv => TypeOK
    BY DbInBalances DEF IInv, StepsInv, Tasks, MoneyInv, BeyondInv, CacheTypeInv, HoldInv, TypeOK
  <1> QED
    BY <1>1, Inductive, PTL

\* HeldUntilBilled: startRenewal's renewal every third of the lifetime and the
\* references of handler and usage task keep the reservation until both have
\* ended, whatever the order, or all but a third of it has passed after the
\* handler, for as long as no renewal was missed; and none outlives its handler
\* by more than its lifetime.
THEOREM HeldTillBilled == Spec => []HeldUntilBilled
  <1>1. IInv => HeldUntilBilled
    BY HoldSuffices DEF IInv
  <1> QED
    BY <1>1, Inductive, PTL

\* OverdraftOnlyIfBlind: the sum in reserveInflightBalanceScript keeps concurrent
\* requests within the balance, but for the one that a positive balance admits
\* alone and for what requests cost beyond the estimate reserved for them, which
\* tokenCounts guesses and reserveInflight caps, until one is admitted that the
\* script could not judge.
THEOREM OverdraftBounded == Spec => []OverdraftOnlyIfBlind
  <1>1. IInv => OverdraftOnlyIfBlind
    BY DEF IInv
  <1> QED
    BY <1>1, Inductive, PTL

\* Whatever deductUsageBillingBalance takes, it leaves users.balance no lower than
\* one estimate alone could, and what billed requests cost beyond theirs, as long
\* as the script could judge every admission.
THEOREM BalanceBounded == Spec => [](blind \/ db >= 1 - MaxEst - beyond)
  <1>1. IInv => (blind \/ db >= 1 - MaxEst - beyond)
    <2> SUFFICES ASSUME MoneyInv, BeyondInv, OverdraftOnlyIfBlind, ~blind
                 PROVE  db >= 1 - MaxEst - beyond
      BY DEF IInv
    <2>1. SumOf(est, Owing) \in Nat /\ db \in Int /\ beyond \in Nat
      BY OwingSum DEF MoneyInv, BeyondInv
    <2> QED
      BY <2>1 DEF OverdraftOnlyIfBlind
  <1> QED
    BY <1>1, Inductive, PTL

\* StaleOnlyIfRaced: syncBalanceCacheAfterDeduction runs before the usage task
\* returns its reference, so without a fault, or a load that read the balance
\* before a deduction, no cached balance lacks the deduction of a released request.
THEOREM StaleRaced == Spec => []StaleOnlyIfRaced
  <1>1. IInv => StaleOnlyIfRaced
    BY CacheSuffices DEF IInv
  <1> QED
    BY <1>1, Inductive, PTL
=============================================================================
