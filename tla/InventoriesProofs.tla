------------------------- MODULE InventoriesProofs -------------------------
(***************************************************************************)
(* Theorems about Inventories, for any number of players, boxes, slots and *)
(* kinds of items, any stack sizes and slot rules, and any bound on items: *)
(* moves, watchers, registry, windows, stacks, the account of all items,   *)
(* skins, and the abstract exchange of items.                              *)
(***************************************************************************)
EXTENDS Inventories, FiniteSetTheorems, TLAPS

USE DEF columns, registry, watchers, skins, account, vars, Register, BeforeAction

-----------------------------------------------------------------------------
(* Stacks.                                                                 *)

\* A stack is within the size that its kind allows.
Bounded(stack) == stack # NoItem => stack.amount <= MaxStack[stack.kind]

LEMMA StackCases ==
  ASSUME NEW stack \in Stack, stack # NoItem
  PROVE  /\ stack \in Item
         /\ stack.kind \in Kind
         /\ stack.amount \in Nat
         /\ stack.amount > 0
  BY DEF Stack, Item

LEMMA ItemIsStack ==
  ASSUME NEW kind \in Kind, NEW amount \in Nat, amount > 0
  PROVE  LET item == [kind |-> kind, amount |-> amount] IN
           /\ item \in Stack
           /\ item # NoItem
  BY NoItemAssumption DEF Stack, Item

LEMMA EmptyTyped == EmptyInventory \in Inventory
  BY DEF EmptyInventory, Inventory, Stack

LEMMA AmountTyped ==
  ASSUME NEW stack \in Stack, NEW k \in Kind
  PROVE  Amount(stack, k) \in Nat
  BY StackCases DEF Amount

\* What is left of a stack: its type, its size and its bound.
LEMMA LessProperties ==
  ASSUME NEW stack \in Stack, stack # NoItem, NEW n \in Nat, n <= stack.amount
  PROVE  /\ Less(stack, n) \in Stack
         /\ \A k \in Kind : Amount(Less(stack, n), k)
                              = Amount(stack, k) - (IF k = stack.kind THEN n ELSE 0)
         /\ Bounded(stack) => Bounded(Less(stack, n))
<1>1. stack \in Item /\ stack.kind \in Kind /\ stack.amount \in Nat /\ stack.amount > 0
  BY StackCases
<1>2. CASE n = stack.amount
  <2>1. Less(stack, n) = NoItem
    BY <1>2 DEF Less
  <2> QED
    BY <1>1, <1>2, <2>1 DEF Stack, Amount, Bounded
<1>3. CASE n # stack.amount
  <2>1. Less(stack, n) = [kind |-> stack.kind, amount |-> stack.amount - n]
    BY <1>1, <1>3 DEF Less, Item
  <2>2. stack.amount - n \in Nat /\ stack.amount - n > 0
    BY <1>1, <1>3
  <2>3. Less(stack, n) \in Stack /\ Less(stack, n) # NoItem
    BY <1>1, <2>1, <2>2, ItemIsStack
  <2>4. MaxStack[stack.kind] \in Nat
    BY <1>1, SlotAssumption
  <2> QED
    BY <1>1, <2>1, <2>3, <2>4 DEF Amount, Bounded
<1> QED
  BY <1>2, <1>3

\* A stack that gets items of its kind.
LEMMA MoreProperties ==
  ASSUME NEW stack \in Stack, NEW kind \in Kind, NEW n \in Nat, n > 0,
         stack # NoItem => stack.kind = kind
  PROVE  /\ More(stack, kind, n) \in Stack
         /\ More(stack, kind, n) # NoItem
         /\ \A k \in Kind : Amount(More(stack, kind, n), k)
                              = Amount(stack, k) + (IF k = kind THEN n ELSE 0)
         /\ Amount(stack, kind) + n <= MaxStack[kind] => Bounded(More(stack, kind, n))
<1>1. Amount(stack, kind) \in Nat
  BY AmountTyped
<1>2. Amount(stack, kind) + n \in Nat /\ Amount(stack, kind) + n > 0
  BY <1>1
<1>3. More(stack, kind, n) \in Stack /\ More(stack, kind, n) # NoItem
  BY <1>2, ItemIsStack DEF More
<1>4. ASSUME NEW k \in Kind
      PROVE  Amount(More(stack, kind, n), k)
               = Amount(stack, k) + (IF k = kind THEN n ELSE 0)
  <2>1. CASE k = kind
    BY <1>3, <2>1 DEF Amount, More
  <2>2. CASE k # kind
    BY <1>3, <2>2 DEF Amount, More
  <2> QED
    BY <2>1, <2>2
<1> QED
  BY <1>3, <1>4 DEF Bounded, More

\* A move neither creates nor loses an item, whether it splits, merges in full
\* or in part, swaps, or is refused, and it overfills no stack.
LEMMA MovedProperties ==
  ASSUME NEW source \in Stack, source # NoItem, NEW target \in Stack,
         NEW n \in 1..source.amount
  PROVE  LET moved == Moved(source, target, n) IN
           /\ moved.source \in Stack
           /\ moved.target \in Stack
           /\ \A k \in Kind : Amount(moved.source, k) + Amount(moved.target, k)
                                = Amount(source, k) + Amount(target, k)
           /\ Bounded(source) /\ Bounded(target)
                => Bounded(moved.source) /\ Bounded(moved.target)
<1>1. /\ source.kind \in Kind /\ source.amount \in Nat /\ source.amount > 0
      /\ n \in Nat /\ n > 0 /\ n <= source.amount
  BY StackCases
<1>2. \A k \in Kind : Amount(source, k) \in Nat /\ Amount(target, k) \in Nat
  BY AmountTyped
<1>3. CASE target # NoItem /\ target.kind # source.kind
  <2>1. \/ Moved(source, target, n) = [source |-> target, target |-> source]
        \/ Moved(source, target, n) = [source |-> source, target |-> target]
    BY <1>3 DEF Moved
  <2> QED
    BY <1>2, <2>1
<1>4. CASE ~(target # NoItem /\ target.kind # source.kind)
  <2> DEFINE a == TransferAmount(source, target, n)
  <2>1. MaxStack[source.kind] \in Nat
    BY <1>1, SlotAssumption
  <2>2. a \in Nat /\ a <= n
    BY <1>1, <1>2, <2>1 DEF TransferAmount
  <2>3. /\ Moved(source, target, n).source = Less(source, a)
        /\ Moved(source, target, n).target =
             (IF a = 0 THEN target ELSE More(target, source.kind, a))
    BY <1>4 DEF Moved
  <2>4. a <= source.amount
    BY <1>1, <2>2
  <2> HIDE DEF a
  <2>5. CASE a = 0
    BY <1>2, <2>2, <2>3, <2>4, <2>5, LessProperties
  <2>6. CASE a # 0
    <3>1. Bounded(source) => Amount(target, source.kind) + a <= MaxStack[source.kind]
      <4>1. CASE target = NoItem
        BY <1>1, <2>1, <2>2, <4>1 DEF Bounded, Amount
      <4>2. CASE target # NoItem
        BY <1>1, <1>2, <2>1, <2>6, <4>2 DEF a, TransferAmount
      <4> QED
        BY <4>1, <4>2
    <3>2. /\ Less(source, a) \in Stack
          /\ \A k \in Kind : Amount(Less(source, a), k)
                               = Amount(source, k) - (IF k = source.kind THEN a ELSE 0)
          /\ Bounded(source) => Bounded(Less(source, a))
      BY <2>2, <2>4, LessProperties
    <3>3. /\ More(target, source.kind, a) \in Stack
          /\ \A k \in Kind : Amount(More(target, source.kind, a), k)
                               = Amount(target, k) + (IF k = source.kind THEN a ELSE 0)
          /\ Bounded(source) => Bounded(More(target, source.kind, a))
      BY <1>1, <1>4, <2>2, <2>6, <3>1, MoreProperties
    <3> QED
      BY <1>2, <2>2, <2>3, <2>6, <3>2, <3>3
  <2> QED
    BY <2>5, <2>6
<1> QED
  BY <1>3, <1>4

-----------------------------------------------------------------------------
(* Sums.  SumFunction is defined with a function that satisfies a          *)
(* recursion equation; that there is one, and what it computes, is proved  *)
(* by induction, in the form: a set of subsets of a finite set that is not *)
(* empty has a smallest member.                                            *)

LEMMA SmallestSubset ==
  ASSUME NEW S, IsFiniteSet(S), NEW C \in SUBSET (SUBSET S), C # {}
  PROVE  \E T \in C : \A U \in SUBSET T : U \in C => U = T
<1> DEFINE R == StrictSubsetOrdering(S)
<1>1. IsWellFoundedOn(R, SUBSET S)
  BY FS_StrictSubsetOrderingWellFounded, FS_FiniteSubsetsOfFinite
<1> HIDE DEF R
<1>2. PICK T \in C : \A U \in C : ~(<<U, T>> \in R)
  BY <1>1, WFMin
<1> QED
  BY <1>2 DEF R, StrictSubsetOrdering

\* it gives the sum of f over every subset of S.
SumsOver(it, f, S) ==
  it = [s \in SUBSET S |->
         IF s = {} THEN 0
         ELSE LET x == CHOOSE x \in s : TRUE IN f[x] + it[s \ {x}]]

\* The sum of f over S.
SumOn(f, S) == (CHOOSE it : SumsOver(it, f, S))[S]

LEMMA SumFunctionIsSumOn ==
  ASSUME NEW f
  PROVE  SumFunction(f) = SumOn(f, DOMAIN f)
BY DEF SumFunction, SumFunctionOnSet, FoldFunctionOnSet, MapThenFoldSet, SumsOver, SumOn

\* What a function that sums over S gives for the subsets of S.
LEMMA SumsOverStep ==
  ASSUME NEW f, NEW S, NEW it, SumsOver(it, f, S), NEW s \in SUBSET S
  PROVE  /\ s = {} => it[s] = 0
         /\ s # {} => /\ (CHOOSE x \in s : TRUE) \in s
                      /\ it[s] = f[CHOOSE x \in s : TRUE] + it[s \ {CHOOSE x \in s : TRUE}]
<1>1. it[s] = IF s = {} THEN 0
              ELSE LET x == CHOOSE x \in s : TRUE IN f[x] + it[s \ {x}]
  BY Zenon DEF SumsOver
<1> QED
  BY <1>1

\* Functions that sum over sets agree on the subsets that they share.
LEMMA SumsAgree ==
  ASSUME NEW f, NEW S, IsFiniteSet(S), NEW it, NEW S2, NEW jt,
         SumsOver(it, f, S), SumsOver(jt, f, S2), S \subseteq S2
  PROVE  \A s \in SUBSET S : it[s] = jt[s]
<1> SUFFICES ASSUME {s \in SUBSET S : it[s] # jt[s]} # {} PROVE FALSE
  OBVIOUS
<1>1. PICK T \in SUBSET S : /\ it[T] # jt[T]
                            /\ \A U \in SUBSET T : it[U] # jt[U] => U = T
  <2> DEFINE C == {s \in SUBSET S : it[s] # jt[s]}
  <2>1. C \in SUBSET (SUBSET S) /\ C # {}
    OBVIOUS
  <2>2. PICK T \in C : \A U \in SUBSET T : U \in C => U = T
    <3> HIDE DEF C
    <3> QED BY <2>1, SmallestSubset
  <2> QED
    BY <2>2
<1> DEFINE x == CHOOSE x \in T : TRUE
<1>2. T \in SUBSET S2
  OBVIOUS
<1>3. /\ T = {} => it[T] = 0
      /\ T # {} => x \in T /\ it[T] = f[x] + it[T \ {x}]
  BY SumsOverStep
<1>4. /\ T = {} => jt[T] = 0
      /\ T # {} => jt[T] = f[x] + jt[T \ {x}]
  BY <1>2, SumsOverStep
<1> HIDE DEF x
<1>5. it[T \ {x}] = jt[T \ {x}]
  BY <1>1, <1>3, <1>4
<1> QED
  BY <1>1, <1>3, <1>4, <1>5

\* There is a function that sums over a finite set.
LEMMA SumsExist ==
  ASSUME NEW f, NEW S, IsFiniteSet(S)
  PROVE  \E it : SumsOver(it, f, S)
<1> SUFFICES ASSUME ~ \E it : SumsOver(it, f, S) PROVE FALSE
  OBVIOUS
<1>1. PICK T \in SUBSET S : /\ ~ \E it : SumsOver(it, f, T)
                            /\ \A U \in SUBSET T : (~ \E it : SumsOver(it, f, U)) => U = T
  <2> DEFINE C == {s \in SUBSET S : ~ \E it : SumsOver(it, f, s)}
  <2>1. C \in SUBSET (SUBSET S) /\ C # {}
    OBVIOUS
  <2>2. PICK T \in C : \A U \in SUBSET T : U \in C => U = T
    <3> HIDE DEF C
    <3> QED BY <2>1, SmallestSubset
  <2> QED
    BY <2>2
<1> DEFINE it == [s \in SUBSET T |->
                   IF s = {} THEN 0
                   ELSE LET x == CHOOSE x \in s : TRUE IN f[x] + SumOn(f, s \ {x})]
<1>2. ASSUME NEW U \in SUBSET T, U # T
      PROVE  SumsOver(CHOOSE jt : SumsOver(jt, f, U), f, U)
  BY <1>1, <1>2
<1>3. ASSUME NEW U \in SUBSET T, U # T
      PROVE  it[U] = SumOn(f, U)
  <2> DEFINE jt == CHOOSE jt : SumsOver(jt, f, U)
             x == CHOOSE x \in U : TRUE
  <2>1. SumsOver(jt, f, U) /\ SumOn(f, U) = jt[U]
    BY <1>2, <1>3 DEF SumOn
  <2> HIDE DEF jt
  <2>2. CASE U = {}
    BY <2>1, <2>2, SumsOverStep
  <2>3. CASE U # {}
    <3>1. x \in U /\ jt[U] = f[x] + jt[U \ {x}]
      BY <2>1, <2>3, SumsOverStep
    <3>2. it[U] = f[x] + SumOn(f, U \ {x})
      BY <2>3
    <3> HIDE DEF x, it
    <3> DEFINE V == U \ {x}
    <3>3. V \in SUBSET T /\ V # T /\ V \subseteq U /\ IsFiniteSet(V)
      BY <3>1, <1>3, FS_Subset
    <3> DEFINE kt == CHOOSE kt : SumsOver(kt, f, V)
    <3>4. SumsOver(kt, f, V) /\ SumOn(f, V) = kt[V]
      BY <1>2, <3>3 DEF SumOn
    <3> HIDE DEF kt, V
    <3>5. kt[V] = jt[V]
      BY <2>1, <3>3, <3>4, SumsAgree
    <3> QED
      BY <2>1, <3>1, <3>2, <3>4, <3>5 DEF V
  <2> QED
    BY <2>2, <2>3
<1>4. ASSUME NEW s \in SUBSET T
      PROVE  it[s] = IF s = {} THEN 0
                     ELSE LET x == CHOOSE x \in s : TRUE IN f[x] + it[s \ {x}]
  <2> DEFINE x == CHOOSE x \in s : TRUE
  <2>1. it[s] = IF s = {} THEN 0 ELSE f[x] + SumOn(f, s \ {x})
    OBVIOUS
  <2>2. s # {} => x \in s
    OBVIOUS
  <2> HIDE DEF x, it
  <2>3. s # {} => SumOn(f, s \ {x}) = it[s \ {x}]
    <3> SUFFICES ASSUME s # {} PROVE SumOn(f, s \ {x}) = it[s \ {x}]
      OBVIOUS
    <3>1. s \ {x} \in SUBSET T /\ s \ {x} # T
      BY <2>2
    <3> QED
      BY <3>1, <1>3
  <2>4. it[s] = IF s = {} THEN 0 ELSE f[x] + it[s \ {x}]
    BY <2>1, <2>3
  <2> QED
    BY <2>4 DEF x
<1>5. SumsOver(it, f, T)
  <2>1. it = [s \in SUBSET T |-> it[s]]
    OBVIOUS
  <2> HIDE DEF it
  <2>2. it = [s \in SUBSET T |->
               IF s = {} THEN 0
               ELSE LET x == CHOOSE x \in s : TRUE IN f[x] + it[s \ {x}]]
    BY <1>4, <2>1
  <2> QED
    BY <2>2, Zenon DEF SumsOver
<1> QED
  BY <1>1, <1>5

\* The sum over a finite set: what it is for the empty set, and taking out the
\* element that is chosen.
LEMMA SumStep ==
  ASSUME NEW f, NEW S, IsFiniteSet(S)
  PROVE  /\ S = {} => SumOn(f, S) = 0
         /\ S # {} => LET x == CHOOSE x \in S : TRUE IN
                       x \in S /\ SumOn(f, S) = f[x] + SumOn(f, S \ {x})
<1> DEFINE it == CHOOSE it : SumsOver(it, f, S)
           x == CHOOSE x \in S : TRUE
<1>1. SumsOver(it, f, S) /\ SumOn(f, S) = it[S]
  BY SumsExist DEF SumOn
<1> HIDE DEF it
<1>2. S = {} => SumOn(f, S) = 0
  BY <1>1, SumsOverStep
<1>3. ASSUME S # {} PROVE x \in S /\ SumOn(f, S) = f[x] + SumOn(f, S \ {x})
  <2>1. x \in S /\ it[S] = f[x] + it[S \ {x}]
    BY <1>1, <1>3, SumsOverStep
  <2> HIDE DEF x
  <2> DEFINE V == S \ {x}
             kt == CHOOSE kt : SumsOver(kt, f, V)
  <2>2. IsFiniteSet(V) /\ V \subseteq S
    BY FS_Subset
  <2> HIDE DEF V
  <2>3. SumsOver(kt, f, V) /\ SumOn(f, V) = kt[V]
    BY <2>2, SumsExist DEF SumOn
  <2> HIDE DEF kt
  <2>4. kt[V] = it[V]
    BY <1>1, <2>2, <2>3, SumsAgree
  <2> QED
    BY <1>1, <2>1, <2>3, <2>4 DEF V
<1> QED
  BY <1>2, <1>3

LEMMA SumTyped ==
  ASSUME NEW f, NEW S, IsFiniteSet(S), \A x \in S : f[x] \in Int
  PROVE  SumOn(f, S) \in Int
<1> DEFINE C == {s \in SUBSET S : SumOn(f, s) \notin Int}
<1> SUFFICES ASSUME C # {} PROVE FALSE
  OBVIOUS
<1>1. C \in SUBSET (SUBSET S)
  OBVIOUS
<1>2. PICK T \in C : \A U \in SUBSET T : U \in C => U = T
  <2> HIDE DEF C
  <2> QED BY <1>1, SmallestSubset
<1> DEFINE x == CHOOSE x \in T : TRUE
<1>3. IsFiniteSet(T)
  BY FS_Subset
<1>4. /\ T = {} => SumOn(f, T) = 0
      /\ T # {} => x \in T /\ SumOn(f, T) = f[x] + SumOn(f, T \ {x})
  BY <1>3, SumStep
<1> HIDE DEF x
<1>5. T # {} => SumOn(f, T \ {x}) \in Int
  BY <1>2, <1>4
<1> QED
  BY <1>4, <1>5

\* Functions that agree on a set have the same sum over it.
LEMMA SumSame ==
  ASSUME NEW f, NEW g, NEW S, IsFiniteSet(S), \A x \in S : f[x] = g[x]
  PROVE  SumOn(f, S) = SumOn(g, S)
<1> DEFINE C == {s \in SUBSET S : SumOn(f, s) # SumOn(g, s)}
<1> SUFFICES ASSUME C # {} PROVE FALSE
  OBVIOUS
<1>1. C \in SUBSET (SUBSET S)
  OBVIOUS
<1>2. PICK T \in C : \A U \in SUBSET T : U \in C => U = T
  <2> HIDE DEF C
  <2> QED BY <1>1, SmallestSubset
<1> DEFINE x == CHOOSE x \in T : TRUE
<1>3. IsFiniteSet(T)
  BY FS_Subset
<1>4. /\ T = {} => SumOn(f, T) = 0
      /\ T # {} => x \in T /\ SumOn(f, T) = f[x] + SumOn(f, T \ {x})
  BY <1>3, SumStep
<1>5. /\ T = {} => SumOn(g, T) = 0
      /\ T # {} => SumOn(g, T) = g[x] + SumOn(g, T \ {x})
  BY <1>3, SumStep
<1> HIDE DEF x
<1>6. T # {}
  BY <1>4, <1>5
<1>7. SumOn(f, T \ {x}) = SumOn(g, T \ {x})
  BY <1>2, <1>4, <1>6
<1> QED
  BY <1>4, <1>5, <1>6, <1>7

\* Any element may be taken out of a sum.
LEMMA SumRemove ==
  ASSUME NEW f, NEW S, IsFiniteSet(S), \A x \in S : f[x] \in Int
  PROVE  \A e \in S : SumOn(f, S) = f[e] + SumOn(f, S \ {e})
<1> DEFINE C == {s \in SUBSET S : \E e \in s : SumOn(f, s) # f[e] + SumOn(f, s \ {e})}
<1> SUFFICES ASSUME C # {} PROVE FALSE
  OBVIOUS
<1>1. C \in SUBSET (SUBSET S)
  OBVIOUS
<1>2. PICK T \in C : \A U \in SUBSET T : U \in C => U = T
  <2> HIDE DEF C
  <2> QED BY <1>1, SmallestSubset
<1>3. PICK e \in T : SumOn(f, T) # f[e] + SumOn(f, T \ {e})
  OBVIOUS
<1>4. ASSUME NEW c \in T, NEW d \in T \ {c}
      PROVE  SumOn(f, T \ {c}) = f[d] + SumOn(f, (T \ {c}) \ {d})
  <2>1. T \ {c} \in SUBSET T /\ T \ {c} # T /\ T \ {c} \in SUBSET S
    OBVIOUS
  <2>2. T \ {c} \notin C
    BY <1>2, <2>1
  <2> QED
    BY <2>1, <2>2
<1> DEFINE x == CHOOSE x \in T : TRUE
<1>5. x \in T /\ SumOn(f, T) = f[x] + SumOn(f, T \ {x})
  BY FS_Subset, SumStep
<1> HIDE DEF x
<1>6. x # e
  BY <1>3, <1>5
<1> DEFINE rest == (T \ {x}) \ {e}
<1>7. rest = (T \ {e}) \ {x} /\ SumOn(f, rest) \in Int
  BY FS_Subset, SumTyped
<1>8. SumOn(f, T \ {x}) = f[e] + SumOn(f, rest) /\ SumOn(f, T \ {e}) = f[x] + SumOn(f, rest)
  BY <1>4, <1>5, <1>6, <1>7
<1>9. f[x] \in Int /\ f[e] \in Int
  BY <1>5
<1> HIDE DEF rest
<1> QED
  BY <1>3, <1>5, <1>7, <1>8, <1>9

\* What is zero adds nothing to a sum.
LEMMA SumSupport ==
  ASSUME NEW f, NEW S, IsFiniteSet(S), NEW P \in SUBSET S,
         \A x \in P : f[x] \in Int, \A x \in S \ P : f[x] = 0
  PROVE  SumOn(f, S) = SumOn(f, P)
<1> DEFINE C == {s \in SUBSET S : P \subseteq s /\ SumOn(f, s) # SumOn(f, P)}
<1> SUFFICES ASSUME C # {} PROVE FALSE
  OBVIOUS
<1>1. C \in SUBSET (SUBSET S)
  OBVIOUS
<1>2. PICK T \in C : \A U \in SUBSET T : U \in C => U = T
  <2> HIDE DEF C
  <2> QED BY <1>1, SmallestSubset
<1>3. PICK x \in T : x \notin P
  <2>1. P \subseteq T /\ P # T
    OBVIOUS
  <2> HIDE DEF C
  <2> QED
    BY <2>1
<1>4. IsFiniteSet(T) /\ IsFiniteSet(T \ {x}) /\ \A y \in T : f[y] \in Int
  <2>1. IsFiniteSet(T)
    BY FS_Subset
  <2> QED
    BY <2>1, FS_Subset
<1>5. SumOn(f, T) = f[x] + SumOn(f, T \ {x}) /\ SumOn(f, T \ {x}) \in Int
  BY <1>4, SumRemove, SumTyped
<1>6. SumOn(f, T \ {x}) = SumOn(f, P)
  <2>1. T \ {x} \in SUBSET T /\ T \ {x} # T /\ T \ {x} \in SUBSET S /\ P \subseteq T \ {x}
    BY <1>3
  <2> QED
    BY <1>2, <2>1
<1>7. f[x] = 0
  BY <1>3
<1> QED
  BY <1>5, <1>6, <1>7

LEMMA SumZero ==
  ASSUME NEW f, NEW S, IsFiniteSet(S), \A x \in S : f[x] = 0
  PROVE  SumOn(f, S) = 0
<1>1. SumOn(f, S) = SumOn(f, {})
  BY SumSupport
<1>2. SumOn(f, {}) = 0
  BY FS_EmptySet, SumStep
<1> QED
  BY <1>1, <1>2

\* Changing one element changes the sum by as much.
LEMMA SumChange ==
  ASSUME NEW f, NEW g, NEW S, IsFiniteSet(S), NEW e \in S,
         \A x \in S : f[x] \in Int /\ g[x] \in Int,
         \A x \in S \ {e} : g[x] = f[x]
  PROVE  SumOn(g, S) = SumOn(f, S) + g[e] - f[e]
<1>1. SumOn(f, S) = f[e] + SumOn(f, S \ {e}) /\ SumOn(g, S) = g[e] + SumOn(g, S \ {e})
  BY SumRemove
<1>2. IsFiniteSet(S \ {e})
  BY FS_Subset
<1>3. SumOn(f, S \ {e}) \in Int /\ SumOn(f, S \ {e}) = SumOn(g, S \ {e})
  BY <1>2, SumTyped, SumSame
<1> QED
  BY <1>1, <1>3

-----------------------------------------------------------------------------
(* What one inventory holds, and all of them together.                     *)

LEMMA HeldTyped ==
  ASSUME NEW inventory \in Inventory, NEW k \in Kind
  PROVE  Held(inventory, k) \in Int
<1> DEFINE f == [s \in Slot |-> Amount(inventory[s], k)]
<1>1. \A s \in Slot : f[s] \in Int
  BY AmountTyped DEF Inventory
<1>2. Held(inventory, k) = SumOn(f, Slot)
  BY SumFunctionIsSumOn DEF Held
<1> HIDE DEF f
<1> QED
  BY <1>1, <1>2, SumTyped, FiniteAssumption

LEMMA HeldEmpty ==
  ASSUME NEW k \in Kind
  PROVE  Held(EmptyInventory, k) = 0
<1> DEFINE f == [s \in Slot |-> Amount(EmptyInventory[s], k)]
<1>1. \A s \in Slot : f[s] = 0
  BY DEF Amount, EmptyInventory
<1>2. Held(EmptyInventory, k) = SumOn(f, Slot)
  BY SumFunctionIsSumOn DEF Held
<1> HIDE DEF f
<1> QED
  BY <1>1, <1>2, SumZero, FiniteAssumption

\* A change of one slot changes what an inventory holds by as much.
LEMMA HeldChange ==
  ASSUME NEW before \in Inventory, NEW after \in Inventory, NEW k \in Kind,
         NEW s \in Slot, \A t \in Slot \ {s} : after[t] = before[t]
  PROVE  Held(after, k) = Held(before, k) + Amount(after[s], k) - Amount(before[s], k)
<1> DEFINE f == [t \in Slot |-> Amount(before[t], k)]
           g == [t \in Slot |-> Amount(after[t], k)]
<1>1. \A t \in Slot : f[t] \in Int /\ g[t] \in Int
  BY AmountTyped DEF Inventory
<1>2. Held(before, k) = SumOn(f, Slot) /\ Held(after, k) = SumOn(g, Slot)
  BY SumFunctionIsSumOn DEF Held
<1>3. /\ \A t \in Slot \ {s} : g[t] = f[t]
      /\ f[s] = Amount(before[s], k) /\ g[s] = Amount(after[s], k)
  OBVIOUS
<1> HIDE DEF f, g
<1> QED
  BY <1>1, <1>2, <1>3, SumChange, FiniteAssumption

\* What all inventories hold of a kind.
Total(inventories, k) == SumFunction([h \in Holder |-> Held(inventories[h], k)])

LEMMA FiniteHolders == IsFiniteSet(Holder)
  BY FiniteAssumption, FS_Union DEF Holder

LEMMA TotalTyped ==
  ASSUME NEW inventories \in [Holder -> Inventory], NEW k \in Kind
  PROVE  Total(inventories, k) \in Int
<1> DEFINE f == [h \in Holder |-> Held(inventories[h], k)]
<1>1. \A h \in Holder : f[h] \in Int
  BY HeldTyped
<1>2. Total(inventories, k) = SumOn(f, Holder)
  BY SumFunctionIsSumOn DEF Total
<1> HIDE DEF f
<1> QED
  BY <1>1, <1>2, SumTyped, FiniteHolders

\* A change of one inventory changes the total by as much.
LEMMA TotalChange ==
  ASSUME NEW before \in [Holder -> Inventory], NEW after \in [Holder -> Inventory],
         NEW k \in Kind, NEW h \in Holder, \A g \in Holder \ {h} : after[g] = before[g]
  PROVE  Total(after, k) = Total(before, k) + Held(after[h], k) - Held(before[h], k)
<1> DEFINE f == [i \in Holder |-> Held(before[i], k)]
           g == [i \in Holder |-> Held(after[i], k)]
<1>1. \A i \in Holder : f[i] \in Int /\ g[i] \in Int
  BY HeldTyped
<1>2. Total(before, k) = SumOn(f, Holder) /\ Total(after, k) = SumOn(g, Holder)
  BY SumFunctionIsSumOn DEF Total
<1>3. /\ \A i \in Holder \ {h} : g[i] = f[i]
      /\ f[h] = Held(before[h], k) /\ g[h] = Held(after[h], k)
  OBVIOUS
<1> HIDE DEF f, g
<1> QED
  BY <1>1, <1>2, <1>3, SumChange, FiniteHolders

\* A change of one slot of one inventory changes the total by as much.
LEMMA PlaceChange ==
  ASSUME NEW before \in [Holder -> Inventory], NEW after \in [Holder -> Inventory],
         NEW k \in Kind, NEW h \in Holder, NEW s \in Slot,
         \A g \in Holder, t \in Slot : <<g, t>> # <<h, s>> => after[g][t] = before[g][t]
  PROVE  Total(after, k)
           = Total(before, k) + Amount(after[h][s], k) - Amount(before[h][s], k)
<1>1. ASSUME NEW g \in Holder \ {h} PROVE after[g] = before[g]
  <2>1. after[g] \in Inventory /\ before[g] \in Inventory
    OBVIOUS
  <2>2. \A t \in Slot : after[g][t] = before[g][t]
    OBVIOUS
  <2> QED
    BY <2>1, <2>2 DEF Inventory
<1>2. /\ after[h] \in Inventory /\ before[h] \in Inventory
      /\ \A t \in Slot \ {s} : after[h][t] = before[h][t]
  OBVIOUS
<1>3. Held(after[h], k)
        = Held(before[h], k) + Amount(after[h][s], k) - Amount(before[h][s], k)
  BY <1>2, HeldChange
<1>4. Total(after, k) = Total(before, k) + Held(after[h], k) - Held(before[h], k)
  BY <1>1, TotalChange
<1>5. /\ Total(before, k) \in Int /\ Held(before[h], k) \in Int
      /\ Amount(after[h][s], k) \in Int /\ Amount(before[h][s], k) \in Int
  BY <1>2, TotalTyped, HeldTyped, AmountTyped DEF Inventory
<1> QED
  BY <1>3, <1>4, <1>5

-----------------------------------------------------------------------------
(* What the actions of players do to slots, windows and skins.             *)

\* Both slots of a move after it, and all others.
LEMMA MoveSlots ==
  ASSUME TypeOK, NEW p \in Player,
         NEW from \in Holder, NEW from_slot \in Slot,
         NEW to \in Holder, NEW to_slot \in Slot, NEW n,
         Move(p, from, from_slot, to, to_slot, n)
  PROVE  LET source == slots[from][from_slot]
             target == slots[to][to_slot] IN
           /\ source \in Stack /\ source # NoItem
           /\ target \in Stack
           /\ n \in 1..source.amount
           /\ slots' \in [Holder -> Inventory]
           /\ slots'[from][from_slot] = Moved(source, target, n).source
           /\ slots'[to][to_slot] = Moved(source, target, n).target
           /\ \A h \in Holder, s \in Slot :
                <<h, s>> # <<from, from_slot>> /\ <<h, s>> # <<to, to_slot>>
                  => slots'[h][s] = slots[h][s]
<1> DEFINE source == slots[from][from_slot]
           target == slots[to][to_slot]
           x == Moved(source, target, n).source
           y == Moved(source, target, n).target
<1>1. slots \in [Holder -> Inventory]
  BY DEF TypeOK
<1>2. source \in Stack /\ target \in Stack
  BY <1>1 DEF Inventory
<1>3. source # NoItem /\ n \in 1..source.amount /\ <<from, from_slot>> # <<to, to_slot>>
  BY DEF Move
<1>4. x \in Stack /\ y \in Stack
  BY <1>2, <1>3, MovedProperties
<1>5. slots' = [slots EXCEPT ![from][from_slot] = x, ![to][to_slot] = y]
  BY DEF Move
<1> HIDE DEF source, target, x, y
<1>6. slots' \in [Holder -> Inventory]
  BY <1>1, <1>4, <1>5 DEF Inventory
<1>7. slots'[from][from_slot] = x /\ slots'[to][to_slot] = y
  <2>1. CASE from = to
    BY <1>1, <1>3, <1>5, <2>1 DEF Inventory
  <2>2. CASE from # to
    BY <1>1, <1>5, <2>2 DEF Inventory
  <2> QED
    BY <2>1, <2>2
<1>8. ASSUME NEW h \in Holder, NEW s \in Slot,
             <<h, s>> # <<from, from_slot>>, <<h, s>> # <<to, to_slot>>
      PROVE  slots'[h][s] = slots[h][s]
  <2>1. CASE from = to
    BY <1>1, <1>5, <1>8, <2>1 DEF Inventory
  <2>2. CASE from # to
    BY <1>1, <1>5, <1>8, <2>2 DEF Inventory
  <2> QED
    BY <2>1, <2>2
<1> QED
  BY <1>2, <1>3, <1>6, <1>7, <1>8 DEF source, target, x, y

LEMMA DropSlots ==
  ASSUME TypeOK, NEW p \in Player, NEW h \in Holder, NEW s \in Slot, NEW n,
         Drop(p, h, s, n)
  PROVE  /\ slots[h][s] \in Stack /\ slots[h][s] # NoItem
         /\ n \in Nat /\ n <= slots[h][s].amount
         /\ slots' \in [Holder -> Inventory]
         /\ slots'[h][s] = Less(slots[h][s], n)
         /\ \A g \in Holder, t \in Slot :
              <<g, t>> # <<h, s>> => slots'[g][t] = slots[g][t]
<1>1. slots \in [Holder -> Inventory] /\ slots[h][s] \in Stack
  BY DEF TypeOK, Inventory
<1>2. slots[h][s] # NoItem /\ n \in 1..slots[h][s].amount
  BY DEF Drop
<1>3. slots[h][s].amount \in Nat
  BY <1>1, <1>2, StackCases
<1>4. n \in Nat /\ n <= slots[h][s].amount
  BY <1>2, <1>3
<1>5. Less(slots[h][s], n) \in Stack
  BY <1>1, <1>2, <1>4, LessProperties
<1>6. slots' = [slots EXCEPT ![h][s] = Less(slots[h][s], n)]
  BY DEF Drop
<1> QED
  BY <1>1, <1>2, <1>4, <1>5, <1>6 DEF Inventory

LEMMA AddItemSlots ==
  ASSUME TypeOK, NEW h \in Holder, NEW s \in Slot, NEW k \in Kind, AddItem(h, s, k)
  PROVE  /\ slots[h][s] \in Stack
         /\ slots[h][s] # NoItem => slots[h][s].kind = k
         /\ slots' \in [Holder -> Inventory]
         /\ slots'[h][s] = More(slots[h][s], k, 1)
         /\ \A g \in Holder, t \in Slot :
              <<g, t>> # <<h, s>> => slots'[g][t] = slots[g][t]
<1>1. slots \in [Holder -> Inventory] /\ slots[h][s] \in Stack
  BY DEF TypeOK, Inventory
<1>2. slots[h][s] # NoItem => slots[h][s].kind = k
  BY DEF AddItem
<1>3. More(slots[h][s], k, 1) \in Stack
  BY <1>1, <1>2, MoreProperties
<1>4. slots' = [slots EXCEPT ![h][s] = More(slots[h][s], k, 1)]
  BY DEF AddItem
<1> QED
  BY <1>1, <1>2, <1>3, <1>4 DEF Inventory

LEMMA WornTyped ==
  ASSUME NEW inventory \in Inventory
  PROVE  Worn(inventory) \in [BodySlot -> Kind \cup {NoItem}]
<1>1. ASSUME NEW s \in BodySlot, inventory[s] # NoItem
      PROVE  inventory[s].kind \in Kind
  <2>1. inventory[s] \in Stack
    BY SlotAssumption DEF Inventory
  <2> QED
    BY <1>1, <2>1, StackCases
<1> QED
  BY <1>1 DEF Worn

LEMMA BroadcastTyped ==
  ASSUME TypeOK, NEW places, slots' \in [Holder -> Inventory], Broadcast(places)
  PROVE  view' \in [Player -> [Holder -> Inventory \cup {Closed}]]
<1>1. view \in [Player -> [Holder -> Inventory \cup {Closed}]]
  BY DEF TypeOK
<1>2. ASSUME NEW q \in Player, NEW g \in Holder, view[q][g] # Closed
      PROVE  [s \in Slot |-> IF \E i \in DOMAIN places : places[i] = <<g, s>>
                             THEN slots'[g][s] ELSE view[q][g][s]] \in Inventory
  <2>1. view[q][g] \in Inventory /\ slots'[g] \in Inventory
    BY <1>1, <1>2
  <2> QED
    BY <2>1 DEF Inventory
<1> QED
  BY <1>1, <1>2 DEF Broadcast

LEMMA SkinTyped ==
  ASSUME TypeOK, NEW p \in Player, NEW places, slots' \in [Holder -> Inventory],
         AfterInventoryModified(p, places)
  PROVE  /\ skin' \in [Player -> [BodySlot -> Kind \cup {NoItem}]]
         /\ unrefreshed' \in SUBSET Player
         /\ server' \in {"active"} \cup Panics
<1>1. slots'[p] \in Inventory
  BY DEF Holder
<1>2. Worn(slots'[p]) \in [BodySlot -> Kind \cup {NoItem}]
  BY <1>1, WornTyped
<1> QED
  BY <1>2 DEF AfterInventoryModified, TypeOK, Panics

\* An action of a player is a closing, a drop or a move.
LEMMA ActionCases ==
  ASSUME TypeOK, NEW p \in Player, OnInventoryAction(p)
  PROVE  \/ \E b \in Box : Close(p, b)
         \/ \E h \in Holder, s \in Slot : \E n : Drop(p, h, s, n)
         \/ \E from \in Holder, s \in Slot, to \in Holder, t \in Slot :
              \E n : Move(p, from, s, to, t, n)
<1>1. PICK h \in Holder :
        \/ Close(p, h)
        \/ \E s \in Slot :
             \/ QuickAction(p, h, s)
             \/ \E n : Drop(p, h, s, n)
             \/ \E to \in Holder, t \in Slot : \E n : Move(p, h, s, to, t, n)
  BY DEF OnInventoryAction, ApplyAction
<1>2. CASE Close(p, h)
  BY <1>2 DEF Close
<1>3. ASSUME NEW s \in Slot, QuickAction(p, h, s)
      PROVE  \/ Close(p, h)
             \/ \E t \in Slot : \E n : Move(p, h, s, h, t, n)
  <2>1. CASE slots[h][s] # NoItem /\ QuickTargets(slots[h], s) # {}
    <3>1. slots[h][s].kind \in Kind
      BY <2>1, StackCases DEF TypeOK, Inventory
    <3>2. QuickTargets(slots[h], s) \subseteq Slot
      BY <3>1, SlotAssumption DEF QuickTargets
    <3> QED
      BY <1>3, <2>1, <3>2 DEF QuickAction
  <2>2. CASE ~(slots[h][s] # NoItem /\ QuickTargets(slots[h], s) # {})
    BY <1>3, <2>2 DEF QuickAction
  <2> QED
    BY <2>1, <2>2
<1> QED
  BY <1>1, <1>2, <1>3 DEF Close

-----------------------------------------------------------------------------
(* The type invariant.                                                     *)

LEMMA InitTypeOK == Init => TypeOK
<1> SUFFICES ASSUME Init PROVE TypeOK
  OBVIOUS
<1>1. slots \in [Holder -> Inventory]
  BY EmptyTyped, InventoryAssumption DEF Init, Holder
<1>2. view \in [Player -> [Holder -> Inventory \cup {Closed}]]
  BY DEF Init
<1>3. skin \in [Player -> [BodySlot -> Kind \cup {NoItem}]]
  BY EmptyTyped, WornTyped DEF Init
<1> QED
  BY <1>1, <1>2, <1>3 DEF Init, TypeOK

LEMMA ActionTypeOK ==
  ASSUME TypeOK, NEW p \in Player, OnInventoryAction(p)
  PROVE  TypeOK'
<1>1. ASSUME NEW b \in Box, Close(p, b) PROVE TypeOK'
  BY <1>1 DEF Close, CloseInventory, TypeOK
<1>2. ASSUME NEW h \in Holder, NEW s \in Slot, NEW n, Drop(p, h, s, n) PROVE TypeOK'
  <2>1. slots' \in [Holder -> Inventory] /\ n \in Nat /\ slots[h][s].kind \in Kind
    BY <1>2, DropSlots, StackCases
  <2>2. supply' \in [Kind -> Int]
    BY <1>2, <2>1 DEF Drop, TypeOK
  <2>3. view' \in [Player -> [Holder -> Inventory \cup {Closed}]]
    BY <1>2, <2>1, BroadcastTyped DEF Drop
  <2>4. /\ skin' \in [Player -> [BodySlot -> Kind \cup {NoItem}]]
        /\ unrefreshed' \in SUBSET Player
        /\ server' \in {"active"} \cup Panics
    BY <1>2, <2>1, SkinTyped DEF Drop
  <2> QED
    BY <1>2, <2>1, <2>2, <2>3, <2>4 DEF Drop, TypeOK
<1>3. ASSUME NEW from \in Holder, NEW s \in Slot, NEW to \in Holder, NEW t \in Slot,
             NEW n, Move(p, from, s, to, t, n)
      PROVE  TypeOK'
  <2>1. slots' \in [Holder -> Inventory]
    BY <1>3, MoveSlots
  <2>2. view' \in [Player -> [Holder -> Inventory \cup {Closed}]]
    BY <1>3, <2>1, BroadcastTyped DEF Move
  <2>3. /\ skin' \in [Player -> [BodySlot -> Kind \cup {NoItem}]]
        /\ unrefreshed' \in SUBSET Player
        /\ server' \in {"active"} \cup Panics
    BY <1>3, <2>1, SkinTyped DEF Move
  <2> QED
    BY <1>3, <2>1, <2>2, <2>3 DEF Move, TypeOK
<1> QED
  BY <1>1, <1>2, <1>3, ActionCases

LEMMA PlayerStepTypeOK ==
  ASSUME TypeOK, NEW p \in Player, PlayerStep(p)
  PROVE  TypeOK'
<1>1. CASE OnConnectionInfo(p)
  BY <1>1 DEF OnConnectionInfo, TypeOK
<1>2. CASE SpawnPlayer(p)
  <2>1. Worn(slots[p]) \in [BodySlot -> Kind \cup {NoItem}]
    BY WornTyped DEF TypeOK, Holder
  <2> QED
    BY <1>2, <2>1 DEF SpawnPlayer, TypeOK
<1>3. CASE OnDisconnect(p)
  BY <1>3 DEF OnDisconnect, UnwatchEntity, TypeOK, Panics
<1>4. CASE OnInventoryAction(p)
  BY <1>4, ActionTypeOK
<1>5. CASE CommandClear(p)
  <2>1. \A k \in Kind : Held(slots[p], k) \in Int
    BY HeldTyped DEF TypeOK, Holder
  <2>2. cleared' \in [Kind -> Int]
    BY <1>5, <2>1 DEF CommandClear, TypeOK
  <2> QED
    BY <1>5, <2>2, EmptyTyped DEF CommandClear, TypeOK, Holder
<1>6. ASSUME NEW b \in Box, OpenInventory(p, b) PROVE TypeOK'
  BY <1>6 DEF OpenInventory, StartStream, TypeOK, Holder
<1>7. ASSUME NEW b \in Box, PluginClosesInventory(p, b) PROVE TypeOK'
  BY <1>7 DEF PluginClosesInventory, CloseInventory, TypeOK
<1> QED
  BY <1>1, <1>2, <1>3, <1>4, <1>5, <1>6, <1>7 DEF PlayerStep

LEMMA WorldStepTypeOK ==
  ASSUME TypeOK,
         \/ RegisterLoadedChunks \/ OnChunkLoaded
         \/ \E ch \in Chunk : CreateColumn(ch) \/ LoadChunk(ch) \/ DespawnChunk(ch)
         \/ \E b \in Box : GetOrCreateInventory(b)
         \/ \E h \in Holder, s \in Slot, k \in Kind : AddItem(h, s, k)
  PROVE  TypeOK'
<1>1. CASE RegisterLoadedChunks
  BY <1>1 DEF RegisterLoadedChunks, InventoriesOf, TypeOK, Panics
<1>2. CASE OnChunkLoaded
  BY <1>2 DEF OnChunkLoaded, TypeOK
<1>3. ASSUME NEW ch \in Chunk, CreateColumn(ch) PROVE TypeOK'
  BY <1>3 DEF CreateColumn, TypeOK
<1>4. ASSUME NEW ch \in Chunk, LoadChunk(ch) PROVE TypeOK'
  BY <1>4 DEF LoadChunk, TypeOK
<1>5. ASSUME NEW ch \in Chunk, DespawnChunk(ch) PROVE TypeOK'
  BY <1>5 DEF DespawnChunk, Unregister, UnwatchInventories, TypeOK
<1>6. ASSUME NEW b \in Box, GetOrCreateInventory(b) PROVE TypeOK'
  BY <1>6 DEF GetOrCreateInventory, TypeOK, Panics
<1>7. ASSUME NEW h \in Holder, NEW s \in Slot, NEW k \in Kind, AddItem(h, s, k)
      PROVE  TypeOK'
  <2>1. slots' \in [Holder -> Inventory]
    BY <1>7, AddItemSlots
  <2>2. view' \in [Player -> [Holder -> Inventory \cup {Closed}]]
    BY <1>7, <2>1, BroadcastTyped DEF AddItem
  <2> QED
    BY <1>7, <2>1, <2>2 DEF AddItem, TypeOK
<1> QED
  BY <1>1, <1>2, <1>3, <1>4, <1>5, <1>6, <1>7

LEMMA StutterTypeOK == TypeOK /\ UNCHANGED vars => TypeOK'
  BY DEF TypeOK

\* Every variable of Inventories always has its type.
THEOREM TypeCorrect == Spec => []TypeOK
<1>1. TypeOK /\ [Next]_vars => TypeOK'
  BY PlayerStepTypeOK, WorldStepTypeOK, StutterTypeOK DEF Next
<1> QED
  BY InitTypeOK, <1>1, PTL DEF Spec

-----------------------------------------------------------------------------
(* Watchers.                                                               *)

LEMMA PlayerStepWatchers ==
  ASSUME TypeOK, WatchersAccounted, NEW p \in Player, PlayerStep(p)
  PROVE  WatchersAccounted'
<1>1. CASE OnConnectionInfo(p)
  BY <1>1 DEF OnConnectionInfo, WatchersAccounted, TypeOK
<1>2. CASE SpawnPlayer(p)
  BY <1>2 DEF SpawnPlayer, WatchersAccounted, TypeOK
<1>3. CASE OnDisconnect(p)
  BY <1>3 DEF OnDisconnect, UnwatchEntity, WatchersAccounted, TypeOK
<1>4. CASE OnInventoryAction(p)
  <2>1. ASSUME NEW b \in Box, Close(p, b) PROVE WatchersAccounted'
    BY <2>1 DEF Close, CloseInventory, WatchersAccounted, TypeOK
  <2>2. ASSUME NEW h, NEW s, NEW n, Drop(p, h, s, n) PROVE WatchersAccounted'
    BY <2>2 DEF Drop, WatchersAccounted
  <2>3. ASSUME NEW from, NEW s, NEW to, NEW t, NEW n, Move(p, from, s, to, t, n)
        PROVE  WatchersAccounted'
    BY <2>3 DEF Move, WatchersAccounted
  <2> QED
    BY <1>4, <2>1, <2>2, <2>3, ActionCases
<1>5. CASE CommandClear(p)
  BY <1>5 DEF CommandClear, WatchersAccounted
<1>6. ASSUME NEW b \in Box, OpenInventory(p, b) PROVE WatchersAccounted'
  BY <1>6 DEF OpenInventory, WatchersAccounted, TypeOK
<1>7. ASSUME NEW b \in Box, PluginClosesInventory(p, b) PROVE WatchersAccounted'
  BY <1>7 DEF PluginClosesInventory, CloseInventory, WatchersAccounted, TypeOK
<1> QED
  BY <1>1, <1>2, <1>3, <1>4, <1>5, <1>6, <1>7 DEF PlayerStep

LEMMA WorldStepWatchers ==
  ASSUME TypeOK, WatchersAccounted,
         \/ RegisterLoadedChunks \/ OnChunkLoaded
         \/ \E ch \in Chunk : CreateColumn(ch) \/ LoadChunk(ch) \/ DespawnChunk(ch)
         \/ \E b \in Box : GetOrCreateInventory(b)
         \/ \E h \in Holder, s \in Slot, k \in Kind : AddItem(h, s, k)
  PROVE  WatchersAccounted'
<1>1. CASE RegisterLoadedChunks
  BY <1>1 DEF RegisterLoadedChunks, WatchersAccounted
<1>2. CASE OnChunkLoaded
  BY <1>2 DEF OnChunkLoaded, WatchersAccounted
<1>3. ASSUME NEW ch \in Chunk, CreateColumn(ch) \/ LoadChunk(ch)
      PROVE  WatchersAccounted'
  BY <1>3 DEF CreateColumn, LoadChunk, WatchersAccounted
<1>4. ASSUME NEW ch \in Chunk, DespawnChunk(ch) PROVE WatchersAccounted'
  BY <1>4 DEF DespawnChunk, Unregister, UnwatchInventories, WatchersAccounted, TypeOK
<1>5. ASSUME NEW b \in Box, GetOrCreateInventory(b) PROVE WatchersAccounted'
  BY <1>5 DEF GetOrCreateInventory, WatchersAccounted
<1>6. ASSUME NEW h \in Holder, NEW s \in Slot, NEW k \in Kind, AddItem(h, s, k)
      PROVE  WatchersAccounted'
  BY <1>6 DEF AddItem, WatchersAccounted
<1> QED
  BY <1>1, <1>2, <1>3, <1>4, <1>5, <1>6

\* Both maps of the watchers agree, and who watches has an entity and watches a
\* registered box, whatever players, chunks and plugins do.
THEOREM WatchersAccountedHolds == Spec => []WatchersAccounted
<1>1. Init => WatchersAccounted
  BY DEF Init, WatchersAccounted
<1>2. TypeOK /\ WatchersAccounted /\ [Next]_vars => WatchersAccounted'
  <2>1. WatchersAccounted /\ UNCHANGED vars => WatchersAccounted'
    BY DEF WatchersAccounted
  <2> QED
    BY <2>1, PlayerStepWatchers, WorldStepWatchers DEF Next
<1> QED
  BY <1>1, <1>2, TypeCorrect, PTL DEF Spec

-----------------------------------------------------------------------------
(* The registry and the columns.  The channel of loaded chunks never names *)
(* a column that is loading: a column is created only when the channel has *)
(* no entry of its chunk.  Hence what is registered is in memory, and a    *)
(* chunk that enters the channel has nothing registered yet.               *)

EntriesLoaded == \A ch \in loaded_chunks : column[ch] # "loading"

RegistryInv == RegisteredInMemory /\ ChannelUnregistered /\ EntriesLoaded

LEMMA WorldStepRegistry ==
  ASSUME TypeOK, RegistryInv,
         \/ RegisterLoadedChunks \/ OnChunkLoaded
         \/ \E ch \in Chunk : CreateColumn(ch) \/ LoadChunk(ch) \/ DespawnChunk(ch)
         \/ \E b \in Box : GetOrCreateInventory(b)
         \/ \E h \in Holder, s \in Slot, k \in Kind : AddItem(h, s, k)
  PROVE  RegistryInv'
<1> USE InventoryAssumption
    DEF RegistryInv, RegisteredInMemory, ChannelUnregistered, EntriesLoaded, TypeOK
<1>1. CASE RegisterLoadedChunks
  BY <1>1 DEF RegisterLoadedChunks, InventoriesOf
<1>2. CASE OnChunkLoaded
  BY <1>2 DEF OnChunkLoaded
<1>3. ASSUME NEW ch \in Chunk, CreateColumn(ch) PROVE RegistryInv'
  BY <1>3 DEF CreateColumn
<1>4. ASSUME NEW ch \in Chunk, LoadChunk(ch) PROVE RegistryInv'
  BY <1>4 DEF LoadChunk
<1>5. ASSUME NEW ch \in Chunk, DespawnChunk(ch) PROVE RegistryInv'
  BY <1>5 DEF DespawnChunk, Unregister, InventoriesOf
<1>6. ASSUME NEW b \in Box, GetOrCreateInventory(b) PROVE RegistryInv'
  BY <1>6 DEF GetOrCreateInventory
<1>7. ASSUME NEW h \in Holder, NEW s \in Slot, NEW k \in Kind, AddItem(h, s, k)
      PROVE  RegistryInv'
  BY <1>7 DEF AddItem
<1> QED
  BY <1>1, <1>2, <1>3, <1>4, <1>5, <1>6, <1>7

LEMMA PlayerStepRegistry ==
  ASSUME TypeOK, NEW p \in Player, PlayerStep(p)
  PROVE  UNCHANGED <<column, loaded_chunks, registry>>
<1> DEFINE Kept == UNCHANGED <<column, loaded_chunks, registry>>
<1>1. ASSUME OnInventoryAction(p) PROVE Kept
  <2>1. ASSUME NEW b \in Box, Close(p, b) PROVE Kept
    BY <2>1 DEF Close
  <2>2. ASSUME NEW h, NEW s, NEW n, Drop(p, h, s, n) PROVE Kept
    BY <2>2 DEF Drop
  <2>3. ASSUME NEW from, NEW s, NEW to, NEW t, NEW n, Move(p, from, s, to, t, n)
        PROVE  Kept
    BY <2>3 DEF Move
  <2> HIDE DEF Kept
  <2> QED
    BY <1>1, <2>1, <2>2, <2>3, ActionCases
<1>2. ASSUME OnConnectionInfo(p) \/ SpawnPlayer(p) \/ OnDisconnect(p) \/ CommandClear(p)
      PROVE  Kept
  BY <1>2 DEF OnConnectionInfo, SpawnPlayer, OnDisconnect, CommandClear
<1>3. ASSUME NEW b \in Box, OpenInventory(p, b) \/ PluginClosesInventory(p, b)
      PROVE  Kept
  BY <1>3 DEF OpenInventory, PluginClosesInventory
<1> HIDE DEF Kept
<1>4. Kept
  BY <1>1, <1>2, <1>3 DEF PlayerStep
<1> QED
  BY <1>4 DEF Kept

LEMMA RegistryHolds == Spec => []RegistryInv
<1>1. Init => RegistryInv
  BY DEF Init, RegistryInv, RegisteredInMemory, ChannelUnregistered, EntriesLoaded
<1>2. TypeOK /\ RegistryInv /\ [Next]_vars => RegistryInv'
  <2>1. RegistryInv /\ UNCHANGED <<column, loaded_chunks, registry>> => RegistryInv'
    BY DEF RegistryInv, RegisteredInMemory, ChannelUnregistered, EntriesLoaded
  <2> QED
    BY <2>1, PlayerStepRegistry, WorldStepRegistry DEF Next
<1> QED
  BY <1>1, <1>2, TypeCorrect, PTL DEF Spec

\* A registered inventory is always in the data of a column in memory.
THEOREM RegisteredInMemoryHolds == Spec => []RegisteredInMemory
  BY RegistryHolds, PTL DEF RegistryInv

\* What the channel names is not registered, but for the boxes that plugins asked
\* for too early.
THEOREM ChannelUnregisteredHolds == Spec => []ChannelUnregistered
  BY RegistryHolds, PTL DEF RegistryInv

-----------------------------------------------------------------------------
(* Windows.                                                                *)

\* The inventories a player sees.
Seen(p) == {p} \cup by_entity[p]

LEMMA BroadcastKeepsViews ==
  ASSUME TypeOK, WatchersAccounted, ViewsCurrent, NEW places, Broadcast(places),
         slots' \in [Holder -> Inventory],
         \A g \in Holder, t \in Slot :
           (\A i \in DOMAIN places : places[i] # <<g, t>>) => slots'[g][t] = slots[g][t],
         UNCHANGED <<phase, by_entity>>
  PROVE  ViewsCurrent'
<1> SUFFICES ASSUME NEW q \in Player, phase[q] # "gone", NEW g \in Seen(q)
             PROVE  view'[q][g] = slots'[g]
  BY DEF ViewsCurrent, Seen
<1>1. g \in Holder
  BY DEF Seen, Holder, TypeOK
<1>2. q \in Audience(g)
  <2>1. CASE g \in Player
    <3>1. g = q
      BY <2>1, InventoryAssumption DEF Seen, TypeOK
    <3> QED
      BY <2>1, <3>1 DEF Audience
  <2>2. CASE g \notin Player
    BY <2>2 DEF Audience, Seen, WatchersAccounted, TypeOK
  <2> QED
    BY <2>1, <2>2
<1>3. view[q][g] = slots[g] /\ slots[g] \in Inventory
  BY <1>1 DEF ViewsCurrent, Seen, TypeOK
<1>4. view[q][g] # Closed
  BY <1>3, InventoryAssumption
<1>5. view'[q][g] = [s \in Slot |-> IF \E i \in DOMAIN places : places[i] = <<g, s>>
                                    THEN slots'[g][s] ELSE view[q][g][s]]
  BY <1>1, <1>2, <1>4 DEF Broadcast
<1>6. \A s \in Slot : view'[q][g][s] = slots'[g][s]
  BY <1>1, <1>3, <1>5
<1>7. slots'[g] \in [Slot -> Stack] /\ view'[q][g] = [s \in Slot |-> view'[q][g][s]]
  BY <1>1, <1>5 DEF Inventory
<1> QED
  BY <1>6, <1>7

LEMMA ActionViews ==
  ASSUME TypeOK, WatchersAccounted, ViewsCurrent, NEW p \in Player, OnInventoryAction(p)
  PROVE  ViewsCurrent'
<1>1. ASSUME NEW b \in Box, Close(p, b) PROVE ViewsCurrent'
  BY <1>1, InventoryAssumption DEF Close, CloseInventory, ViewsCurrent, TypeOK, Holder
<1>2. ASSUME NEW h \in Holder, NEW s \in Slot, NEW n, Drop(p, h, s, n)
      PROVE  ViewsCurrent'
  <2> DEFINE places == << <<h, s>> >>
  <2>1. /\ slots' \in [Holder -> Inventory]
        /\ \A g \in Holder, t \in Slot :
             <<g, t>> # <<h, s>> => slots'[g][t] = slots[g][t]
    BY <1>2, DropSlots
  <2>2. 1 \in DOMAIN places /\ places[1] = <<h, s>>
    OBVIOUS
  <2>3. Broadcast(places) /\ UNCHANGED <<phase, by_entity>>
    BY <1>2 DEF Drop
  <2> HIDE DEF places
  <2> QED
    BY <2>1, <2>2, <2>3, BroadcastKeepsViews
<1>3. ASSUME NEW from \in Holder, NEW s \in Slot, NEW to \in Holder, NEW t \in Slot,
             NEW n, Move(p, from, s, to, t, n)
      PROVE  ViewsCurrent'
  <2> DEFINE places == << <<from, s>>, <<to, t>> >>
  <2>1. /\ slots' \in [Holder -> Inventory]
        /\ \A g \in Holder, u \in Slot :
             <<g, u>> # <<from, s>> /\ <<g, u>> # <<to, t>> => slots'[g][u] = slots[g][u]
    BY <1>3, MoveSlots
  <2>2. /\ 1 \in DOMAIN places /\ places[1] = <<from, s>>
        /\ 2 \in DOMAIN places /\ places[2] = <<to, t>>
    OBVIOUS
  <2>3. Broadcast(places) /\ UNCHANGED <<phase, by_entity>>
    BY <1>3 DEF Move
  <2> HIDE DEF places
  <2> QED
    BY <2>1, <2>2, <2>3, BroadcastKeepsViews
<1> QED
  BY <1>1, <1>2, <1>3, ActionCases

LEMMA PlayerStepViews ==
  ASSUME TypeOK, WatchersAccounted, ViewsCurrent, NEW p \in Player, PlayerStep(p)
  PROVE  ViewsCurrent'
<1>1. CASE OnConnectionInfo(p)
  <2>1. by_entity[p] = {}
    BY <1>1 DEF OnConnectionInfo, WatchersAccounted, TypeOK
  <2> QED
    BY <1>1, <2>1 DEF OnConnectionInfo, ViewsCurrent, TypeOK, Holder
<1>2. CASE SpawnPlayer(p)
  BY <1>2 DEF SpawnPlayer, ViewsCurrent, TypeOK
<1>3. CASE OnDisconnect(p)
  BY <1>3 DEF OnDisconnect, UnwatchEntity, ViewsCurrent, TypeOK
<1>4. CASE OnInventoryAction(p)
  BY <1>4, ActionViews
<1>5. CASE CommandClear(p)
  <2>1. p \in Holder /\ \A q \in Player : q # p => p \notin Seen(q)
    BY InventoryAssumption DEF Seen, Holder, TypeOK
  <2> QED
    BY <1>5, <2>1 DEF CommandClear, ViewsCurrent, TypeOK, Seen, Holder
<1>6. ASSUME NEW b \in Box, OpenInventory(p, b) PROVE ViewsCurrent'
  BY <1>6, InventoryAssumption
  DEF OpenInventory, StartStream, ViewsCurrent, TypeOK, Holder
<1>7. ASSUME NEW b \in Box, PluginClosesInventory(p, b) PROVE ViewsCurrent'
  BY <1>7, InventoryAssumption
  DEF PluginClosesInventory, CloseInventory, ViewsCurrent, TypeOK, Holder
<1> QED
  BY <1>1, <1>2, <1>3, <1>4, <1>5, <1>6, <1>7 DEF PlayerStep

LEMMA WorldStepViews ==
  ASSUME TypeOK, WatchersAccounted, ViewsCurrent,
         \/ RegisterLoadedChunks \/ OnChunkLoaded
         \/ \E ch \in Chunk : CreateColumn(ch) \/ LoadChunk(ch) \/ DespawnChunk(ch)
         \/ \E b \in Box : GetOrCreateInventory(b)
         \/ \E h \in Holder, s \in Slot, k \in Kind : AddItem(h, s, k)
  PROVE  ViewsCurrent'
<1>1. CASE RegisterLoadedChunks \/ OnChunkLoaded
  BY <1>1 DEF RegisterLoadedChunks, OnChunkLoaded, ViewsCurrent
<1>2. ASSUME NEW ch \in Chunk, CreateColumn(ch) \/ LoadChunk(ch) PROVE ViewsCurrent'
  BY <1>2 DEF CreateColumn, LoadChunk, ViewsCurrent
<1>3. ASSUME NEW ch \in Chunk, DespawnChunk(ch) PROVE ViewsCurrent'
  BY <1>3 DEF DespawnChunk, Unregister, UnwatchInventories, ViewsCurrent
<1>4. ASSUME NEW b \in Box, GetOrCreateInventory(b) PROVE ViewsCurrent'
  BY <1>4 DEF GetOrCreateInventory, ViewsCurrent
<1>5. ASSUME NEW h \in Holder, NEW s \in Slot, NEW k \in Kind, AddItem(h, s, k)
      PROVE  ViewsCurrent'
  <2> DEFINE places == << <<h, s>> >>
  <2>1. /\ slots' \in [Holder -> Inventory]
        /\ \A g \in Holder, t \in Slot :
             <<g, t>> # <<h, s>> => slots'[g][t] = slots[g][t]
    BY <1>5, AddItemSlots
  <2>2. 1 \in DOMAIN places /\ places[1] = <<h, s>>
    OBVIOUS
  <2>3. Broadcast(places) /\ UNCHANGED <<phase, by_entity>>
    BY <1>5 DEF AddItem
  <2> HIDE DEF places
  <2> QED
    BY <2>1, <2>2, <2>3, BroadcastKeepsViews
<1> QED
  BY <1>1, <1>2, <1>3, <1>4, <1>5

\* Every client always shows its own inventory and the boxes it watches as they
\* are, for any number of viewers.
THEOREM ViewsCurrentHolds == Spec => []ViewsCurrent
<1>1. Init => ViewsCurrent
  BY DEF Init, ViewsCurrent
<1>2. TypeOK /\ WatchersAccounted /\ ViewsCurrent /\ [Next]_vars => ViewsCurrent'
  <2>1. ViewsCurrent /\ UNCHANGED vars => ViewsCurrent'
    BY DEF ViewsCurrent
  <2> QED
    BY <2>1, PlayerStepViews, WorldStepViews DEF Next
<1> QED
  BY <1>1, <1>2, TypeCorrect, WatchersAccountedHolds, PTL DEF Spec

-----------------------------------------------------------------------------
(* Stacks stay within their size.                                          *)

LEMMA BoundedStacks == StacksBounded <=> \A h \in Holder, s \in Slot : Bounded(slots[h][s])
  BY DEF StacksBounded, Bounded

LEMMA ActionStacks ==
  ASSUME TypeOK, StacksBounded, NEW p \in Player, OnInventoryAction(p)
  PROVE  StacksBounded'
<1>1. ASSUME NEW b \in Box, Close(p, b) PROVE StacksBounded'
  BY <1>1 DEF Close, StacksBounded
<1>2. ASSUME NEW h \in Holder, NEW s \in Slot, NEW n, Drop(p, h, s, n)
      PROVE  StacksBounded'
  <2>1. Bounded(slots'[h][s])
    BY <1>2, BoundedStacks, DropSlots, LessProperties
  <2>2. \A g \in Holder, t \in Slot : Bounded(slots'[g][t])
    BY <1>2, <2>1, BoundedStacks, DropSlots
  <2> QED
    BY <2>2 DEF StacksBounded, Bounded
<1>3. ASSUME NEW from \in Holder, NEW s \in Slot, NEW to \in Holder, NEW t \in Slot,
             NEW n, Move(p, from, s, to, t, n)
      PROVE  StacksBounded'
  <2>1. Bounded(slots'[from][s]) /\ Bounded(slots'[to][t])
    BY <1>3, BoundedStacks, MoveSlots, MovedProperties
  <2>2. \A g \in Holder, u \in Slot : Bounded(slots'[g][u])
    BY <1>3, <2>1, BoundedStacks, MoveSlots
  <2> QED
    BY <2>2 DEF StacksBounded, Bounded
<1> QED
  BY <1>1, <1>2, <1>3, ActionCases

\* No inventory action, gift or command makes a stack exceed the size of its
\* kind.
THEOREM StacksBoundedHolds == Spec => []StacksBounded
<1>1. Init => StacksBounded
  BY StoredAssumption DEF Init, StacksBounded, EmptyInventory, Holder
<1>2. TypeOK /\ StacksBounded /\ [Next]_vars => StacksBounded'
  <2> SUFFICES ASSUME TypeOK, StacksBounded, [Next]_vars PROVE StacksBounded'
    OBVIOUS
  <2>1. CASE UNCHANGED slots
    BY <2>1 DEF StacksBounded
  <2>2. ASSUME NEW p \in Player, OnInventoryAction(p) PROVE StacksBounded'
    BY <2>2, ActionStacks
  <2>3. ASSUME NEW p \in Player, CommandClear(p) PROVE StacksBounded'
    BY <2>3 DEF CommandClear, StacksBounded, EmptyInventory, TypeOK
  <2>4. ASSUME NEW h \in Holder, NEW s \in Slot, NEW k \in Kind, AddItem(h, s, k)
        PROVE  StacksBounded'
    <3>1. Amount(slots[h][s], k) \in Nat /\ MaxStack[k] \in Nat
      BY <2>4, AddItemSlots, AmountTyped, SlotAssumption
    <3>2. Amount(slots[h][s], k) + 1 <= MaxStack[k]
      BY <2>4, <3>1 DEF AddItem
    <3>3. Bounded(slots'[h][s])
      BY <2>4, <3>2, AddItemSlots, MoreProperties
    <3>4. \A g \in Holder, t \in Slot : Bounded(slots'[g][t])
      BY <2>4, <3>3, BoundedStacks, AddItemSlots
    <3> QED
      BY <3>4 DEF StacksBounded, Bounded
  <2>5. ASSUME NEW p \in Player,
               \/ OnConnectionInfo(p) \/ SpawnPlayer(p) \/ OnDisconnect(p)
               \/ \E b \in Box : OpenInventory(p, b) \/ PluginClosesInventory(p, b)
        PROVE  UNCHANGED slots
    BY <2>5 DEF OnConnectionInfo, SpawnPlayer, OnDisconnect, OpenInventory,
                PluginClosesInventory
  <2>6. ASSUME \/ RegisterLoadedChunks \/ OnChunkLoaded
               \/ \E ch \in Chunk : CreateColumn(ch) \/ LoadChunk(ch) \/ DespawnChunk(ch)
               \/ \E b \in Box : GetOrCreateInventory(b)
        PROVE  UNCHANGED slots
    BY <2>6 DEF RegisterLoadedChunks, OnChunkLoaded, CreateColumn, LoadChunk,
                DespawnChunk, GetOrCreateInventory
  <2> QED
    BY <2>1, <2>2, <2>3, <2>4, <2>5, <2>6 DEF Next, PlayerStep
<1> QED
  BY <1>1, <1>2, TypeCorrect, PTL DEF Spec

-----------------------------------------------------------------------------
(* No item is created or lost.                                             *)

\* What the players started with.
Stored(k) == SumFunction([p \in Player |-> Held(StoredSlots[p], k)])

\* ItemsConserved, for one kind.
Balanced(k) == Total(slots, k) = Stored(k) + supply[k] - cleared[k]

LEMMA ConservedIsBalanced == ItemsConserved <=> \A k \in Kind : Balanced(k)
  BY DEF ItemsConserved, Balanced, Total, Stored

LEMMA StoredTyped ==
  ASSUME NEW k \in Kind
  PROVE  Stored(k) \in Int
<1> DEFINE f == [p \in Player |-> Held(StoredSlots[p], k)]
<1>1. \A p \in Player : f[p] \in Int
  BY HeldTyped, InventoryAssumption
<1>2. Stored(k) = SumOn(f, Player)
  BY SumFunctionIsSumOn DEF Stored
<1> HIDE DEF f
<1> QED
  BY <1>1, <1>2, SumTyped, FiniteAssumption

LEMMA InitBalanced ==
  ASSUME Init, NEW k \in Kind
  PROVE  Balanced(k)
<1> DEFINE f == [h \in Holder |-> Held(slots[h], k)]
           g == [p \in Player |-> Held(StoredSlots[p], k)]
<1>1. Total(slots, k) = SumOn(f, Holder) /\ Stored(k) = SumOn(g, Player)
  BY SumFunctionIsSumOn DEF Total, Stored
<1>2. Player \subseteq Holder
  BY DEF Holder
<1>3. ASSUME NEW p \in Player PROVE f[p] = g[p] /\ f[p] \in Int
  BY <1>2, HeldTyped, InventoryAssumption DEF Init
<1>4. ASSUME NEW h \in Holder \ Player PROVE f[h] = 0
  BY HeldEmpty DEF Init
<1> HIDE DEF f, g
<1>5. SumOn(f, Holder) = SumOn(f, Player)
  BY <1>2, <1>3, <1>4, SumSupport, FiniteHolders
<1>6. SumOn(f, Player) = SumOn(g, Player)
  BY <1>3, SumSame, FiniteAssumption
<1>7. supply[k] = 0 /\ cleared[k] = 0
  BY DEF Init
<1> QED
  BY <1>1, <1>5, <1>6, <1>7, StoredTyped DEF Balanced

\* Both places of a move change, and what one loses the other gets.
LEMMA MoveBalanced ==
  ASSUME TypeOK, NEW k \in Kind, Balanced(k), NEW p \in Player,
         NEW from \in Holder, NEW from_slot \in Slot,
         NEW to \in Holder, NEW to_slot \in Slot, NEW n,
         Move(p, from, from_slot, to, to_slot, n)
  PROVE  Balanced(k)'
<1> DEFINE between == [slots EXCEPT ![from][from_slot] = slots'[from][from_slot]]
<1>1. slots \in [Holder -> Inventory] /\ slots' \in [Holder -> Inventory]
  BY MoveSlots DEF TypeOK
<1>2. <<from, from_slot>> # <<to, to_slot>>
  BY DEF Move
<1>3. slots'[from][from_slot] \in Stack /\ slots'[to][to_slot] \in Stack
  BY <1>1 DEF Inventory
<1>4. between \in [Holder -> Inventory]
  BY <1>1, <1>3 DEF Inventory
<1>5. \A h \in Holder, s \in Slot :
        between[h][s] = IF <<h, s>> = <<from, from_slot>> THEN slots'[h][s] ELSE slots[h][s]
  BY <1>1 DEF Inventory
<1> HIDE DEF between
<1>6. Total(between, k) = Total(slots, k) + Amount(slots'[from][from_slot], k)
                            - Amount(slots[from][from_slot], k)
  BY <1>1, <1>4, <1>5, PlaceChange
<1>7. Total(slots', k) = Total(between, k) + Amount(slots'[to][to_slot], k)
                           - Amount(slots[to][to_slot], k)
  <2>1. \A h \in Holder, s \in Slot :
          <<h, s>> # <<to, to_slot>> => slots'[h][s] = between[h][s]
    BY <1>5, MoveSlots
  <2>2. between[to][to_slot] = slots[to][to_slot]
    BY <1>2, <1>5
  <2> QED
    BY <1>1, <1>4, <2>1, <2>2, PlaceChange
<1>8. Amount(slots'[from][from_slot], k) + Amount(slots'[to][to_slot], k)
        = Amount(slots[from][from_slot], k) + Amount(slots[to][to_slot], k)
  BY MoveSlots, MovedProperties
<1>9. \A stack \in Stack : Amount(stack, k) \in Int
  BY AmountTyped
<1>10. /\ Total(slots, k) \in Int /\ Total(between, k) \in Int
       /\ slots[from][from_slot] \in Stack /\ slots[to][to_slot] \in Stack
  BY <1>1, <1>4, TotalTyped DEF Inventory
<1>11. Total(slots', k) = Total(slots, k)
  BY <1>3, <1>6, <1>7, <1>8, <1>9, <1>10
<1>12. UNCHANGED <<supply, cleared>>
  BY DEF Move
<1> QED
  BY <1>11, <1>12 DEF Balanced, Total

LEMMA DropBalanced ==
  ASSUME TypeOK, NEW k \in Kind, Balanced(k), NEW p \in Player,
         NEW h \in Holder, NEW s \in Slot, NEW n, Drop(p, h, s, n)
  PROVE  Balanced(k)'
<1>1. /\ slots \in [Holder -> Inventory] /\ slots' \in [Holder -> Inventory]
      /\ slots[h][s] \in Stack /\ slots[h][s] # NoItem
      /\ n \in Nat /\ n <= slots[h][s].amount
      /\ slots'[h][s] = Less(slots[h][s], n)
  BY DropSlots DEF TypeOK
<1>2. Total(slots', k)
        = Total(slots, k) + Amount(slots'[h][s], k) - Amount(slots[h][s], k)
  BY <1>1, DropSlots, PlaceChange
<1>3. Amount(slots'[h][s], k)
        = Amount(slots[h][s], k) - (IF k = slots[h][s].kind THEN n ELSE 0)
  BY <1>1, LessProperties
<1>4. supply'[k] = supply[k] - (IF k = slots[h][s].kind THEN n ELSE 0) /\ UNCHANGED cleared
  BY <1>1 DEF Drop, TypeOK
<1>5. /\ Total(slots, k) \in Int /\ Stored(k) \in Int /\ supply[k] \in Int
      /\ cleared[k] \in Int /\ Amount(slots[h][s], k) \in Int
  BY <1>1, TotalTyped, StoredTyped, AmountTyped DEF TypeOK
<1>6. Total(slots', k) = Stored(k) + supply'[k] - cleared'[k]
  BY <1>1, <1>2, <1>3, <1>4, <1>5 DEF Balanced
<1> QED
  BY <1>6 DEF Balanced, Total

LEMMA AddItemBalanced ==
  ASSUME TypeOK, NEW k \in Kind, Balanced(k),
         NEW h \in Holder, NEW s \in Slot, NEW j \in Kind, AddItem(h, s, j)
  PROVE  Balanced(k)'
<1>1. /\ slots \in [Holder -> Inventory] /\ slots' \in [Holder -> Inventory]
      /\ slots[h][s] \in Stack
  BY AddItemSlots DEF TypeOK
<1>2. Total(slots', k)
        = Total(slots, k) + Amount(slots'[h][s], k) - Amount(slots[h][s], k)
  BY <1>1, AddItemSlots, PlaceChange
<1>3. Amount(slots'[h][s], k) = Amount(slots[h][s], k) + (IF k = j THEN 1 ELSE 0)
  BY AddItemSlots, MoreProperties
<1>4. supply'[k] = supply[k] + (IF k = j THEN 1 ELSE 0) /\ UNCHANGED cleared
  BY DEF AddItem, TypeOK
<1>5. /\ Total(slots, k) \in Int /\ Stored(k) \in Int /\ supply[k] \in Int
      /\ cleared[k] \in Int /\ Amount(slots[h][s], k) \in Int
  BY <1>1, TotalTyped, StoredTyped, AmountTyped DEF TypeOK
<1>6. Total(slots', k) = Stored(k) + supply'[k] - cleared'[k]
  BY <1>2, <1>3, <1>4, <1>5 DEF Balanced
<1> QED
  BY <1>6 DEF Balanced, Total

LEMMA ClearBalanced ==
  ASSUME TypeOK, NEW k \in Kind, Balanced(k), NEW p \in Player, CommandClear(p)
  PROVE  Balanced(k)'
<1>1. p \in Holder /\ slots \in [Holder -> Inventory] /\ slots[p] \in Inventory
  BY DEF TypeOK, Holder
<1>2. slots' = [slots EXCEPT ![p] = EmptyInventory]
  BY DEF CommandClear
<1>3. slots' \in [Holder -> Inventory] /\ slots'[p] = EmptyInventory
  BY <1>1, <1>2, EmptyTyped
<1>4. \A g \in Holder \ {p} : slots'[g] = slots[g]
  BY <1>1, <1>2
<1>5. Total(slots', k) = Total(slots, k) + Held(slots'[p], k) - Held(slots[p], k)
  BY <1>1, <1>3, <1>4, TotalChange
<1>6. Held(slots'[p], k) = 0
  BY <1>3, HeldEmpty
<1>7. supply' = supply /\ cleared'[k] = cleared[k] + Held(slots[p], k)
  BY DEF CommandClear
<1>8. /\ Total(slots, k) \in Int /\ Stored(k) \in Int /\ supply[k] \in Int
      /\ cleared[k] \in Int /\ Held(slots[p], k) \in Int
  BY <1>1, TotalTyped, StoredTyped, HeldTyped DEF TypeOK
<1>9. Total(slots', k) = Stored(k) + supply'[k] - cleared'[k]
  BY <1>5, <1>6, <1>7, <1>8 DEF Balanced
<1> QED
  BY <1>9 DEF Balanced, Total

LEMMA SameBalanced ==
  ASSUME NEW k \in Kind, Balanced(k), UNCHANGED <<slots, supply, cleared>>
  PROVE  Balanced(k)'
  BY DEF Balanced, Total

LEMMA StepBalanced ==
  ASSUME TypeOK, NEW k \in Kind, Balanced(k), Next
  PROVE  Balanced(k)'
<1>1. ASSUME NEW h \in Holder, NEW s \in Slot, NEW j \in Kind, AddItem(h, s, j)
      PROVE  Balanced(k)'
  BY <1>1, AddItemBalanced
<1>2. ASSUME NEW p \in Player, CommandClear(p) PROVE Balanced(k)'
  BY <1>2, ClearBalanced
<1>3. ASSUME NEW p \in Player, OnInventoryAction(p) PROVE Balanced(k)'
  <2>1. ASSUME NEW b \in Box, Close(p, b) PROVE Balanced(k)'
    BY <2>1, SameBalanced DEF Close
  <2>2. ASSUME NEW h \in Holder, NEW s \in Slot, NEW n, Drop(p, h, s, n)
        PROVE  Balanced(k)'
    BY <2>2, DropBalanced
  <2>3. ASSUME NEW from \in Holder, NEW s \in Slot, NEW to \in Holder, NEW t \in Slot,
               NEW n, Move(p, from, s, to, t, n)
        PROVE  Balanced(k)'
    BY <2>3, MoveBalanced
  <2> QED
    BY <1>3, <2>1, <2>2, <2>3, ActionCases
<1>4. ASSUME NEW p \in Player, \/ OnConnectionInfo(p) \/ SpawnPlayer(p) \/ OnDisconnect(p)
                               \/ \E b \in Box : \/ OpenInventory(p, b)
                                                 \/ PluginClosesInventory(p, b)
      PROVE  Balanced(k)'
  <2>1. UNCHANGED <<slots, supply, cleared>>
    BY <1>4 DEF OnConnectionInfo, SpawnPlayer, OnDisconnect, OpenInventory,
                PluginClosesInventory
  <2> QED
    BY <2>1, SameBalanced
<1>5. CASE \/ RegisterLoadedChunks \/ OnChunkLoaded
           \/ \E ch \in Chunk : CreateColumn(ch) \/ LoadChunk(ch) \/ DespawnChunk(ch)
           \/ \E b \in Box : GetOrCreateInventory(b)
  <2>1. UNCHANGED <<slots, supply, cleared>>
    BY <1>5 DEF RegisterLoadedChunks, OnChunkLoaded, CreateColumn, LoadChunk,
                DespawnChunk, GetOrCreateInventory
  <2> QED
    BY <2>1, SameBalanced
<1> QED
  BY <1>1, <1>2, <1>3, <1>4, <1>5 DEF Next, PlayerStep

\* No sequence of moves, swaps, merges, splits, openings and departures creates
\* or loses an item, however many players, boxes, slots and kinds there are.
THEOREM ItemsConservedHolds == Spec => []ItemsConserved
<1>1. Init => ItemsConserved
  BY InitBalanced, ConservedIsBalanced
<1>2. TypeOK /\ ItemsConserved /\ [Next]_vars => ItemsConserved'
  <2> SUFFICES ASSUME TypeOK, \A k \in Kind : Balanced(k), [Next]_vars, NEW k \in Kind
               PROVE  Balanced(k)'
    BY ConservedIsBalanced DEF ItemsConserved, Balanced, Total, Stored
  <2>1. CASE Next
    BY <2>1, StepBalanced
  <2>2. CASE UNCHANGED vars
    BY <2>2, SameBalanced
  <2> QED
    BY <2>1, <2>2
<1> QED
  BY <1>1, <1>2, TypeCorrect, PTL DEF Spec

-----------------------------------------------------------------------------
(* The skin that others see.                                               *)

\* What is worn depends only on the slots of the body.
LEMMA WornSame ==
  ASSUME NEW before, NEW after, \A s \in BodySlot : after[s] = before[s]
  PROVE  Worn(after) = Worn(before)
  BY DEF Worn

LEMMA ShownSkin ==
  ASSUME TypeOK, SkinShowsArmor, NEW p \in Player, NEW places,
         AfterInventoryModified(p, places), UNCHANGED phase,
         \A q \in Player, s \in Slot :
           (\A i \in DOMAIN places : places[i] # <<q, s>>) => slots'[q][s] = slots[q][s],
         \A q \in Player, s \in Slot :
           slots'[q][s] # slots[q][s] => q = p
  PROVE  SkinShowsArmor'
<1> SUFFICES ASSUME NEW q \in Player, q \notin unrefreshed', phase[q] = "world"
             PROVE  skin'[q] = Worn(slots'[q])
  BY DEF SkinShowsArmor
<1>1. BodySlot \subseteq Slot
  BY SlotAssumption
<1>2. CASE q = p /\ ShownSlots(p, places) # {}
  BY <1>2 DEF AfterInventoryModified, TypeOK
<1>3. CASE ~(q = p /\ ShownSlots(p, places) # {})
  <2>1. skin'[q] = skin[q] /\ q \notin unrefreshed
    BY <1>3 DEF AfterInventoryModified, TypeOK
  <2>2. \A s \in BodySlot : slots'[q][s] = slots[q][s]
    <3>1. CASE q # p
      BY <1>1, <3>1
    <3>2. CASE q = p
      <4>1. ASSUME NEW s \in BodySlot, NEW i \in DOMAIN places
            PROVE  places[i] # <<q, s>>
        BY <1>3, <3>2 DEF ShownSlots
      <4> QED
        BY <1>1, <4>1
    <3> QED
      BY <3>1, <3>2
  <2>3. Worn(slots'[q]) = Worn(slots[q])
    BY <2>2, WornSame
  <2> QED
    BY <2>1, <2>3 DEF SkinShowsArmor
<1> QED
  BY <1>2, <1>3

LEMMA ActionSkin ==
  ASSUME TypeOK, SkinShowsArmor, NEW p \in Player, OnInventoryAction(p)
  PROVE  SkinShowsArmor'
<1>0. \A q \in Player : q \in Holder /\ \A h : MayUse(p, h) /\ h = q => q = p
  BY InventoryAssumption DEF MayUse, Holder
<1>1. ASSUME NEW b \in Box, Close(p, b) PROVE SkinShowsArmor'
  BY <1>1 DEF Close, SkinShowsArmor
<1>2. ASSUME NEW h \in Holder, NEW s \in Slot, NEW n, Drop(p, h, s, n)
      PROVE  SkinShowsArmor'
  <2> DEFINE places == << <<h, s>> >>
  <2>1. \A g \in Holder, t \in Slot :
          <<g, t>> # <<h, s>> => slots'[g][t] = slots[g][t]
    BY <1>2, DropSlots
  <2>2. 1 \in DOMAIN places /\ places[1] = <<h, s>>
    OBVIOUS
  <2>3. AfterInventoryModified(p, places) /\ UNCHANGED phase /\ MayUse(p, h)
    BY <1>2 DEF Drop
  <2>4. \A q \in Player, t \in Slot : slots'[q][t] # slots[q][t] => q = p
    BY <1>0, <2>1, <2>3
  <2> HIDE DEF places
  <2> QED
    BY <1>0, <2>1, <2>2, <2>3, <2>4, ShownSkin
<1>3. ASSUME NEW from \in Holder, NEW s \in Slot, NEW to \in Holder, NEW t \in Slot,
             NEW n, Move(p, from, s, to, t, n)
      PROVE  SkinShowsArmor'
  <2> DEFINE places == << <<from, s>>, <<to, t>> >>
  <2>1. \A g \in Holder, u \in Slot :
          <<g, u>> # <<from, s>> /\ <<g, u>> # <<to, t>> => slots'[g][u] = slots[g][u]
    BY <1>3, MoveSlots
  <2>2. /\ 1 \in DOMAIN places /\ places[1] = <<from, s>>
        /\ 2 \in DOMAIN places /\ places[2] = <<to, t>>
    OBVIOUS
  <2>3. /\ AfterInventoryModified(p, places) /\ UNCHANGED phase
        /\ MayUse(p, from) /\ MayUse(p, to)
    BY <1>3 DEF Move
  <2>4. \A q \in Player, u \in Slot : slots'[q][u] # slots[q][u] => q = p
    BY <1>0, <2>1, <2>3
  <2> HIDE DEF places
  <2> QED
    BY <1>0, <2>1, <2>2, <2>3, <2>4, ShownSkin
<1> QED
  BY <1>1, <1>2, <1>3, ActionCases

LEMMA PlayerStepSkin ==
  ASSUME TypeOK, SkinShowsArmor, NEW p \in Player, PlayerStep(p)
  PROVE  SkinShowsArmor'
<1>1. CASE OnConnectionInfo(p)
  BY <1>1 DEF OnConnectionInfo, SkinShowsArmor, TypeOK
<1>2. CASE SpawnPlayer(p)
  BY <1>2 DEF SpawnPlayer, SkinShowsArmor, TypeOK
<1>3. CASE OnDisconnect(p)
  BY <1>3 DEF OnDisconnect, SkinShowsArmor, TypeOK
<1>4. CASE OnInventoryAction(p)
  BY <1>4, ActionSkin
<1>5. CASE CommandClear(p)
  BY <1>5 DEF CommandClear, SkinShowsArmor, TypeOK
<1>6. ASSUME NEW b \in Box, OpenInventory(p, b) \/ PluginClosesInventory(p, b)
      PROVE  SkinShowsArmor'
  BY <1>6 DEF OpenInventory, PluginClosesInventory, SkinShowsArmor
<1> QED
  BY <1>1, <1>2, <1>3, <1>4, <1>5, <1>6 DEF PlayerStep

\* A player's skin is what it wears, but for changes by the console or plugins.
THEOREM SkinShowsArmorHolds == Spec => []SkinShowsArmor
<1>1. Init => SkinShowsArmor
  BY DEF Init, SkinShowsArmor
<1>2. TypeOK /\ SkinShowsArmor /\ [Next]_vars => SkinShowsArmor'
  <2> SUFFICES ASSUME TypeOK, SkinShowsArmor, [Next]_vars PROVE SkinShowsArmor'
    OBVIOUS
  <2>1. CASE UNCHANGED <<phase, slots, skin, unrefreshed>>
    BY <2>1 DEF SkinShowsArmor
  <2>2. ASSUME NEW p \in Player, PlayerStep(p) PROVE SkinShowsArmor'
    BY <2>2, PlayerStepSkin
  <2>3. ASSUME NEW h \in Holder, NEW s \in Slot, NEW k \in Kind, AddItem(h, s, k)
        PROVE  SkinShowsArmor'
    BY <2>3 DEF AddItem, SkinShowsArmor, TypeOK
  <2>4. ASSUME \/ RegisterLoadedChunks \/ OnChunkLoaded
               \/ \E ch \in Chunk : CreateColumn(ch) \/ LoadChunk(ch) \/ DespawnChunk(ch)
               \/ \E b \in Box : GetOrCreateInventory(b)
        PROVE  UNCHANGED <<phase, slots, skin, unrefreshed>>
    BY <2>4 DEF RegisterLoadedChunks, OnChunkLoaded, CreateColumn, LoadChunk,
                DespawnChunk, GetOrCreateInventory
  <2> QED
    BY <2>1, <2>2, <2>3, <2>4 DEF Next
<1> QED
  BY <1>1, <1>2, TypeCorrect, PTL DEF Spec

-----------------------------------------------------------------------------
(* Every step is a step of ItemExchange.                                   *)

LEMMA SameNames ==
  /\ Exchange!Holder = Holder
  /\ Exchange!Inventory = Inventory
  /\ Exchange!EmptyInventory = EmptyInventory
  /\ \A stack, k : Exchange!Amount(stack, k) = Amount(stack, k)
  BY DEF Exchange!Holder, Holder, Exchange!Inventory, Inventory, Exchange!Stack, Stack,
         Exchange!Item, Item, Exchange!EmptyInventory, EmptyInventory,
         Exchange!Amount, Amount

\* Only inventories within reach may be used.
LEMMA UsedIsReached ==
  ASSUME TypeOK, WatchersAccounted, NEW p \in Player, NEW h, MayUse(p, h)
  PROVE  h \in Exchange!Reach(p)
  BY DEF MayUse, Exchange!Reach, WatchersAccounted

LEMMA MoveExchanges ==
  ASSUME TypeOK, WatchersAccounted, NEW p \in Player,
         NEW from \in Holder, NEW s \in Slot, NEW to \in Holder, NEW t \in Slot,
         NEW n, Move(p, from, s, to, t, n)
  PROVE  Exchange!Exchange(p)
<1>1. from \in Exchange!Reach(p) /\ to \in Exchange!Reach(p)
  BY UsedIsReached DEF Move
<1>2. <<from, s>> # <<to, t>>
  BY DEF Move
<1>3. Exchange!Untouched({<<from, s>>, <<to, t>>})
  BY MoveSlots, SameNames DEF Exchange!Untouched
<1>4. \A k \in Kind : Amount(slots'[from][s], k) + Amount(slots'[to][t], k)
                        = Amount(slots[from][s], k) + Amount(slots[to][t], k)
  BY MoveSlots, MovedProperties
<1>5. UNCHANGED <<by_entity, supply>>
  BY DEF Move
<1> QED
  BY <1>1, <1>2, <1>3, <1>4, <1>5, SameNames DEF Exchange!Exchange

LEMMA DropDrops ==
  ASSUME TypeOK, WatchersAccounted, NEW p \in Player, NEW h \in Holder, NEW s \in Slot,
         NEW n, Drop(p, h, s, n)
  PROVE  Exchange!Drop(p)
<1>1. h \in Exchange!Reach(p)
  BY UsedIsReached DEF Drop
<1>2. Exchange!Untouched({<<h, s>>})
  BY DropSlots, SameNames DEF Exchange!Untouched
<1>3. /\ slots[h][s] \in Stack /\ slots[h][s] # NoItem
      /\ n \in Nat /\ n <= slots[h][s].amount
      /\ slots'[h][s] = Less(slots[h][s], n)
  BY DropSlots
<1>4. ASSUME NEW k \in Kind
      PROVE  /\ Amount(slots'[h][s], k) <= Amount(slots[h][s], k)
             /\ supply'[k] = supply[k] + Amount(slots'[h][s], k) - Amount(slots[h][s], k)
  <2>1. Amount(slots'[h][s], k)
          = Amount(slots[h][s], k) - (IF k = slots[h][s].kind THEN n ELSE 0)
    BY <1>3, LessProperties
  <2>2. supply'[k] = supply[k] - (IF k = slots[h][s].kind THEN n ELSE 0)
    BY <1>3 DEF Drop, TypeOK
  <2>3. Amount(slots[h][s], k) \in Nat /\ supply[k] \in Int
    BY <1>3, AmountTyped DEF TypeOK
  <2> QED
    BY <1>3, <2>1, <2>2, <2>3
<1>5. UNCHANGED by_entity
  BY DEF Drop
<1> QED
  BY <1>1, <1>2, <1>4, <1>5, SameNames DEF Exchange!Drop

LEMMA AddItemReceives ==
  ASSUME TypeOK, NEW h \in Holder, NEW s \in Slot, NEW k \in Kind, AddItem(h, s, k)
  PROVE  Exchange!Receive(h)
<1>1. Exchange!Untouched({<<h, s>>})
  BY AddItemSlots, SameNames DEF Exchange!Untouched
<1>2. ASSUME NEW j \in Kind
      PROVE  /\ Amount(slots'[h][s], j) >= Amount(slots[h][s], j)
             /\ supply'[j] = supply[j] + Amount(slots'[h][s], j) - Amount(slots[h][s], j)
  <2>1. Amount(slots'[h][s], j) = Amount(slots[h][s], j) + (IF j = k THEN 1 ELSE 0)
    BY AddItemSlots, MoreProperties
  <2>2. supply'[j] = supply[j] + (IF j = k THEN 1 ELSE 0)
    BY DEF AddItem, TypeOK
  <2>3. Amount(slots[h][s], j) \in Nat /\ supply[j] \in Int
    BY AddItemSlots, AmountTyped DEF TypeOK
  <2> QED
    BY <2>1, <2>2, <2>3
<1>3. UNCHANGED by_entity
  BY DEF AddItem
<1> QED
  BY <1>1, <1>2, <1>3, SameNames DEF Exchange!Receive

LEMMA PlayerStepExchange ==
  ASSUME TypeOK, WatchersAccounted, NEW p \in Player, PlayerStep(p)
  PROVE  \/ Exchange!Next
         \/ UNCHANGED <<slots, by_entity, supply>>
<1>1. CASE OnConnectionInfo(p) \/ SpawnPlayer(p)
  BY <1>1 DEF OnConnectionInfo, SpawnPlayer
<1>2. CASE OnDisconnect(p)
  <2>1. Exchange!Close
    BY <1>2 DEF OnDisconnect, UnwatchEntity, Exchange!Close, TypeOK
  <2> QED
    BY <2>1 DEF Exchange!Next
<1>3. CASE OnInventoryAction(p)
  <2>1. ASSUME NEW b \in Box, Close(p, b) PROVE Exchange!Close
    BY <2>1 DEF Close, CloseInventory, Exchange!Close, TypeOK
  <2>2. ASSUME NEW h \in Holder, NEW s \in Slot, NEW n, Drop(p, h, s, n)
        PROVE  Exchange!Drop(p)
    BY <2>2, DropDrops
  <2>3. ASSUME NEW from \in Holder, NEW s \in Slot, NEW to \in Holder, NEW t \in Slot,
               NEW n, Move(p, from, s, to, t, n)
        PROVE  Exchange!Exchange(p)
    BY <2>3, MoveExchanges
  <2> QED
    BY <1>3, <2>1, <2>2, <2>3, ActionCases DEF Exchange!Next
<1>4. CASE CommandClear(p)
  <2>1. Exchange!Clear(p)
    BY <1>4, SameNames DEF CommandClear, Exchange!Clear
  <2> QED
    BY <2>1 DEF Exchange!Next
<1>5. ASSUME NEW b \in Box, OpenInventory(p, b) PROVE Exchange!Next
  <2>1. Exchange!Open(p, b)
    BY <1>5 DEF OpenInventory, Exchange!Open
  <2> QED
    BY <2>1 DEF Exchange!Next
<1>6. ASSUME NEW b \in Box, PluginClosesInventory(p, b) PROVE Exchange!Next
  <2>1. Exchange!Close
    BY <1>6 DEF PluginClosesInventory, CloseInventory, Exchange!Close, TypeOK
  <2> QED
    BY <2>1 DEF Exchange!Next
<1> QED
  BY <1>1, <1>2, <1>3, <1>4, <1>5, <1>6 DEF PlayerStep

LEMMA WorldStepExchange ==
  ASSUME TypeOK,
         \/ RegisterLoadedChunks \/ OnChunkLoaded
         \/ \E ch \in Chunk : CreateColumn(ch) \/ LoadChunk(ch) \/ DespawnChunk(ch)
         \/ \E b \in Box : GetOrCreateInventory(b)
         \/ \E h \in Holder, s \in Slot, k \in Kind : AddItem(h, s, k)
  PROVE  \/ Exchange!Next
         \/ UNCHANGED <<slots, by_entity, supply>>
<1>1. CASE \/ RegisterLoadedChunks \/ OnChunkLoaded
           \/ \E ch \in Chunk : CreateColumn(ch) \/ LoadChunk(ch)
           \/ \E b \in Box : GetOrCreateInventory(b)
  BY <1>1 DEF RegisterLoadedChunks, OnChunkLoaded, CreateColumn, LoadChunk,
              GetOrCreateInventory
<1>2. ASSUME NEW ch \in Chunk, DespawnChunk(ch) PROVE Exchange!Next
  <2>1. Exchange!Close
    BY <1>2 DEF DespawnChunk, Unregister, UnwatchInventories, Exchange!Close, TypeOK
  <2> QED
    BY <2>1 DEF Exchange!Next
<1>3. ASSUME NEW h \in Holder, NEW s \in Slot, NEW k \in Kind, AddItem(h, s, k)
      PROVE  Exchange!Next
  BY <1>3, AddItemReceives, SameNames DEF Exchange!Next
<1> QED
  BY <1>1, <1>2, <1>3

\* The inventories implement the exchange of items: players reach only what they
\* have open, and no move creates or destroys an item.
THEOREM InventoriesImplementExchange == Spec => ImplementsExchange
<1>1. Init => Exchange!Init
  <2> SUFFICES ASSUME Init PROVE Exchange!Init
    OBVIOUS
  <2>1. slots \in [Holder -> Inventory] /\ supply \in [Kind -> Int]
    BY InitTypeOK DEF TypeOK
  <2> QED
    BY <2>1, SameNames DEF Init, Exchange!Init
<1>2. TypeOK /\ WatchersAccounted /\ [Next]_vars
        => [Exchange!Next]_<<slots, by_entity, supply>>
  <2>1. UNCHANGED vars => UNCHANGED <<slots, by_entity, supply>>
    OBVIOUS
  <2> QED
    BY <2>1, PlayerStepExchange, WorldStepExchange DEF Next
<1> QED
  BY <1>1, <1>2, TypeCorrect, WatchersAccountedHolds, PTL
  DEF Spec, ImplementsExchange, Exchange!Spec
=============================================================================
