--------------------------- MODULE Wallet_proofs ---------------------------
(***************************************************************************)
(* The wallet is never overdrawn and is explained by its ledger, for any   *)
(* number of buyers, auction runs and operator requests and any amounts.   *)
(***************************************************************************)
EXTENDS Wallet, FiniteSetTheorems, WellFoundedInduction, TLAPS

-----------------------------------------------------------------------------
(* Sums over finite sets.  SumFunctionOnSet is a fold, hence a function    *)
(* chosen among those that satisfy a recursion: it exists, is unique, and  *)
(* does not depend on the order in which the fold takes the elements.      *)
(* Induction on sets is by a smallest counterexample.                      *)

\* The element the fold takes next.
Any(s) == CHOOSE x \in s : TRUE

\* g adds up w on T, given what it makes of a smaller set.
Adds(g, w, T) == g[T] = IF T = {} THEN 0 ELSE w[Any(T)] + g[T \ {Any(T)}]

\* The recursive function the fold over S chooses.
Recursion(g, w, S) ==
    g = [s \in SUBSET S |-> IF s = {} THEN 0
                            ELSE w[Any(s)] + g[s \ {Any(s)}]]

\* A set of numbers has a least element.
LEMMA LeastNumber ==
    ASSUME NEW P \in SUBSET Nat, P # {}
    PROVE  \E n \in P : \A m \in P : n <= m
<1>1. \E n \in P : \A m \in P : ~(<<m, n>> \in OpToRel(<, Nat))
  BY NatLessThanWellFounded, WFMin
<1>2. \A m, n \in Nat : m < n => <<m, n>> \in OpToRel(<, Nat)
  BY DEF OpToRel
<1>3. \E n \in P : \A m \in P : ~(m < n)
  BY <1>1, <1>2, Zenon
<1>. QED  BY <1>3

\* A family of subsets of a finite set has a member that no removal of one
\* element keeps in the family.
LEMMA SmallestSet ==
    ASSUME NEW S, IsFiniteSet(S), NEW F \in SUBSET (SUBSET S), F # {}
    PROVE  \E T \in F : IsFiniteSet(T) /\ \A x \in T : T \ {x} \notin F
<1>. DEFINE P == {Cardinality(T) : T \in F}
<1>1. \A T \in F : IsFiniteSet(T) /\ Cardinality(T) \in Nat
  BY FS_Subset, FS_CardinalityType
<1>2. PICK n \in P : \A m \in P : n <= m
  <2>1. P \in SUBSET Nat /\ P # {}
    BY <1>1
  <2>. HIDE DEF P
  <2>. QED  BY <2>1, LeastNumber
<1>3. PICK T \in F : n = Cardinality(T)
  OBVIOUS
<1>4. ASSUME NEW x \in T, T \ {x} \in F PROVE FALSE
  <2>1. Cardinality(T \ {x}) = Cardinality(T) - 1
    BY <1>1, FS_RemoveElement
  <2>2. Cardinality(T) <= Cardinality(T \ {x})
    BY <1>2, <1>3, <1>4
  <2>. QED  BY <1>1, <2>1, <2>2
<1>. QED  BY <1>1, <1>4

\* On the subsets of a finite set some function adds up w: a longer one extends
\* a shorter one.
LEMMA AdderExists ==
    ASSUME NEW S, IsFiniteSet(S), NEW w, \A x \in S : w[x] \in Int
    PROVE  \E g \in [SUBSET S -> Int] : \A T \in SUBSET S : Adds(g, w, T)
<1>. DEFINE Upto(n, g) == \A T \in SUBSET S : Cardinality(T) <= n => Adds(g, w, T)
            Bad == {n \in Nat : ~ \E g \in [SUBSET S -> Int] : Upto(n, g)}
<1>1. \A T \in SUBSET S : IsFiniteSet(T) /\ Cardinality(T) \in Nat
                           /\ Cardinality(T) <= Cardinality(S)
  BY FS_Subset, FS_CardinalityType
<1>2. \A T \in SUBSET S : T # {} => /\ Any(T) \in T
                                    /\ T \ {Any(T)} \in SUBSET S
                                    /\ Cardinality(T \ {Any(T)}) = Cardinality(T) - 1
  BY <1>1, FS_RemoveElement DEF Any
<1>3. 0 \notin Bad
  <2>. DEFINE z == [T \in SUBSET S |-> 0]
  <2>1. \A T \in SUBSET S : Cardinality(T) <= 0 => T = {}
    BY <1>1, FS_EmptySet
  <2>2. z \in [SUBSET S -> Int] /\ Upto(0, z)
    BY <2>1 DEF Adds
  <2>. QED  BY <2>2
<1>4. ASSUME NEW n \in Nat, n \notin Bad PROVE n + 1 \notin Bad
  <2>1. PICK g \in [SUBSET S -> Int] : Upto(n, g)
    BY <1>4
  <2>. DEFINE h == [T \in SUBSET S |-> IF T = {} THEN 0
                                       ELSE w[Any(T)] + g[T \ {Any(T)}]]
  <2>2. h \in [SUBSET S -> Int]
    <3>1. \A T \in SUBSET S : T # {} => w[Any(T)] \in Int /\ g[T \ {Any(T)}] \in Int
      BY <1>2
    <3>. QED  BY <3>1
  <2>3. \A T \in SUBSET S : Cardinality(T) <= n => h[T] = g[T]
    BY <2>1 DEF Adds
  <2>4. ASSUME NEW T \in SUBSET S, Cardinality(T) <= n + 1 PROVE Adds(h, w, T)
    <3>1. CASE T = {}
      BY <3>1 DEF Adds
    <3>2. CASE T # {}
      <4>1. Cardinality(T \ {Any(T)}) <= n /\ T \ {Any(T)} \in SUBSET S
        BY <1>1, <1>2, <2>4, <3>2
      <4>2. h[T \ {Any(T)}] = g[T \ {Any(T)}]
        BY <4>1, <2>3
      <4>. QED  BY <4>2, <3>2 DEF Adds
    <3>. QED  BY <3>1, <3>2
  <2>5. Upto(n + 1, h)
    BY <2>4
  <2>. HIDE DEF h, Upto
  <2>. QED  BY <2>2, <2>5
<1>5. Bad = {}
  <2>. SUFFICES ASSUME Bad # {} PROVE FALSE
    OBVIOUS
  <2>0. Bad \in SUBSET Nat
    OBVIOUS
  <2>. HIDE DEF Bad
  <2>1. PICK n \in Bad : \A m \in Bad : n <= m
    BY <2>0, LeastNumber
  <2>2. n # 0 /\ n - 1 \in Nat /\ n - 1 \notin Bad /\ n = (n - 1) + 1
    BY <2>0, <2>1, <1>3
  <2>. QED  BY <2>2, <1>4
<1>6. PICK g \in [SUBSET S -> Int] : Upto(Cardinality(S), g)
  <2>1. Cardinality(S) \in Nat /\ Cardinality(S) \notin Bad
    BY <1>5, FS_CardinalityType
  <2>. QED  BY <2>1
<1>. QED  BY <1>1, <1>6

\* The sum of a subset of S is what any adder on S makes of it.
LEMMA SumIsAdder ==
    ASSUME NEW S, IsFiniteSet(S), NEW w, \A x \in S : w[x] \in Int,
           NEW g \in [SUBSET S -> Int], \A T \in SUBSET S : Adds(g, w, T)
    PROVE  \A T \in SUBSET S : SumFunctionOnSet(w, T) = g[T]
<1>. SUFFICES ASSUME NEW U \in SUBSET S PROVE SumFunctionOnSet(w, U) = g[U]
  OBVIOUS
<1>. DEFINE r == [T \in SUBSET U |-> g[T]]
            f == CHOOSE i : Recursion(i, w, U)
            F == {T \in SUBSET U : f[T] # g[T]}
<1>1. Recursion(r, w, U)
  <2>1. ASSUME NEW T \in SUBSET U
        PROVE  r[T] = IF T = {} THEN 0 ELSE w[Any(T)] + r[T \ {Any(T)}]
    <3>1. T \ {Any(T)} \in SUBSET U /\ T \in SUBSET S
      OBVIOUS
    <3>. QED  BY <3>1 DEF Adds
  <2>. QED  BY <2>1 DEF Recursion
<1>2. Recursion(f, w, U)
  BY <1>1
<1>3. \A T \in SUBSET U : f[T] = IF T = {} THEN 0 ELSE w[Any(T)] + f[T \ {Any(T)}]
  <2>. HIDE DEF f
  <2>. QED  BY <1>2 DEF Recursion
<1>4. F = {}
  <2>. HIDE DEF f
  <2>. SUFFICES ASSUME F # {} PROVE FALSE
    OBVIOUS
  <2>1. F \in SUBSET (SUBSET U) /\ IsFiniteSet(U)
    BY FS_Subset
  <2>2. PICK T \in F : \A x \in T : T \ {x} \notin F
    <3>. HIDE DEF F
    <3>. QED  BY <2>1, SmallestSet
  <2>3. T \in SUBSET U /\ T \in SUBSET S /\ f[T] # g[T]
    OBVIOUS
  <2>4. T # {}
    BY <2>3, <1>3 DEF Adds
  <2>5. Any(T) \in T /\ T \ {Any(T)} \in SUBSET U
    BY <2>3, <2>4 DEF Any
  <2>6. f[T \ {Any(T)}] = g[T \ {Any(T)}]
    BY <2>2, <2>5
  <2>7. f[T] = w[Any(T)] + g[T \ {Any(T)}]
    BY <1>3, <2>3, <2>4, <2>6
  <2>. QED  BY <2>3, <2>4, <2>7 DEF Adds
<1>5. SumFunctionOnSet(w, U) = f[U]
  BY DEF SumFunctionOnSet, FoldFunctionOnSet, MapThenFoldSet, Recursion, Any
<1>. QED  BY <1>4, <1>5

\* The sum over a finite set is an integer, and any element can be taken out.
LEMMA SumRemoves ==
    ASSUME NEW S, IsFiniteSet(S), NEW w, \A x \in S : w[x] \in Int
    PROVE  /\ SumFunctionOnSet(w, S) \in Int
           /\ SumFunctionOnSet(w, {}) = 0
           /\ \A x \in S : SumFunctionOnSet(w, S) = w[x] + SumFunctionOnSet(w, S \ {x})
<1>1. PICK g \in [SUBSET S -> Int] : \A T \in SUBSET S : Adds(g, w, T)
  BY AdderExists
<1>2. \A T \in SUBSET S : SumFunctionOnSet(w, T) = g[T]
  BY <1>1, SumIsAdder
<1>. DEFINE F == {T \in SUBSET S : \E x \in T : g[T] # w[x] + g[T \ {x}]}
<1>3. F = {}
  <2>. SUFFICES ASSUME F # {} PROVE FALSE
    OBVIOUS
  <2>1. F \in SUBSET (SUBSET S)
    OBVIOUS
  <2>2. PICK T \in F : \A x \in T : T \ {x} \notin F
    <3>. HIDE DEF F
    <3>. QED  BY <2>1, SmallestSet
  <2>3. PICK x \in T : g[T] # w[x] + g[T \ {x}]
    OBVIOUS
  <2>. DEFINE a == Any(T)
              V == (T \ {a}) \ {x}
  <2>4. /\ T \in SUBSET S /\ a \in T /\ g[T] = w[a] + g[T \ {a}]
        /\ T \ {a} \in SUBSET S /\ T \ {x} \in SUBSET S /\ V \in SUBSET S
        /\ w[a] \in Int /\ w[x] \in Int
    BY <1>1, <2>3 DEF Adds, Any
  <2>5. x # a
    BY <2>3, <2>4
  <2>6. g[T \ {a}] = w[x] + g[V]
    BY <2>2, <2>4, <2>5
  <2>7. (T \ {x}) \ {a} = V
    OBVIOUS
  <2>8. g[T \ {x}] = w[a] + g[V]
    <3>. HIDE DEF a, V
    <3>1. T \ {x} \notin F /\ a \in T \ {x}
      BY <2>2, <2>4, <2>5
    <3>. QED  BY <3>1, <2>4, <2>7
  <2>9. g[V] \in Int
    BY <2>4
  <2>. HIDE DEF a, V
  <2>. QED  BY <2>3, <2>4, <2>6, <2>8, <2>9
<1>4. g[{}] = 0
  BY <1>1 DEF Adds
<1>5. \A x \in S : g[S] = w[x] + g[S \ {x}]
  BY <1>3
<1>. QED  BY <1>2, <1>4, <1>5

\* An element that is not in the set adds its weight.
LEMMA SumAdds ==
    ASSUME NEW S, IsFiniteSet(S), NEW w, \A x \in S : w[x] \in Int,
           NEW x, x \notin S, w[x] \in Int
    PROVE  SumFunctionOnSet(w, S \cup {x}) = SumFunctionOnSet(w, S) + w[x]
<1>1. IsFiniteSet(S \cup {x}) /\ (S \cup {x}) \ {x} = S
  BY FS_AddElement
<1>2. SumFunctionOnSet(w, S \cup {x}) = w[x] + SumFunctionOnSet(w, (S \cup {x}) \ {x})
  BY <1>1, SumRemoves
<1>3. SumFunctionOnSet(w, S) \in Int
  BY SumRemoves
<1>4. SumFunctionOnSet(w, (S \cup {x}) \ {x}) = SumFunctionOnSet(w, S)
  BY <1>1, Zenon
<1>. QED  BY <1>2, <1>3, <1>4

\* Smaller weights have a smaller sum.
LEMMA SumOrder ==
    ASSUME NEW S, IsFiniteSet(S), NEW w, NEW v,
           \A x \in S : w[x] \in Int /\ v[x] \in Int /\ w[x] <= v[x]
    PROVE  SumFunctionOnSet(w, S) <= SumFunctionOnSet(v, S)
<1>. DEFINE F == {T \in SUBSET S : ~(SumFunctionOnSet(w, T) <= SumFunctionOnSet(v, T))}
<1>. SUFFICES ASSUME F # {} PROVE FALSE
  OBVIOUS
<1>1. PICK T \in F : IsFiniteSet(T) /\ \A x \in T : T \ {x} \notin F
  BY SmallestSet
<1>2. T \in SUBSET S /\ ~(SumFunctionOnSet(w, T) <= SumFunctionOnSet(v, T))
  OBVIOUS
<1>3. /\ SumFunctionOnSet(w, T) \in Int /\ SumFunctionOnSet(v, T) \in Int
      /\ SumFunctionOnSet(w, {}) = 0 /\ SumFunctionOnSet(v, {}) = 0
      /\ \A x \in T : SumFunctionOnSet(w, T) = w[x] + SumFunctionOnSet(w, T \ {x})
      /\ \A x \in T : SumFunctionOnSet(v, T) = v[x] + SumFunctionOnSet(v, T \ {x})
  BY <1>1, <1>2, SumRemoves
<1>4. PICK x \in T : TRUE
  <2>1. T = {} => SumFunctionOnSet(w, T) = 0 /\ SumFunctionOnSet(v, T) = 0
    BY <1>3, Zenon
  <2>. QED  BY <1>2, <2>1
<1>5. T \ {x} \in SUBSET S /\ SumFunctionOnSet(w, T \ {x}) <= SumFunctionOnSet(v, T \ {x})
  BY <1>1, <1>2
<1>6. SumFunctionOnSet(w, T \ {x}) \in Int /\ SumFunctionOnSet(v, T \ {x}) \in Int
  BY <1>1, <1>2, SumRemoves, FS_RemoveElement
<1>. QED  BY <1>2, <1>3, <1>4, <1>5, <1>6

\* The sum depends on the weights of the members only.
LEMMA SumSame ==
    ASSUME NEW S, IsFiniteSet(S), NEW w, NEW v,
           \A x \in S : w[x] \in Int /\ v[x] = w[x]
    PROVE  SumFunctionOnSet(w, S) = SumFunctionOnSet(v, S)
<1>1. /\ SumFunctionOnSet(w, S) <= SumFunctionOnSet(v, S)
      /\ SumFunctionOnSet(v, S) <= SumFunctionOnSet(w, S)
  BY SumOrder
<1>2. SumFunctionOnSet(w, S) \in Int /\ SumFunctionOnSet(v, S) \in Int
  BY SumRemoves
<1>. QED  BY <1>1, <1>2

\* Weights that are all zero add up to nothing.
LEMMA SumZero ==
    ASSUME NEW S, IsFiniteSet(S), NEW w, \A x \in S : w[x] = 0
    PROVE  SumFunctionOnSet(w, S) = 0
<1>. DEFINE F == {T \in SUBSET S : SumFunctionOnSet(w, T) # 0}
<1>. SUFFICES ASSUME F # {} PROVE FALSE
  OBVIOUS
<1>1. PICK T \in F : IsFiniteSet(T) /\ \A x \in T : T \ {x} \notin F
  BY SmallestSet
<1>2. T \in SUBSET S /\ SumFunctionOnSet(w, T) # 0
  OBVIOUS
<1>3. /\ SumFunctionOnSet(w, {}) = 0
      /\ \A x \in T : SumFunctionOnSet(w, T) = w[x] + SumFunctionOnSet(w, T \ {x})
  BY <1>1, <1>2, SumRemoves
<1>4. PICK x \in T : TRUE
  BY <1>2, <1>3
<1>5. SumFunctionOnSet(w, T \ {x}) = 0
  BY <1>1, <1>2
<1>. QED  BY <1>2, <1>3, <1>4, <1>5

\* The sum over two disjoint sets is the sum of the two.
LEMMA SumSplits ==
    ASSUME NEW S, IsFiniteSet(S), NEW T, IsFiniteSet(T), S \cap T = {},
           NEW w, \A x \in S \cup T : w[x] \in Int
    PROVE  SumFunctionOnSet(w, S \cup T)
             = SumFunctionOnSet(w, S) + SumFunctionOnSet(w, T)
<1>. DEFINE F == {U \in SUBSET T : SumFunctionOnSet(w, S \cup U)
                     # SumFunctionOnSet(w, S) + SumFunctionOnSet(w, U)}
<1>. SUFFICES ASSUME F # {} PROVE FALSE
  OBVIOUS
<1>1. PICK U \in F : IsFiniteSet(U) /\ \A x \in U : U \ {x} \notin F
  BY SmallestSet
<1>2. U \in SUBSET T /\ SumFunctionOnSet(w, S \cup U)
                           # SumFunctionOnSet(w, S) + SumFunctionOnSet(w, U)
  OBVIOUS
<1>3. /\ SumFunctionOnSet(w, S) \in Int /\ SumFunctionOnSet(w, {}) = 0
  BY SumRemoves
<1>4. PICK x \in U : TRUE
  <2>1. U = {} => SumFunctionOnSet(w, U) = 0
                    /\ SumFunctionOnSet(w, S \cup U) = SumFunctionOnSet(w, S)
    <3>1. S \cup {} = S
      OBVIOUS
    <3>. QED  BY <1>3, <3>1, Zenon
  <2>. QED  BY <1>2, <1>3, <2>1
<1>5. /\ x \in T /\ x \notin S /\ w[x] \in Int /\ U \ {x} \in SUBSET T
      /\ (S \cup U) \ {x} = S \cup (U \ {x})
  BY <1>2, <1>4
<1>6. SumFunctionOnSet(w, U) = w[x] + SumFunctionOnSet(w, U \ {x})
  <2>1. IsFiniteSet(U) /\ \A y \in U : w[y] \in Int
    BY <1>1, <1>2
  <2>. QED  BY <1>4, <2>1, SumRemoves
<1>7. SumFunctionOnSet(w, S \cup U)
        = w[x] + SumFunctionOnSet(w, S \cup (U \ {x}))
  <2>1. IsFiniteSet(S \cup U) /\ \A y \in S \cup U : w[y] \in Int
    BY <1>1, <1>2, FS_Union
  <2>2. SumFunctionOnSet(w, S \cup U)
          = w[x] + SumFunctionOnSet(w, (S \cup U) \ {x})
    BY <1>4, <2>1, SumRemoves
  <2>. QED  BY <1>5, <2>2, Zenon
<1>8. SumFunctionOnSet(w, S \cup (U \ {x}))
        = SumFunctionOnSet(w, S) + SumFunctionOnSet(w, U \ {x})
  BY <1>1, <1>4, <1>5
<1>9. SumFunctionOnSet(w, U \ {x}) \in Int
  BY <1>1, <1>2, SumRemoves, FS_RemoveElement
<1>. QED  BY <1>2, <1>3, <1>5, <1>6, <1>7, <1>8, <1>9

-----------------------------------------------------------------------------

\* A reservation in flight names a buyer and an amount.
LEMMA HoldIsTyped ==
    ASSUME WalletTypeOK, NEW r \in Runs, hold[r] # NoHold
    PROVE  hold[r].buyer \in Buyers /\ hold[r].cents \in Cents
BY DEF WalletTypeOK, Hold

\* A request in flight names a buyer and an amount and keeps two integers.
LEMMA RequestIsTyped ==
    ASSUME WalletTypeOK, NEW q \in Requests, req[q] # Idle
    PROVE  /\ req[q].type \in OrmTypes
           /\ req[q].buyer \in Buyers
           /\ req[q].cents \in Cents
           /\ req[q].balance \in Int
           /\ req[q].spend \in Int
BY DEF WalletTypeOK, OpenRequest

\* Billing a row of one type adds to that total and to no other, and keeps
\* the ledger well typed.
LEMMA BillAdds ==
    ASSUME WalletTypeOK, NEW b \in Buyers, NEW t \in EventTypes,
           NEW c \in Cents, Bill(b, t, c)
    PROVE  /\ billed' \in [Buyers -> [EventTypes -> Nat]]
           /\ \A a \in Buyers, u \in EventTypes :
                billed'[a][u] = billed[a][u] + (IF a = b /\ u = t THEN c ELSE 0)
<1>1. c \in Nat
  BY CentsAssumption
<1>2. billed \in [Buyers -> [EventTypes -> Nat]]
  BY DEF WalletTypeOK
<1>3. billed[b] \in [EventTypes -> Nat]
  BY <1>2
<1>4. billed' = [billed EXCEPT ![b] = [billed[b] EXCEPT ![t] = billed[b][t] + c]]
  BY DEF Bill
<1>5. billed[b][t] + c \in Nat
  BY <1>1, <1>3
<1>6. [billed[b] EXCEPT ![t] = billed[b][t] + c] \in [EventTypes -> Nat]
  BY <1>3, <1>5
<1>7. billed' \in [Buyers -> [EventTypes -> Nat]]
  BY <1>2, <1>4, <1>6
<1>8. \A a \in Buyers, u \in EventTypes :
         billed'[a][u] = billed[a][u] + (IF a = b /\ u = t THEN c ELSE 0)
  BY <1>1, <1>2, <1>3, <1>4
<1>. QED  BY <1>7, <1>8

\* The initial wallets satisfy the invariant: the opening balance is billed.
LEMMA WalletInitInv == WalletInit => WalletInv
<1>. SUFFICES ASSUME WalletInit PROVE WalletInv
  OBVIOUS
<1>1. \A b \in Buyers : balance[b] \in Nat
  <2>1. Opening \subseteq Nat
    BY CentsAssumption
  <2>2. balance \in [Buyers -> Opening]
    BY DEF WalletInit
  <2>. QED  BY <2>1, <2>2
<1>2. WalletTypeOK
  <2>1. billed \in [Buyers -> [EventTypes -> Nat]]
    BY <1>1 DEF WalletInit, EventTypes
  <2>2. balance \in [Buyers -> Int]
    BY <1>1 DEF WalletInit
  <2>. QED  BY <2>1, <2>2 DEF WalletInit, WalletTypeOK
<1>3. NoOverdraft
  BY <1>1 DEF NoOverdraft
<1>4. SeenBalancesNotNegative
  BY DEF WalletInit, SeenBalancesNotNegative
<1>5. LedgerExplainsWallet
  BY <1>1 DEF WalletInit, LedgerExplainsWallet, LedgerBalance, LedgerSpend,
              EventTypes
<1>. QED  BY <1>2, <1>3, <1>4, <1>5 DEF WalletInv

\* A successful reservation preserves the invariant: the UPDATE debits only a
\* balance that covers the bid, and bills what it debits.
LEMMA ReserveInv ==
    ASSUME WalletInv, NEW r \in Runs, NEW b \in Buyers, NEW c \in Cents,
           ReserveBuyerWallet(r, b, c)
    PROVE  WalletInv'
<1>. USE DEF WalletInv
<1>1. c \in Nat
  BY CentsAssumption
<1>2. /\ billed' \in [Buyers -> [EventTypes -> Nat]]
      /\ \A a \in Buyers, u \in EventTypes :
           billed'[a][u] = billed[a][u]
                             + (IF a = b /\ u = "lead.reserved" THEN c ELSE 0)
  BY BillAdds DEF ReserveBuyerWallet, EventTypes
<1>3. WalletTypeOK'
  <2>1. hold' \in [Runs -> Hold \cup {NoHold}]
    BY DEF ReserveBuyerWallet, WalletTypeOK, Hold
  <2>2. balance' \in [Buyers -> Int] /\ spend' \in [Buyers -> Int]
    BY <1>1 DEF ReserveBuyerWallet, WalletTypeOK
  <2>3. UNCHANGED <<active, orphaned, req, raced>>
    BY DEF ReserveBuyerWallet
  <2>. QED  BY <1>2, <2>1, <2>2, <2>3 DEF WalletTypeOK
<1>4. NoOverdraft'
  BY <1>1 DEF ReserveBuyerWallet, WalletTypeOK, NoOverdraft
<1>5. SeenBalancesNotNegative'
  BY DEF ReserveBuyerWallet, SeenBalancesNotNegative
<1>6. LedgerExplainsWallet'
  BY <1>1, <1>2 DEF ReserveBuyerWallet, WalletTypeOK, LedgerExplainsWallet,
                    LedgerBalance, LedgerSpend, EventTypes
<1>. QED  BY <1>3, <1>4, <1>5, <1>6

\* Billing a delivered lead moves no money.
LEMMA BillPostedInv ==
    ASSUME WalletInv, NEW r \in Runs, BillPosted(r)
    PROVE  WalletInv'
<1>. USE DEF WalletInv
<1>. DEFINE b == hold[r].buyer
            c == hold[r].cents
<1>1. b \in Buyers /\ c \in Cents
  BY HoldIsTyped DEF BillPosted
<1>2. /\ billed' \in [Buyers -> [EventTypes -> Nat]]
      /\ \A a \in Buyers, u \in EventTypes :
           billed'[a][u] = billed[a][u]
                             + (IF a = b /\ u = "lead.posted" THEN c ELSE 0)
  BY <1>1, BillAdds DEF BillPosted, EventTypes
<1>3. WalletTypeOK'
  BY <1>2 DEF BillPosted, WalletTypeOK
<1>4. NoOverdraft' /\ SeenBalancesNotNegative'
  BY DEF BillPosted, NoOverdraft, SeenBalancesNotNegative
<1>5. LedgerExplainsWallet'
  BY <1>2 DEF BillPosted, WalletTypeOK, LedgerExplainsWallet,
              LedgerBalance, LedgerSpend, EventTypes
<1>. QED  BY <1>3, <1>4, <1>5

\* Crediting a failed delivery bills what it credits.
LEMMA CreditInv ==
    ASSUME WalletInv, NEW r \in Runs, CreditFailedDelivery(r)
    PROVE  WalletInv'
<1>. USE DEF WalletInv
<1>. DEFINE b == hold[r].buyer
            c == hold[r].cents
            t == "lead.delivery_failed_credit"
<1>1. b \in Buyers /\ c \in Cents /\ c \in Nat
  BY HoldIsTyped, CentsAssumption DEF CreditFailedDelivery
<1>2. /\ billed' \in [Buyers -> [EventTypes -> Nat]]
      /\ \A a \in Buyers, u \in EventTypes :
           billed'[a][u] = billed[a][u] + (IF a = b /\ u = t THEN c ELSE 0)
  BY <1>1, BillAdds DEF CreditFailedDelivery, EventTypes
<1>3. /\ balance' = [balance EXCEPT ![b] = balance[b] + c]
      /\ spend' = [spend EXCEPT ![b] = spend[b] - c]
      /\ hold' = [hold EXCEPT ![r] = NoHold]
      /\ UNCHANGED <<active, orphaned, req, raced>>
  BY DEF CreditFailedDelivery
<1>. HIDE DEF b, c
<1>4. WalletTypeOK'
  BY <1>1, <1>2, <1>3 DEF WalletTypeOK
<1>5. NoOverdraft' /\ SeenBalancesNotNegative'
  BY <1>1, <1>3 DEF WalletTypeOK, NoOverdraft, SeenBalancesNotNegative
<1>6. LedgerExplainsWallet'
  BY <1>1, <1>2, <1>3 DEF WalletTypeOK, LedgerExplainsWallet, LedgerBalance,
                          LedgerSpend, EventTypes
<1>. QED  BY <1>4, <1>5, <1>6

\* A run that is cut off moves no money.
LEMMA OrphanInv ==
    ASSUME WalletInv, NEW r \in Runs, OrphanHold(r)
    PROVE  WalletInv'
<1>. USE DEF WalletInv
<1>1. hold[r].buyer \in Buyers /\ hold[r].cents \in Nat
  BY HoldIsTyped, CentsAssumption DEF OrphanHold
<1>2. WalletTypeOK'
  BY <1>1 DEF OrphanHold, WalletTypeOK
<1>3. NoOverdraft' /\ SeenBalancesNotNegative' /\ LedgerExplainsWallet'
  BY DEF OrphanHold, NoOverdraft, SeenBalancesNotNegative,
         LedgerExplainsWallet, LedgerBalance, LedgerSpend
<1>. QED  BY <1>2, <1>3

\* Loading a buyer row keeps a balance that is not negative.
LEMMA OrmReadInv ==
    ASSUME WalletInv, NEW q \in Requests, NEW t \in OrmTypes,
           NEW b \in Buyers, NEW c \in Cents, OrmRead(q, t, b, c)
    PROVE  WalletInv'
<1>. USE DEF WalletInv
<1>1. WalletTypeOK'
  <2>1. req' \in [Requests -> OpenRequest \cup {Idle}]
    BY DEF OrmRead, WalletTypeOK, OpenRequest
  <2>. QED  BY <2>1 DEF OrmRead, WalletTypeOK
<1>2. SeenBalancesNotNegative'
  BY DEF OrmRead, WalletTypeOK, SeenBalancesNotNegative, NoOverdraft
<1>3. NoOverdraft' /\ LedgerExplainsWallet'
  BY DEF OrmRead, NoOverdraft, LedgerExplainsWallet, LedgerBalance, LedgerSpend
<1>. QED  BY <1>1, <1>2, <1>3

\* An ORM write either lands on the row it read, and then bills exactly what
\* it adds, or marks the buyer as raced; in both cases the new balance is the
\* one it read plus a positive amount.
LEMMA OrmWriteInv ==
    ASSUME WalletInv, NEW q \in Requests, OrmWrite(q)
    PROVE  WalletInv'
<1>. USE DEF WalletInv
<1>. DEFINE b == req[q].buyer
            c == req[q].cents
            t == req[q].type
            m == req[q].balance
            n == req[q].spend
<1>1. /\ b \in Buyers /\ c \in Cents /\ c \in Nat
      /\ t \in OrmTypes /\ m \in Int /\ n \in Int /\ m >= 0
  BY RequestIsTyped, CentsAssumption DEF OrmWrite, SeenBalancesNotNegative
<1>2. /\ billed' \in [Buyers -> [EventTypes -> Nat]]
      /\ \A a \in Buyers, u \in EventTypes :
           billed'[a][u] = billed[a][u] + (IF a = b /\ u = t THEN c ELSE 0)
  BY <1>1, BillAdds DEF OrmWrite, EventTypes, OrmTypes
<1>3. /\ balance' = [balance EXCEPT ![b] = m + c]
      /\ spend' = IF t = "lead.returned" THEN [spend EXCEPT ![b] = n - c]
                  ELSE spend
      /\ raced' = [raced EXCEPT ![b] = \/ raced[b]
                                       \/ balance[b] # m
                                       \/ t = "lead.returned" /\ spend[b] # n]
      /\ req' = [req EXCEPT ![q] = Idle]
      /\ UNCHANGED <<active, hold, orphaned>>
  BY DEF OrmWrite
<1>. HIDE DEF b, c, t, m, n
<1>4. WalletTypeOK'
  <2>1. raced' \in [Buyers -> BOOLEAN]
    BY <1>1, <1>3 DEF WalletTypeOK
  <2>2. spend' \in [Buyers -> Int] /\ balance' \in [Buyers -> Int]
    BY <1>1, <1>3 DEF WalletTypeOK
  <2>. QED  BY <1>2, <1>3, <2>1, <2>2 DEF WalletTypeOK
<1>5. NoOverdraft' /\ SeenBalancesNotNegative'
  BY <1>1, <1>3 DEF WalletTypeOK, NoOverdraft, SeenBalancesNotNegative
<1>6. LedgerExplainsWallet'
  <2>. SUFFICES ASSUME NEW a \in Buyers, ~raced'[a]
                PROVE  balance'[a] = LedgerBalance(a)' /\ spend'[a] = LedgerSpend(a)'
    BY DEF LedgerExplainsWallet
  <2>1. ~raced[a] /\ (a = b => balance[b] = m /\ (t = "lead.returned" => spend[b] = n))
    BY <1>1, <1>3 DEF WalletTypeOK
  <2>2. balance[a] = LedgerBalance(a) /\ spend[a] = LedgerSpend(a)
    BY <2>1 DEF LedgerExplainsWallet
  <2>3. CASE a # b
    BY <1>1, <1>2, <1>3, <2>2, <2>3 DEF WalletTypeOK, LedgerBalance, LedgerSpend,
                                        EventTypes
  <2>4. CASE a = b /\ t = "deposit.added"
    BY <1>1, <1>2, <1>3, <2>1, <2>2, <2>4
       DEF WalletTypeOK, LedgerBalance, LedgerSpend, EventTypes
  <2>5. CASE a = b /\ t = "lead.returned"
    BY <1>1, <1>2, <1>3, <2>1, <2>2, <2>5
       DEF WalletTypeOK, LedgerBalance, LedgerSpend, EventTypes
  <2>. QED  BY <1>1, <2>3, <2>4, <2>5 DEF OrmTypes
<1>. QED  BY <1>4, <1>5, <1>6

\* Every step of the wallet preserves its invariant.
LEMMA WalletStepInv == WalletInv /\ [WalletNext]_walletVars => WalletInv'
<1>. SUFFICES ASSUME WalletInv, [WalletNext]_walletVars PROVE WalletInv'
  OBVIOUS
<1>1. ASSUME NEW b \in Buyers, NEW on \in BOOLEAN, SetActive(b, on)
      PROVE  WalletInv'
  BY <1>1 DEF SetActive, WalletInv, WalletTypeOK, NoOverdraft,
              SeenBalancesNotNegative, LedgerExplainsWallet, LedgerBalance,
              LedgerSpend
<1>2. ASSUME NEW q \in Requests, OrmAbort(q)
      PROVE  WalletInv'
  BY <1>2 DEF OrmAbort, WalletInv, WalletTypeOK, NoOverdraft,
              SeenBalancesNotNegative, LedgerExplainsWallet, LedgerBalance,
              LedgerSpend
<1>3. CASE UNCHANGED walletVars
  BY <1>3 DEF walletVars, WalletInv, WalletTypeOK, NoOverdraft,
              SeenBalancesNotNegative, LedgerExplainsWallet, LedgerBalance,
              LedgerSpend
<1>. QED  BY <1>1, <1>2, <1>3, ReserveInv, BillPostedInv, CreditInv, OrphanInv,
             OrmReadInv, OrmWriteInv DEF WalletNext

-----------------------------------------------------------------------------
(* Reservations.                                                           *)

\* The cents of a hold function h that belong to buyer b.
HeldCents(h, b) ==
    SumFunctionOnSet([r \in Runs |-> h[r].cents],
                     {r \in Runs : h[r] # NoHold /\ h[r].buyer = b})

\* A new reservation adds its amount to what is held of its buyer, and to
\* nothing else; read backwards, a settled one takes it away.
LEMMA HoldAdds ==
    ASSUME NEW h \in [Runs -> Hold \cup {NoHold}], NEW r \in Runs,
           h[r] = NoHold, NEW x \in Hold, NEW a \in Buyers
    PROVE  /\ HeldCents(h, a) \in Int
           /\ HeldCents([h EXCEPT ![r] = x], a)
                = HeldCents(h, a) + (IF x.buyer = a THEN x.cents ELSE 0)
<1>. DEFINE i == [h EXCEPT ![r] = x]
            S == {s \in Runs : h[s] # NoHold /\ h[s].buyer = a}
            T == {s \in Runs : i[s] # NoHold /\ i[s].buyer = a}
            v == [s \in Runs |-> h[s].cents]
            w == [s \in Runs |-> i[s].cents]
<1>1. x # NoHold /\ x.cents \in Int
  <2>1. x = [buyer |-> x.buyer, cents |-> x.cents] /\ x.cents \in Cents
    BY DEF Hold
  <2>2. x.cents # 0
    BY <2>1, CentsAssumption
  <2>. QED  BY <2>1, <2>2, CentsAssumption DEF NoHold
<1>2. \A s \in Runs : h[s].cents \in Int
  <2>1. \A y \in Hold : y.cents \in Int
    <3>1. Cents \subseteq Int
      BY CentsAssumption
    <3>2. \A y \in Hold : y.cents \in Cents
      BY DEF Hold
    <3>. QED  BY <3>1, <3>2
  <2>2. NoHold.cents \in Int
    BY DEF NoHold
  <2>. QED  BY <2>1, <2>2
<1>3. /\ \A s \in Runs : i[s] = IF s = r THEN x ELSE h[s]
      /\ HeldCents(h, a) = SumFunctionOnSet(v, S)
      /\ HeldCents(i, a) = SumFunctionOnSet(w, T)
  BY DEF HeldCents
<1>4. \A s \in Runs : v[s] \in Int /\ w[s] \in Int /\ (s # r => v[s] = w[s])
  BY <1>1, <1>2, <1>3
<1>5. S \in SUBSET Runs /\ r \notin S /\ IsFiniteSet(S)
  BY RunsAssumption, FS_Subset
<1>6. T = IF x.buyer = a THEN S \cup {r} ELSE S
  BY <1>1, <1>3
<1>7. w[r] = x.cents
  BY <1>3
<1>. HIDE DEF i, S, T, v, w
<1>8. SumFunctionOnSet(v, S) = SumFunctionOnSet(w, S) /\ SumFunctionOnSet(v, S) \in Int
  BY <1>4, <1>5, SumSame, SumRemoves
<1>9. SumFunctionOnSet(w, S \cup {r}) = SumFunctionOnSet(w, S) + w[r]
  BY <1>4, <1>5, SumAdds
<1>10. CASE x.buyer = a
  BY <1>1, <1>3, <1>6, <1>7, <1>8, <1>9, <1>10 DEF i
<1>11. CASE x.buyer # a
  BY <1>1, <1>3, <1>6, <1>8, <1>11 DEF i
<1>. QED  BY <1>10, <1>11

\* The same, for a run that settles.
LEMMA HoldSettles ==
    ASSUME WalletTypeOK, NEW r \in Runs, hold[r] # NoHold,
           hold' = [hold EXCEPT ![r] = NoHold], NEW a \in Buyers
    PROVE  /\ HeldCents(hold', a) \in Int
           /\ HeldCents(hold, a) = HeldCents(hold', a)
                 + (IF hold[r].buyer = a THEN hold[r].cents ELSE 0)
<1>1. hold \in [Runs -> Hold \cup {NoHold}] /\ hold[r] \in Hold
  BY DEF WalletTypeOK
<1>2. hold' \in [Runs -> Hold \cup {NoHold}] /\ hold'[r] = NoHold
  BY <1>1
<1>3. hold = [hold' EXCEPT ![r] = hold[r]]
  BY <1>1
<1>. QED  BY <1>1, <1>2, <1>3, HoldAdds

\* Every step accounts for what it reserves or settles.
LEMMA AccountedStep ==
    WalletInv /\ ReservationsAccounted /\ [WalletNext]_walletVars
        => ReservationsAccounted'
<1>. SUFFICES ASSUME WalletInv, ReservationsAccounted, [WalletNext]_walletVars,
                     NEW a \in Buyers
              PROVE  Outstanding(a)' = orphaned'[a] + HeldCents(hold', a)
  BY DEF ReservationsAccounted, HeldFrom, HeldCents
<1>0. WalletTypeOK /\ hold \in [Runs -> Hold \cup {NoHold}]
  BY DEF WalletInv, WalletTypeOK
<1>1. Outstanding(a) = orphaned[a] + HeldCents(hold, a)
  BY DEF ReservationsAccounted, HeldFrom, HeldCents
<1>7. \A u \in EventTypes : billed[a][u] \in Nat
  BY <1>0 DEF WalletTypeOK
<1>2. ASSUME NEW r \in Runs, NEW b \in Buyers, NEW c \in Cents,
             ReserveBuyerWallet(r, b, c)
      PROVE  Outstanding(a)' = orphaned'[a] + HeldCents(hold', a)
  <2>. DEFINE x == [buyer |-> b, cents |-> c]
  <2>1. \A u \in EventTypes : billed'[a][u] = billed[a][u]
                             + (IF a = b /\ u = "lead.reserved" THEN c ELSE 0)
    BY <1>0, <1>2, BillAdds DEF ReserveBuyerWallet, EventTypes
  <2>2. x \in Hold /\ x.buyer = b /\ x.cents = c /\ c \in Nat
    BY CentsAssumption DEF Hold
  <2>3. hold[r] = NoHold /\ hold' = [hold EXCEPT ![r] = x] /\ orphaned' = orphaned
    BY <1>2 DEF ReserveBuyerWallet
  <2>. HIDE DEF x
  <2>4. HeldCents(hold, a) \in Int
        /\ HeldCents(hold', a) = HeldCents(hold, a) + (IF b = a THEN c ELSE 0)
    BY <1>0, <2>2, <2>3, HoldAdds
  <2>5. Outstanding(a)' = Outstanding(a) + (IF b = a THEN c ELSE 0)
    BY <1>0, <2>1, <2>2, <1>7 DEF Outstanding, EventTypes
  <2>6. Outstanding(a) \in Int /\ orphaned[a] \in Int
    BY <1>0, <1>7 DEF Outstanding, EventTypes, WalletTypeOK
  <2>. QED  BY <1>1, <2>2, <2>3, <2>4, <2>5, <2>6
<1>3. ASSUME NEW r \in Runs, NEW t \in {"lead.posted", "lead.delivery_failed_credit"},
             hold[r] # NoHold, Bill(hold[r].buyer, t, hold[r].cents),
             hold' = [hold EXCEPT ![r] = NoHold], orphaned' = orphaned
      PROVE  Outstanding(a)' = orphaned'[a] + HeldCents(hold', a)
  <2>1. hold[r].buyer \in Buyers /\ hold[r].cents \in Cents /\ hold[r].cents \in Nat
    BY <1>0, <1>3, HoldIsTyped, CentsAssumption
  <2>2. \A u \in EventTypes : billed'[a][u] = billed[a][u]
                 + (IF a = hold[r].buyer /\ u = t THEN hold[r].cents ELSE 0)
    BY <1>0, <1>3, <2>1, BillAdds DEF EventTypes
  <2>3. /\ HeldCents(hold', a) \in Int
        /\ HeldCents(hold, a) = HeldCents(hold', a)
                 + (IF hold[r].buyer = a THEN hold[r].cents ELSE 0)
    BY <1>0, <1>3, HoldSettles
  <2>4. Outstanding(a) = Outstanding(a)'
                 + (IF hold[r].buyer = a THEN hold[r].cents ELSE 0)
    BY <1>0, <1>3, <2>1, <2>2, <1>7 DEF Outstanding, EventTypes
  <2>5. Outstanding(a) \in Int /\ orphaned[a] \in Int
    BY <1>0, <1>7 DEF Outstanding, EventTypes, WalletTypeOK
  <2>6. Outstanding(a)' \in Int
    BY <2>1, <1>0, <1>3, BillAdds DEF Outstanding, EventTypes
  <2>. QED  BY <1>1, <1>3, <2>1, <2>3, <2>4, <2>5, <2>6
<1>4. ASSUME NEW r \in Runs, OrphanHold(r)
      PROVE  Outstanding(a)' = orphaned'[a] + HeldCents(hold', a)
  <2>1. hold[r].buyer \in Buyers /\ hold[r].cents \in Nat
    BY <1>0, <1>4, HoldIsTyped, CentsAssumption DEF OrphanHold
  <2>2. /\ HeldCents(hold', a) \in Int
        /\ HeldCents(hold, a) = HeldCents(hold', a)
                 + (IF hold[r].buyer = a THEN hold[r].cents ELSE 0)
    BY <1>0, <1>4, HoldSettles DEF OrphanHold
  <2>3. /\ orphaned'[a] = orphaned[a] + (IF hold[r].buyer = a THEN hold[r].cents ELSE 0)
        /\ orphaned[a] \in Nat /\ billed' = billed
    BY <1>0, <1>4, <2>1 DEF OrphanHold, WalletTypeOK
  <2>. QED  BY <1>1, <2>1, <2>2, <2>3 DEF Outstanding
<1>5. ASSUME NEW q \in Requests, OrmWrite(q)
      PROVE  Outstanding(a)' = orphaned'[a] + HeldCents(hold', a)
  <2>1. req[q].type \in OrmTypes /\ req[q].buyer \in Buyers /\ req[q].cents \in Cents
    BY <1>0, <1>5, RequestIsTyped DEF OrmWrite
  <2>2. \A u \in EventTypes \ OrmTypes : billed'[a][u] = billed[a][u]
    <3>1. Bill(req[q].buyer, req[q].type, req[q].cents)
      BY <1>5 DEF OrmWrite
    <3>2. \A u \in EventTypes : billed'[a][u] = billed[a][u]
            + (IF a = req[q].buyer /\ u = req[q].type THEN req[q].cents ELSE 0)
      BY <1>0, <2>1, <3>1, BillAdds DEF EventTypes, OrmTypes
    <3>. QED  BY <1>7, <2>1, <3>2
  <2>3. hold' = hold /\ orphaned' = orphaned
    BY <1>5 DEF OrmWrite
  <2>. QED  BY <1>1, <2>2, <2>3 DEF Outstanding, EventTypes, OrmTypes
<1>6. ASSUME UNCHANGED <<billed, hold, orphaned>>
      PROVE  Outstanding(a)' = orphaned'[a] + HeldCents(hold', a)
  BY <1>1, <1>6 DEF Outstanding
<1>. QED
  BY <1>2, <1>3, <1>4, <1>5, <1>6
     DEF WalletNext, walletVars, SetActive, BillPosted, CreditFailedDelivery,
         OrmRead, OrmAbort

\* At first nothing is reserved and nothing held.
LEMMA AccountedInit == WalletInit => ReservationsAccounted
<1>. SUFFICES ASSUME WalletInit, NEW b \in Buyers
              PROVE  Outstanding(b) = orphaned[b] + HeldCents(hold, b)
  BY DEF ReservationsAccounted, HeldFrom, HeldCents
<1>1. {r \in Runs : hold[r] # NoHold /\ hold[r].buyer = b} = {}
  BY DEF WalletInit
<1>2. SumFunctionOnSet([r \in Runs |-> hold[r].cents], {}) = 0
  BY FS_EmptySet, SumRemoves
<1>3. HeldCents(hold, b) = 0
  BY <1>1, <1>2 DEF HeldCents
<1>. QED  BY <1>3 DEF WalletInit, Outstanding, EventTypes

-----------------------------------------------------------------------------

\* The invariant of the wallet holds in every reachable state.
THEOREM WalletInvariant == WalletSpec => []WalletInv
BY WalletInitInv, WalletStepInv, PTL DEF WalletSpec

\* Type correctness of the wallet and of the requests in flight.
THEOREM WalletTypeCorrect == WalletSpec => []WalletTypeOK
<1>1. WalletInv => WalletTypeOK
  BY DEF WalletInv
<1>. QED  BY <1>1, WalletInvariant, PTL

\* No interleaving of auctions and operators overdraws a wallet.
THEOREM WalletNeverOverdrawn == WalletSpec => []NoOverdraft
<1>1. WalletInv => NoOverdraft
  BY DEF WalletInv
<1>. QED  BY <1>1, WalletInvariant, PTL

\* Only a lost update can make a wallet differ from its ledger.
THEOREM WalletExplainedByLedger == WalletSpec => []LedgerExplainsWallet
<1>1. WalletInv => LedgerExplainsWallet
  BY DEF WalletInv
<1>. QED  BY <1>1, WalletInvariant, PTL

\* Every reserved cent is delivered, credited back, held or orphaned: no
\* interleaving settles a reservation twice or loses one.
THEOREM WalletAccountsReservations == WalletSpec => []ReservationsAccounted
BY AccountedInit, AccountedStep, WalletInvariant, PTL DEF WalletSpec

=============================================================================
