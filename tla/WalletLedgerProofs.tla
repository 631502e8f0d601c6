------------------------- MODULE WalletLedgerProofs -------------------------
(***************************************************************************)
(* The handlers that take SELECT FOR UPDATE on the wallet before they      *)
(* write its balance, together with the approvals, which do not write it,  *)
(* implement Ledger for any number of workers, appointments and            *)
(* withdrawals. So do all handlers when they run one at a time and no      *)
(* admin selects two withdrawals at once. Wherever Ledger is implemented   *)
(* the books balance and a settled withdrawal stays settled.               *)
(*                                                                         *)
(* About every handler, however they overlap: an escrow is released once,  *)
(* a locked wallet accepts nothing, the balance is never negative, and     *)
(* nobody waits for a row while holding one.                               *)
(***************************************************************************)
EXTENDS WalletLedger, FiniteSetTheorems, WellFoundedInduction, TLAPS

-----------------------------------------------------------------------------
(* Sums over finite sets. SumFunctionOnSet is a recursive function over    *)
(* the subsets of a set; that it exists and that the order in which it     *)
(* takes the elements does not matter are proved from the well-ordering of *)
(* the naturals.                                                           *)

\* A nonempty set of naturals has a least element.
LEMMA NatMin ==
  ASSUME NEW T \in SUBSET Nat, T # {}
  PROVE  \E n \in T : \A m \in T : n <= m
<1>1. \E n \in T : \A m \in T : <<m, n>> \notin OpToRel(<, Nat)
  BY NatLessThanWellFounded, WFMin
<1>2. \A n, m \in T : m < n => <<m, n>> \in OpToRel(<, Nat)
  BY DEF OpToRel
<1>3. \A n, m \in T : ~(m < n) => n <= m
  OBVIOUS
<1> QED BY <1>1, <1>2, <1>3

\* Induction, stated of a set instead of a predicate.
LEMMA NatInductionOnSet ==
  ASSUME NEW S \in SUBSET Nat, 0 \in S, \A n \in S : n + 1 \in S
  PROVE  S = Nat
<1> SUFFICES ASSUME Nat \ S # {} PROVE FALSE
  OBVIOUS
<1>1. PICK n \in Nat \ S : \A m \in Nat \ S : n <= m
  BY NatMin
<1>2. n # 0 /\ n - 1 \in Nat
  BY <1>1
<1>3. n - 1 \in S
  BY <1>1, <1>2
<1> QED BY <1>1, <1>2, <1>3

\* The recursive function that SumFunctionOnSet defines, over the subsets of U:
\* what it takes first, what it returns for one set, and the function itself.
First(S) == CHOOSE x \in S : TRUE
SumBody(f, g, S) == IF S = {} THEN 0 ELSE f[First(S)] + g[S \ {First(S)}]
IsSum(f, U, g) == g = [S \in SUBSET U |-> SumBody(f, g, S)]
SumOf(f, U) == CHOOSE g : IsSum(f, U, g)

\* SumFunctionOnSet applies that function, over the subsets of the set itself.
LEMMA SumUnfold ==
  ASSUME NEW f, NEW S 
  PROVE SumFunctionOnSet(f, S) = SumOf(f, S)[S]
  BY DEF SumFunctionOnSet, FoldFunctionOnSet, MapThenFoldSet, SumOf, IsSum, SumBody, First

\* Without the element taken first, a finite set has one element less.
LEMMA SmallerRest ==
  ASSUME NEW S, IsFiniteSet(S), S # {}
  PROVE  /\ First(S) \in S
         /\ IsFiniteSet(S \ {First(S)})
         /\ Cardinality(S \ {First(S)}) = Cardinality(S) - 1
         /\ Cardinality(S) \in Nat \ {0}
<1>1. First(S) \in S
  BY DEF First
<1>2. Cardinality(S) \in Nat /\ Cardinality(S) # 0
  BY FS_CardinalityType, FS_EmptySet
<1> QED BY <1>1, <1>2, FS_RemoveElement

\* Such a function exists: by induction on n, there is one that is right for the
\* sets of at most n elements.
LEMMA SumExists ==
  ASSUME NEW U, IsFiniteSet(U), NEW f, \A x \in U : f[x] \in Nat
  PROVE  \E g \in [SUBSET U -> Nat] : IsSum(f, U, g)
<1> DEFINE Upto(n, g) == \A S \in SUBSET U : Cardinality(S) <= n => g[S] = SumBody(f, g, S)
           Reached == {n \in Nat : \E g \in [SUBSET U -> Nat] : Upto(n, g)}
<1>0. \A S \in SUBSET U : IsFiniteSet(S) /\ Cardinality(S) \in Nat /\ Cardinality(S) <= Cardinality(U)
  BY FS_Subset, FS_CardinalityType
<1>1. 0 \in Reached
  <2> DEFINE g == [S \in SUBSET U |-> 0]
  <2>1. g \in [SUBSET U -> Nat]
    OBVIOUS
  <2>2. ASSUME NEW S \in SUBSET U, Cardinality(S) <= 0 PROVE g[S] = SumBody(f, g, S)
    <3>1. S = {}
      BY <1>0, <2>2, FS_EmptySet
    <3> QED BY <3>1 DEF SumBody
  <2>3. Upto(0, g)
    BY <2>2
  <2> QED BY <2>1, <2>3
<1>2. ASSUME NEW n \in Reached PROVE n + 1 \in Reached
  <2>1. PICK g \in [SUBSET U -> Nat] : Upto(n, g)
    OBVIOUS
  <2> DEFINE h == [S \in SUBSET U |-> IF Cardinality(S) = n + 1 THEN SumBody(f, g, S) ELSE g[S]]
  <2>2. ASSUME NEW S \in SUBSET U PROVE SumBody(f, g, S) \in Nat
    <3>1. CASE S = {}
      BY <3>1 DEF SumBody
    <3>2. CASE S # {}
      <4>1. First(S) \in U /\ S \ {First(S)} \in SUBSET U
        BY <1>0, <3>2, SmallerRest
      <4> QED BY <3>2, <4>1 DEF SumBody
    <3> QED BY <3>1, <3>2
  <2>3. h \in [SUBSET U -> Nat]
    BY <2>2
  <2>4. ASSUME NEW S \in SUBSET U, Cardinality(S) <= n + 1 PROVE h[S] = SumBody(f, h, S)
    <3>1. SumBody(f, h, S) = SumBody(f, g, S)
      <4>1. CASE S = {}
        BY <4>1 DEF SumBody
      <4>2. CASE S # {}
        <5>1. S \ {First(S)} \in SUBSET U /\ Cardinality(S \ {First(S)}) # n + 1
          BY <1>0, <2>4, <4>2, SmallerRest
        <5>2. h[S \ {First(S)}] = g[S \ {First(S)}]
          BY <5>1
        <5> QED BY <5>2, <4>2 DEF SumBody
      <4> QED BY <4>1, <4>2
    <3>2. CASE Cardinality(S) = n + 1
      BY <3>1, <3>2
    <3>3. CASE Cardinality(S) # n + 1
      <4>1. Cardinality(S) <= n
        BY <1>0, <2>4, <3>3
      <4> QED BY <2>1, <3>1, <3>3, <4>1
    <3> QED BY <3>2, <3>3
  <2>5. Upto(n + 1, h)
    BY <2>4
  <2> HIDE DEF h
  <2> QED BY <2>3, <2>5
<1>3. Reached = Nat
  <2> HIDE DEF Reached
  <2>1. Reached \in SUBSET Nat
    BY DEF Reached
  <2> QED BY <1>1, <1>2, <2>1, NatInductionOnSet
<1>4. Cardinality(U) \in Reached
  BY <1>3, FS_CardinalityType
<1>5. PICK g \in [SUBSET U -> Nat] : Upto(Cardinality(U), g)
  BY <1>4
<1>6. \A S \in SUBSET U : g[S] = SumBody(f, g, S)
  BY <1>0, <1>5
<1>7. IsSum(f, U, g)
  BY <1>6 DEF IsSum
<1> QED BY <1>7

\* SumOf therefore satisfies its recursion.
LEMMA SumOfIs ==
  ASSUME NEW U, IsFiniteSet(U), NEW f, \A x \in U : f[x] \in Nat
  PROVE  /\ DOMAIN SumOf(f, U) = SUBSET U
         /\ \A S \in SUBSET U : SumOf(f, U)[S] = SumBody(f, SumOf(f, U), S)
<1>1. IsSum(f, U, SumOf(f, U))
  BY SumExists DEF SumOf
<1> DEFINE g == SumOf(f, U)
<1>2. g = [S \in SUBSET U |-> SumBody(f, g, S)]
  BY <1>1 DEF IsSum
<1> HIDE DEF g
<1>3. DOMAIN g = SUBSET U /\ \A S \in SUBSET U : g[S] = SumBody(f, g, S)
  BY <1>2
<1> QED BY <1>3 DEF g

\* The sum over T does not depend on the set whose subsets the recursion runs
\* over: a smallest T on which two of them differ has a smaller rest.
LEMMA SumUnique ==
  ASSUME NEW U, IsFiniteSet(U), NEW f, \A x \in U : f[x] \in Nat, NEW T \in SUBSET U
  PROVE  SumFunctionOnSet(f, T) = SumOf(f, U)[T]
<1> DEFINE g == SumOf(f, U)
           h == SumOf(f, T)
           Bad == {n \in Nat : \E S \in SUBSET T : Cardinality(S) = n /\ g[S] # h[S]}
<1>0. IsFiniteSet(T) /\ \A S \in SUBSET T : IsFiniteSet(S) /\ Cardinality(S) \in Nat
  BY FS_Subset, FS_CardinalityType
<1>1. /\ \A S \in SUBSET T : g[S] = SumBody(f, g, S)
      /\ \A S \in SUBSET T : h[S] = SumBody(f, h, S)
  BY <1>0, SumOfIs
<1> HIDE DEF g, h
<1>2. ASSUME Bad # {} PROVE FALSE
  <2>1. PICK n \in Bad : \A m \in Bad : n <= m
    BY <1>2, NatMin
  <2>2. PICK S \in SUBSET T : Cardinality(S) = n /\ g[S] # h[S]
    OBVIOUS
  <2>3. S # {}
    BY <1>1, <2>2 DEF SumBody
  <2> DEFINE R == S \ {First(S)}
  <2>4. R \in SUBSET T /\ Cardinality(R) \in Nat /\ Cardinality(R) < n
    BY <1>0, <2>2, <2>3, SmallerRest
  <2>5. g[R] = h[R]
    BY <2>1, <2>4
  <2> QED BY <1>1, <2>2, <2>3, <2>5 DEF SumBody
<1>3. \A S \in SUBSET T : g[S] = h[S]
  BY <1>0, <1>2
<1> QED BY <1>3, SumUnfold DEF g, h

\* The sum over no elements is zero.
LEMMA SumEmpty == ASSUME NEW f PROVE SumFunctionOnSet(f, {}) = 0
<1>1. SumOf(f, {})[{}] = SumBody(f, SumOf(f, {}), {})
  BY SumOfIs, FS_EmptySet
<1> QED BY <1>1, SumUnfold DEF SumBody

\* One more element adds its value, whichever element the recursion takes first.
LEMMA SumAdd ==
  ASSUME NEW T, IsFiniteSet(T), NEW f, NEW e, e \notin T, 
         \A x \in T \cup {e} : f[x] \in Nat
  PROVE  /\ SumFunctionOnSet(f, T) \in Nat
         /\ SumFunctionOnSet(f, T \cup {e}) = SumFunctionOnSet(f, T) + f[e]
<1> DEFINE U == T \cup {e}
           g == SumOf(f, U)
           Good(S) == \A x \in U \ S : g[S] \in Nat /\ g[S \cup {x}] = g[S] + f[x]
           Bad == {n \in Nat : \E S \in SUBSET U : Cardinality(S) = n /\ ~Good(S)}
<1>0. IsFiniteSet(U) /\ \A S \in SUBSET U : IsFiniteSet(S) /\ Cardinality(S) \in Nat
  BY FS_AddElement, FS_Subset, FS_CardinalityType
<1>a. \A S \in SUBSET U : g[S] = SumBody(f, g, S)
  BY <1>0, SumOfIs
<1> HIDE DEF g
<1>1. /\ g[{}] = 0
      /\ \A S \in SUBSET U : S # {} => g[S] = f[First(S)] + g[S \ {First(S)}]
  BY <1>a DEF SumBody
<1>2. ASSUME Bad # {} PROVE FALSE
  <2>1. PICK n \in Bad : \A m \in Bad : n <= m
    BY <1>2, NatMin
  <2>2. PICK S \in SUBSET U : Cardinality(S) = n /\ ~Good(S)
    OBVIOUS
  <2>3. \A R \in SUBSET U : Cardinality(R) < n => Good(R)
    BY <1>0, <2>1
  <2>4. PICK x \in U \ S : ~(g[S] \in Nat /\ g[S \cup {x}] = g[S] + f[x])
    BY <2>2
  <2>5. g[S] \in Nat
    <3>1. CASE S = {}
      BY <1>1, <3>1
    <3>2. CASE S # {}
      <4> DEFINE c == First(S)
      <4>1. c \in S /\ S \ {c} \in SUBSET U /\ Cardinality(S \ {c}) < n
        BY <1>0, <2>2, <3>2, SmallerRest
      <4>2. Good(S \ {c})
        BY <2>3, <4>1
      <4>3. g[S \ {c}] \in Nat /\ f[c] \in Nat
        BY <4>1, <4>2
      <4> QED BY <1>1, <3>2, <4>3
    <3> QED BY <3>1, <3>2
  <2> DEFINE V == S \cup {x}
             c == First(V)
  <2>6. c \in V /\ g[V] = f[c] + g[V \ {c}] 
    <3>1. V # {} /\ V \in SUBSET U /\ IsFiniteSet(V)
      BY <1>0
    <3>2. c \in V
      BY <3>1, SmallerRest
    <3> HIDE DEF V
    <3> QED BY <1>1, <3>1, <3>2
  <2>7. CASE c = x
    <3>1. V = S \cup {x} /\ V \ {x} = S /\ f[x] \in Nat
      OBVIOUS
    <3> HIDE DEF c, V
    <3>2. g[V] = f[x] + g[S]
      BY <2>6, <2>7, <3>1
    <3>3. g[V] = g[S] + f[x]
      BY <2>5, <3>1, <3>2
    <3> QED BY <2>4, <2>5, <3>1, <3>3
  <2>8. CASE c # x
    <3> DEFINE R == S \ {c}
    <3>1. c \in S /\ R \in SUBSET U /\ V \ {c} = R \cup {x} /\ S = R \cup {c} /\ x \in U \ R /\ c \in U \ R
      <4> HIDE DEF c
      <4> QED BY <2>6, <2>8
    <3>2. Cardinality(R) < n
      <4>1. c \in S /\ IsFiniteSet(S) /\ Cardinality(S) = n /\ n \in Nat
        BY <1>0, <2>2, <3>1
      <4>2. Cardinality(R) = n - 1
        BY <4>1, FS_RemoveElement
      <4> QED BY <4>1, <4>2
    <3>3. Good(R)
      BY <2>3, <3>1, <3>2
    <3>4. g[R] \in Nat /\ g[R \cup {x}] = g[R] + f[x] /\ g[R \cup {c}] = g[R] + f[c]
      BY <3>1, <3>3
    <3>5. f[x] \in Nat /\ f[c] \in Nat
      BY <3>1
    <3> HIDE DEF c, V, R
    <3> QED BY <2>4, <2>5, <2>6, <3>1, <3>4, <3>5 DEF V
  <2> QED BY <2>7, <2>8
<1>3. Good(T)
  <2>1. T \in SUBSET U /\ Cardinality(T) \in Nat
    BY <1>0
  <2> QED BY <1>2, <2>1
<1>4. e \in U \ T
  OBVIOUS
<1>5. g[T] \in Nat /\ g[U] = g[T] + f[e]
  BY <1>3, <1>4
<1>6. SumFunctionOnSet(f, T) = g[T] /\ SumFunctionOnSet(f, U) = g[U]
  BY <1>0, SumUnique DEF g
<1> QED BY <1>5, <1>6

\* A sum of naturals is a natural.
LEMMA SumNat ==
  ASSUME NEW T, IsFiniteSet(T), NEW f, \A x \in T : f[x] \in Nat
  PROVE  SumFunctionOnSet(f, T) \in Nat
<1>1. CASE T = {}
  BY <1>1, SumEmpty
<1>2. CASE T # {}
  <2> DEFINE c == First(T)
  <2>1. c \in T /\ IsFiniteSet(T \ {c})
    BY <1>2, SmallerRest
  <2>2. T = (T \ {c}) \cup {c} /\ c \notin T \ {c}
    BY <2>1
  <2>3. PICK R : R = T \ {c}
    OBVIOUS
  <2> HIDE DEF c
  <2>4. /\ SumFunctionOnSet(f, R) \in Nat
        /\ SumFunctionOnSet(f, T) = SumFunctionOnSet(f, R) + f[c]
    BY <2>1, <2>2, <2>3, SumAdd
  <2>5. f[c] \in Nat
    BY <2>1
  <2> QED BY <2>4, <2>5
<1> QED BY <1>1, <1>2

-----------------------------------------------------------------------------
(* Ledger by itself: whoever implements it keeps its books.                *)

\* The books of the ledger, and that both of their columns are finite: the sums
\* mean something.
LedgerInv ==
    /\ L!LedgerTypeOK /\ L!BooksBalance
    /\ IsFiniteSet({a \in Appointment : payment[a] = "completed"})
    /\ IsFiniteSet(L!Outgoing)

\* The sums of the instance are the sums above.
LEMMA LedgerSum == \A f, S : L!SumFunctionOnSet(f, S) = SumFunctionOnSet(f, S)
BY DEF SumFunctionOnSet, FoldFunctionOnSet, MapThenFoldSet, L!SumFunctionOnSet, L!FoldFunctionOnSet, L!MapThenFoldSet

\* Both columns are empty at the start.
LEMMA LedgerInvInit == L!LedgerInit => LedgerInv
<1> SUFFICES ASSUME L!LedgerInit PROVE LedgerInv
  OBVIOUS
<1>1. {a \in Appointment : payment[a] = "completed"} = {} /\ L!Outgoing = {}
  BY DEF L!LedgerInit, L!Outgoing
<1>2. L!LedgerTypeOK
  BY <1>1 DEF L!LedgerInit, L!LedgerTypeOK
<1>3. L!BooksBalance
  BY <1>1, SumEmpty, LedgerSum DEF L!BooksBalance, L!LedgerInit
<1> QED BY <1>1, <1>2, <1>3, FS_EmptySet DEF LedgerInv

\* Each step of the ledger moves one element in or out of one column, and the
\* balance by its value.
LEMMA LedgerInvStep ==
    ASSUME LedgerInv,
           [L!LedgerNext]_<<balance, {a \in Appointment : payment[a] = "completed"}, payout>>
    PROVE  LedgerInv'
<1> DEFINE released == {a \in Appointment : payment[a] = "completed"}
           Earned == SumFunctionOnSet(Fee, released)
           Out == SumFunctionOnSet(Amount, L!Outgoing)
<1>1. Fee \in [Appointment -> Nat] /\ Amount \in [Payout -> Nat]
  BY WalletFeeAssumption, WalletAmountAssumption
<1>2. /\ L!LedgerTypeOK /\ IsFiniteSet(released) /\ IsFiniteSet(L!Outgoing)
      /\ balance + Out = Earned
  BY LedgerSum DEF LedgerInv, L!BooksBalance
<1>3. ASSUME L!LedgerTypeOK', IsFiniteSet(released'), IsFiniteSet(L!Outgoing'),
             balance' + Out' = Earned'
      PROVE  LedgerInv'
  BY <1>3, LedgerSum DEF LedgerInv, L!BooksBalance
<1> USE DEF L!LedgerTypeOK
<1> HIDE DEF released
<1>4. ASSUME NEW a \in Appointment, L!ReleaseFunds(a) PROVE LedgerInv'
  <2> USE <1>4 DEF L!ReleaseFunds, released
  <2>1. a \notin released /\ released' = released \cup {a} /\ balance' = balance + Fee[a]
    OBVIOUS
  <2>2. L!Outgoing' = L!Outgoing /\ L!LedgerTypeOK'
    BY <1>1, <1>2 DEF L!Outgoing
  <2>3. IsFiniteSet(released')
    BY <1>2, <2>1, FS_AddElement
  <2> HIDE DEF released, L!ReleaseFunds
  <2>4. Earned \in Nat /\ Earned' = Earned + Fee[a]
    <3>1. \A r \in released \cup {a} : Fee[r] \in Nat
      BY <1>1, <1>2 DEF released
    <3> QED BY <1>2, <2>1, <3>1, SumAdd
  <2>5. Out \in Nat
    BY <1>1, <1>2, SumNat DEF L!Outgoing
  <2>6. Out' = Out /\ balance \in Nat /\ Fee[a] \in Nat
    BY <1>1, <1>2, <2>2
  <2>7. balance' + Out' = Earned'
    <3> HIDE DEF Earned, Out
    <3> QED BY <1>2, <2>1, <2>4, <2>5, <2>6
  <2> QED BY <1>2, <1>3, <2>2, <2>3, <2>7
<1>5. ASSUME NEW k \in Payout, L!RequestPayout(k) PROVE LedgerInv'
  <2> USE <1>5 DEF L!RequestPayout
  <2>1. k \notin L!Outgoing /\ L!Outgoing' = L!Outgoing \cup {k} /\ balance' = balance - Amount[k]
    BY <1>2 DEF L!Outgoing
  <2>2. released' = released /\ L!LedgerTypeOK'
    BY <1>1, <1>2 DEF released
  <2>3. IsFiniteSet(L!Outgoing')
    BY <1>2, <2>1, FS_AddElement
  <2>4. Out \in Nat /\ Out' = Out + Amount[k]
    <3>1. \A j \in L!Outgoing \cup {k} : Amount[j] \in Nat
      BY <1>1 DEF L!Outgoing
    <3> QED BY <1>2, <2>1, <3>1, SumAdd
  <2>5. Earned' = Earned /\ balance \in Nat /\ Amount[k] \in Nat
    BY <1>1, <1>2, <2>2
  <2>6. balance' + Out' = Earned'
    <3> HIDE DEF Earned, Out
    <3> QED BY <1>2, <2>1, <2>4, <2>5
  <2> QED BY <1>2, <1>3, <2>2, <2>3, <2>6
<1>6. ASSUME NEW k \in Payout, L!CompletePayout(k) PROVE LedgerInv'
  <2> USE <1>6 DEF L!CompletePayout
  <2>1. L!Outgoing' = L!Outgoing /\ balance' = balance
    BY <1>2 DEF L!Outgoing
  <2>2. released' = released /\ L!LedgerTypeOK'
    BY <1>1, <1>2 DEF released
  <2> QED BY <1>2, <1>3, <2>1, <2>2
<1>7. ASSUME NEW k \in Payout, L!FailPayout(k) PROVE LedgerInv'
  <2> USE <1>7 DEF L!FailPayout
  <2>1. /\ L!Outgoing' = L!Outgoing \ {k} /\ k \in L!Outgoing
        /\ balance' = balance + Amount[k]
    BY <1>2 DEF L!Outgoing
  <2>2. released' = released /\ L!LedgerTypeOK'
    BY <1>1, <1>2 DEF released
  <2>3. IsFiniteSet(L!Outgoing')
    BY <1>2, <2>1, FS_RemoveElement
  <2>4. Out' \in Nat /\ Out = Out' + Amount[k]
    <3>1. \A j \in L!Outgoing' \cup {k} : Amount[j] \in Nat
      BY <1>1, <2>1 DEF L!Outgoing
    <3>2. L!Outgoing = L!Outgoing' \cup {k} /\ k \notin L!Outgoing'
      BY <2>1
    <3> QED BY <2>3, <3>1, <3>2, SumAdd
  <2>5. Earned' = Earned /\ balance \in Nat /\ Amount[k] \in Nat
    BY <1>1, <1>2, <2>2
  <2>6. balance' + Out' = Earned'
    <3> HIDE DEF Earned, Out
    <3> QED BY <1>2, <2>1, <2>4, <2>5
  <2> QED BY <1>2, <1>3, <2>2, <2>3, <2>6
<1>8. ASSUME UNCHANGED <<balance, released, payout>> PROVE LedgerInv'
  <2>1. L!Outgoing' = L!Outgoing /\ L!LedgerTypeOK'
    BY <1>2, <1>8 DEF L!Outgoing, released
  <2> QED BY <1>2, <1>3, <1>8, <2>1
<1> QED BY <1>4, <1>5, <1>6, <1>7, <1>8 DEF L!LedgerNext, released

\* Whatever implements the ledger keeps its books: what was earned is what is
\* left and what is or will be paid out.
THEOREM LedgerKeepsBooks == LedgerImplemented => []L!BooksBalance
<1>1. LedgerInv /\ [L!LedgerNext]_<<balance, {a \in Appointment : payment[a] = "completed"}, payout>> => LedgerInv'
  BY LedgerInvStep
<1>2. LedgerInv => L!BooksBalance
  BY DEF LedgerInv
<1> QED BY <1>1, <1>2, LedgerInvInit, PTL DEF LedgerImplemented, L!LedgerSpec

-----------------------------------------------------------------------------
(* The handlers that lock the wallet's row.                                *)

Locking == {"mark_as_completed", "withdraw", "approve", "lock_wallets"}

\* In such an instance no worker is inside one of the other handlers, and
\* what an approval has read as pending is still pending, or approved.
LockingInv ==
    /\ TypeOK /\ balance \in Nat
    /\ pc \in [Proc -> {"idle", "marking", "withdrawing", "approving"}]
    /\ \A p \in Proc, k \in Payout :
         pc[p] = "approving" /\ k \in arg[p] => payout[k] \in {"pending", "completed"}

\* Every variable has its type at the start.
LEMMA WalletTypeInit == Init => TypeOK
<1> SUFFICES ASSUME Init PROVE TypeOK
  OBVIOUS
<1>1. arg \in [Proc -> SUBSET Row]
  <2> DEFINE empty == {r \in Row : FALSE}
  <2>1. empty = {} /\ empty \in SUBSET Row
    OBVIOUS
  <2> HIDE DEF empty
  <2> QED BY <2>1 DEF Init
<1>2. seen \in [Proc -> Int \X BOOLEAN]
  <2> DEFINE first == <<0, FALSE>>
  <2>1. first \in Int \X BOOLEAN
    <3>1. 0 \in Int
      OBVIOUS
    <3> QED BY <3>1, Zenon
  <2>2. seen = [p \in Proc |-> first]
    BY DEF Init
  <2> HIDE DEF first
  <2> QED BY <2>1, <2>2
<1>3. balance \in Int
  BY DEF Init
<1>4. is_locked \in BOOLEAN
  BY Zenon DEF Init
<1> QED BY <1>1, <1>2, <1>3, <1>4 DEF Init, TypeOK, Step

\* Nothing has been earned or read at the start.
LEMMA LockingInit == Init => LockingInv /\ L!LedgerInit
<1>1. Init => LockingInv
  <2>2. Init => /\ balance \in Nat
                /\ pc \in [Proc -> {"idle", "marking", "withdrawing", "approving"}]
                /\ \A p \in Proc : pc[p] # "approving"
    BY DEF Init
  <2> QED BY <2>2, WalletTypeInit DEF LockingInv
<1>2. Init => L!LedgerInit
  BY DEF Init, L!LedgerInit
<1> QED BY <1>1, <1>2

\* Every handler of such an instance preserves it.
LEMMA LockingStep ==
    ASSUME Handler \subseteq Locking, LockingInv, [Next]_vars
    PROVE  LockingInv'
<1> USE WalletFeeAssumption, WalletAmountAssumption
    DEF LockingInv, TypeOK, Step, Row, vars, walletVars, txVars, Start, Done, Locking
<1>1. ASSUME NEW p \in Proc, ProcStep(p) PROVE LockingInv'
  <2>1. ASSUME NEW a \in Appointment, MarkRead(p, a) PROVE LockingInv'
    BY <2>1 DEF MarkRead
  <2>2. ASSUME NEW a \in Appointment, MarkCommit(p, a) PROVE LockingInv'
    BY <2>2 DEF MarkCommit
  <2>3. ASSUME NEW k \in Payout, WithdrawCheck(p, k) PROVE LockingInv'
    BY <2>3 DEF WithdrawCheck
  <2>4. ASSUME NEW k \in Payout, WithdrawCommit(p, k) PROVE LockingInv'
    BY <2>4 DEF WithdrawCommit, CanWithdraw
  <2>5. ASSUME NEW S \in SUBSET PendingPayouts, ApproveRead(p, S) PROVE LockingInv'
    BY <2>5 DEF ApproveRead, PendingPayouts
  <2>6. ASSUME NEW k \in Payout, ApproveCommit(p, k) PROVE LockingInv'
    BY <2>6 DEF ApproveCommit
  <2>7. ASSUME NEW a \in Appointment,
               \/ CompleteRead(p, a) \/ CompletePay(p, a) \/ CompleteOnly(p, a)
               \/ CompleteCommit(p, a)
        PROVE FALSE
    BY <2>7 DEF CompleteRead, CompletePay, CompleteOnly, CompleteCommit
  <2>8. ASSUME NEW k \in Payout,
               \/ RejectRead(p, k) \/ RejectUpdate(p, k) \/ RejectCommit(p, k)
               \/ BulkRejectCommit(p, k)
        PROVE FALSE
    BY <2>8 DEF RejectRead, RejectUpdate, RejectCommit, BulkRejectCommit
  <2>9. ASSUME NEW S \in SUBSET PendingPayouts, BulkRejectRead(p, S) PROVE FALSE
    BY <2>9 DEF BulkRejectRead
  <2> QED BY <1>1, <2>1, <2>2, <2>3, <2>4, <2>5, <2>6, <2>7, <2>8, <2>9 DEF ProcStep
<1>2. ASSUME NEW b \in BOOLEAN, SetLocked(b) PROVE LockingInv'
  BY <1>2 DEF SetLocked
<1>3. CASE UNCHANGED vars
  BY <1>3
<1> QED BY <1>1, <1>2, <1>3 DEF Next

\* Every step of such an instance is one of the ledger's steps or leaves the
\* ledger alone: a completion releases at most its own appointment, once.
LEMMA LockingRefines ==
    ASSUME Handler \subseteq Locking, LockingInv, [Next]_vars
    PROVE  [L!LedgerNext]_<<balance, {a \in Appointment : payment[a] = "completed"},
                            payout>>
<1> DEFINE released == {a \in Appointment : payment[a] = "completed"}
           ledger == <<balance, released, payout>>
<1> USE DEF LockingInv, TypeOK, vars, walletVars, txVars, Start, Locking
<1>1. ASSUME NEW p \in Proc, ProcStep(p) PROVE [L!LedgerNext]_ledger
  <2>1. ASSUME NEW a \in Appointment, MarkCommit(p, a) PROVE [L!LedgerNext]_ledger
    <3>1. CASE payment[a] = "pending"
      <4>1. /\ a \notin released /\ released' = released \cup {a}
            /\ balance' = balance + Fee[a] /\ payout' = payout
        BY <2>1, <3>1 DEF MarkCommit
      <4> QED BY <4>1 DEF L!LedgerNext, L!ReleaseFunds
    <3>2. CASE payment[a] # "pending"
      BY <2>1, <3>2 DEF MarkCommit
    <3> QED BY <3>1, <3>2
  <2>2. ASSUME NEW k \in Payout, WithdrawCommit(p, k) PROVE [L!LedgerNext]_ledger
    <3>1. CASE CanWithdraw(k)
      <4>1. /\ payout[k] = "none" /\ Amount[k] <= balance
            /\ payout' = [payout EXCEPT ![k] = "pending"]
            /\ balance' = balance - Amount[k] /\ released' = released
        BY <2>2, <3>1 DEF WithdrawCommit, CanWithdraw
      <4> QED BY <4>1 DEF L!LedgerNext, L!RequestPayout
    <3>2. CASE ~CanWithdraw(k)
      BY <2>2, <3>2 DEF WithdrawCommit
    <3> QED BY <3>1, <3>2
  <2>3. ASSUME NEW k \in Payout, ApproveCommit(p, k) PROVE [L!LedgerNext]_ledger
    <3>1. /\ payout' = [payout EXCEPT ![k] = "completed"]
          /\ payout[k] \in {"pending", "completed"}
          /\ balance' = balance /\ released' = released
      BY <2>3 DEF ApproveCommit
    <3>2. CASE payout[k] = "pending"
      BY <3>1, <3>2 DEF L!LedgerNext, L!CompletePayout
    <3>3. CASE payout[k] = "completed"
      BY <3>1, <3>3
    <3> QED BY <3>1, <3>2, <3>3
  <2>4. ASSUME \/ \E a \in Appointment : MarkRead(p, a)
               \/ \E k \in Payout : WithdrawCheck(p, k)
               \/ \E S \in SUBSET PendingPayouts : ApproveRead(p, S)
        PROVE UNCHANGED ledger
    BY <2>4 DEF MarkRead, WithdrawCheck, ApproveRead
  <2>5. ~ \E a \in Appointment :
            \/ CompleteRead(p, a) \/ CompletePay(p, a) \/ CompleteOnly(p, a)
            \/ CompleteCommit(p, a)
    BY DEF CompleteRead, CompletePay, CompleteOnly, CompleteCommit
  <2>6. ~ \E k \in Payout :
            \/ RejectRead(p, k) \/ RejectUpdate(p, k) \/ RejectCommit(p, k)
            \/ BulkRejectCommit(p, k)
    BY DEF RejectRead, RejectUpdate, RejectCommit, BulkRejectCommit
  <2>7. ~ \E S \in SUBSET PendingPayouts : BulkRejectRead(p, S)
    BY DEF BulkRejectRead
  <2> QED BY <1>1, <2>1, <2>2, <2>3, <2>4, <2>5, <2>6, <2>7 DEF ProcStep
<1>2. ASSUME NEW b \in BOOLEAN, SetLocked(b) PROVE UNCHANGED ledger
  BY <1>2 DEF SetLocked
<1>3. CASE UNCHANGED vars
  BY <1>3
<1> QED BY <1>1, <1>2, <1>3 DEF Next

\* The handlers that lock the wallet's row implement the ledger.
THEOREM LockingImplementsLedger ==
    ASSUME Handler \subseteq Locking
    PROVE  Spec => LedgerImplemented
<1>1. LockingInv /\ [Next]_vars => LockingInv'
  BY LockingStep
<1>2. LockingInv /\ [Next]_vars =>
        [L!LedgerNext]_<<balance, {a \in Appointment : payment[a] = "completed"}, payout>>
  BY LockingRefines
<1> QED BY <1>1, <1>2, LockingInit, PTL DEF Spec, LedgerImplemented, L!LedgerSpec

\* In such an instance the books balance at any time.
THEOREM LockingKeepsBooks ==
    ASSUME Handler \subseteq Locking
    PROVE  Spec => []BooksBalance
BY LockingImplementsLedger, LedgerKeepsBooks, PTL DEF BooksBalance

-----------------------------------------------------------------------------
(* What holds of every set of handlers.                                    *)

\* The row locks protect what a handler has read. While mark_appointment_completed
\* is about to commit a credit it holds the appointment's row, and the payment
\* is still pending; a worker that handles rows of one kind holds no other.
CreditInv ==
    /\ payment \in [Appointment -> {"pending", "completed"}]
    /\ payout \in [Payout -> {"none", "pending", "completed", "failed"}]
    /\ rowLock \in [Row -> Proc \cup {Free}]
    /\ pc \in [Proc -> Step]
    /\ arg \in [Proc -> SUBSET Row]
    /\ \A p \in Proc : pc[p] \in {"completing", "crediting"} =>
          \E a \in Appointment : arg[p] = {a}
    /\ \A p \in Proc, a \in Appointment : pc[p] = "crediting" /\ a \in arg[p] =>
          rowLock[a] = p /\ payment[a] = "pending"

\* Nobody is inside a handler at the start.
LEMMA CreditInit == Init => CreditInv
<1> SUFFICES ASSUME Init PROVE CreditInv
  OBVIOUS
<1>1. arg \in [Proc -> SUBSET Row]
  <2> DEFINE empty == {r \in Row : FALSE}
  <2>1. empty = {} /\ empty \in SUBSET Row
    OBVIOUS
  <2> HIDE DEF empty
  <2> QED BY <2>1 DEF Init
<1> QED BY <1>1 DEF Init, CreditInv, Step

\* Every step of every handler preserves it: the rows of other workers stay
\* locked, and a payment is written only under the lock of its appointment.
LEMMA CreditStep == CreditInv /\ [Next]_vars => CreditInv'
<1> SUFFICES ASSUME CreditInv, [Next]_vars PROVE CreditInv'
  OBVIOUS
<1> USE RowAssumption DEF CreditInv, Step, Row, Free, vars, walletVars, txVars, Start, Done,
    ReadWallet
<1>1. ASSUME NEW p \in Proc, ProcStep(p) PROVE CreditInv'
  <2>1. ASSUME NEW a \in Appointment, CompleteRead(p, a) PROVE CreditInv'
    BY <2>1 DEF CompleteRead
  <2>2. ASSUME NEW a \in Appointment, CompletePay(p, a) PROVE CreditInv'
    BY <2>2 DEF CompletePay
  <2>3. ASSUME NEW a \in Appointment, CompleteOnly(p, a) PROVE CreditInv'
    BY <2>3 DEF CompleteOnly
  <2>4. ASSUME NEW a \in Appointment, CompleteCommit(p, a) PROVE CreditInv'
    BY <2>4 DEF CompleteCommit
  <2>5. ASSUME NEW a \in Appointment, MarkRead(p, a) PROVE CreditInv'
    BY <2>5 DEF MarkRead
  <2>6. ASSUME NEW a \in Appointment, MarkCommit(p, a) PROVE CreditInv'
    BY <2>6 DEF MarkCommit
  <2>7. ASSUME NEW k \in Payout, WithdrawCheck(p, k) PROVE CreditInv'
    BY <2>7 DEF WithdrawCheck
  <2>8. ASSUME NEW k \in Payout, WithdrawCommit(p, k) PROVE CreditInv'
    BY <2>8 DEF WithdrawCommit
  <2>9. ASSUME NEW k \in Payout, ApproveCommit(p, k) PROVE CreditInv'
    BY <2>9 DEF ApproveCommit
  <2>10. ASSUME NEW k \in Payout, RejectRead(p, k) PROVE CreditInv'
    BY <2>10 DEF RejectRead
  <2>11. ASSUME NEW k \in Payout, RejectUpdate(p, k) PROVE CreditInv'
    BY <2>11 DEF RejectUpdate
  <2>12. ASSUME NEW k \in Payout, RejectCommit(p, k) PROVE CreditInv'
    BY <2>12 DEF RejectCommit
  <2>13. ASSUME NEW k \in Payout, BulkRejectCommit(p, k) PROVE CreditInv'
    BY <2>13 DEF BulkRejectCommit
  <2>14. ASSUME NEW S \in SUBSET PendingPayouts, ApproveRead(p, S) \/ BulkRejectRead(p, S)
         PROVE CreditInv'
    BY <2>14 DEF ApproveRead, BulkRejectRead, PendingPayouts
  <2> QED BY <1>1, <2>1, <2>2, <2>3, <2>4, <2>5, <2>6, <2>7, <2>8, <2>9, <2>10, <2>11,
        <2>12, <2>13, <2>14 DEF ProcStep
<1>2. ASSUME NEW b \in BOOLEAN, SetLocked(b) PROVE CreditInv'
  BY <1>2 DEF SetLocked
<1>3. CASE UNCHANGED vars
  BY <1>3
<1> QED BY <1>1, <1>2, <1>3 DEF Next

\* What CreditInv does not say of the types; and no worker ever read a
\* negative balance.
WalletTyped ==
    /\ balance \in Nat /\ is_locked \in BOOLEAN
    /\ apptStatus \in [Appointment -> {"confirmed", "completed"}]
    /\ seen \in [Proc -> Nat \X BOOLEAN]

\* The wallet is empty at the start, and nobody has read it.
LEMMA WalletTypedInit == Init => WalletTyped
BY WalletTypeInit DEF Init, TypeOK, WalletTyped

\* A step writes the balance and the lock of the wallet as it found or read
\* them, with an amount added, or subtracted that it covers.
LEMMA WalletTypedStep ==
    ASSUME CreditInv, WalletTyped, [Next]_vars
    PROVE  WalletTyped'
<1>1. Fee \in [Appointment -> Nat] /\ Amount \in [Payout -> Nat]
  BY WalletFeeAssumption, WalletAmountAssumption
<1>2. \A p \in Proc : seen[p][1] \in Nat /\ seen[p][2] \in BOOLEAN
  BY Zenon DEF WalletTyped
<1>3. ASSUME NEW p \in Proc, ProcStep(p) PROVE WalletTyped'
  <2>1. balance' \in Nat
    <3>1. balance \in Nat
      BY DEF WalletTyped
    <3>2. CASE balance' = balance
      BY <3>1, <3>2
    <3>3. ASSUME NEW a \in Appointment, CompleteCommit(p, a) \/ MarkCommit(p, a)
          PROVE  balance' \in Nat
      BY <1>1, <1>2, <3>1, <3>3 DEF CompleteCommit, MarkCommit
    <3>4. ASSUME NEW k \in Payout,
                 WithdrawCommit(p, k) \/ RejectCommit(p, k) \/ BulkRejectCommit(p, k)
          PROVE  balance' \in Nat
      BY <1>1, <1>2, <3>1, <3>4 DEF WithdrawCommit, CanWithdraw, RejectCommit,
         BulkRejectCommit
    <3>5. \/ balance' = balance
          \/ \E a \in Appointment : CompleteCommit(p, a) \/ MarkCommit(p, a)
          \/ \E k \in Payout :
                WithdrawCommit(p, k) \/ RejectCommit(p, k) \/ BulkRejectCommit(p, k)
      BY <1>3 DEF ProcStep, CompleteRead, CompletePay, CompleteOnly, MarkRead,
         WithdrawCheck, ApproveRead, ApproveCommit, RejectRead, RejectUpdate,
         BulkRejectRead, walletVars
    <3> QED BY <3>2, <3>3, <3>4, <3>5
  <2>2. is_locked' = is_locked \/ is_locked' = seen[p][2]
    BY <1>3 DEF ProcStep, CompleteRead, CompletePay, CompleteOnly, CompleteCommit,
       MarkRead, MarkCommit, WithdrawCheck, WithdrawCommit, ApproveRead,
       ApproveCommit, RejectRead, RejectUpdate, RejectCommit, BulkRejectRead,
       BulkRejectCommit, walletVars
  <2>3. apptStatus' \in [Appointment -> {"confirmed", "completed"}]
    BY <1>3 DEF WalletTyped, ProcStep, CompleteRead, CompletePay, CompleteOnly, CompleteCommit,
       MarkRead, MarkCommit, WithdrawCheck, WithdrawCommit, ApproveRead,
       ApproveCommit, RejectRead, RejectUpdate, RejectCommit, BulkRejectRead,
       BulkRejectCommit, txVars
  <2>4. seen' = seen \/ ReadWallet(p)
    BY <1>3 DEF ProcStep, CompleteRead, CompletePay, CompleteOnly, CompleteCommit,
       MarkRead, MarkCommit, WithdrawCheck, WithdrawCommit, ApproveRead,
       ApproveCommit, RejectRead, RejectUpdate, RejectCommit, BulkRejectRead,
       BulkRejectCommit
  <2>5. seen' \in [Proc -> Nat \X BOOLEAN]
    <3>1. PICK w : w = <<balance, is_locked>>
      OBVIOUS
    <3>2. w \in Nat \X BOOLEAN
      BY <3>1, Zenon DEF WalletTyped
    <3> QED BY <2>4, <3>1, <3>2 DEF ReadWallet, WalletTyped
  <2>6. is_locked' \in BOOLEAN
    BY <1>2, <2>2, Zenon DEF WalletTyped
  <2> QED BY <2>1, <2>3, <2>5, <2>6 DEF WalletTyped
<1>4. ASSUME NEW b \in BOOLEAN, SetLocked(b) PROVE WalletTyped'
  BY <1>4 DEF WalletTyped, SetLocked, txVars
<1>5. CASE UNCHANGED vars
  BY <1>5 DEF WalletTyped, vars, walletVars, txVars
<1> QED BY <1>3, <1>4, <1>5 DEF Next

\* Every value the handlers store is one its field can hold, whatever they
\* read before.
THEOREM WalletTypeCorrect == Spec => []TypeOK
<1>1. CreditInv /\ [Next]_vars => CreditInv'
  BY CreditStep
<1>2. Init => CreditInv /\ WalletTyped
  BY CreditInit, WalletTypedInit
<1>3. CreditInv /\ WalletTyped /\ [Next]_vars => WalletTyped'
  BY WalletTypedStep
<1>4. CreditInv /\ WalletTyped => TypeOK
  BY DEF CreditInv, WalletTyped, TypeOK
<1> QED BY <1>1, <1>2, <1>3, <1>4, PTL DEF Spec

\* The balance is never negative, whichever handlers overlap: a payout is
\* taken only from a balance that covers it, read in the same step, and what
\* else is written was once the balance, with something added.
THEOREM NeverOverdrawn == Spec => [](balance \in Nat)
<1>1. Init => CreditInv /\ WalletTyped
  BY CreditInit, WalletTypedInit
<1>2. CreditInv /\ WalletTyped /\ [Next]_vars => CreditInv' /\ WalletTyped'
  BY CreditStep, WalletTypedStep
<1>3. WalletTyped => balance \in Nat
  BY DEF WalletTyped
<1> QED BY <1>1, <1>2, <1>3, PTL DEF Spec

\* Concurrent completions of one appointment release its escrow once, for any
\* number of workers, and for every set of handlers.
THEOREM CompletionReleasesOnce == Spec => ReleasedOnce
<1>1. CreditInv /\ [Next]_vars => CreditInv'
  BY CreditStep
<1>2. CreditInv => \A p \in Proc, a \in Appointment :
                      CompleteCommit(p, a) => payment[a] = "pending"
  BY DEF CreditInv, CompleteCommit
<1> QED BY <1>1, <1>2, CreditInit, PTL DEF Spec, ReleasedOnce

\* Of the withdrawals only WithdrawCommit makes one pending, and it looks at
\* the lock of the wallet again, under the row lock.
THEOREM LockedWalletRefuses == Spec => LockedWalletAcceptsNothing
<1>1. CreditInv /\ [Next]_vars /\ is_locked => PendingPayouts' \subseteq PendingPayouts
  <2> SUFFICES ASSUME CreditInv, [Next]_vars, is_locked, NEW k \in Payout, payout'[k] = "pending"
               PROVE  payout[k] = "pending"
    BY DEF PendingPayouts
  <2>1. ASSUME NEW p \in Proc, ProcStep(p) PROVE payout[k] = "pending"
    <3>1. ASSUME NEW a \in Appointment,
                 \/ CompleteRead(p, a) \/ CompletePay(p, a) \/ CompleteOnly(p, a)
                 \/ CompleteCommit(p, a) \/ MarkRead(p, a) \/ MarkCommit(p, a)
          PROVE payout' = payout
      BY <3>1 DEF CompleteRead, CompletePay, CompleteOnly, CompleteCommit, MarkRead,
        MarkCommit, txVars
    <3>2. ASSUME NEW j \in Payout,
                 WithdrawCheck(p, j) \/ RejectRead(p, j) \/ RejectUpdate(p, j)
          PROVE payout' = payout
      BY <3>2 DEF WithdrawCheck, RejectRead, RejectUpdate, txVars
    <3>3. ASSUME NEW j \in Payout, WithdrawCommit(p, j) PROVE payout' = payout
      BY <3>3, Zenon DEF WithdrawCommit, CanWithdraw
    <3>4. ASSUME NEW j \in Payout,
                 ApproveCommit(p, j) \/ RejectCommit(p, j) \/ BulkRejectCommit(p, j)
          PROVE payout' = [payout EXCEPT ![j] = "completed"]
                \/ payout' = [payout EXCEPT ![j] = "failed"]
      BY <3>4 DEF ApproveCommit, RejectCommit, BulkRejectCommit
    <3>5. ASSUME NEW S \in SUBSET PendingPayouts, ApproveRead(p, S) \/ BulkRejectRead(p, S)
          PROVE payout' = payout
      BY <3>5 DEF ApproveRead, BulkRejectRead, txVars
    <3> QED BY <2>1, <3>1, <3>2, <3>3, <3>4, <3>5 DEF ProcStep, CreditInv
  <2>2. ASSUME NEW b \in BOOLEAN, SetLocked(b) PROVE payout[k] = "pending"
    BY <2>2 DEF SetLocked, txVars
  <2>3. CASE UNCHANGED vars
    BY <2>3 DEF vars, txVars
  <2> QED BY <2>1, <2>2, <2>3 DEF Next
<1>2. CreditInv /\ [Next]_vars => CreditInv'
  BY CreditStep
<1> QED BY <1>1, <1>2, CreditInit, PTL DEF Spec, LockedWalletAcceptsNothing
-----------------------------------------------------------------------------
(* One request at a time: every handler, by one worker, with one           *)
(* withdrawal selected for an admin action.                                *)

\* Only lock_wallets comes between what a handler reads and what it writes:
\* the balance it read and the status of its withdrawals are still so.
SerialInv ==
    /\ balance \in Nat /\ IsFiniteSet(PendingPayouts)
    /\ \A p \in Proc :
         /\ pc[p] \in {"rejecting", "returning", "bulk_rejecting"} =>
               \E k \in Payout : arg[p] = {k}
         /\ pc[p] \in {"approving", "rejecting", "returning", "bulk_rejecting"} =>
               \A k \in Payout \cap arg[p] : payout[k] = "pending"
         /\ pc[p] \in {"crediting", "returning", "bulk_rejecting"} => seen[p][1] = balance

\* A finite set of at most one element.
LEMMA AtMostOneSelected ==
    ASSUME NEW S, IsFiniteSet(S), S # {}, Cardinality(S) <= 1
    PROVE  \E k : S = {k}
<1>1. Cardinality(S) \in Nat /\ Cardinality(S) # 0
  BY FS_CardinalityType, FS_EmptySet
<1>2. Cardinality(S) = 1
  BY <1>1
<1> QED BY <1>2, FS_Singleton

\* Nobody has read anything at the start.
LEMMA SerialInit == Init => SerialInv
<1> SUFFICES ASSUME Init PROVE SerialInv
  OBVIOUS
<1>1. PendingPayouts = {} /\ balance \in Nat /\ \A p \in Proc : pc[p] = "idle"
  BY DEF Init, PendingPayouts
<1> QED BY <1>1, FS_EmptySet DEF SerialInv

\* At most one withdrawal becomes pending in a step.
LEMMA PendingStaysFinite ==
    ASSUME CreditInv, IsFiniteSet(PendingPayouts), [Next]_vars
    PROVE  IsFiniteSet(PendingPayouts')
<1>1. ASSUME NEW p \in Proc, ProcStep(p)
      PROVE  \E k : PendingPayouts' \subseteq PendingPayouts \cup {k}
  <2>1. ASSUME NEW k \in Payout,
               \/ WithdrawCommit(p, k) \/ ApproveCommit(p, k) \/ RejectCommit(p, k)
               \/ BulkRejectCommit(p, k)
        PROVE  PendingPayouts' \subseteq PendingPayouts \cup {k}
    BY <2>1 DEF WithdrawCommit, ApproveCommit, RejectCommit, BulkRejectCommit,
       PendingPayouts, CreditInv
  <2>2. \/ payout' = payout
        \/ \E k \in Payout :
              \/ WithdrawCommit(p, k) \/ ApproveCommit(p, k) \/ RejectCommit(p, k)
              \/ BulkRejectCommit(p, k)
    BY <1>1 DEF ProcStep, CompleteRead, CompletePay, CompleteOnly, CompleteCommit, MarkRead,
       MarkCommit, WithdrawCheck, ApproveRead, RejectRead, RejectUpdate, BulkRejectRead, txVars
  <2> QED BY <2>1, <2>2 DEF PendingPayouts
<1>2. \E k : PendingPayouts' \subseteq PendingPayouts \cup {k}
  BY <1>1 DEF Next, SetLocked, vars, txVars, PendingPayouts
<1>3. PICK k : PendingPayouts' \subseteq PendingPayouts \cup {k}
  BY <1>2
<1>4. IsFiniteSet(PendingPayouts \cup {k})
  BY FS_AddElement
<1> QED BY <1>3, <1>4, FS_Subset

\* A step of the only worker preserves it.
LEMMA SerialStep ==
    ASSUME \A p, q \in Proc : p = q, MaxSelected = 1,
           CreditInv, WalletTyped, SerialInv, [Next]_vars
    PROVE  SerialInv'
<1> USE RowAssumption, WalletFeeAssumption, WalletAmountAssumption
    DEF SerialInv, CreditInv, Step, Row, Free, vars, walletVars, txVars, Start, Done
<1>0. IsFiniteSet(PendingPayouts')
  BY PendingStaysFinite
<1>1. ASSUME NEW p \in Proc, ProcStep(p) PROVE SerialInv'
  <2>0. /\ Proc = {p} /\ balance \in Nat
        /\ seen \in [Proc -> Int \X BOOLEAN]
    BY DEF WalletTyped
  <2> USE <1>0, <2>0
  <2>a. ASSUME ReadWallet(p) PROVE seen'[p][1] = balance
    BY <2>a DEF ReadWallet
  <2>1. ASSUME NEW a \in Appointment, CompleteRead(p, a) PROVE SerialInv'
    BY <2>1 DEF CompleteRead
  <2>2. ASSUME NEW a \in Appointment, CompletePay(p, a) PROVE SerialInv'
    BY <2>2, <2>a DEF CompletePay
  <2>3. ASSUME NEW a \in Appointment, CompleteOnly(p, a) PROVE SerialInv'
    BY <2>3 DEF CompleteOnly
  <2>4. ASSUME NEW a \in Appointment, CompleteCommit(p, a) PROVE SerialInv'
    BY <2>4 DEF CompleteCommit
  <2>5. ASSUME NEW a \in Appointment, MarkRead(p, a) PROVE SerialInv'
    BY <2>5 DEF MarkRead
  <2>6. ASSUME NEW a \in Appointment, MarkCommit(p, a) PROVE SerialInv'
    BY <2>6 DEF MarkCommit
  <2>7. ASSUME NEW k \in Payout, WithdrawCheck(p, k) PROVE SerialInv'
    BY <2>7 DEF WithdrawCheck
  <2>8. ASSUME NEW k \in Payout, WithdrawCommit(p, k) PROVE SerialInv'
    BY <2>8 DEF WithdrawCommit, CanWithdraw
  <2>9. ASSUME NEW k \in Payout, ApproveCommit(p, k) PROVE SerialInv'
    BY <2>9 DEF ApproveCommit
  <2>10. ASSUME NEW k \in Payout, RejectRead(p, k) PROVE SerialInv'
    BY <2>10 DEF RejectRead, PendingPayouts
  <2>11. ASSUME NEW k \in Payout, RejectUpdate(p, k) PROVE SerialInv'
    BY <2>11, <2>a DEF RejectUpdate
  <2>12. ASSUME NEW k \in Payout, RejectCommit(p, k) PROVE SerialInv'
    BY <2>12 DEF RejectCommit
  <2>13. ASSUME NEW k \in Payout, BulkRejectCommit(p, k) PROVE SerialInv'
    BY <2>13 DEF BulkRejectCommit
  <2>14. ASSUME NEW S \in SUBSET PendingPayouts, ApproveRead(p, S) PROVE SerialInv'
    BY <2>14 DEF ApproveRead, PendingPayouts
  <2>15. ASSUME NEW S \in SUBSET PendingPayouts, Cardinality(S) <= MaxSelected,
                BulkRejectRead(p, S)
         PROVE SerialInv'
    <3>1. \E k : S = {k}
      <4>1. S # {} /\ IsFiniteSet(S) /\ MaxSelected = 1
        BY <2>15, FS_Subset DEF BulkRejectRead
      <4> QED BY ONLY <2>15, <4>1, AtMostOneSelected
    <3> QED BY <2>15, <2>a, <3>1 DEF BulkRejectRead, PendingPayouts
  <2> QED BY <1>1, <2>1, <2>2, <2>3, <2>4, <2>5, <2>6, <2>7, <2>8, <2>9, <2>10, <2>11,
        <2>12, <2>13, <2>14, <2>15 DEF ProcStep
<1>2. ASSUME NEW b \in BOOLEAN, SetLocked(b) PROVE SerialInv'
  BY <1>0, <1>2 DEF SetLocked
<1>3. CASE UNCHANGED vars
  BY <1>0, <1>3
<1> QED BY <1>1, <1>2, <1>3 DEF Next

\* And is a step of the ledger, or leaves the ledger alone.
LEMMA SerialRefines ==
    ASSUME CreditInv, SerialInv, [Next]_vars
    PROVE  [L!LedgerNext]_<<balance, {a \in Appointment : payment[a] = "completed"},
                            payout>>
<1> DEFINE released == {a \in Appointment : payment[a] = "completed"}
           ledger == <<balance, released, payout>>
<1> USE RowAssumption, WalletFeeAssumption, WalletAmountAssumption
    DEF SerialInv, CreditInv, vars, walletVars, txVars, Start
<1>1. ASSUME NEW p \in Proc, ProcStep(p) PROVE [L!LedgerNext]_ledger
  <2>1. ASSUME NEW a \in Appointment,
               payment[a] = "pending", payment' = [payment EXCEPT ![a] = "completed"],
               balance' = balance + Fee[a], payout' = payout
        PROVE [L!LedgerNext]_ledger
    <3>1. a \notin released /\ released' = released \cup {a}
      BY <2>1
    <3> QED BY <2>1, <3>1 DEF L!LedgerNext, L!ReleaseFunds
  <2>2. ASSUME NEW a \in Appointment, CompleteCommit(p, a) PROVE [L!LedgerNext]_ledger
    <3>1. /\ payment[a] = "pending" /\ payment' = [payment EXCEPT ![a] = "completed"]
          /\ balance' = balance + Fee[a] /\ payout' = payout
      BY <2>2 DEF CompleteCommit
    <3> QED BY <2>1, <3>1
  <2>3. ASSUME NEW a \in Appointment, MarkCommit(p, a) PROVE [L!LedgerNext]_ledger
    BY <2>1, <2>3 DEF MarkCommit
  <2>4. ASSUME NEW k \in Payout, WithdrawCommit(p, k) PROVE [L!LedgerNext]_ledger
    <3>1. CASE CanWithdraw(k)
      <4>1. /\ payout[k] = "none" /\ Amount[k] <= balance
            /\ payout' = [payout EXCEPT ![k] = "pending"]
            /\ balance' = balance - Amount[k] /\ released' = released
        BY <2>4, <3>1 DEF WithdrawCommit, CanWithdraw
      <4> QED BY <4>1 DEF L!LedgerNext, L!RequestPayout
    <3>2. CASE ~CanWithdraw(k)
      BY <2>4, <3>2 DEF WithdrawCommit
    <3> QED BY <3>1, <3>2
  <2>5. ASSUME NEW k \in Payout, ApproveCommit(p, k) PROVE [L!LedgerNext]_ledger
    <3>1. /\ payout[k] = "pending" /\ payout' = [payout EXCEPT ![k] = "completed"]
          /\ balance' = balance /\ released' = released
      BY <2>5 DEF ApproveCommit
    <3> QED BY <3>1 DEF L!LedgerNext, L!CompletePayout
  <2>6. ASSUME NEW k \in Payout, RejectCommit(p, k) \/ BulkRejectCommit(p, k)
        PROVE [L!LedgerNext]_ledger
    <3>1. /\ payout[k] = "pending" /\ payout' = [payout EXCEPT ![k] = "failed"]
          /\ balance' = balance + Amount[k] /\ released' = released
      BY <2>6 DEF RejectCommit, BulkRejectCommit
    <3> QED BY <3>1 DEF L!LedgerNext, L!FailPayout
  <2>7. ASSUME \/ \E a \in Appointment :
                    CompleteRead(p, a) \/ CompletePay(p, a) \/ CompleteOnly(p, a) \/ MarkRead(p, a)
               \/ \E k \in Payout : WithdrawCheck(p, k) \/ RejectRead(p, k) \/ RejectUpdate(p, k)
               \/ \E S \in SUBSET PendingPayouts : ApproveRead(p, S) \/ BulkRejectRead(p, S)
        PROVE UNCHANGED ledger
    BY <2>7 DEF CompleteRead, CompletePay, CompleteOnly, MarkRead, WithdrawCheck, RejectRead,
       RejectUpdate, ApproveRead, BulkRejectRead
  <2> QED BY <1>1, <2>2, <2>3, <2>4, <2>5, <2>6, <2>7 DEF ProcStep
<1>2. ASSUME NEW b \in BOOLEAN, SetLocked(b) PROVE UNCHANGED ledger
  BY <1>2 DEF SetLocked
<1>3. CASE UNCHANGED vars
  BY <1>3
<1> QED BY <1>1, <1>2, <1>3 DEF Next

\* Handlers that run one at a time implement the ledger, those that do not lock
\* the wallet's row included: it is the overlap that loses money.
THEOREM SerialImplementsLedger ==
    ASSUME \A p, q \in Proc : p = q, MaxSelected = 1
    PROVE  Spec => LedgerImplemented
<1> DEFINE Inv == CreditInv /\ WalletTyped /\ SerialInv
<1>1. Init => Inv
  BY CreditInit, SerialInit, WalletTypedInit
<1>2. Inv /\ [Next]_vars => Inv'
  BY CreditStep, WalletTypedStep, SerialStep
<1>3. Inv /\ [Next]_vars =>
        [L!LedgerNext]_<<balance, {a \in Appointment : payment[a] = "completed"}, payout>>
  BY SerialRefines
<1>4. Init => L!LedgerInit
  BY LockingInit
<1> QED BY <1>1, <1>2, <1>3, <1>4, PTL DEF Spec, LedgerImplemented, L!LedgerSpec

\* So the books balance then, too.
THEOREM SerialKeepsBooks ==
    ASSUME \A p, q \in Proc : p = q, MaxSelected = 1
    PROVE  Spec => []BooksBalance
BY SerialImplementsLedger, LedgerKeepsBooks, PTL DEF BooksBalance

-----------------------------------------------------------------------------
(* Settled withdrawals and locked wallets.                                 *)

\* What the documents say of a settled withdrawal holds wherever the ledger
\* is implemented: the ledger has no way back from "completed" or "failed".
LEMMA LedgerSettlesOnce == LedgerImplemented => SettledPayoutIsFinal
<1> DEFINE ledger == <<balance, {a \in Appointment : payment[a] = "completed"}, payout>>
           Typed == payout \in [Payout -> {"none", "pending", "completed", "failed"}]
           Final == \A k \in Payout : payout[k] \in {"completed", "failed"} =>
                       payout'[k] = payout[k]
<1>1. L!LedgerInit => Typed
  BY DEF L!LedgerInit
<1>2. Typed /\ [L!LedgerNext]_ledger => Typed'
  BY DEF L!LedgerNext, L!ReleaseFunds, L!RequestPayout, L!CompletePayout, L!FailPayout
<1>3. Typed /\ [L!LedgerNext]_ledger => [Final]_vars
  BY DEF L!LedgerNext, L!ReleaseFunds, L!RequestPayout, L!CompletePayout, L!FailPayout
<1> QED BY <1>1, <1>2, <1>3, PTL
        DEF LedgerImplemented, L!LedgerSpec, SettledPayoutIsFinal

Deciding == {"approving", "rejecting", "returning", "bulk_rejecting"}

\* The handlers that decide about withdrawals all decide the same.
OnlyVerdict(v) ==
    \/ v = "completed" /\ "reject" \notin Handler /\ "bulk_reject" \notin Handler
    \/ v = "failed" /\ "approve" \notin Handler

\* Then what a worker read as pending is still pending, or decided as the
\* worker is going to decide it.
VerdictInv(v) ==
    /\ \A k \in Payout : payout[k] \in {"none", "pending", v}
    /\ \A p \in Proc : pc[p] \in Deciding => (pc[p] = "approving" <=> v = "completed")
    /\ \A p \in Proc : pc[p] \in Deciding =>
          \A k \in Payout \cap arg[p] : payout[k] \in {"pending", v}

\* No handler undoes such a verdict, and a withdrawal is requested once.
LEMMA VerdictStep ==
    ASSUME NEW v, OnlyVerdict(v), TypeOK, VerdictInv(v), [Next]_vars
    PROVE  /\ VerdictInv(v)'
           /\ \A k \in Payout : payout[k] = v => payout'[k] = v
<1> DEFINE Goal == /\ VerdictInv(v)'
                   /\ \A k \in Payout : payout[k] = v => payout'[k] = v
<1> USE DEF OnlyVerdict, TypeOK, VerdictInv, Deciding, Start, Done, txVars
<1>1. ASSUME NEW p \in Proc, ProcStep(p) PROVE Goal
  <2>1. ASSUME NEW a \in Appointment,
               \/ CompleteRead(p, a) \/ CompletePay(p, a) \/ CompleteOnly(p, a)
               \/ CompleteCommit(p, a) \/ MarkRead(p, a) \/ MarkCommit(p, a)
        PROVE  Goal
    <3>1. /\ payout' = payout /\ pc'[p] \notin Deciding
          /\ \A q \in Proc : q # p => pc'[q] = pc[q] /\ arg'[q] = arg[q]
      BY <2>1 DEF CompleteRead, CompletePay, CompleteOnly, CompleteCommit, MarkRead,
         MarkCommit
    <3> QED BY <3>1
  <2>2. ASSUME NEW k \in Payout, WithdrawCheck(p, k) \/ WithdrawCommit(p, k) PROVE Goal
    <3>1. /\ pc'[p] \notin Deciding
          /\ \A q \in Proc : q # p => pc'[q] = pc[q] /\ arg'[q] = arg[q]
      BY <2>2 DEF WithdrawCheck, WithdrawCommit
    <3>2. \/ payout' = payout
          \/ payout[k] = "none" /\ payout' = [payout EXCEPT ![k] = "pending"]
      BY <2>2 DEF WithdrawCheck, WithdrawCommit, CanWithdraw
    <3>3. v # "none" /\ v # "pending"
      OBVIOUS
    <3> QED BY <3>1, <3>2, <3>3
  <2>3. ASSUME NEW k \in Payout, ApproveCommit(p, k) PROVE Goal
    BY <2>3 DEF ApproveCommit
  <2>4. ASSUME NEW k \in Payout, RejectRead(p, k) \/ RejectUpdate(p, k) PROVE Goal
    <3>1. /\ payout' = payout
          /\ \A q \in Proc : q # p => pc'[q] = pc[q] /\ arg'[q] = arg[q]
      BY <2>4 DEF RejectRead, RejectUpdate
    <3>2. pc'[p] \in {"rejecting", "returning"}
      BY <2>4 DEF RejectRead, RejectUpdate
    <3>3. \/ /\ arg'[p] = {k} /\ payout[k] = "pending" /\ "reject" \in Handler
          \/ arg'[p] = arg[p] /\ pc[p] = "rejecting"
      <4>1. CASE RejectRead(p, k)
        BY <4>1 DEF RejectRead, PendingPayouts
      <4>2. CASE RejectUpdate(p, k)
        BY <4>2 DEF RejectUpdate
      <4> QED BY <2>4, <4>1, <4>2
    <3>4. v = "failed"
      BY <3>3
    <3>5. \A j \in Payout \cap arg'[p] : payout[j] \in {"pending", v}
      BY <3>3
    <3> QED BY <3>1, <3>2, <3>4, <3>5
  <2>5. ASSUME NEW k \in Payout, RejectCommit(p, k) \/ BulkRejectCommit(p, k) PROVE Goal
    <3>1. pc[p] \in {"returning", "bulk_rejecting"} /\ v = "failed"
      BY <2>5 DEF RejectCommit, BulkRejectCommit
    <3>2. payout' = [payout EXCEPT ![k] = v]
      BY <2>5, <3>1 DEF RejectCommit, BulkRejectCommit
    <3>3. arg' = [arg EXCEPT ![p] = @ \ {k}] /\ pc'[p] \in {"idle", pc[p]}
      BY <2>5 DEF RejectCommit, BulkRejectCommit
    <3>4. \A q \in Proc : q # p => pc'[q] = pc[q]
      BY <2>5 DEF RejectCommit, BulkRejectCommit
    <3> QED BY <3>1, <3>2, <3>3, <3>4
  <2>6. ASSUME NEW S \in SUBSET PendingPayouts, ApproveRead(p, S) \/ BulkRejectRead(p, S)
        PROVE  Goal
    <3>1. CASE ApproveRead(p, S)
      BY <2>6, <3>1 DEF ApproveRead, PendingPayouts
    <3>2. CASE BulkRejectRead(p, S)
      BY <2>6, <3>2 DEF BulkRejectRead, PendingPayouts
    <3> QED BY <2>6, <3>1, <3>2
  <2> HIDE DEF Goal
  <2> QED BY <1>1, <2>1, <2>2, <2>3, <2>4, <2>5, <2>6 DEF ProcStep
<1>2. ASSUME NEW b \in BOOLEAN, SetLocked(b) PROVE Goal
  BY <1>2 DEF SetLocked
<1>3. ASSUME UNCHANGED vars PROVE Goal
  BY <1>3 DEF vars
<1> HIDE DEF Goal
<1>4. Goal
  BY <1>1, <1>2, <1>3 DEF Next
<1> QED BY <1>4 DEF Goal

\* An approved withdrawal stays approved and a returned one returned, unless
\* approvals and rejections overlap: when the admins only do the one or only
\* the other, however many at once and with whatever else, and when handlers
\* run one at a time.
THEOREM SettlesOnce ==
    ASSUME \/ \E v \in {"completed", "failed"} : OnlyVerdict(v)
           \/ MaxSelected = 1 /\ \A p, q \in Proc : p = q
    PROVE  Spec => SettledPayoutIsFinal
<1>1. ASSUME NEW v \in {"completed", "failed"}, OnlyVerdict(v)
      PROVE  Spec => SettledPayoutIsFinal
  <2>1. Init => VerdictInv(v)
    BY DEF Init, VerdictInv, Deciding
  <2>2. TypeOK /\ VerdictInv(v) /\ [Next]_vars => VerdictInv(v)'
    BY <1>1, VerdictStep
  <2>3. TypeOK /\ VerdictInv(v) /\ [Next]_vars =>
          [\A k \in Payout : payout[k] \in {"completed", "failed"} =>
              payout'[k] = payout[k]]_vars
    <3> SUFFICES ASSUME TypeOK, VerdictInv(v), [Next]_vars, NEW k \in Payout,
                        payout[k] \in {"completed", "failed"}
                 PROVE  payout'[k] = payout[k]
      OBVIOUS
    <3>1. payout[k] = v
      BY DEF VerdictInv
    <3> QED BY <1>1, <3>1, VerdictStep
  <2> QED BY <2>1, <2>2, <2>3, WalletTypeCorrect, PTL DEF Spec, SettledPayoutIsFinal
<1>2. ASSUME MaxSelected = 1, \A p, q \in Proc : p = q PROVE Spec => SettledPayoutIsFinal
  <2>1. Spec => LedgerImplemented
    BY <1>2, SerialImplementsLedger
  <2> QED BY <2>1, LedgerSettlesOnce
<1> QED BY <1>1, <1>2

\* Who does not run mark_appointment_completed is not inside it.
NotCompleting == \A p \in Proc : pc[p] \notin {"completing", "crediting"}

\* The lock of a wallet is only undone by the admin action when
\* mark_appointment_completed does not run: of all handlers it alone saves
\* every field of a wallet that it read before.
THEOREM LockLastsWithoutCompletion ==
    ASSUME "mark_appointment_completed" \notin Handler
    PROVE  Spec => LockLasts
<1>1. Init => NotCompleting
  BY DEF Init, NotCompleting
<1>2. CreditInv /\ NotCompleting /\ [Next]_vars => NotCompleting'
  <2> SUFFICES ASSUME CreditInv, NotCompleting, [Next]_vars PROVE NotCompleting'
    OBVIOUS
  <2> USE DEF CreditInv, NotCompleting, Start, Done
  <2>1. ASSUME NEW p \in Proc, ProcStep(p) PROVE NotCompleting'
    BY <2>1 DEF ProcStep, CompleteRead, CompletePay, CompleteOnly, CompleteCommit,
       MarkRead, MarkCommit, WithdrawCheck, WithdrawCommit, ApproveRead, ApproveCommit,
       RejectRead, RejectUpdate, RejectCommit, BulkRejectRead, BulkRejectCommit
  <2>2. ASSUME NEW b \in BOOLEAN, SetLocked(b) PROVE NotCompleting'
    BY <2>2 DEF SetLocked
  <2>3. CASE UNCHANGED vars
    BY <2>3 DEF vars
  <2> QED BY <2>1, <2>2, <2>3 DEF Next
<1>3. WalletTyped /\ NotCompleting /\ [Next]_vars =>
        [is_locked /\ ~is_locked' => SetLocked(FALSE)]_vars
  <2> SUFFICES ASSUME WalletTyped, NotCompleting, [Next]_vars, is_locked, ~is_locked'
               PROVE  SetLocked(FALSE)
    OBVIOUS
  <2>1. ASSUME NEW p \in Proc, ProcStep(p) PROVE is_locked' = is_locked
    BY <2>1 DEF NotCompleting, ProcStep, CompleteRead, CompletePay, CompleteOnly,
       CompleteCommit, MarkRead, MarkCommit, WithdrawCheck, WithdrawCommit, ApproveRead,
       ApproveCommit, RejectRead, RejectUpdate, RejectCommit, BulkRejectRead,
       BulkRejectCommit, walletVars
  <2>2. ASSUME NEW b \in BOOLEAN, SetLocked(b) PROVE SetLocked(FALSE)
    <3>1. b = FALSE
      BY <2>2, Zenon DEF SetLocked
    <3> QED BY <2>2, <3>1
  <2>3. CASE UNCHANGED vars
    BY <2>3 DEF vars, walletVars
  <2> QED BY <2>1, <2>2, <2>3, Zenon DEF Next
<1>4. Init => CreditInv /\ WalletTyped
  BY CreditInit, WalletTypedInit
<1>5. CreditInv /\ WalletTyped /\ [Next]_vars => CreditInv' /\ WalletTyped'
  BY CreditStep, WalletTypedStep
<1> QED BY <1>1, <1>2, <1>3, <1>4, <1>5, PTL DEF Spec, LockLasts

-----------------------------------------------------------------------------
(* The row locks.                                                          *)

\* Whoever holds the row of an appointment or of a withdrawal is about to
\* commit, and has no other row to handle.
HolderNeverWaits ==
    \A r \in Row : rowLock[r] # Free =>
        pc[rowLock[r]] \in {"crediting", "returning"} /\ arg[rowLock[r]] = {r}

RejectsOne ==
    \A p \in Proc : pc[p] \in {"rejecting", "returning"} => \E k \in Payout : arg[p] = {k}

\* A lock is taken by a handler of one row, and given back with its commit.
LEMMA HolderStep ==
    ASSUME CreditInv, RejectsOne, HolderNeverWaits, [Next]_vars
    PROVE  RejectsOne' /\ HolderNeverWaits'
<1> DEFINE Goal == RejectsOne' /\ HolderNeverWaits'
<1> USE RowAssumption DEF CreditInv, RejectsOne, HolderNeverWaits, Row, Free, Start, Done
<1>1. ASSUME NEW p \in Proc, ProcStep(p) PROVE Goal
  <2> HIDE DEF Step
  <2>1. ASSUME NEW a \in Appointment, CompleteRead(p, a) \/ MarkRead(p, a) PROVE Goal
    BY <2>1 DEF CompleteRead, MarkRead
  <2>2. ASSUME NEW k \in Payout, WithdrawCheck(p, k) \/ RejectRead(p, k) PROVE Goal
    BY <2>2 DEF WithdrawCheck, RejectRead
  <2>3. ASSUME NEW S \in SUBSET PendingPayouts, ApproveRead(p, S) \/ BulkRejectRead(p, S)
        PROVE  Goal
    BY <2>3 DEF ApproveRead, BulkRejectRead
  <2>4. ASSUME NEW a \in Appointment, CompletePay(p, a) PROVE Goal
    BY <2>4 DEF CompletePay
  <2>5. ASSUME NEW k \in Payout, RejectUpdate(p, k) PROVE Goal
    BY <2>5 DEF RejectUpdate
  <2>6. ASSUME NEW a \in Appointment, CompleteCommit(p, a) PROVE Goal
    BY <2>6 DEF CompleteCommit
  <2>7. ASSUME NEW k \in Payout, RejectCommit(p, k) PROVE Goal
    BY <2>7 DEF RejectCommit
  <2>8. ASSUME NEW a \in Appointment, CompleteOnly(p, a) \/ MarkCommit(p, a) PROVE Goal
    <3>1. /\ pc[p] \in {"completing", "marking"} /\ rowLock' = rowLock /\ Done(p, a)
      BY <2>8 DEF CompleteOnly, MarkCommit
    <3> QED BY <3>1
  <2>9. ASSUME NEW k \in Payout,
               WithdrawCommit(p, k) \/ ApproveCommit(p, k) \/ BulkRejectCommit(p, k)
        PROVE  Goal
    <3>1. /\ pc[p] \in {"withdrawing", "approving", "bulk_rejecting"}
          /\ rowLock' = rowLock /\ Done(p, k)
      BY <2>9 DEF WithdrawCommit, ApproveCommit, BulkRejectCommit
    <3> QED BY <3>1
  <2> HIDE DEF Goal
  <2> QED BY <1>1, <2>1, <2>2, <2>3, <2>4, <2>5, <2>6, <2>7, <2>8, <2>9 DEF ProcStep
<1>2. ASSUME NEW b \in BOOLEAN, SetLocked(b) PROVE Goal
  BY <1>2 DEF SetLocked
<1>3. CASE UNCHANGED vars
  BY <1>3 DEF vars
<1> QED BY <1>1, <1>2, <1>3 DEF Next

\* No cycle of workers waiting for each other's rows, whichever handlers run
\* and however many rows an admin selects: a handler that waits for a row
\* holds none. This is what RequestsFinish needs besides fairness.
THEOREM NobodyHoldsAndWaits == Spec => []HolderNeverWaits
<1> DEFINE Inv == CreditInv /\ RejectsOne /\ HolderNeverWaits
<1>1. Init => Inv
  BY CreditInit DEF Init, RejectsOne, HolderNeverWaits
<1>2. Inv /\ [Next]_vars => Inv'
  BY CreditStep, HolderStep
<1>3. Inv => HolderNeverWaits
  OBVIOUS
<1> QED BY <1>1, <1>2, <1>3, PTL DEF Spec
=============================================================================
