------------------------------ MODULE WriteProofs ------------------------------
(***************************************************************************)
(* Proofs about InventoryWrites and about the routes that WriteEndpoints    *)
(* makes of it and of Idempotency, for any number of concurrent calls,      *)
(* keys, rows, quantities and any ceiling.                                  *)
(***************************************************************************)
EXTENDS WriteEndpoints, FiniteSetTheorems, WellFoundedInduction, TLAPS

-----------------------------------------------------------------------------
(* Sums over finite sets.  MapThenSumSet is a fold that takes the members   *)
(* of the set in the order of CHOOSE; the lemmas lead to SumGrows, which    *)
(* says that the order makes no difference.                                 *)

LEMMA Induction ==
  ASSUME NEW T, 0 \in T, \A n \in Nat : n \in T => n + 1 \in T
  PROVE  \A n \in Nat : n \in T
  <1> SUFFICES ASSUME Nat \ T # {} PROVE FALSE
    OBVIOUS
  <1> DEFINE R == {p \in Nat \X Nat : p[1] < p[2]}
  <1>1. IsWellFoundedOn(R, Nat)
    BY NatLessThanWellFounded DEF OpToRel
  <1>2. PICK n \in Nat \ T : \A m \in Nat \ T : <<m, n>> \notin R
    <2> HIDE DEF R
    <2> QED BY <1>1, WFMin
  <1>3. n # 0 /\ n - 1 \in Nat /\ <<n - 1, n>> \in R
    OBVIOUS
  <1>4. n - 1 \in T
    BY <1>2, <1>3
  <1> QED BY <1>2, <1>3, <1>4

One(s) == CHOOSE x \in s : TRUE

Unfold(w, S, g) == g = [s \in SUBSET S |-> IF s = {} THEN 0 ELSE w[One(s)] + g[s \ {One(s)}]]

LEMMA OneIn == \A s : s # {} => One(s) \in s
  BY DEF One

LEMMA SumExists ==
  ASSUME NEW S, IsFiniteSet(S), NEW w
  PROVE  \E g : Unfold(w, S, g)
  <1> DEFINE Upto(n) == {s \in SUBSET S : Cardinality(s) <= n}
             Body(g, s) == IF s = {} THEN 0 ELSE w[One(s)] + g[s \ {One(s)}]
             T == {n \in Nat : \E g : g = [s \in Upto(n) |-> Body(g, s)]}
  <1>0. \A s \in SUBSET S :
          IsFiniteSet(s) /\ Cardinality(s) \in Nat /\ Cardinality(s) <= Cardinality(S)
    BY FS_Subset, FS_CardinalityType
  <1>1. \A s \in SUBSET S : s # {} =>
          s \ {One(s)} \in SUBSET S /\ Cardinality(s \ {One(s)}) = Cardinality(s) - 1
    BY <1>0, OneIn, FS_RemoveElement
  <1>2. 0 \in T
    <2> DEFINE g == [s \in Upto(0) |-> 0]
    <2>1. \A s \in Upto(0) : s = {}
      BY <1>0, FS_EmptySet
    <2>2. g = [s \in Upto(0) |-> Body(g, s)]
      BY <2>1
    <2> QED BY <2>2
  <1>3. ASSUME NEW n \in Nat, n \in T PROVE n + 1 \in T
    <2>1. PICK g : g = [s \in Upto(n) |-> Body(g, s)]
      BY <1>3
    <2> DEFINE h == [s \in Upto(n + 1) |-> Body(g, s)]
    <2>2. \A s \in Upto(n + 1) : s # {} => s \ {One(s)} \in Upto(n)
      BY <1>0, <1>1
    <2>3. \A s \in Upto(n) : s \in Upto(n + 1) /\ g[s] = Body(g, s)
      <3>1. \A s \in Upto(n) : s \in Upto(n + 1)
        BY <1>0
      <3> HIDE DEF Body, Upto
      <3>2. \A s \in Upto(n) : g[s] = Body(g, s)
        BY <2>1
      <3> QED BY <3>1, <3>2
    <2>4. \A s \in Upto(n) : h[s] = g[s]
      BY <2>3
    <2>5. \A s \in Upto(n + 1) : Body(g, s) = Body(h, s)
      BY <2>2, <2>4
    <2>6. h = [s \in Upto(n + 1) |-> Body(g, s)]
      OBVIOUS
    <2> HIDE DEF h, Body, Upto
    <2>7. [s \in Upto(n + 1) |-> Body(g, s)] = [s \in Upto(n + 1) |-> Body(h, s)]
      BY <2>5, Zenon
    <2>8. h = [s \in Upto(n + 1) |-> Body(h, s)]
      BY <2>6, <2>7
    <2>9. \E f : f = [s \in Upto(n + 1) |-> Body(f, s)]
      BY <2>8
    <2> QED BY <2>9
  <1>4. Cardinality(S) \in T
    <2> HIDE DEF T
    <2> QED BY <1>0, <1>2, <1>3, Induction
  <1>5. Upto(Cardinality(S)) = SUBSET S
    BY <1>0
  <1>6. PICK g : g = [s \in Upto(Cardinality(S)) |-> Body(g, s)]
    BY <1>4
  <1> HIDE DEF Body, Upto
  <1>7. g = [s \in SUBSET S |-> Body(g, s)]
    BY <1>5, <1>6
  <1> QED BY <1>7 DEF Unfold, Body

LEMMA OneLess ==
  ASSUME NEW S, IsFiniteSet(S), NEW n \in Nat, Cardinality(S) = n + 1
  PROVE  /\ S # {} /\ One(S) \in S
         /\ \A x \in S : IsFiniteSet(S \ {x}) /\ Cardinality(S \ {x}) = n
  <1>1. S # {}
    BY FS_EmptySet
  <1>2. ASSUME NEW x \in S PROVE IsFiniteSet(S \ {x}) /\ Cardinality(S \ {x}) = n
    <2>1. IsFiniteSet(S \ {x}) /\ Cardinality(S \ {x}) = Cardinality(S) - 1
      BY FS_RemoveElement
    <2> QED BY <2>1
  <1> QED BY <1>1, <1>2, OneIn

LEMMA UnfoldsAgree ==
  ASSUME NEW S, IsFiniteSet(S), NEW R, NEW w, NEW g, NEW h,
         Unfold(w, S, g), Unfold(w, R, h), S \subseteq R
  PROVE  \A s \in SUBSET S : g[s] = h[s]
  <1> DEFINE T == {n \in Nat : \A s \in SUBSET S : Cardinality(s) = n => g[s] = h[s]}
  <1>1. \A s \in SUBSET S : IsFiniteSet(s) /\ Cardinality(s) \in Nat
    BY FS_Subset, FS_CardinalityType
  <1>2. 0 \in T
    BY <1>1, FS_EmptySet DEF Unfold
  <1>3. ASSUME NEW n \in Nat, n \in T PROVE n + 1 \in T
    <2> SUFFICES ASSUME NEW s \in SUBSET S, Cardinality(s) = n + 1 PROVE g[s] = h[s]
      OBVIOUS
    <2> DEFINE t == s \ {One(s)}
    <2>1. s # {} /\ t \in SUBSET S /\ Cardinality(t) = n
      BY <1>1, OneLess
    <2>2. g[t] = h[t]
      BY <1>3, <2>1
    <2> QED BY <2>1, <2>2 DEF Unfold
  <1> HIDE DEF T
  <1>4. \A n \in Nat : n \in T
    BY <1>2, <1>3, Induction
  <1> QED BY <1>1, <1>4 DEF T

Sum(w, S) == (CHOOSE g : Unfold(w, S, g))[S]

LEMMA SumIs ==
  ASSUME NEW S, IsFiniteSet(S), NEW w, NEW g, Unfold(w, S, g)
  PROVE  Sum(w, S) = g[S]
  <1>1. Unfold(w, S, CHOOSE f : Unfold(w, S, f))
    OBVIOUS
  <1> QED BY <1>1, UnfoldsAgree DEF Sum

LEMMA SumOfNone == ASSUME NEW w PROVE Sum(w, {}) = 0
  <1>1. PICK g : Unfold(w, {}, g)
    BY SumExists, FS_EmptySet
  <1>2. g[{}] = 0
    BY <1>1 DEF Unfold
  <1> QED BY <1>1, <1>2, SumIs, FS_EmptySet

LEMMA SumUnfolds ==
  ASSUME NEW S, IsFiniteSet(S), S # {}, NEW w
  PROVE  Sum(w, S) = w[One(S)] + Sum(w, S \ {One(S)})
  <1> DEFINE T == S \ {One(S)}
  <1>1. IsFiniteSet(T) /\ T \subseteq S
    BY FS_RemoveElement
  <1>2. PICK g : Unfold(w, S, g)
    BY SumExists
  <1>3. PICK h : Unfold(w, T, h)
    BY <1>1, SumExists
  <1>4. h[T] = g[T]
    BY <1>1, <1>2, <1>3, UnfoldsAgree
  <1>5. g[S] = w[One(S)] + g[T]
    BY <1>2 DEF Unfold
  <1>6. Sum(w, S) = g[S] /\ Sum(w, T) = h[T]
    BY <1>1, <1>2, <1>3, SumIs
  <1> QED BY <1>4, <1>5, <1>6

LEMMA SumType ==
  ASSUME NEW S, IsFiniteSet(S), NEW w, \A x \in S : w[x] \in Int
  PROVE  Sum(w, S) \in Int
  <1> DEFINE T == {n \in Nat : \A s \in SUBSET S : Cardinality(s) = n => Sum(w, s) \in Int}
  <1>1. \A s \in SUBSET S : IsFiniteSet(s) /\ Cardinality(s) \in Nat
    BY FS_Subset, FS_CardinalityType
  <1>2. 0 \in T
    BY <1>1, FS_EmptySet, SumOfNone
  <1>3. ASSUME NEW n \in Nat, n \in T PROVE n + 1 \in T
    <2> SUFFICES ASSUME NEW s \in SUBSET S, Cardinality(s) = n + 1 PROVE Sum(w, s) \in Int
      OBVIOUS
    <2> DEFINE t == s \ {One(s)}
    <2>1. IsFiniteSet(s) /\ s # {} /\ t \in SUBSET S /\ Cardinality(t) = n /\ One(s) \in S
      BY <1>1, OneLess
    <2>2. Sum(w, t) \in Int
      BY <1>3, <2>1
    <2>3. Sum(w, s) = w[One(s)] + Sum(w, t)
      BY <2>1, SumUnfolds
    <2> QED BY <2>1, <2>2, <2>3
  <1> HIDE DEF T
  <1>4. \A n \in Nat : n \in T
    BY <1>2, <1>3, Induction
  <1> QED BY <1>1, <1>4 DEF T

\* The order in which CHOOSE takes the members makes no difference.
LEMMA SumRemoves ==
  ASSUME NEW S, IsFiniteSet(S), NEW w, \A y \in S : w[y] \in Int
  PROVE  \A x \in S : Sum(w, S) = w[x] + Sum(w, S \ {x})
  <1> DEFINE T == {n \in Nat : \A s \in SUBSET S : Cardinality(s) = n =>
                     \A x \in s : Sum(w, s) = w[x] + Sum(w, s \ {x})}
  <1>1. \A s \in SUBSET S : IsFiniteSet(s) /\ Cardinality(s) \in Nat
    BY FS_Subset, FS_CardinalityType
  <1>2. 0 \in T
    BY <1>1, FS_EmptySet
  <1>3. ASSUME NEW n \in Nat, n \in T PROVE n + 1 \in T
    <2> SUFFICES ASSUME NEW s \in SUBSET S, Cardinality(s) = n + 1, NEW x \in s
                 PROVE  Sum(w, s) = w[x] + Sum(w, s \ {x})
      OBVIOUS
    <2> DEFINE y == One(s)
               t == s \ {x, y}
    <2>1. y \in s /\ Sum(w, s) = w[y] + Sum(w, s \ {y})
      BY <1>1, OneIn, SumUnfolds
    <2>2. ASSUME x # y PROVE Sum(w, s) = w[x] + Sum(w, s \ {x})
      <3> HIDE DEF y
      <3>1. /\ s \ {y} \in SUBSET S /\ Cardinality(s \ {y}) = n /\ x \in s \ {y}
            /\ s \ {x} \in SUBSET S /\ Cardinality(s \ {x}) = n /\ y \in s \ {x}
        BY <1>1, <2>1, <2>2, OneLess
      <3>2. (s \ {y}) \ {x} = t /\ (s \ {x}) \ {y} = t /\ t \in SUBSET S
        OBVIOUS
      <3>3. Sum(w, s \ {y}) = w[x] + Sum(w, t) /\ Sum(w, s \ {x}) = w[y] + Sum(w, t)
        BY <1>3, <3>1, <3>2
      <3>4. w[x] \in Int /\ w[y] \in Int /\ Sum(w, t) \in Int
        BY <1>1, <2>1, <3>2, SumType
      <3> QED BY <2>1, <3>3, <3>4
    <2> QED BY <2>1, <2>2
  <1> HIDE DEF T
  <1>4. \A n \in Nat : n \in T
    BY <1>2, <1>3, Induction
  <1> QED BY <1>1, <1>4 DEF T

LEMMA SumGrows ==
  ASSUME NEW S, IsFiniteSet(S), NEW x, x \notin S, NEW w, \A y \in S \cup {x} : w[y] \in Int
  PROVE  Sum(w, S \cup {x}) = Sum(w, S) + w[x]
  <1>1. IsFiniteSet(S \cup {x}) /\ (S \cup {x}) \ {x} = S
    BY FS_AddElement
  <1>2. Sum(w, S) \in Int
    BY SumType
  <1> QED BY <1>1, <1>2, SumRemoves

-----------------------------------------------------------------------------
(* The transactions *)

Locked == {"header", "item", "update", "commit", "committing"}

\* The row of a transaction between its SELECT and its end is its own, still
\* has the balance that was read and passed the ceiling with it.
RowInv == \A w \in Writes :
    /\ stage[w] \in Locked =>
        /\ rowLock[Row(w)] = w
        /\ seen[w] = balance[Row(w)]
        /\ ~OverCeiling(w, balance[Row(w)])
    /\ stage[w] \in {"commit", "committing"} =>
        newBalance[w] = balance[Row(w)] + Delta(w)

IInv == TypeOK /\ RowInv

LEMMA DeltaType == \A w \in Writes : Delta(w) \in Int
  BY WritesAssumption DEF Delta

LEMMA InitIInv == Init => IInv
  BY WritesAssumption
  DEF Init, IInv, TypeOK, RowInv, Locked, InTransaction, Ended

\* The only step that changes a balance is a commit, and it is the commit of
\* the transaction that owns the row.
LEMMA CommitIInv ==
    ASSUME IInv, NEW w \in Writes, Commit(w) PROVE IInv'
  <1> USE WritesAssumption DEF Commit, Goto, FreeRow, Row
  <1>1. TypeOK'
    BY DEF IInv, TypeOK, InTransaction, Ended
  <1>2. rowLock[Row(w)] = w
    BY DEF IInv, RowInv, Locked
  <1>3. ASSUME NEW v \in Writes, stage'[v] \in Locked
        PROVE  v # w /\ stage[v] = stage'[v] /\ Row(v) # Row(w)
               /\ rowLock'[Row(v)] = v
               /\ balance'[Row(v)] = balance[Row(v)]
    <2>1. v # w /\ stage[v] = stage'[v]
      BY <1>3 DEF IInv, TypeOK, Locked
    <2>2. rowLock[Row(v)] = v
      BY <1>3, <2>1 DEF IInv, RowInv
    <2> QED BY <1>2, <2>1, <2>2 DEF IInv, TypeOK
  <1>4. RowInv'
    BY <1>3 DEF IInv, RowInv, Locked, OverCeiling, Delta
  <1> QED BY <1>1, <1>4 DEF IInv

LEMMA NextIInv == IInv /\ [Next]_vars => IInv'
  <1> SUFFICES ASSUME IInv, [Next]_vars PROVE IInv'
    OBVIOUS
  <1> USE WritesAssumption, DeltaType
      DEF IInv, TypeOK, RowInv, Locked, InTransaction, Ended, Goto, FreeRow, Row,
          OverCeiling, Delta
  <1>0. CASE UNCHANGED vars
    BY <1>0 DEF vars
  <1>1. ASSUME NEW w \in Writes, Begin(w) PROVE IInv'
    BY <1>1 DEF Begin
  <1>2. ASSUME NEW w \in Writes, Step(w) PROVE IInv'
    <2>1. CASE RefuseInput(w)
      BY <2>1 DEF RefuseInput
    <2>2. CASE OpenSession(w)
      BY <2>2 DEF OpenSession
    <2>3. CASE Bootstrap(w) \/ RefuseActor(w)
      BY <2>3 DEF Bootstrap, RefuseActor
    <2>4. CASE RefuseRow(w) \/ RefuseCeiling(w)
      BY <2>4 DEF RefuseRow, RefuseCeiling
    <2>5. CASE FindInventory(w)
      BY <2>5 DEF FindInventory
    <2>6. CASE InsertDisposal(w) \/ InsertItem(w)
      BY <2>6 DEF InsertDisposal, InsertItem
    <2>7. CASE UpdateInventory(w)
      BY <2>7 DEF UpdateInventory
    <2>8. CASE UpdateFails(w)
      BY <2>8 DEF UpdateFails
    <2>9. CASE SendCommit(w)
      BY <2>9 DEF SendCommit
    <2>10. CASE Commit(w)
      BY <2>10, CommitIInv
    <2> QED BY <1>2, <2>1, <2>2, <2>3, <2>4, <2>5, <2>6, <2>7, <2>8, <2>9, <2>10
            DEF Step
  <1>3. ASSUME NEW w \in Writes, Fail(w) PROVE IInv'
    BY <1>3 DEF Fail
  <1> QED BY <1>0, <1>1, <1>2, <1>3 DEF Next

THEOREM Invariance == Spec => []IInv
  BY InitIInv, NextIInv, PTL DEF Spec

\* Type correctness of the two transactions.
THEOREM TypeCorrect == Spec => []TypeOK
  <1>1. IInv => TypeOK
    BY DEF IInv
  <1> QED BY <1>1, Invariance, PTL

\* FOR UPDATE makes the balance that discard_batch checked the one it changes.
THEOREM CurrentReads == Spec => []ReadsAreCurrent
  <1>1. IInv => ReadsAreCurrent
    BY DEF IInv, RowInv, Locked, ReadsAreCurrent
  <1> QED BY <1>1, Invariance, PTL

\* With a ceiling of at most the whole batch, a staff disposal of a row that is
\* not empty cannot overdraw it, whatever runs beside it.
THEOREM NoOverdraft ==
    ASSUME CeilingPercent <= 100
    PROVE  Spec => []CeilingPreventsOverdraw
  <1>1. ASSUME NEW q \in Int, NEW c \in Nat, c > 0, q * 100 <= CeilingPercent * c
        PROVE  q <= c
    <2>1. CeilingPercent * c <= 100 * c /\ CeilingPercent * c \in Int
      BY <1>1, WritesAssumption, SMT
    <2>2. \A x \in Int : q * 100 <= x /\ x <= 100 * c => q <= c
      BY SMT
    <2> QED BY <1>1, <2>1, <2>2
  <1>2. IInv => CeilingPreventsOverdraw
    <2> SUFFICES ASSUME IInv, NEW w \in Disposals \ Exempt,
                        stage[w] = "update", balance[Row(w)] > 0
                 PROVE  balance[Row(w)] + Delta(w) >= 0
      BY DEF CeilingPreventsOverdraw
    <2>0. w \in Writes
      BY WritesAssumption
    <2> USE <2>0
    <2>1. balance[Row(w)] \in Nat /\ Quantity[w] \in Int
      BY WritesAssumption DEF IInv, TypeOK, Row
    <2>2. Quantity[w] * 100 <= CeilingPercent * balance[Row(w)]
      BY <2>1, WritesAssumption DEF IInv, RowInv, Locked, OverCeiling
    <2>3. Quantity[w] <= balance[Row(w)]
      BY <1>1, <2>1, <2>2
    <2> QED BY <2>1, <2>3 DEF Delta
  <1> QED BY <1>2, Invariance, PTL

\* No disposal by staff takes effect above the ceiling of the stock it is taken
\* from, however many transactions compete for the row.
THEOREM CeilingRespected == Spec => CeilingHolds
  <1>1. IInv /\ [Next]_vars => WithinCeiling
    <2> SUFFICES ASSUME IInv, [Next]_vars, NEW w \in movements' \ movements,
                        w \in Disposals \ Exempt, balance[Row(w)] > 0
                 PROVE  (balance[Row(w)] - balance'[Row(w)]) * 100
                            <= CeilingPercent * balance[Row(w)]
      BY DEF WithinCeiling
    <2>1. w \in Writes /\ Commit(w)
      BY DEF Next, Step, Begin, RefuseInput, OpenSession, Bootstrap, RefuseActor,
             RefuseRow, FindInventory, RefuseCeiling, InsertDisposal, InsertItem,
             UpdateInventory, UpdateFails, SendCommit, Commit, Fail, vars
    <2>2. balance[Row(w)] \in Int /\ Quantity[w] \in Int
      BY <2>1, WritesAssumption DEF IInv, TypeOK, Row
    <2>3. balance'[Row(w)] = balance[Row(w)] - Quantity[w]
      BY <2>1, <2>2, WritesAssumption DEF Commit, IInv, TypeOK, RowInv, Delta, Row
    <2>4. Quantity[w] * 100 <= CeilingPercent * balance[Row(w)]
      BY <2>1, <2>2, WritesAssumption DEF Commit, IInv, RowInv, Locked, OverCeiling
    <2>5. balance[Row(w)] - balance'[Row(w)] = Quantity[w]
      BY <2>2, <2>3
    <2> QED BY <2>4, <2>5
  <1> QED BY <1>1, Invariance, PTL DEF Spec, CeilingHolds

-----------------------------------------------------------------------------
(* The balance and the book of movements *)

DeltaOf == [w \in Writes |-> Delta(w)]

Of(b) == {w \in movements : BatchOf[w] = b}

\* The movements on record are those of the committed calls, of which each has
\* left its row with what it read plus its own quantity.
BookInv ==
    /\ movements = {w \in Writes : stage[w] = "committed"} /\ IsFiniteSet(movements)
    /\ \A w \in movements : newBalance[w] = seen[w] + Delta(w)
    /\ \A b \in Batches : balance[b] = Stock[b] + Sum(DeltaOf, Of(b))

LEMMA FoldIsSum ==
  ASSUME NEW S \in SUBSET Writes, IsFiniteSet(S)
  PROVE  MapThenSumSet(Delta, S) = Sum(DeltaOf, S)
  <1> DEFINE iter == CHOOSE g : g = [s \in SUBSET S |->
                       IF s = {} THEN 0 ELSE Delta(One(s)) + g[s \ {One(s)}]]
  <1>1. MapThenSumSet(Delta, S) = iter[S]
    BY DEF MapThenSumSet, MapThenFoldSet, One
  <1>2. \A s \in SUBSET S : s # {} => DeltaOf[One(s)] = Delta(One(s))
    BY OneIn DEF DeltaOf
  <1>3. \A g : Unfold(DeltaOf, S, g) <=> g = [s \in SUBSET S |->
                  IF s = {} THEN 0 ELSE Delta(One(s)) + g[s \ {One(s)}]]
    BY <1>2 DEF Unfold
  <1>4. \E g : g = [s \in SUBSET S |-> IF s = {} THEN 0 ELSE Delta(One(s)) + g[s \ {One(s)}]]
    BY <1>3, SumExists
  <1>5. iter = [s \in SUBSET S |-> IF s = {} THEN 0 ELSE Delta(One(s)) + iter[s \ {One(s)}]]
    BY <1>4
  <1> HIDE DEF iter
  <1>6. Unfold(DeltaOf, S, iter)
    BY <1>3, <1>5
  <1> QED BY <1>1, <1>6, SumIs

LEMMA InitBook == Init => BookInv
  <1> SUFFICES ASSUME Init PROVE BookInv
    OBVIOUS
  <1>1. movements = {} /\ \A b \in Batches : Of(b) = {}
    BY DEF Init, Of
  <1>2. \A b \in Batches : balance[b] = Stock[b] + Sum(DeltaOf, Of(b))
    BY <1>1, SumOfNone, WritesAssumption DEF Init
  <1> QED BY <1>1, <1>2, FS_EmptySet DEF Init, BookInv

\* A step that is no commit leaves the book and the balances as they are.
LEMMA OtherBook ==
  ASSUME IInv, BookInv, UNCHANGED <<balance, movements>>,
         \A w \in Writes : stage[w] = "committed" <=> stage'[w] = "committed",
         \A w \in movements : newBalance'[w] = newBalance[w] /\ seen'[w] = seen[w]
  PROVE  BookInv'
  BY DEF BookInv, Of

LEMMA CommitBook ==
  ASSUME IInv, BookInv, NEW w \in Writes, Commit(w) PROVE BookInv'
  <1> DEFINE r == Row(w)
  <1>1. /\ stage[w] = "committing" /\ stage' = [stage EXCEPT ![w] = "committed"]
        /\ movements' = movements \cup {w} /\ UNCHANGED <<seen, newBalance>>
        /\ balance' = [balance EXCEPT ![r] = newBalance[w]]
    BY DEF Commit, Goto
  <1>2. /\ newBalance[w] = balance[r] + Delta(w) /\ seen[w] = balance[r] /\ w \notin movements
        /\ r \in Batches /\ r = BatchOf[w] /\ Delta(w) \in Int
    BY <1>1, DeltaType, WritesAssumption DEF IInv, RowInv, Locked, BookInv, Row
  <1>3. movements' = {v \in Writes : stage'[v] = "committed"} /\ IsFiniteSet(movements')
    BY <1>1, FS_AddElement DEF BookInv, IInv, TypeOK
  <1>4. \A v \in movements' : newBalance'[v] = seen'[v] + Delta(v)
    BY <1>1, <1>2 DEF BookInv
  <1>5. ASSUME NEW b \in Batches PROVE balance'[b] = Stock[b] + Sum(DeltaOf, Of(b)')
    <2>1. IsFiniteSet(Of(b)) /\ Of(b) \subseteq Writes
      BY FS_Subset DEF BookInv, Of
    <2>2. \A v \in Writes : DeltaOf[v] = Delta(v) /\ DeltaOf[v] \in Int
      BY DeltaType DEF DeltaOf
    <2>3. CASE b # r
      <3>1. Of(b)' = Of(b) /\ balance'[b] = balance[b]
        BY <1>1, <1>2, <2>3 DEF Of, IInv, TypeOK
      <3> QED BY <3>1 DEF BookInv
    <2>4. CASE b = r
      <3>1. Of(b)' = Of(b) \cup {w} /\ w \notin Of(b)
        BY <1>1, <1>2, <2>4 DEF Of
      <3>2. Sum(DeltaOf, Of(b) \cup {w}) = Sum(DeltaOf, Of(b)) + DeltaOf[w]
        BY <2>1, <2>2, <3>1, SumGrows
      <3>3. Sum(DeltaOf, Of(b)) \in Int
        BY <2>1, <2>2, SumType
      <3>4. balance[b] = Stock[b] + Sum(DeltaOf, Of(b)) /\ Stock[b] \in Int
        BY WritesAssumption DEF BookInv
      <3>5. balance'[b] = balance[b] + Delta(w)
        BY <1>1, <1>2, <2>4 DEF IInv, TypeOK
      <3> QED BY <2>2, <3>1, <3>2, <3>3, <3>4, <3>5
    <2> QED BY <2>3, <2>4
  <1> QED BY <1>3, <1>4, <1>5 DEF BookInv

LEMMA NextBook == IInv /\ BookInv /\ [Next]_vars => BookInv'
  <1> SUFFICES ASSUME IInv, BookInv, [Next]_vars PROVE BookInv'
    OBVIOUS
  <1> USE DEF Goto, IInv, TypeOK
  <1>1. ASSUME NEW w \in Writes, Begin(w) \/ Fail(w) \/ RefuseInput(w) \/ OpenSession(w)
                 \/ Bootstrap(w) \/ RefuseActor(w) \/ RefuseRow(w) \/ RefuseCeiling(w)
                 \/ InsertDisposal(w) \/ InsertItem(w) \/ UpdateFails(w) \/ SendCommit(w)
        PROVE  BookInv'
    <2>1. UNCHANGED <<balance, movements, seen, newBalance>>
      BY <1>1 DEF Begin, Fail, RefuseInput, OpenSession, Bootstrap, RefuseActor, RefuseRow,
                  RefuseCeiling, InsertDisposal, InsertItem, UpdateFails, SendCommit
    <2>2. stage[w] # "committed" /\ \E l : l # "committed" /\ stage' = [stage EXCEPT ![w] = l]
      BY <1>1 DEF Begin, Fail, RefuseInput, OpenSession, Bootstrap, RefuseActor, RefuseRow,
                  RefuseCeiling, InsertDisposal, InsertItem, UpdateFails, SendCommit, InTransaction
    <2> QED BY <2>1, <2>2, OtherBook
  <1>2. ASSUME NEW w \in Writes, FindInventory(w) \/ UpdateInventory(w) PROVE BookInv'
    <2>1. /\ UNCHANGED <<balance, movements>> /\ stage[w] # "committed"
          /\ \E l : l # "committed" /\ stage' = [stage EXCEPT ![w] = l]
      BY <1>2 DEF FindInventory, UpdateInventory
    <2>2. \A v \in Writes \ {w} : newBalance'[v] = newBalance[v] /\ seen'[v] = seen[v]
      BY <1>2 DEF FindInventory, UpdateInventory
    <2>3. w \notin movements
      BY <2>1 DEF BookInv
    <2> QED BY <2>1, <2>2, <2>3, OtherBook
  <1>3. ASSUME NEW w \in Writes, Commit(w) PROVE BookInv'
    BY <1>3, CommitBook
  <1>4. CASE UNCHANGED vars
    BY <1>4, OtherBook DEF vars
  <1> QED BY <1>1, <1>2, <1>3, <1>4 DEF Next, Step

THEOREM AlwaysBook == Spec => []BookInv
  BY InitBook, NextBook, Invariance, PTL DEF Spec

\* No write is lost and none leaves a trace without its movement, however many
\* transactions interleave and wherever they fail: the balance of every row is
\* its initial stock plus the quantities of the movements on record.
THEOREM NothingIsLost == Spec => []BalanceIsMovements
  <1>1. IInv /\ BookInv => BalanceIsMovements
    <2> SUFFICES ASSUME IInv, BookInv, NEW b \in Batches
                 PROVE  balance[b] = Stock[b] + MapThenSumSet(Delta, Of(b))
      BY DEF BalanceIsMovements, Of
    <2>1. Of(b) \in SUBSET Writes /\ IsFiniteSet(Of(b))
      BY FS_Subset DEF BookInv, Of
    <2> QED BY <2>1, FoldIsSum DEF BookInv
  <1> QED BY <1>1, Invariance, AlwaysBook, PTL

-----------------------------------------------------------------------------
(* The routes: each step is one of a transaction and one of run_idempotent, *)
(* or leaves one of them alone.                                             *)

Means(l) == CASE l = "idle" -> "none"
              [] l = "committed" -> "committed"
              [] l \in {"refused", "failed"} -> "rolledback"
              [] OTHER -> "open"

LEMMA StepOfTransaction == [RoutesNext]_routeVars => [Next]_vars
  BY DEF RoutesNext, routeVars, Next, Arrive, Progress, Fault, Outside, CallStep, BeginCallback,
         CallbackStep, CallbackError, Abandoned

\* The routes run the two transactions of InventoryWrites, and so have all that
\* is proved of them.
THEOREM RoutesWriteStock == Routes => Spec
  <1>1. RoutesInit => Init
    BY DEF RoutesInit
  <1> QED BY <1>1, StepOfTransaction, PTL DEF Routes, Spec

LEMMA RoutesIInv == Routes => []IInv /\ []BookInv
  BY RoutesWriteStock, Invariance, AlwaysBook, PTL

\* A transaction that goes on alone commits, rolls back, or stays open.
LEMMA TransactionAlone ==
  ASSUME IInv, NEW w \in Writes, Step(w) \/ Fail(w), UNCHANGED keyVars
  PROVE  I!DbEnds(w) \/ UNCHANGED I!vars
  <1>1. PICK l : /\ stage' = [stage EXCEPT ![w] = l]
                 /\ stage[w] \in InTransaction /\ l \in InTransaction \cup Ended
    BY DEF Step, Fail, RefuseInput, OpenSession, Bootstrap, RefuseActor, RefuseRow, FindInventory,
           RefuseCeiling, InsertDisposal, InsertItem, UpdateInventory, UpdateFails, SendCommit,
           Commit, Goto, InTransaction, Ended
  <1>2. DOMAIN stage = Writes
    BY DEF IInv, TypeOK
  <1>3. db' = [v \in Writes |-> Means(stage'[v])] /\ db = [v \in Writes |-> Means(stage[v])]
    BY DEF db, Means
  <1>4. db' = [db EXCEPT ![w] = Means(l)] /\ db[w] = Means(stage[w])
    BY <1>1, <1>2, <1>3
  <1>5. db[w] = "open" /\ Means(l) \in {"open", "committed", "rolledback"}
    BY <1>1, <1>4 DEF Means, InTransaction, Ended
  <1>6. CASE Means(l) = "open"
    BY <1>3, <1>4, <1>5, <1>6 DEF I!vars, keyVars
  <1>7. CASE Means(l) = "committed"
    BY <1>4, <1>5, <1>7 DEF I!DbEnds, I!Commit, keyVars
  <1>8. CASE Means(l) = "rolledback"
    BY <1>4, <1>5, <1>8 DEF I!DbEnds, I!Rollback, keyVars
  <1> QED BY <1>5, <1>6, <1>7, <1>8

LEMMA StepOfCall == IInv /\ [RoutesNext]_routeVars => [I!Next]_I!vars
  <1> SUFFICES ASSUME IInv, [RoutesNext]_routeVars PROVE [I!Next]_I!vars
    OBVIOUS
  <1>1. ASSUME NEW w \in Writes, Arrive(w) \/ CallStep(w) \/ CallbackError(w) PROVE I!Next
    BY <1>1 DEF Arrive, CallStep, CallbackError, I!Next, I!Interrupt
  <1>2. ASSUME NEW w \in Writes, BeginCallback(w) PROVE I!Next
    BY <1>2 DEF BeginCallback, I!Next, I!Step
  <1>3. ASSUME NEW w \in Writes, CallbackStep(w) \/ Abandoned(w) PROVE [I!Next]_I!vars
    BY <1>3, TransactionAlone DEF CallbackStep, Abandoned, I!Next
  <1>4. ASSUME NEW w \in Writes, Fault(w) PROVE [I!Next]_I!vars
    BY <1>4, TransactionAlone DEF Fault, I!Next
  <1>5. ASSUME NEW k \in Keys, Outside(k) PROVE I!Next
    BY <1>5 DEF Outside, I!Next
  <1>6. CASE UNCHANGED routeVars
    <2>1. UNCHANGED stage /\ UNCHANGED keyVars
      BY <1>6 DEF routeVars, vars
    <2> QED BY <2>1 DEF keyVars, I!vars, db
  <1> QED BY <1>1, <1>2, <1>3, <1>4, <1>5, <1>6 DEF RoutesNext, Progress

\* The routes run run_idempotent: whatever a transaction does, its call sees a
\* callback that is open until it commits or rolls back, once.
THEOREM RoutesRunIdempotent == Routes => RunsIdempotent
  <1>1. RoutesInit => I!Init
    BY DEF RoutesInit, Init, I!Init, db
  <1> QED BY <1>1, StepOfCall, RoutesIInv, PTL DEF Routes, RunsIdempotent, I!Spec

-----------------------------------------------------------------------------
(* What the two parts give together *)

IP == INSTANCE IdempotencyProofs WITH Requests <- Writes, NoRequest <- NoWrite

\* IdempotencyProofs speaks of the same calls.
LEMMA SameCalls == I!Spec => IP!Spec
  <1>1. I!Init => IP!Init
    BY DEF I!Init, IP!Init
  <1>2. [I!Next]_I!vars => [IP!Next]_IP!vars
    BY DEF I!vars, I!Next, I!Start, I!Step, I!Interrupt, I!DbEnds, I!Expire, I!Operator, I!Replay,
           I!LookupMiss, I!Acquire, I!AcquireBusy, I!RelookupMiss, I!RecheckHit, I!RecheckMiss,
           I!WriteReturns, I!WriteRefused, I!Store, I!Release, I!Abort, I!LostAcquire,
           I!LostStore, I!LostRelease, I!Commit, I!Rollback, I!RestoreResult, I!RemoveLock,
           I!Retained, I!Goto, I!Cached, I!Hold, I!Unlock, I!Running, I!Done,
           IP!vars, IP!Next, IP!Start, IP!Step, IP!Interrupt, IP!DbEnds, IP!Expire, IP!Operator,
           IP!Replay, IP!LookupMiss, IP!Acquire, IP!AcquireBusy, IP!RelookupMiss, IP!RecheckHit,
           IP!RecheckMiss, IP!WriteReturns, IP!WriteRefused, IP!Store, IP!Release, IP!Abort,
           IP!LostAcquire, IP!LostStore, IP!LostRelease, IP!Commit, IP!Rollback,
           IP!RestoreResult, IP!RemoveLock, IP!Retained, IP!Goto, IP!Cached, IP!Hold, IP!Unlock,
           IP!Running, IP!Done
  <1> QED BY <1>1, <1>2, PTL DEF I!Spec, IP!Spec

LEMMA CallsIInv == Routes => []IP!IInv
  <1>1. IP!Spec => []IP!IInv
    BY IP!Invariance, RoutesAssumption, WritesAssumption
  <1> QED BY <1>1, RoutesRunIdempotent, SameCalls, PTL DEF RunsIdempotent

LEMMA CommittedMoves == BookInv => IP!Committed = movements
  BY DEF BookInv, IP!Committed, db

\* A key moves the stock once while its result is remembered, however many calls
\* carry it and wherever the calls and their transactions fail: that at most one
\* write is in effect is proved of the calls, that a write in effect is a
\* movement of the transactions.
THEOREM OneMovementPerKey == Routes => []KeyMovesStockOnce
  <1>1. IP!Spec => []IP!AtMostOneInEffect
    BY IP!AtMostOnceEffect, RoutesAssumption, WritesAssumption
  <1>2. BookInv /\ IP!AtMostOneInEffect => KeyMovesStockOnce
    BY CommittedMoves DEF IP!AtMostOneInEffect, KeyMovesStockOnce
  <1> QED BY <1>1, <1>2, RoutesIInv, RoutesRunIdempotent, SameCalls, PTL DEF RunsIdempotent

\* The abstract at-most-once writes, with the movements on record as the writes
\* that have taken effect.
MovesOnce == INSTANCE AtMostOnceWrites WITH Requests <- Writes, NoRequest <- NoWrite,
                                            applied <- movements, forgotten <- lapsed

LEMMA SameSteps ==
  ASSUME BookInv, BookInv', [IP!AtMostOnce!Next]_IP!AtMostOnce!vars
  PROVE  [MovesOnce!Next]_MovesOnce!vars
  <1>1. IP!Committed = movements /\ IP!Committed' = movements'
    BY CommittedMoves DEF BookInv, IP!Committed, db
  <1>2. ASSUME NEW w \in Writes, IP!AtMostOnce!Apply(w) PROVE MovesOnce!Apply(w)
    BY <1>1, <1>2 DEF IP!AtMostOnce!Apply, IP!AtMostOnce!InEffect, MovesOnce!Apply, MovesOnce!InEffect
  <1>3. ASSUME NEW w \in Writes, IP!AtMostOnce!Answer(w) PROVE MovesOnce!Answer(w)
    BY <1>1, <1>3 DEF IP!AtMostOnce!Answer, IP!AtMostOnce!InEffect, MovesOnce!Answer, MovesOnce!InEffect
  <1>4. ASSUME NEW w \in Writes, IP!AtMostOnce!Forget(w) PROVE MovesOnce!Forget(w)
    BY <1>1, <1>4 DEF IP!AtMostOnce!Forget, MovesOnce!Forget
  <1>5. ASSUME NEW w \in Writes, IP!AtMostOnce!Recall(w) PROVE MovesOnce!Recall(w)
    BY <1>1, <1>5 DEF IP!AtMostOnce!Recall, IP!AtMostOnce!InEffect, MovesOnce!Recall, MovesOnce!InEffect
  <1>6. CASE UNCHANGED IP!AtMostOnce!vars
    BY <1>1, <1>6 DEF IP!AtMostOnce!vars, MovesOnce!vars
  <1> QED BY <1>2, <1>3, <1>4, <1>5, <1>6 DEF IP!AtMostOnce!Next, MovesOnce!Next

\* The routes implement the at-most-once writes on the ledger of the stock itself:
\* a movement is recorded once for a key that is remembered, and every answered
\* call with a movement of its key (main.py, run_idempotent, the transactions of
\* postgres_tools.py).
THEOREM RoutesMoveOnce == Routes => MovesOnce!Spec
  <1>1. IP!Spec => IP!ImplementsAtMostOnce
    BY IP!Refinement, RoutesAssumption, WritesAssumption
  <1>2. BookInv /\ IP!AtMostOnce!Init => MovesOnce!Init
    BY CommittedMoves DEF IP!AtMostOnce!Init, MovesOnce!Init
  <1> QED BY <1>1, <1>2, SameSteps, RoutesIInv, RoutesRunIdempotent, SameCalls, PTL
       DEF RunsIdempotent, IP!ImplementsAtMostOnce, IP!AtMostOnce!Spec, MovesOnce!Spec

\* A call that answers a refusal, or will, is one whose transaction refused.
Refusing(w) == pc[w] = "refused" \/ (pc[w] = "release" /\ answer[w] = NoWrite)

RefusalInv == \A w \in Writes : Refusing(w) => stage[w] = "refused"

\* A transaction that has refused does nothing more.
LEMMA RefusedStays ==
  ASSUME IInv, [Next]_vars
  PROVE  \A w \in Writes : stage[w] = "refused" => stage'[w] = "refused"
  <1> SUFFICES ASSUME NEW w \in Writes, stage[w] = "refused", NEW v \in Writes,
                      Begin(v) \/ Step(v) \/ Fail(v)
               PROVE  stage'[w] = "refused"
    BY DEF Next, vars
  <1>1. \E l : stage' = [stage EXCEPT ![v] = l]
    BY DEF Begin, Step, Fail, RefuseInput, OpenSession, Bootstrap, RefuseActor, RefuseRow,
           FindInventory, RefuseCeiling, InsertDisposal, InsertItem, UpdateInventory, UpdateFails,
           SendCommit, Commit, Goto
  <1>2. stage[v] # "refused"
    BY DEF Begin, Step, Fail, RefuseInput, OpenSession, Bootstrap, RefuseActor, RefuseRow,
           FindInventory, RefuseCeiling, InsertDisposal, InsertItem, UpdateInventory, UpdateFails,
           SendCommit, Commit, InTransaction
  <1> QED BY <1>1, <1>2 DEF IInv, TypeOK

\* Only a callback that refused takes its call to the release without an answer.
LEMMA RefusalStep ==
  ASSUME IP!IInv, NEW w \in Writes, CallStep(w), RefusalInv
  PROVE  \A v \in Writes : Refusing(v)' => Refusing(v) \/ stage[v] = "refused"
  <1>1. /\ DOMAIN pc = Writes /\ DOMAIN answer = Writes
        /\ \A v \in Writes : pc[v] = "store" => answer[v] = v
    BY DEF IP!IInv, IP!TypeOK, IP!AnswerInv, IP!Running, IP!Done
  <1>2. ASSUME NEW v \in Writes \ {w} PROVE pc'[v] = pc[v] /\ answer'[v] = answer[v]
    BY <1>1 DEF CallStep, I!Step, I!Replay, I!LookupMiss, I!Acquire, I!AcquireBusy, I!RelookupMiss,
           I!RecheckHit, I!RecheckMiss, I!WriteReturns, I!WriteRefused, I!Store, I!Release,
           I!Goto, I!Hold
  <1>3. ASSUME Refusing(w)' PROVE Refusing(w) \/ stage[w] = "refused"
    <2>1. CASE I!WriteRefused(w)
      <3>1. pc[w] = "write" /\ db[w] = "rolledback" /\ stage[w] # "failed"
        BY <2>1 DEF CallStep, I!WriteRefused
      <3> QED BY <3>1 DEF db
    <2>2. CASE I!Store(w)
      BY <1>1, <1>3, <2>2, WritesAssumption DEF I!Store, I!Goto, Refusing
    <2>3. CASE I!RecheckHit(w)
      BY <1>1, <1>3, <2>3 DEF I!RecheckHit, I!Hold, I!Goto, Refusing
    <2>4. CASE I!Release(w)
      BY <1>1, <1>3, <2>4 DEF I!Release, I!Goto, Refusing
    <2>5. CASE \/ I!Replay(w) \/ I!LookupMiss(w) \/ I!Acquire(w) \/ I!AcquireBusy(w)
               \/ I!RelookupMiss(w) \/ I!RecheckMiss(w) \/ I!WriteReturns(w)
      BY <1>1, <1>3, <2>5 DEF I!Replay, I!LookupMiss, I!Acquire, I!AcquireBusy, I!RelookupMiss,
           I!RecheckMiss, I!WriteReturns, I!Goto, Refusing
    <2> QED BY <2>1, <2>2, <2>3, <2>4, <2>5 DEF CallStep, I!Step
  <1> QED BY <1>2, <1>3 DEF Refusing

\* No other step lets a call refuse.
LEMMA NoRefusal ==
  ASSUME IP!IInv, [RoutesNext]_routeVars, \A w \in Writes : ~CallStep(w)
  PROVE  \A v \in Writes : Refusing(v)' => Refusing(v)
  <1>1. DOMAIN pc = Writes /\ DOMAIN answer = Writes
    BY DEF IP!IInv, IP!TypeOK
  <1>2. ASSUME NEW w \in Writes, UNCHANGED answer,
               \E l \in {"lookup", "error", "write"} : pc' = [pc EXCEPT ![w] = l]
        PROVE  \A v \in Writes : Refusing(v)' => Refusing(v)
    BY <1>1, <1>2 DEF Refusing
  <1>3. ASSUME NEW w \in Writes, Arrive(w) \/ BeginCallback(w) \/ CallbackError(w) \/ I!Interrupt(w)
        PROVE  /\ UNCHANGED answer
               /\ \E l \in {"lookup", "error", "write"} : pc' = [pc EXCEPT ![w] = l]
    BY <1>3 DEF Arrive, BeginCallback, CallbackError, I!Start, I!RecheckMiss, I!Interrupt, I!Abort,
                I!LostAcquire, I!LostStore, I!LostRelease, I!Goto
  <1>4. ASSUME UNCHANGED <<pc, answer>> PROVE \A v \in Writes : Refusing(v)' => Refusing(v)
    BY <1>4 DEF Refusing
  <1>5. ASSUME NEW w \in Writes, CallbackStep(w) \/ Abandoned(w) \/ UNCHANGED keyVars
        PROVE  UNCHANGED <<pc, answer>>
    BY <1>5 DEF CallbackStep, Abandoned, keyVars
  <1>6. ASSUME NEW k \in Keys, Outside(k) PROVE UNCHANGED <<pc, answer>>
    BY <1>6 DEF Outside, I!Expire, I!Operator, I!RestoreResult, I!RemoveLock
  <1>7. CASE UNCHANGED routeVars
    BY <1>4, <1>7 DEF routeVars, keyVars
  <1>8. ASSUME NEW w \in Writes, Arrive(w) \/ Progress(w) \/ Fault(w)
        PROVE  \A v \in Writes : Refusing(v)' => Refusing(v)
    <2>1. CASE Arrive(w) \/ BeginCallback(w) \/ CallbackError(w) \/ I!Interrupt(w)
      <3>1. UNCHANGED answer /\ \E l \in {"lookup", "error", "write"} : pc' = [pc EXCEPT ![w] = l]
        BY <1>3, <2>1
      <3> QED BY <1>2, <3>1
    <2>2. CASE CallbackStep(w) \/ Abandoned(w) \/ UNCHANGED keyVars
      BY <1>4, <1>5, <2>2
    <2> QED BY <1>8, <2>1, <2>2 DEF Progress, Fault
  <1>9. ASSUME NEW k \in Keys, Outside(k) PROVE \A v \in Writes : Refusing(v)' => Refusing(v)
    BY <1>4, <1>6, <1>9
  <1> QED BY <1>7, <1>8, <1>9 DEF RoutesNext

LEMMA AlwaysRefusal == Routes => []RefusalInv
  <1>1. RoutesInit => RefusalInv
    BY DEF RoutesInit, RefusalInv, Refusing
  <1>2. IInv /\ IP!IInv /\ RefusalInv /\ [RoutesNext]_routeVars => RefusalInv'
    <2> SUFFICES ASSUME IInv, IP!IInv, RefusalInv, [RoutesNext]_routeVars,
                        NEW v \in Writes, Refusing(v)'
                 PROVE  stage'[v] = "refused"
      BY DEF RefusalInv
    <2>1. \A w \in Writes : stage[w] = "refused" => stage'[w] = "refused"
      BY StepOfTransaction, RefusedStays
    <2>2. Refusing(v) \/ stage[v] = "refused"
      BY RefusalStep, NoRefusal
    <2> QED BY <2>1, <2>2 DEF RefusalInv
  <1> QED BY <1>1, <1>2, RoutesIInv, CallsIInv, PTL DEF Routes

\* What a route answers is what happened to the stock: a success names a movement
\* on record of the caller's key and the balance that movement left, and a refusal
\* or a conflict comes from a call that has moved nothing and no longer can.
THEOREM RepliesAreTrue == Routes => []ReplyMatchesStock
  <1>1. ASSUME IInv, BookInv, IP!IInv, RefusalInv, IP!AnswersAreTrue, NEW w \in Writes
        PROVE  /\ pc[w] = "ok" =>
                   /\ answer[w] \in movements
                   /\ KeyOf[answer[w]] = KeyOf[w]
                   /\ newBalance[answer[w]] = seen[answer[w]] + Delta(answer[w])
               /\ pc[w] \in {"refused", "in_progress"} =>
                   w \notin movements /\ stage[w] \in {"idle", "refused"}
    <2>1. pc[w] = "ok" => answer[w] \in movements /\ KeyOf[answer[w]] = KeyOf[w]
      BY <1>1, CommittedMoves DEF IP!AnswersAreTrue
    <2>2. pc[w] = "refused" => stage[w] = "refused"
      BY <1>1 DEF RefusalInv, Refusing
    <2>3. pc[w] = "in_progress" => stage[w] = "idle"
      <3>1. pc[w] = "in_progress" => db[w] = "none"
        BY <1>1 DEF IP!IInv, IP!DbInv
      <3> QED BY <3>1 DEF db
    <2> QED BY <1>1, <2>1, <2>2, <2>3 DEF BookInv
  <1>2. IInv /\ BookInv /\ IP!IInv /\ RefusalInv /\ IP!AnswersAreTrue => ReplyMatchesStock
    BY <1>1 DEF ReplyMatchesStock
  <1>3. IP!Spec => []IP!AnswersAreTrue
    BY IP!TruthfulAnswers, RoutesAssumption, WritesAssumption
  <1> QED BY <1>2, <1>3, RoutesIInv, CallsIInv, AlwaysRefusal, RoutesRunIdempotent, SameCalls, PTL
          DEF RunsIdempotent
================================================================================
