------------------------- MODULE LLMAdmissionProofs -------------------------
(***************************************************************************)
(* Proofs about LLMAdmission: that the pod's permits, the tenants' and the *)
(* quota are conserved on every way through a request, for any number of   *)
(* requests, tenants, caps and rates, and that what of a conversation is   *)
(* sent to the model is what _manage_context_budget() promises, for every  *)
(* conversation and budget.                                                *)
(***************************************************************************)
EXTENDS LLMAdmission, FiniteSetTheorems, WellFoundedInduction, TLAPS

-----------------------------------------------------------------------------
(* Sums over finite sets *)

\* One cell for each unit that f gives an element of S: a sum counts them.
Cells(f, S) == UNION {{x} \X (1..f[x]) : x \in S}

Counts(f, S) == IsFiniteSet(S) /\ \A x \in S : f[x] \in Nat

\* The cells of finitely many elements are finitely many.
LEMMA CellsFinite ==
    ASSUME NEW f, NEW S, Counts(f, S)
    PROVE  IsFiniteSet(Cells(f, S)) /\ Cardinality(Cells(f, S)) \in Nat
<1> DEFINE column == [x \in S |-> {x} \X (1..f[x])]
           columns == {{x} \X (1..f[x]) : x \in S}
<1>1. column \in Surjection(S, columns)
  BY DEF Surjection
<1>2. IsFiniteSet(columns)
  BY <1>1, FS_Surjection DEF Counts
<1>3. ASSUME NEW x \in S PROVE IsFiniteSet({x} \X (1..f[x]))
  <2>1. f[x] \in Int
    BY DEF Counts
  <2>2. IsFiniteSet({x})
    BY FS_Singleton
  <2>3. IsFiniteSet(1..f[x])
    BY <2>1, 1 \in Int, FS_Interval
  <2> QED
    BY <2>2, <2>3, FS_Product
<1>4. \A T \in columns : IsFiniteSet(T)
  BY <1>3
<1>5. IsFiniteSet(UNION columns)
  BY <1>2, <1>4, FS_UNION
<1> QED
  BY <1>5, FS_CardinalityType DEF Cells

\* The cells of disjoint sets are added up.
LEMMA CellsUnion ==
    ASSUME NEW f, NEW S, NEW T, Counts(f, S), Counts(f, T), S \cap T = {}
    PROVE  Cardinality(Cells(f, S \cup T)) =
               Cardinality(Cells(f, S)) + Cardinality(Cells(f, T))
<1>1. Cells(f, S \cup T) = Cells(f, S) \cup Cells(f, T)
  BY DEF Cells
<1>2. Cells(f, S) \cap Cells(f, T) = {}
  BY DEF Cells
<1>3. IsFiniteSet(Cells(f, S)) /\ IsFiniteSet(Cells(f, T))
  BY CellsFinite
<1>4. Cardinality(Cells(f, S) \cup Cells(f, T)) =
          Cardinality(Cells(f, S)) + Cardinality(Cells(f, T))
              - Cardinality(Cells(f, S) \cap Cells(f, T))
  BY <1>3, FS_Union
<1> QED
  <2>1. Cardinality(Cells(f, S) \cap Cells(f, T)) = 0
    BY <1>2, FS_EmptySet
  <2>2. Cardinality(Cells(f, S)) \in Nat /\ Cardinality(Cells(f, T)) \in Nat
    BY CellsFinite
  <2>3. Cardinality(Cells(f, S \cup T)) = Cardinality(Cells(f, S) \cup Cells(f, T))
    BY <1>1
  <2> QED
    BY <1>4, <2>1, <2>2, <2>3

\* An element has as many cells as f gives it.
LEMMA CellsOfOne ==
    ASSUME NEW f, NEW x, f[x] \in Nat
    PROVE  Cardinality(Cells(f, {x})) = f[x]
<1>1. Cells(f, {x}) = {x} \X (1..f[x])
  BY DEF Cells
<1>2. IsFiniteSet({x}) /\ Cardinality({x}) = 1
  BY FS_Singleton
<1>3. IsFiniteSet(1..f[x])
      /\ Cardinality(1..f[x]) = IF 1 > f[x] THEN 0 ELSE f[x] - 1 + 1
  BY FS_Interval, 1 \in Int, f[x] \in Int
<1>4. Cardinality(1..f[x]) = f[x]
  BY <1>3
<1>5. Cardinality({x} \X (1..f[x])) = Cardinality({x}) * Cardinality(1..f[x])
  BY <1>2, <1>3, FS_Product
<1>6. 1 * f[x] = f[x]
  OBVIOUS
<1> QED
  BY <1>1, <1>2, <1>4, <1>5, <1>6

\* What the fold of the community modules computes, element by element.
Folding(f, S, g) ==
    g = [s \in SUBSET S |-> IF s = {} THEN 0
                            ELSE f[CHOOSE x \in s : TRUE] + g[s \ {CHOOSE x \in s : TRUE}]]

\* A function that folds counts the cells.
LEMMA FoldingCounts ==
    ASSUME NEW f, NEW S, Counts(f, S), NEW g, Folding(f, S, g)
    PROVE  g[S] = Cardinality(Cells(f, S))
<1> DEFINE Wrong == {s \in SUBSET S : g[s] # Cardinality(Cells(f, s))}
<1> SUFFICES ASSUME Wrong # {} PROVE FALSE
  BY DEF Counts
<1>1. \A s \in SUBSET S : Counts(f, s)
  BY FS_Subset DEF Counts
<1>2. Wrong \subseteq FiniteSubsetsOf(S)
  BY <1>1 DEF FiniteSubsetsOf, Counts
<1>3. PICK s \in Wrong : \A r \in Wrong : ~(<<r, s>> \in StrictSubsetOrdering(S))
  BY <1>2, FS_StrictSubsetOrderingWellFounded, WFMin
<1>4. s # {}
  <2> SUFFICES ASSUME s = {} PROVE FALSE
    OBVIOUS
  <2>1. g[s] = 0
    BY <1>3 DEF Folding
  <2>2. Cells(f, s) = {}
    BY DEF Cells
  <2> QED
    BY <2>1, <2>2, FS_EmptySet
<1> DEFINE x == CHOOSE x \in s : TRUE
<1>5. x \in s
  BY <1>4
<1>6. g[s] = f[x] + g[s \ {x}]
  BY <1>3, <1>4 DEF Folding
<1> HIDE DEF x
<1>7. s \ {x} \in SUBSET S /\ <<s \ {x}, s>> \in StrictSubsetOrdering(S)
  BY <1>3, <1>5 DEF StrictSubsetOrdering
<1>8. g[s \ {x}] = Cardinality(Cells(f, s \ {x}))
  BY <1>3, <1>7
<1>9. Counts(f, s \ {x}) /\ Counts(f, {x}) /\ f[x] \in Nat
  BY <1>1, <1>3, <1>5, <1>7, FS_Singleton DEF Counts
<1>10. s = (s \ {x}) \cup {x} /\ (s \ {x}) \cap {x} = {}
  BY <1>5
<1>11. Cardinality(Cells(f, (s \ {x}) \cup {x})) =
           Cardinality(Cells(f, s \ {x})) + Cardinality(Cells(f, {x}))
  BY <1>9, <1>10, CellsUnion
<1>12. Cardinality(Cells(f, s)) = Cardinality(Cells(f, s \ {x})) + f[x]
  BY <1>9, <1>10, <1>11, CellsOfOne
<1> QED
  BY <1>3, <1>6, <1>8, <1>9, <1>12, CellsFinite

\* Counting the cells folds.
LEMMA CountingFolds ==
    ASSUME NEW f, NEW S, Counts(f, S)
    PROVE  \E g : Folding(f, S, g)
<1> DEFINE g == [s \in SUBSET S |-> Cardinality(Cells(f, s))]
<1> SUFFICES \A s \in SUBSET S :
                 g[s] = IF s = {} THEN 0
                        ELSE f[CHOOSE x \in s : TRUE] + g[s \ {CHOOSE x \in s : TRUE}]
  <2>1. g = [s \in SUBSET S |-> IF s = {} THEN 0
                                ELSE f[CHOOSE x \in s : TRUE]
                                     + g[s \ {CHOOSE x \in s : TRUE}]]
    OBVIOUS
  <2>2. Folding(f, S, g)
    BY <2>1 DEF Folding
  <2> HIDE DEF g
  <2> QED
    BY <2>2
<1> SUFFICES ASSUME NEW s \in SUBSET S
             PROVE  g[s] = IF s = {} THEN 0
                           ELSE f[CHOOSE x \in s : TRUE] + g[s \ {CHOOSE x \in s : TRUE}]
  OBVIOUS
<1>1. CASE s = {}
  <2>1. Cells(f, s) = {}
    BY <1>1 DEF Cells
  <2> QED
    BY <1>1, <2>1, FS_EmptySet
<1>2. CASE s # {}
  <2> DEFINE x == CHOOSE x \in s : TRUE
  <2>1. x \in s
    BY <1>2
  <2> HIDE DEF x
  <2>2. Counts(f, s \ {x}) /\ Counts(f, {x}) /\ f[x] \in Nat
    BY <2>1, FS_Singleton, FS_Subset DEF Counts
  <2>3. s = (s \ {x}) \cup {x} /\ (s \ {x}) \cap {x} = {}
    BY <2>1
  <2>6. Cardinality(Cells(f, (s \ {x}) \cup {x})) =
            Cardinality(Cells(f, s \ {x})) + Cardinality(Cells(f, {x}))
    BY <2>2, <2>3, CellsUnion
  <2>4. Cardinality(Cells(f, s)) = Cardinality(Cells(f, s \ {x})) + f[x]
    BY <2>2, <2>3, <2>6, CellsOfOne
  <2>5. g[s] = f[x] + g[s \ {x}]
    BY <2>2, <2>4, CellsFinite
  <2> QED
    BY <1>2, <2>5 DEF x
<1> QED
  BY <1>1, <1>2

\* A sum of the community modules is the number of cells.
LEMMA SumCounts ==
    ASSUME NEW f, NEW S, Counts(f, S)
    PROVE  SumFunctionOnSet(f, S) = Cardinality(Cells(f, S))
<1> DEFINE g == CHOOSE g : Folding(f, S, g)
<1>1. Folding(f, S, g)
  BY CountingFolds
<1>2. SumFunctionOnSet(f, S) = g[S]
  BY DEF SumFunctionOnSet, FoldFunctionOnSet, MapThenFoldSet, Folding
<1> HIDE DEF g
<1> QED
  BY <1>1, <1>2, FoldingCounts

\* A sum of naturals is a natural, of nothing 0, and that of one element its value.
LEMMA SumBasics ==
    ASSUME NEW f
    PROVE  /\ \A S : Counts(f, S) => SumFunctionOnSet(f, S) \in Nat
           /\ SumFunctionOnSet(f, {}) = 0
           /\ \A x : f[x] \in Nat => SumFunctionOnSet(f, {x}) = f[x]
<1>1. \A S : Counts(f, S) => SumFunctionOnSet(f, S) \in Nat
  BY SumCounts, CellsFinite
<1>2. Counts(f, {}) /\ Cells(f, {}) = {}
  BY FS_EmptySet DEF Counts, Cells
<1>3. SumFunctionOnSet(f, {}) = 0
  BY <1>2, SumCounts, FS_EmptySet
<1>4. ASSUME NEW x, f[x] \in Nat PROVE SumFunctionOnSet(f, {x}) = f[x]
  <2>1. Counts(f, {x})
    BY <1>4, FS_Singleton DEF Counts
  <2> QED
    BY <1>4, <2>1, SumCounts, CellsOfOne
<1> QED
  BY <1>1, <1>3, <1>4

\* Sums over disjoint sets are added up.
LEMMA SumUnion ==
    ASSUME NEW f, NEW S, NEW T, Counts(f, S), Counts(f, T), S \cap T = {}
    PROVE  SumFunctionOnSet(f, S \cup T) = SumFunctionOnSet(f, S) + SumFunctionOnSet(f, T)
<1>1. Counts(f, S \cup T)
  BY FS_Union DEF Counts
<1> QED
  BY <1>1, SumCounts, CellsUnion

\* A sum over more elements is no smaller.
LEMMA SumMonotone ==
    ASSUME NEW f, NEW S, Counts(f, S), NEW T \in SUBSET S
    PROVE  Counts(f, T) /\ SumFunctionOnSet(f, T) <= SumFunctionOnSet(f, S)
<1>1. Counts(f, T)
  BY FS_Subset DEF Counts
<1>2. Cells(f, T) \subseteq Cells(f, S)
  BY DEF Cells
<1>3. Cardinality(Cells(f, T)) <= Cardinality(Cells(f, S))
  BY <1>2, CellsFinite, FS_Subset
<1> QED
  BY <1>1, <1>3, SumCounts

\* A sum only looks at the values on its set.
LEMMA SumAgrees ==
    ASSUME NEW f, NEW g, NEW S, Counts(f, S), \A x \in S : f[x] = g[x]
    PROVE  SumFunctionOnSet(g, S) = SumFunctionOnSet(f, S)
<1>1. Counts(g, S)
  BY DEF Counts
<1>2. Cells(f, S) = Cells(g, S)
  BY DEF Cells
<1> QED
  BY <1>1, <1>2, SumCounts

-----------------------------------------------------------------------------
(* What the context budget keeps *)

Conversation(msgs) == msgs \in Seq([class : Classes, tokens : Nat \ {0}]) /\ msgs # <<>>

TokensOf(msgs) == [i \in DOMAIN msgs |-> msgs[i].tokens]

\* The history from message i on, and the messages from which all of it fits
Recent(msgs, i) == {j \in History(msgs) : j >= i}

Fitted(msgs, remaining) ==
    {i \in History(msgs) : SumFunctionOnSet(TokensOf(msgs), Recent(msgs, i)) <= remaining}

FittedFrom(msgs, remaining, i) == {j \in Fitted(msgs, remaining) : j >= i}

\* The state of the loop, in closed form
StateAt(msgs, remaining, i) ==
    [keep |-> FittedFrom(msgs, remaining, i),
     left |-> remaining - SumFunctionOnSet(TokensOf(msgs), FittedFrom(msgs, remaining, i)),
     open |-> FittedFrom(msgs, remaining, i) = Recent(msgs, i)]

Loops(msgs, remaining, g) ==
    g = [i \in 1..(Len(msgs) + 1) |->
            IF i > Len(msgs) THEN [keep |-> {}, left |-> remaining, open |-> TRUE]
            ELSE Seen(msgs, i, g[i + 1])]

\* The messages of a conversation are finitely many, and so is any part of them.
LEMMA MessagesCount ==
    ASSUME NEW msgs, Conversation(msgs)
    PROVE  /\ Len(msgs) \in Nat \ {0} /\ DOMAIN msgs = 1..Len(msgs)
           /\ \A S \in SUBSET (DOMAIN msgs) : Counts(TokensOf(msgs), S)
           /\ \A i \in DOMAIN msgs : /\ msgs[i].tokens \in Nat \ {0}
                                     /\ TokensOf(msgs)[i] = msgs[i].tokens
<1>1. Len(msgs) \in Nat \ {0} /\ DOMAIN msgs = 1..Len(msgs)
  BY DEF Conversation
<1>2. \A i \in DOMAIN msgs : msgs[i].tokens \in Nat \ {0} /\ TokensOf(msgs)[i] = msgs[i].tokens
  <2> TAKE i \in DOMAIN msgs
  <2> DEFINE Messages == [class : Classes, tokens : Nat \ {0}]
  <2>1. i \in 1..Len(msgs) /\ msgs \in Seq(Messages)
    BY <1>1 DEF Conversation
  <2> HIDE DEF Messages
  <2>2. msgs[i] \in Messages
    BY <2>1
  <2>3. msgs[i].tokens \in Nat \ {0}
    BY <2>2 DEF Messages
  <2> QED
    BY <2>3 DEF TokensOf
<1>3. IsFiniteSet(DOMAIN msgs)
  BY <1>1, FS_Interval, 1 \in Int, Len(msgs) \in Int
<1>4. Counts(TokensOf(msgs), DOMAIN msgs)
  BY <1>2, <1>3 DEF Counts
<1> QED
  BY <1>1, <1>2, <1>4, SumMonotone

\* Pinned and active messages and the history part a conversation between them.
LEMMA HistoryParts ==
    ASSUME NEW msgs, Conversation(msgs)
    PROVE  /\ Required(msgs) \subseteq DOMAIN msgs /\ History(msgs) \subseteq DOMAIN msgs
           /\ Required(msgs) \cap History(msgs) = {}
           /\ Required(msgs) \cup History(msgs) = DOMAIN msgs
           /\ \A i \in History(msgs) : i \in Nat /\ i >= 1 /\ i <= Len(msgs)
<1>1. Len(msgs) \in DOMAIN msgs /\ DOMAIN msgs = 1..Len(msgs) /\ Len(msgs) \in Nat
  BY MessagesCount
<1>2. \A i \in DOMAIN msgs : i \in Nat /\ i >= 1 /\ i <= Len(msgs)
  BY <1>1
<1>3. /\ Required(msgs) \subseteq DOMAIN msgs /\ History(msgs) \subseteq DOMAIN msgs
      /\ Required(msgs) \cap History(msgs) = {}
      /\ Required(msgs) \cup History(msgs) = DOMAIN msgs
  BY <1>1 DEF Required, History, PinnedIn, ActiveIn
<1> QED
  BY <1>2, <1>3

\* What follows a message that fits, fits.
LEMMA FittedIsRecent ==
    ASSUME NEW msgs, Conversation(msgs), NEW remaining \in Nat,
           NEW i \in Fitted(msgs, remaining), NEW j \in History(msgs), i <= j
    PROVE  j \in Fitted(msgs, remaining)
<1>1. i \in History(msgs) /\ \A k \in History(msgs) : k \in Nat
  BY HistoryParts DEF Fitted
<1>2. Recent(msgs, j) \subseteq Recent(msgs, i) /\ Recent(msgs, i) \subseteq DOMAIN msgs
  <2>1. i \in Nat /\ j \in Nat
    BY <1>1
  <2>2. \A k \in History(msgs) : k >= j => k >= i
    BY <1>1, <2>1
  <2>3. History(msgs) \subseteq DOMAIN msgs
    BY HistoryParts
  <2> QED
    BY <2>2, <2>3 DEF Recent
<1>3. Counts(TokensOf(msgs), Recent(msgs, i)) /\ Counts(TokensOf(msgs), Recent(msgs, j))
  BY <1>2, MessagesCount
<1>4. SumFunctionOnSet(TokensOf(msgs), Recent(msgs, j))
          <= SumFunctionOnSet(TokensOf(msgs), Recent(msgs, i))
  BY <1>2, <1>3, SumMonotone
<1>5. /\ SumFunctionOnSet(TokensOf(msgs), Recent(msgs, j)) \in Nat
      /\ SumFunctionOnSet(TokensOf(msgs), Recent(msgs, i)) \in Nat
  BY <1>3, SumBasics
<1> QED
  BY <1>4, <1>5 DEF Fitted

\* A loop that breaks changes nothing else.
LEMMA ClosedState ==
    ASSUME NEW keep, NEW left
    PROVE  Closed([keep |-> keep, left |-> left, open |-> TRUE], 0) =
               [keep |-> keep, left |-> left, open |-> FALSE]
<1> DEFINE s == [keep |-> keep, left |-> left, open |-> TRUE]
           States == [keep : {keep}, left : {left}, open : BOOLEAN]
           t == [s EXCEPT !.open = FALSE]
<1>1. s \in States /\ s.keep = keep /\ s.left = left
  OBVIOUS
<1> HIDE DEF s
<1>2. t \in States /\ t.open = FALSE
  BY <1>1
<1>3. t.keep = keep /\ t.left = left
  BY <1>1
<1> HIDE DEF t
<1>4. t = [keep |-> t.keep, left |-> t.left, open |-> t.open]
  BY <1>2
<1> QED
  BY <1>2, <1>3, <1>4 DEF Closed, t, s

\* The loop's body takes the closed form one message further back.
LEMMA StateStep ==
    ASSUME NEW msgs, Conversation(msgs), NEW remaining \in Nat, NEW i \in 1..Len(msgs)
    PROVE  StateAt(msgs, remaining, i) = Seen(msgs, i, StateAt(msgs, remaining, i + 1))
<1> DEFINE f == TokensOf(msgs)
           H == History(msgs)
           K == FittedFrom(msgs, remaining, i)
           K1 == FittedFrom(msgs, remaining, i + 1)
           R == Recent(msgs, i)
           R1 == Recent(msgs, i + 1)
<1>1. /\ \A j \in H : j \in Nat
      /\ H \subseteq DOMAIN msgs /\ i \in DOMAIN msgs /\ i \in Nat
  <2>1. \A j \in H : j \in Nat
    BY HistoryParts
  <2>2. H \subseteq DOMAIN msgs
    BY HistoryParts
  <2>3. i \in DOMAIN msgs /\ i \in Nat
    BY MessagesCount
  <2> QED
    BY <2>1, <2>2, <2>3
<1>2. /\ \A j \in H : j >= i <=> j = i \/ j >= i + 1
      /\ ~(i >= i + 1)
  BY <1>1
<1>3. K1 \subseteq R1 /\ R1 \subseteq H /\ i \notin R1 /\ i \notin K1
  BY <1>2 DEF FittedFrom, Fitted, Recent
<1>4. /\ i \notin H => K = K1 /\ R = R1
      /\ i \in H => R = R1 \cup {i}
      /\ i \in H /\ i \in Fitted(msgs, remaining) => K = K1 \cup {i}
      /\ i \in H /\ i \notin Fitted(msgs, remaining) => K = K1
  BY <1>2 DEF FittedFrom, Fitted, Recent
<1>5. CASE i \notin H
  BY <1>4, <1>5 DEF StateAt, Seen
<1>6. CASE i \in H
  <2>1. i \in Fitted(msgs, remaining) => K1 = R1
    <3> SUFFICES ASSUME i \in Fitted(msgs, remaining), NEW j \in R1 PROVE j \in K1
      BY <1>3
    <3>1. j \in H /\ j >= i + 1 /\ j \in Nat
      BY <1>1 DEF Recent
    <3>2. j \in Fitted(msgs, remaining)
      BY <1>1, <3>1, FittedIsRecent
    <3> QED
      BY <3>1, <3>2 DEF FittedFrom
  <2>2. CASE K1 # R1
    <3>1. K = K1 /\ K # R
      BY <1>3, <1>4, <1>6, <2>1, <2>2
    <3>2. StateAt(msgs, remaining, i) = StateAt(msgs, remaining, i + 1)
      BY <2>2, <3>1 DEF StateAt
    <3>3. ~StateAt(msgs, remaining, i + 1).open
      BY <2>2 DEF StateAt
    <3> QED
      BY <3>2, <3>3 DEF Seen
  <2>3. CASE K1 = R1
    <3>1. Counts(f, R1) /\ Counts(f, {i}) /\ f[i] = msgs[i].tokens /\ f[i] \in Nat
      BY <1>1, <1>3, MessagesCount
    <3>2. SumFunctionOnSet(f, R1 \cup {i}) = SumFunctionOnSet(f, R1) + SumFunctionOnSet(f, {i})
      BY <1>3, <3>1, SumUnion
    <3>3. SumFunctionOnSet(f, R) = SumFunctionOnSet(f, R1) + f[i]
      BY <1>4, <1>6, <3>1, <3>2, SumBasics
    <3>4. SumFunctionOnSet(f, R1) \in Nat
      BY <3>1, SumBasics
    <3>5. i \in Fitted(msgs, remaining) <=> ~(f[i] > remaining - SumFunctionOnSet(f, R1))
      BY <1>6, <3>1, <3>3, <3>4 DEF Fitted
    <3>6. /\ StateAt(msgs, remaining, i + 1).open
          /\ StateAt(msgs, remaining, i + 1).left = remaining - SumFunctionOnSet(f, R1)
          /\ StateAt(msgs, remaining, i + 1).keep = R1
      BY <2>3 DEF StateAt
    <3>7. CASE i \in Fitted(msgs, remaining)
      <4>1. K = R /\ K = R1 \cup {i}
        BY <1>4, <1>6, <2>3, <3>7
      <4>2. Seen(msgs, i, StateAt(msgs, remaining, i + 1)) =
                [keep |-> R1 \cup {i}, left |-> remaining - SumFunctionOnSet(f, R1) - f[i],
                 open |-> TRUE]
        BY <1>6, <3>1, <3>5, <3>6, <3>7 DEF Seen
      <4>3. StateAt(msgs, remaining, i) =
                [keep |-> R1 \cup {i}, left |-> remaining - SumFunctionOnSet(f, R), open |-> TRUE]
        BY <4>1 DEF StateAt
      <4>4. remaining - SumFunctionOnSet(f, R1) - f[i] = remaining - SumFunctionOnSet(f, R)
        BY <3>1, <3>3, <3>4
      <4> QED
        BY <4>2, <4>3, <4>4
    <3>8. CASE i \notin Fitted(msgs, remaining)
      <4>1. K = R1 /\ K # R
        BY <1>3, <1>4, <1>6, <2>3, <3>8
      <4>2. Seen(msgs, i, StateAt(msgs, remaining, i + 1)) =
                [StateAt(msgs, remaining, i + 1) EXCEPT !.open = FALSE]
        BY <1>6, <3>1, <3>5, <3>6, <3>8 DEF Seen, Closed
      <4>3. StateAt(msgs, remaining, i) =
                [keep |-> R1, left |-> remaining - SumFunctionOnSet(f, R1), open |-> FALSE]
        BY <4>1 DEF StateAt
      <4>4. StateAt(msgs, remaining, i + 1) =
                [keep |-> R1, left |-> remaining - SumFunctionOnSet(f, R1), open |-> TRUE]
        BY <2>3 DEF StateAt
      <4>5. Seen(msgs, i, StateAt(msgs, remaining, i + 1)) =
                [keep |-> R1, left |-> remaining - SumFunctionOnSet(f, R1), open |-> FALSE]
        BY <4>2, <4>4, ClosedState DEF Closed
      <4> QED
        BY <4>3, <4>5
    <3> QED
      BY <3>7, <3>8
  <2> QED
    BY <2>2, <2>3
<1> QED
  BY <1>5, <1>6

\* The loop starts in the closed form.
LEMMA StateStart ==
    ASSUME NEW msgs, Conversation(msgs), NEW remaining \in Nat
    PROVE  StateAt(msgs, remaining, Len(msgs) + 1) =
               [keep |-> {}, left |-> remaining, open |-> TRUE]
<1>1. Recent(msgs, Len(msgs) + 1) = {}
  <2> SUFFICES ASSUME NEW j \in Recent(msgs, Len(msgs) + 1) PROVE FALSE
    OBVIOUS
  <2>1. j \in Nat /\ j <= Len(msgs) /\ j >= Len(msgs) + 1 /\ Len(msgs) \in Nat
    BY HistoryParts, MessagesCount DEF Recent
  <2> QED
    BY <2>1
<1>2. FittedFrom(msgs, remaining, Len(msgs) + 1) = {}
  BY <1>1 DEF FittedFrom, Fitted, Recent
<1>3. SumFunctionOnSet(TokensOf(msgs), {}) = 0 /\ remaining - 0 = remaining
  BY SumBasics
<1> QED
  BY <1>1, <1>2, <1>3 DEF StateAt

\* The loop keeps just the history that fits with all that follows it.
LEMMA WindowFits ==
    ASSUME NEW msgs, Conversation(msgs), NEW remaining \in Nat
    PROVE  Window(msgs, remaining) = Fitted(msgs, remaining)
<1> DEFINE n == Len(msgs)
           g == CHOOSE g : Loops(msgs, remaining, g)
           h == [i \in 1..(n + 1) |-> StateAt(msgs, remaining, i)]
<1>1. n \in Nat \ {0} /\ DOMAIN msgs = 1..n
  BY MessagesCount
<1>2. Loops(msgs, remaining, h)
  <2>1. \A i \in 1..(n + 1) :
            h[i] = IF i > n THEN [keep |-> {}, left |-> remaining, open |-> TRUE]
                   ELSE Seen(msgs, i, h[i + 1])
    <3> TAKE i \in 1..(n + 1)
    <3>1. CASE i = n + 1
      BY <1>1, <3>1, StateStart
    <3>2. CASE i \in 1..n
      <4>1. h[i] = StateAt(msgs, remaining, i) /\ h[i + 1] = StateAt(msgs, remaining, i + 1)
        BY <1>1, <3>2
      <4> QED
        BY <1>1, <3>2, <4>1, StateStep
    <3> QED
      BY <1>1, <3>1, <3>2
  <2>2. h = [i \in 1..(n + 1) |->
                IF i > n THEN [keep |-> {}, left |-> remaining, open |-> TRUE]
                ELSE Seen(msgs, i, h[i + 1])]
    BY <2>1
  <2> QED
    BY <2>2 DEF Loops
<1>3. Loops(msgs, remaining, g)
  <2> HIDE DEF h
  <2> QED
    BY <1>2
<1>4. Window(msgs, remaining) = g[1].keep
  BY DEF Window, Loops
<1> HIDE DEF g
<1>5. \A i \in 1..(n + 1) : g[i] = StateAt(msgs, remaining, i)
  <2> DEFINE Wrong == {k \in 0..n : g[n + 1 - k] # StateAt(msgs, remaining, n + 1 - k)}
  <2>1. Wrong = {}
    <3> SUFFICES ASSUME Wrong # {} PROVE FALSE
      OBVIOUS
    <3> DEFINE less == OpToRel(<, Nat)
    <3>5. IsWellFoundedOn(less, Nat)
      BY NatLessThanWellFounded
    <3>6. Wrong \subseteq Nat
      BY <1>1
    <3> HIDE DEF Wrong, less
    <3>7. \E k \in Wrong : \A m \in Wrong : ~(<<m, k>> \in less)
      BY <3>5, <3>6, WFMin
    <3>1. PICK k \in Wrong : \A m \in Wrong : ~(<<m, k>> \in OpToRel(<, Nat))
      BY <3>7 DEF less
    <3> USE DEF Wrong
    <3>2. k \in 0..n /\ g[n + 1 - k] # StateAt(msgs, remaining, n + 1 - k)
      BY <3>1
    <3>3. CASE k = 0
      <4>1. g[n + 1] = [keep |-> {}, left |-> remaining, open |-> TRUE]
        BY <1>1, <1>3 DEF Loops
      <4> QED
        BY <1>1, <3>2, <3>3, <4>1, StateStart
    <3>4. CASE k > 0
      <4>1. k - 1 \in 0..n /\ <<k - 1, k>> \in OpToRel(<, Nat)
        BY <1>1, <3>2, <3>4 DEF OpToRel
      <4>2. g[n + 1 - (k - 1)] = StateAt(msgs, remaining, n + 1 - (k - 1))
        BY <3>1, <4>1
      <4>3. n + 1 - k \in 1..n /\ n + 1 - (k - 1) = (n + 1 - k) + 1
        BY <1>1, <3>2, <3>4
      <4>4. g[n + 1 - k] = Seen(msgs, n + 1 - k, g[(n + 1 - k) + 1])
        <5> DEFINE i == n + 1 - k
        <5>1. i \in 1..(n + 1) /\ ~(i > n)
          BY <1>1, <4>3
        <5> HIDE DEF i
        <5>2. g[i] = Seen(msgs, i, g[i + 1])
          BY <1>3, <5>1 DEF Loops
        <5> QED
          BY <5>2 DEF i
      <4> QED
        BY <3>2, <4>2, <4>3, <4>4, StateStep
    <3> QED
      BY <1>1, <3>2, <3>3, <3>4
  <2> TAKE i \in 1..(n + 1)
  <2>2. n + 1 - i \in 0..n /\ n + 1 - (n + 1 - i) = i
    BY <1>1
  <2> QED
    BY <2>1, <2>2
<1>6. g[1].keep = FittedFrom(msgs, remaining, 1)
  <2>1. 1 \in 1..(n + 1)
    BY <1>1
  <2>2. g[1] = StateAt(msgs, remaining, 1)
    BY <1>5, <2>1
  <2> QED
    BY <2>2 DEF StateAt
<1>7. FittedFrom(msgs, remaining, 1) = Fitted(msgs, remaining)
  <2>1. \A j \in Fitted(msgs, remaining) : j >= 1
    BY HistoryParts DEF Fitted
  <2> QED
    BY <2>1 DEF FittedFrom
<1> QED
  BY <1>4, <1>6, <1>7

\* A set of naturals that is not empty has a least member.
LEMMA LeastMember ==
    ASSUME NEW S \in SUBSET Nat, S # {}
    PROVE  \E x \in S : \A y \in S : x <= y
<1> DEFINE less == OpToRel(<, Nat)
<1>1. IsWellFoundedOn(less, Nat)
  BY NatLessThanWellFounded
<1> HIDE DEF less
<1>2. PICK x \in S : \A y \in S : ~(<<y, x>> \in less)
  BY <1>1, WFMin
<1>3. \A y \in S : ~(y < x)
  BY <1>2 DEF OpToRel, less
<1> QED
  BY <1>3

\* One with a bound has a greatest member.
LEMMA GreatestMember ==
    ASSUME NEW n \in Nat, NEW S \in SUBSET (1..n), S # {}
    PROVE  Max(S) \in S /\ \A y \in S : Max(S) >= y
<1> DEFINE Below == {n - x : x \in S}
<1>1. Below \in SUBSET Nat /\ Below # {}
  <2>1. PICK z \in S : TRUE
    OBVIOUS
  <2>2. n - z \in Below
    BY <2>1
  <2>3. \A x \in S : n - x \in Nat
    OBVIOUS
  <2> QED
    BY <2>2, <2>3
<1>2. PICK d \in Below : \A e \in Below : d <= e
  BY <1>1, LeastMember
<1>3. PICK x \in S : d = n - x
  BY <1>2
<1>4. \A y \in S : x >= y
  <2> TAKE y \in S
  <2>1. n - x <= n - y
    BY <1>2, <1>3
  <2> QED
    BY <2>1
<1> QED
  BY <1>4 DEF Max

\* What the window keeps fits in what is left for it.
LEMMA FittedFits ==
    ASSUME NEW msgs, Conversation(msgs), NEW remaining \in Nat
    PROVE  /\ Counts(TokensOf(msgs), Fitted(msgs, remaining))
           /\ SumFunctionOnSet(TokensOf(msgs), Fitted(msgs, remaining)) <= remaining
<1> DEFINE F == Fitted(msgs, remaining)
<1>1. F \subseteq History(msgs) /\ History(msgs) \subseteq DOMAIN msgs
  BY HistoryParts DEF Fitted
<1>2. F \in SUBSET Nat
  BY <1>1, HistoryParts
<1>3. Counts(TokensOf(msgs), F)
  BY <1>1, MessagesCount
<1>4. CASE F = {}
  BY <1>3, <1>4, SumBasics
<1>5. CASE F # {}
  <2> HIDE DEF F
  <2>1. PICK i \in F : \A j \in F : i <= j
    BY <1>2, <1>5, LeastMember
  <2>2. \A j \in History(msgs) : j \in Nat
    BY HistoryParts
  <2>3. \A j \in F : j \in Recent(msgs, i)
    BY <1>1, <1>2, <2>1, <2>2 DEF Recent
  <2>4. \A j \in Recent(msgs, i) : j \in F
    BY <1>2, <2>1, <2>2, FittedIsRecent DEF Recent, F
  <2>5. F = Recent(msgs, i)
    BY <2>3, <2>4
  <2>6. SumFunctionOnSet(TokensOf(msgs), Recent(msgs, i)) <= remaining
    BY <2>1 DEF F, Fitted
  <2> QED
    BY <1>3, <2>5, <2>6 DEF F
<1> QED
  BY <1>4, <1>5

\* _manage_context_budget() keeps what its docstring promises: all that is
\* pinned or active, within the budget, and the longest recent history that fits.
LEMMA BudgetKeepsTheRecent ==
    ASSUME NEW msgs, Conversation(msgs), NEW effective \in Nat, ~Overflows(msgs, effective)
    PROVE  KeepsTheRecent(msgs, effective, Kept(msgs, effective))
<1> DEFINE f == TokensOf(msgs)
           Q == Required(msgs)
           H == History(msgs)
           remaining == effective - Tokens(msgs, Q)
           F == Fitted(msgs, remaining)
           kept == Kept(msgs, effective)
           older == H \ kept
<1>1. /\ Q \subseteq DOMAIN msgs /\ H \subseteq DOMAIN msgs
      /\ Q \cap H = {} /\ Q \cup H = DOMAIN msgs
      /\ \A i \in H : i \in Nat
  BY HistoryParts
<1>2. \A S : Tokens(msgs, S) = SumFunctionOnSet(f, S)
  BY DEF Tokens, TokensOf
<1>3. Counts(f, Q) /\ SumFunctionOnSet(f, Q) \in Nat
  BY <1>1, MessagesCount, SumBasics
<1>4. remaining \in Nat
  BY <1>2, <1>3 DEF Overflows
<1>5. kept = Q \cup F
  BY <1>4, WindowFits DEF Kept
<1>6. F \subseteq H /\ Q \cap F = {}
  BY <1>1 DEF Fitted
<1>7. Counts(f, F) /\ SumFunctionOnSet(f, F) <= remaining /\ SumFunctionOnSet(f, F) \in Nat
  BY <1>4, FittedFits, SumBasics
<1>8. Q \subseteq kept /\ kept \subseteq DOMAIN msgs
  BY <1>1, <1>5, <1>6
<1>9. Tokens(msgs, kept) <= effective
  <2>1. SumFunctionOnSet(f, Q \cup F) = SumFunctionOnSet(f, Q) + SumFunctionOnSet(f, F)
    BY <1>3, <1>6, <1>7, SumUnion
  <2>2. Tokens(msgs, kept) = SumFunctionOnSet(f, Q \cup F)
    BY <1>2, <1>5
  <2>3. remaining = effective - SumFunctionOnSet(f, Q)
    BY <1>2
  <2> HIDE DEF f, Q, F, remaining, kept
  <2> QED
    BY <1>3, <1>7, <2>1, <2>2, <2>3
<1>10. older = H \ F /\ H \cap kept = F
  BY <1>1, <1>5, <1>6
<1>11. ASSUME NEW i \in older, NEW j \in H \cap kept PROVE i < j
  <2>1. i \in H /\ i \notin F /\ j \in F /\ j \in H
    BY <1>6, <1>10
  <2>2. i \in Nat /\ j \in Nat
    BY <1>1, <2>1
  <2>3. ~(j <= i)
    BY <1>4, <2>1, FittedIsRecent
  <2> QED
    BY <2>2, <2>3
<1>12. ASSUME older # {} PROVE Tokens(msgs, kept \cup {Max(older)}) > effective
  <2> DEFINE m == Max(older)
             R == Recent(msgs, m)
  <2>1. older \in SUBSET (1..Len(msgs)) /\ Len(msgs) \in Nat
    BY <1>1, MessagesCount
  <2>2. m \in older /\ \A y \in older : m >= y
    BY <1>12, <2>1, GreatestMember
  <2>3. m \in H /\ m \notin F
    BY <1>10, <2>2
  <2> HIDE DEF m
  <2>4. SumFunctionOnSet(f, R) > remaining
    <3>1. ~(SumFunctionOnSet(f, R) <= remaining)
      BY <2>3 DEF Fitted
    <3>2. Counts(f, R)
      BY <1>1, MessagesCount DEF Recent
    <3>3. SumFunctionOnSet(f, R) \in Nat
      BY <3>2, SumBasics
    <3> QED
      BY <1>4, <3>1, <3>3
  <2>5. R \subseteq F \cup {m}
    <3> SUFFICES ASSUME NEW j \in R, j \notin F PROVE j = m
      OBVIOUS
    <3>1. j \in H /\ j >= m
      BY DEF Recent
    <3>2. j \in older
      BY <1>10, <3>1
    <3> QED
      BY <1>1, <2>2, <2>3, <3>1, <3>2
  <2>6. Counts(f, F \cup {m}) /\ Q \cap (F \cup {m}) = {}
    BY <1>1, <1>6, <2>3, MessagesCount
  <2>7. SumFunctionOnSet(f, R) <= SumFunctionOnSet(f, F \cup {m})
    BY <2>5, <2>6, SumMonotone
  <2>8. SumFunctionOnSet(f, Q \cup (F \cup {m})) =
            SumFunctionOnSet(f, Q) + SumFunctionOnSet(f, F \cup {m})
    BY <1>3, <2>6, SumUnion
  <2>9. Tokens(msgs, kept \cup {m}) = SumFunctionOnSet(f, Q \cup (F \cup {m}))
    <3>1. kept \cup {m} = Q \cup (F \cup {m})
      BY <1>5
    <3> QED
      BY <1>2, <3>1
  <2>10. remaining = effective - SumFunctionOnSet(f, Q)
    BY <1>2
  <2>11. SumFunctionOnSet(f, F \cup {m}) \in Nat /\ SumFunctionOnSet(f, R) \in Nat
    <3>1. Counts(f, R)
      BY <1>1, MessagesCount DEF Recent
    <3> QED
      BY <2>6, <3>1, SumBasics
  <2> HIDE DEF f, Q, F, R, remaining, kept
  <2>12. Tokens(msgs, kept \cup {m}) > effective
    BY <1>3, <2>4, <2>7, <2>8, <2>9, <2>10, <2>11
  <2> QED
    BY <2>12 DEF m
<1> QED
  BY <1>8, <1>9, <1>11, <1>12 DEF KeepsTheRecent

-----------------------------------------------------------------------------
(* The inductive invariant *)

Users(t) == {r \in Requests : TenantOf[r] = t /\ req[r].gen # Null}

\* What a request holds follows from where it is, and the entry it took its
\* permit from is still its tenant's.
RequestKept(r) ==
    /\ pc[r] \in {"new", "start", "store", "done"} => req[r] = NoState
    /\ pc[r] = "tenant" => req[r].gen # Null /\ ~req[r].held
    /\ pc[r] \in {"pod", "shared", "quota", "giveback", "upstream"} =>
          (req[r].held <=> req[r].gen # Null)
    /\ req[r].gen # Null =>
          /\ permits[TenantOf[r]] # Null
          /\ permits[TenantOf[r]].gen = req[r].gen /\ permits[TenantOf[r]].cap = req[r].cap
    /\ pc[r] # "upstream" => req[r].rpm = 0 /\ req[r].tpm = 0
    /\ pc[r] = "upstream" => req[r].rpm = 1

\* An entry counts its users, and its permits are free or held.
TenantKept(t) ==
    permits[t] # Null =>
        /\ permits[t].cap \in Caps
        /\ permits[t].active = Cardinality(Users(t))
        /\ permits[t].free + Cardinality(TenantHolders(t)) = permits[t].cap

PodInv ==
    /\ pc \in [Requests -> Places] /\ pod \in 0..Pod /\ inflight \in Nat
    /\ draining \in BOOLEAN /\ drained \in BOOLEAN \cup {Null} /\ now \in Nat
    /\ PodPermitsConserved

TenantInv ==
    /\ permits \in [Tenants -> Entries \cup {Null}] /\ req \in [Requests -> LocalStates]
    /\ \A r \in Requests : RequestKept(r)
    /\ \A t \in Tenants : TenantKept(t)

\* Tokens that quota was charged for, and fleet quota no request holds any more
Charged == history.used - history.unpaid

Gone == history.admitted + history.lost

\* The bucket holds what it had last time it was refilled, less what was taken.
QuotaInv ==
    /\ bucket \in Buckets /\ bucket.rpm <= MaxRpm /\ bucket.tpm <= MaxTpm
    /\ bucket.updated <= now
    /\ shared \in Nat /\ history \in Histories /\ history.unpaid <= history.used
    /\ bucket.rpm + Cardinality(Admitted) + history.rpm <= MaxRpm + bucket.updated * RpmRate
    /\ bucket.tpm + TpmHeld + Charged <= MaxTpm + bucket.updated * TpmRate
    /\ shared = Cardinality(FleetHolders) + Gone

-----------------------------------------------------------------------------
(* Steps of one request *)

\* A request that moves leaves the others where they are.
LEMMA Moves ==
    ASSUME pc \in [Requests -> Places], NEW r \in Requests, NEW place \in Places, Goto(r, place)
    PROVE  /\ pc' \in [Requests -> Places] /\ pc'[r] = place
           /\ \A x \in Requests : x # r => pc'[x] = pc[x]
BY DEF Goto

\* Sets of requests are finite, and one request more or less counts as one.
LEMMA CountRequests ==
    ASSUME NEW S \in SUBSET Requests
    PROVE  /\ IsFiniteSet(S) /\ Cardinality(S) \in Nat
           /\ \A r : r \notin S => Cardinality(S \cup {r}) = Cardinality(S) + 1
           /\ \A r \in S : /\ Cardinality(S \ {r}) = Cardinality(S) - 1
                           /\ Cardinality(S) >= 1
<1>1. IsFiniteSet(S) /\ Cardinality(S) \in Nat
  BY AdmissionAssumption, FS_Subset, FS_CardinalityType
<1>2. ASSUME NEW r \in S
      PROVE  Cardinality(S \ {r}) = Cardinality(S) - 1 /\ Cardinality(S) >= 1
  <2>1. Cardinality(S \ {r}) = Cardinality(S) - 1
    BY <1>1, FS_RemoveElement
  <2>2. Cardinality(S) # 0
    BY <1>1, FS_EmptySet
  <2> QED
    BY <1>1, <2>1, <2>2
<1> QED
  BY <1>1, <1>2, FS_AddElement

InPlaces(P) == {x \in Requests : pc[x] \in P}

\* What a request that moves does to the number of requests in some places.
LEMMA MovesCount ==
    ASSUME pc \in [Requests -> Places], NEW r \in Requests, NEW place \in Places, Goto(r, place),
           NEW CONSTANT P
    PROVE  /\ Cardinality(InPlaces(P)) \in Nat /\ Cardinality(InPlaces(P)') \in Nat
           /\ (pc[r] \in P <=> place \in P) => InPlaces(P)' = InPlaces(P)
           /\ pc[r] \notin P /\ place \in P =>
                 /\ InPlaces(P)' = InPlaces(P) \cup {r} /\ r \notin InPlaces(P)
                 /\ Cardinality(InPlaces(P)') = Cardinality(InPlaces(P)) + 1
           /\ pc[r] \in P /\ place \notin P =>
                 /\ InPlaces(P)' = InPlaces(P) \ {r} /\ r \in InPlaces(P)
                 /\ Cardinality(InPlaces(P)') = Cardinality(InPlaces(P)) - 1
<1> DEFINE S == InPlaces(P)
           T == {x \in Requests : pc'[x] \in P}
<1>1. pc'[r] = place /\ \A x \in Requests : x # r => pc'[x] = pc[x]
  BY Moves
<1>2. S \in SUBSET Requests /\ T \in SUBSET Requests /\ InPlaces(P)' = T
  BY DEF InPlaces
<1>3. Cardinality(S) \in Nat /\ Cardinality(T) \in Nat
  BY <1>2, CountRequests
<1>4. (pc[r] \in P <=> place \in P) => T = S
  BY <1>1 DEF InPlaces
<1>5. pc[r] \notin P /\ place \in P => T = S \cup {r} /\ r \notin S
  BY <1>1 DEF InPlaces
<1>6. pc[r] \in P /\ place \notin P => T = S \ {r} /\ r \in S
  BY <1>1 DEF InPlaces
<1>7. r \notin S => Cardinality(S \cup {r}) = Cardinality(S) + 1
  BY <1>2, CountRequests
<1>8. r \in S => Cardinality(S \ {r}) = Cardinality(S) - 1
  BY <1>2, CountRequests
<1> HIDE DEF S, T
<1>9. /\ Cardinality(S) \in Nat /\ Cardinality(T) \in Nat
      /\ (pc[r] \in P <=> place \in P) => T = S
      /\ pc[r] \notin P /\ place \in P =>
            T = S \cup {r} /\ r \notin S /\ Cardinality(T) = Cardinality(S) + 1
      /\ pc[r] \in P /\ place \notin P =>
            T = S \ {r} /\ r \in S /\ Cardinality(T) = Cardinality(S) - 1
  BY <1>3, <1>4, <1>5, <1>6, <1>7, <1>8
<1> QED
  BY <1>2, <1>9 DEF S

-----------------------------------------------------------------------------
(* The pod semaphore *)

PodPlaces == {"shared", "quota", "giveback", "upstream"}

\* A move that neither enters nor leaves the pod's permit keeps the count.
LEMMA PodUntouched ==
    ASSUME PodInv, NEW r \in Requests, NEW place \in Places, Goto(r, place),
           pc[r] \in PodPlaces <=> place \in PodPlaces, UNCHANGED <<pod, inflight>>
    PROVE  PodPermitsConserved' /\ pc' \in [Requests -> Places]
<1>1. Inflight' = Inflight
  <2>1. InPlaces(PodPlaces)' = InPlaces(PodPlaces)
    BY MovesCount DEF PodInv
  <2> QED
    BY <2>1 DEF InPlaces, PodPlaces, Inflight
<1> QED
  BY <1>1, Moves DEF PodInv, PodPermitsConserved

\* Taking a permit, or waiting for one, keeps the count.
LEMMA PodTaken ==
    ASSUME PodInv, NEW r \in Requests, pc[r] \notin PodPlaces, TakePod(r)
    PROVE  /\ PodPermitsConserved' /\ pc' \in [Requests -> Places]
           /\ pod' \in 0..Pod /\ inflight' \in Nat
<1>1. CASE pod > 0
  <2>1. Goto(r, "shared") /\ "shared" \in Places /\ pod' = pod - 1 /\ inflight' = inflight + 1
    BY <1>1 DEF TakePod, Places
  <2>2. /\ Cardinality(Inflight') = Cardinality(Inflight) + 1
        /\ Cardinality(Inflight) \in Nat
    <3>1. "shared" \in PodPlaces /\ "shared" \in Places
      BY DEF PodPlaces, Places
    <3>2. /\ Cardinality(InPlaces(PodPlaces)') = Cardinality(InPlaces(PodPlaces)) + 1
          /\ Cardinality(InPlaces(PodPlaces)) \in Nat
      BY <2>1, <3>1, MovesCount DEF PodInv
    <3> QED
      BY <3>2 DEF InPlaces, PodPlaces, Inflight
  <2> QED
    BY <1>1, <2>1, <2>2, Moves, AdmissionAssumption DEF PodInv, PodPermitsConserved
<1>2. CASE ~(pod > 0)
  <2>1. Goto(r, "pod") /\ "pod" \in Places /\ "pod" \notin PodPlaces /\ UNCHANGED <<pod, inflight>>
    BY <1>2 DEF TakePod, Places, PodPlaces
  <2> QED
    BY <2>1, PodUntouched DEF PodInv
<1> QED
  BY <1>1, <1>2

\* Leaving gives the permit back.
LEMMA PodReturned ==
    ASSUME PodInv, NEW r \in Requests, pc[r] \in PodPlaces, NEW place \in Places \ PodPlaces,
           Goto(r, place), pod' = PodAfter(r), inflight' = inflight - 1
    PROVE  /\ PodPermitsConserved' /\ pc' \in [Requests -> Places]
           /\ pod' \in 0..Pod /\ inflight' \in Nat
<1>1. /\ Cardinality(Inflight') = Cardinality(Inflight) - 1
      /\ Cardinality(Inflight) \in Nat /\ Cardinality(Inflight') \in Nat
  <2>1. /\ Cardinality(InPlaces(PodPlaces)') = Cardinality(InPlaces(PodPlaces)) - 1
        /\ Cardinality(InPlaces(PodPlaces)) \in Nat
        /\ Cardinality(InPlaces(PodPlaces)') \in Nat
    BY MovesCount DEF PodInv
  <2> QED
    BY <2>1 DEF InPlaces, PodPlaces, Inflight
<1> QED
  BY <1>1, Moves, AdmissionAssumption DEF PodInv, PodPermitsConserved, PodAfter

\* No step of a request loses a permit of the pod or returns one twice.
LEMMA PodStep ==
    ASSUME PodInv, NEW r \in Requests, Step(r)
    PROVE  PodInv'
<1> SUFFICES /\ PodPermitsConserved' /\ pc' \in [Requests -> Places]
             /\ pod' \in 0..Pod /\ inflight' \in Nat
             /\ UNCHANGED <<draining, drained, now>>
  BY DEF PodInv
<1>1. ASSUME NEW place \in Places \ PodPlaces, Goto(r, place), pc[r] \notin PodPlaces,
             UNCHANGED <<pod, inflight>>
      PROVE  /\ PodPermitsConserved' /\ pc' \in [Requests -> Places]
             /\ pod' \in 0..Pod /\ inflight' \in Nat
  BY <1>1, PodUntouched DEF PodInv
<1>2. ASSUME NEW place \in Places \ PodPlaces, NEW rpm, NEW tpm, LeaveTo(r, place, rpm, tpm),
             pc[r] \in PodPlaces
      PROVE  /\ PodPermitsConserved' /\ pc' \in [Requests -> Places]
             /\ pod' \in 0..Pod /\ inflight' \in Nat
  BY <1>2, PodReturned DEF LeaveTo
<1>3. /\ "start" \in Places \ PodPlaces /\ "done" \in Places \ PodPlaces
      /\ "store" \in Places \ PodPlaces /\ "tenant" \in Places \ PodPlaces
  BY DEF Places, PodPlaces
<1>4. CASE Start(r)
  BY <1>4, <1>1, <1>3 DEF Start, PodPlaces
<1>5. CASE CacheAnswers(r)
  BY <1>5, <1>1, <1>3 DEF CacheAnswers, PodPlaces
<1>6. CASE Refused(r)
  BY <1>6, <1>1, <1>3 DEF Refused, PodPlaces
<1>7. ASSUME NEW estimate \in Estimates, EnterUncapped(r, estimate)
      PROVE  /\ PodPermitsConserved' /\ pc' \in [Requests -> Places]
             /\ pod' \in 0..Pod /\ inflight' \in Nat
             /\ UNCHANGED <<draining, drained, now>>
  BY <1>7, PodTaken DEF EnterUncapped, PodPlaces
<1>8. ASSUME NEW estimate \in Estimates, NEW cap \in Caps, EnterCapped(r, cap, estimate)
      PROVE  /\ PodPermitsConserved' /\ pc' \in [Requests -> Places]
             /\ pod' \in 0..Pod /\ inflight' \in Nat
             /\ UNCHANGED <<draining, drained, now>>
  <2>1. /\ pc[r] \notin PodPlaces /\ UNCHANGED <<draining, drained, now>>
        /\ TakePod(r) \/ (Goto(r, "tenant") /\ UNCHANGED <<pod, inflight>>)
    BY <1>8 DEF EnterCapped, PodPlaces
  <2> QED
    BY <2>1, <1>1, <1>3, PodTaken
<1>9. CASE GetTenantPermit(r)
  BY <1>9, PodTaken DEF GetTenantPermit, PodPlaces
<1>10. CASE GetPodPermit(r)
  BY <1>10, PodTaken DEF GetPodPermit, PodPlaces
<1>11. CASE GiveUpWaiting(r)
  BY <1>11, <1>1, <1>3 DEF GiveUpWaiting, PodPlaces
<1>12. CASE SharedGranted(r)
  <2>1. Goto(r, "quota") /\ "quota" \in Places /\ pc[r] \in PodPlaces /\ "quota" \in PodPlaces
    BY <1>12 DEF SharedGranted, PodPlaces, Places
  <2>2. UNCHANGED <<pod, inflight, draining, drained, now>>
    BY <1>12 DEF SharedGranted
  <2> QED
    BY <2>1, <2>2, PodUntouched DEF PodInv
<1>13. CASE SharedDenied(r)
  BY <1>13, <1>2, <1>3 DEF SharedDenied, PodPlaces
<1>14. CASE Admit(r)
  <2>1. /\ Goto(r, "upstream") /\ "upstream" \in Places
        /\ pc[r] \in PodPlaces /\ "upstream" \in PodPlaces
    BY <1>14 DEF Admit, PodPlaces, Places
  <2>2. UNCHANGED <<pod, inflight, draining, drained, now>>
    BY <1>14 DEF Admit
  <2> QED
    BY <2>1, <2>2, PodUntouched DEF PodInv
<1>15. CASE SleepForQuota(r)
  BY <1>15 DEF SleepForQuota, PodInv, PodPermitsConserved, Inflight
<1>16. CASE GiveUpQuota(r)
  <2>1. /\ Goto(r, "giveback") /\ "giveback" \in Places
        /\ pc[r] \in PodPlaces /\ "giveback" \in PodPlaces
    BY <1>16 DEF GiveUpQuota, PodPlaces, Places
  <2>2. UNCHANGED <<pod, inflight, draining, drained, now>>
    BY <1>16 DEF GiveUpQuota
  <2> QED
    BY <2>1, <2>2, PodUntouched DEF PodInv
<1>21. CASE SharedTakenInVain(r) \/ GiveBack(r) \/ GiveBackFails(r)
  BY <1>21, <1>2, <1>3 DEF SharedTakenInVain, GiveBack, GiveBackFails, PodPlaces
<1>17. ASSUME NEW used \in Usages, Answered(r, used)
       PROVE  /\ PodPermitsConserved' /\ pc' \in [Requests -> Places]
              /\ pod' \in 0..Pod /\ inflight' \in Nat
              /\ UNCHANGED <<draining, drained, now>>
  <2> DEFINE place == IF r \in Streams THEN "done" ELSE "store"
  <2>1. /\ place \in Places \ PodPlaces /\ pc[r] \in PodPlaces
        /\ UNCHANGED <<draining, drained, now>>
        /\ LeaveTo(r, place, RequestRefund(r, TRUE), TokenRefund(r, used))
    BY <1>17, <1>3 DEF Answered, PodPlaces
  <2> HIDE DEF place
  <2> QED
    BY <2>1, <1>2
<1>18. CASE \E used \in Usages \cup {0} : Failed(r, used)
  BY <1>18, <1>2, <1>3 DEF Failed, PodPlaces
<1>19. CASE NotDispatched(r)
  BY <1>19, <1>2, <1>3 DEF NotDispatched, PodPlaces
<1>20. CASE StoreEnds(r)
  BY <1>20, <1>1, <1>3 DEF StoreEnds, PodPlaces
<1> QED
  BY <1>4, <1>5, <1>6, <1>7, <1>8, <1>9, <1>10, <1>11, <1>12, <1>13, <1>14, <1>15, <1>16,
     <1>17, <1>18, <1>19, <1>20, <1>21 DEF Step

-----------------------------------------------------------------------------
(* The tenants' entries *)

\* A step that changes the local state and the place of no request but r
Only(r) ==
    /\ req' \in [Requests -> LocalStates]
    /\ \A x \in Requests : x # r => req'[x] = req[x] /\ pc'[x] = pc[x]

\* The tokens a request asks of the quota are a natural number.
LEMMA EstimateNat ==
    ASSUME NEW estimate \in Estimates
    PROVE  estimate \in Nat /\ AtMost(estimate, MaxTpm) \in 0..MaxTpm
<1>1. PICK msgs \in Fitting : estimate = EstimateOf(msgs)
  BY DEF Estimates
<1>2. Conversation(msgs) /\ ~Overflows(msgs, Budget) /\ Budget \in Nat
  BY AdmissionAssumption DEF Fitting, Conversation
<1>3. Kept(msgs, Budget) \subseteq DOMAIN msgs
  BY <1>2, BudgetKeepsTheRecent DEF KeepsTheRecent
<1>4. Counts(TokensOf(msgs), Kept(msgs, Budget))
  BY <1>2, <1>3, MessagesCount
<1>5. Tokens(msgs, Kept(msgs, Budget)) \in Nat
  BY <1>4, SumBasics DEF Tokens, TokensOf
<1> QED
  BY <1>1, <1>5, AdmissionAssumption DEF EstimateOf, AtMost

\* What a step of r does to the users and the holders of its tenant's entry.
LEMMA UsersMove ==
    ASSUME TenantInv, NEW r \in Requests, Only(r)
    PROVE  /\ Users(TenantOf[r])' = IF req'[r].gen # Null THEN Users(TenantOf[r]) \cup {r}
                                    ELSE Users(TenantOf[r]) \ {r}
           /\ TenantHolders(TenantOf[r])' =
                 IF req'[r].held THEN TenantHolders(TenantOf[r]) \cup {r}
                 ELSE TenantHolders(TenantOf[r]) \ {r}
           /\ r \in Users(TenantOf[r]) <=> req[r].gen # Null
           /\ r \in TenantHolders(TenantOf[r]) <=> req[r].held
           /\ \A t \in Tenants : t # TenantOf[r] => /\ Users(t)' = Users(t)
                                                    /\ TenantHolders(t)' = TenantHolders(t)
<1>1. Users(TenantOf[r])' = IF req'[r].gen # Null THEN Users(TenantOf[r]) \cup {r}
                            ELSE Users(TenantOf[r]) \ {r}
  BY DEF Only, Users
<1>2. TenantHolders(TenantOf[r])' = IF req'[r].held THEN TenantHolders(TenantOf[r]) \cup {r}
                                    ELSE TenantHolders(TenantOf[r]) \ {r}
  BY DEF Only, TenantHolders
<1>3. /\ r \in Users(TenantOf[r]) <=> req[r].gen # Null
      /\ r \in TenantHolders(TenantOf[r]) <=> req[r].held
  BY DEF Users, TenantHolders
<1>4. ASSUME NEW t \in Tenants, t # TenantOf[r]
      PROVE  Users(t)' = Users(t) /\ TenantHolders(t)' = TenantHolders(t)
  BY <1>4 DEF Only, Users, TenantHolders
<1> QED
  BY <1>1, <1>2, <1>3, <1>4

UserCount(t) == Cardinality(Users(t))

HolderCount(t) == Cardinality(TenantHolders(t))

\* The counts that go with it.
LEMMA UsersCount ==
    ASSUME TenantInv, NEW r \in Requests, Only(r)
    PROVE  /\ UserCount(TenantOf[r]) \in Nat /\ HolderCount(TenantOf[r]) \in Nat
           /\ UserCount(TenantOf[r])' =
                  UserCount(TenantOf[r]) + (IF req'[r].gen # Null THEN 1 ELSE 0)
                                         - (IF req[r].gen # Null THEN 1 ELSE 0)
           /\ HolderCount(TenantOf[r])' =
                  HolderCount(TenantOf[r]) + (IF req'[r].held THEN 1 ELSE 0)
                                           - (IF req[r].held THEN 1 ELSE 0)
           /\ req[r].gen # Null => UserCount(TenantOf[r]) >= 1
           /\ req[r].held => HolderCount(TenantOf[r]) >= 1
<1> DEFINE U == Users(TenantOf[r])
           H == TenantHolders(TenantOf[r])
           V == Users(TenantOf[r])'
           G == TenantHolders(TenantOf[r])'
<1>1. U \in SUBSET Requests /\ H \in SUBSET Requests
  BY DEF Users, TenantHolders
<1>2. /\ Cardinality(U) \in Nat
      /\ r \notin U => Cardinality(U \cup {r}) = Cardinality(U) + 1
      /\ r \in U => Cardinality(U \ {r}) = Cardinality(U) - 1 /\ Cardinality(U) >= 1
      /\ r \in U => U \cup {r} = U
      /\ r \notin U => U \ {r} = U
  BY <1>1, CountRequests
<1>3. /\ Cardinality(H) \in Nat
      /\ r \notin H => Cardinality(H \cup {r}) = Cardinality(H) + 1
      /\ r \in H => Cardinality(H \ {r}) = Cardinality(H) - 1 /\ Cardinality(H) >= 1
      /\ r \in H => H \cup {r} = H
      /\ r \notin H => H \ {r} = H
  BY <1>1, CountRequests
<1>4. /\ V = IF req'[r].gen # Null THEN U \cup {r} ELSE U \ {r}
      /\ G = IF req'[r].held THEN H \cup {r} ELSE H \ {r}
      /\ r \in U <=> req[r].gen # Null
      /\ r \in H <=> req[r].held
  BY UsersMove
<1>5. /\ UserCount(TenantOf[r]) = Cardinality(U) /\ UserCount(TenantOf[r])' = Cardinality(V)
      /\ HolderCount(TenantOf[r]) = Cardinality(H) /\ HolderCount(TenantOf[r])' = Cardinality(G)
  BY DEF UserCount, HolderCount
<1> HIDE DEF U, H, V, G
<1>6. /\ Cardinality(V) = Cardinality(U) + (IF req'[r].gen # Null THEN 1 ELSE 0)
                                         - (IF req[r].gen # Null THEN 1 ELSE 0)
      /\ req[r].gen # Null => Cardinality(U) >= 1
  <2>1. CASE r \in U /\ req'[r].gen # Null
    <3>1. V = U
      BY <1>2, <1>4, <2>1
    <3>2. Cardinality(V) = Cardinality(U) /\ Cardinality(U) \in Nat
      BY <1>2, <3>1
    <3> QED
      BY <1>2, <1>4, <2>1, <3>2
  <2>2. CASE r \in U /\ req'[r].gen = Null
    BY <1>2, <1>4, <2>2
  <2>3. CASE r \notin U /\ req'[r].gen # Null
    BY <1>2, <1>4, <2>3
  <2>4. CASE r \notin U /\ req'[r].gen = Null
    <3>1. V = U
      BY <1>2, <1>4, <2>4
    <3>2. Cardinality(V) = Cardinality(U) /\ Cardinality(U) \in Nat
      BY <1>2, <3>1
    <3> QED
      BY <1>2, <1>4, <2>4, <3>2
  <2> QED
    BY <2>1, <2>2, <2>3, <2>4
<1>7. /\ Cardinality(G) = Cardinality(H) + (IF req'[r].held THEN 1 ELSE 0)
                                         - (IF req[r].held THEN 1 ELSE 0)
      /\ req[r].held => Cardinality(H) >= 1
  <2>1. CASE r \in H /\ req'[r].held
    <3>1. G = H
      BY <1>3, <1>4, <2>1
    <3>2. Cardinality(G) = Cardinality(H) /\ Cardinality(H) \in Nat
      BY <1>3, <3>1
    <3> QED
      BY <1>3, <1>4, <2>1, <3>2
  <2>2. CASE r \in H /\ ~req'[r].held
    BY <1>3, <1>4, <2>2
  <2>3. CASE r \notin H /\ req'[r].held
    BY <1>3, <1>4, <2>3
  <2>4. CASE r \notin H /\ ~req'[r].held
    <3>1. G = H
      BY <1>3, <1>4, <2>4
    <3>2. Cardinality(G) = Cardinality(H) /\ Cardinality(H) \in Nat
      BY <1>3, <3>1
    <3> QED
      BY <1>3, <1>4, <2>4, <3>2
  <2> QED
    BY <2>1, <2>2, <2>3, <2>4
<1> QED
  BY <1>2, <1>3, <1>5, <1>6, <1>7

\* An entry a step may drop or leave as it is
Untouched(t) == permits'[t] = permits[t] \/ (permits'[t] = Null /\ Users(t) = {})

\* A step of r keeps the invariant of the others when it leaves other tenants'
\* entries, but for those nobody uses, and the identity of its own tenant's
\* entry, if anybody else uses it.
LEMMA OthersKept ==
    ASSUME TenantInv, NEW r \in Requests, Only(r),
           permits' \in [Tenants -> Entries \cup {Null}],
           \A t \in Tenants : t # TenantOf[r] => Untouched(t),
           \/ Users(TenantOf[r]) \subseteq {r}
           \/ /\ permits'[TenantOf[r]] # Null
              /\ permits'[TenantOf[r]].gen = permits[TenantOf[r]].gen
              /\ permits'[TenantOf[r]].cap = permits[TenantOf[r]].cap,
           RequestKept(r)', TenantKept(TenantOf[r])'
    PROVE  TenantInv'
<1>1. ASSUME NEW x \in Requests PROVE RequestKept(x)'
  <2>1. CASE x = r
    BY <2>1
  <2>2. CASE x # r
    <3>1. /\ req'[x] = req[x] /\ pc'[x] = pc[x] /\ RequestKept(x)
          /\ TenantOf[x] \in Tenants /\ NoState' = NoState
      BY <2>2, AdmissionAssumption DEF Only, TenantInv, NoState
    <3>2. CASE req[x].gen = Null
      BY <3>1, <3>2 DEF RequestKept
    <3>3. CASE req[x].gen # Null
      <4>1. x \in Users(TenantOf[x])
        BY <3>3 DEF Users
      <4>2. /\ permits'[TenantOf[x]] # Null
            /\ permits'[TenantOf[x]].gen = permits[TenantOf[x]].gen
            /\ permits'[TenantOf[x]].cap = permits[TenantOf[x]].cap
        <5>1. CASE TenantOf[x] = TenantOf[r]
          BY <2>2, <4>1, <5>1
        <5>2. CASE TenantOf[x] # TenantOf[r]
          <6>1. permits'[TenantOf[x]] = permits[TenantOf[x]]
            BY <3>1, <4>1, <5>2 DEF Untouched
          <6> QED
            BY <3>1, <3>3, <6>1 DEF RequestKept
        <5> QED
          BY <5>1, <5>2
      <4> QED
        BY <3>1, <3>3, <4>2 DEF RequestKept
    <3> QED
      BY <3>2, <3>3
  <2> QED
    BY <2>1, <2>2
<1>2. ASSUME NEW t \in Tenants PROVE TenantKept(t)'
  <2>1. CASE t = TenantOf[r]
    BY <2>1
  <2>2. CASE t # TenantOf[r]
    <3>1. Users(t)' = Users(t) /\ TenantHolders(t)' = TenantHolders(t)
      BY <2>2, UsersMove
    <3>2. TenantKept(t) /\ (permits'[t] = permits[t] \/ permits'[t] = Null)
      BY <2>2 DEF Untouched, TenantInv
    <3> QED
      BY <3>1, <3>2 DEF TenantKept
  <2> QED
    BY <2>1, <2>2
<1> QED
  BY <1>1, <1>2 DEF TenantInv, Only

\* A step of r that changes neither its entry nor what it holds of it keeps the
\* invariant if it keeps r's.
LEMMA EntryUnchanged ==
    ASSUME TenantInv, NEW r \in Requests, Only(r), permits' = permits,
           req'[r].gen = req[r].gen, req'[r].held = req[r].held, RequestKept(r)'
    PROVE  TenantInv'
<1> DEFINE t == TenantOf[r]
<1>1. t \in Tenants /\ TenantKept(t)
  BY AdmissionAssumption DEF TenantInv
<1>2. Users(t)' = Users(t) /\ TenantHolders(t)' = TenantHolders(t)
  <2>1. /\ Users(t)' = IF req'[r].gen # Null THEN Users(t) \cup {r} ELSE Users(t) \ {r}
        /\ TenantHolders(t)' = IF req'[r].held THEN TenantHolders(t) \cup {r}
                               ELSE TenantHolders(t) \ {r}
        /\ r \in Users(t) <=> req[r].gen # Null
        /\ r \in TenantHolders(t) <=> req[r].held
    BY UsersMove
  <2> QED
    BY <2>1
<1>3. TenantKept(t)'
  BY <1>1, <1>2 DEF TenantKept
<1>4. Users(t) \subseteq {r} \/ permits[t] # Null
  <2> SUFFICES ASSUME NEW x \in Users(t) PROVE permits[t] # Null
    OBVIOUS
  <2> QED
    BY DEF Users, TenantInv, RequestKept
<1>5. permits \in [Tenants -> Entries \cup {Null}]
  BY DEF TenantInv
<1> QED
  BY <1>3, <1>4, <1>5, OthersKept DEF Untouched

\* A move from a place to another that promises no more.
LEMMA MoveKeeps ==
    ASSUME PodInv, TenantInv, NEW r \in Requests, NEW place \in Places, Goto(r, place),
           UNCHANGED <<permits, req>>,
           \/ /\ pc[r] \in {"new", "start", "store", "done"}
              /\ place \in {"start", "store", "done"}
           \/ /\ pc[r] \in {"pod", "shared", "quota", "giveback"}
              /\ place \in {"pod", "shared", "quota", "giveback"}
    PROVE  TenantInv'
<1>1. pc'[r] = place /\ \A x \in Requests : x # r => pc'[x] = pc[x]
  BY Moves DEF PodInv
<1>2. Only(r)
  BY <1>1 DEF Only, TenantInv
<1>3. RequestKept(r) /\ NoState' = NoState
  BY DEF TenantInv, NoState
<1>4. RequestKept(r)'
  BY <1>1, <1>3 DEF RequestKept
<1> QED
  BY <1>2, <1>4, EntryUnchanged

\* A request without a cap holds nothing of its tenant's.
LEMMA EnterUncappedKeeps ==
    ASSUME PodInv, TenantInv, NEW r \in Requests, NEW estimate \in Estimates,
           EnterUncapped(r, estimate)
    PROVE  TenantInv'
<1> DEFINE n == AtMost(estimate, MaxTpm)
           s == [req[r] EXCEPT !.need = n]
<1>1. req[r] = NoState /\ req[r] \in LocalStates
  BY DEF EnterUncapped, TenantInv, RequestKept
<1>0. n \in 0..MaxTpm
  BY EstimateNat
<1> HIDE DEF n
<1>2. s \in LocalStates /\ s.gen = Null /\ s.held = FALSE /\ s.rpm = 0 /\ s.tpm = 0
  <2>1. s \in LocalStates
    BY <1>1, <1>0 DEF LocalStates
  <2>2. s.gen = req[r].gen /\ s.held = req[r].held /\ s.rpm = req[r].rpm /\ s.tpm = req[r].tpm
    BY <1>1 DEF LocalStates
  <2> QED
    BY <1>1, <2>1, <2>2 DEF NoState
<1>3. req' = [req EXCEPT ![r] = s]
  BY DEF EnterUncapped, n
<1> HIDE DEF s
<1>4. /\ req' \in [Requests -> LocalStates] /\ req'[r] = s
      /\ \A x \in Requests : x # r => req'[x] = req[x]
  BY <1>2, <1>3 DEF TenantInv
<1>5. pc'[r] \in {"shared", "pod"} /\ \A x \in Requests : x # r => pc'[x] = pc[x]
  BY Moves DEF EnterUncapped, TakePod, PodInv, Places
<1>6. Only(r)
  BY <1>4, <1>5 DEF Only
<1>7. RequestKept(r)'
  BY <1>2, <1>4, <1>5 DEF RequestKept
<1>8. permits' = permits /\ req[r].gen = Null /\ req[r].held = FALSE
  BY <1>1 DEF EnterUncapped, NoState
<1> QED
  BY <1>2, <1>4, <1>6, <1>7, <1>8, EntryUnchanged

\* A tenant nobody uses an entry of: it is not there, or it is idle.
LEMMA Unused ==
    ASSUME PodInv, TenantInv, NEW t \in Tenants, permits[t] = Null \/ permits[t].active = 0
    PROVE  Users(t) = {} /\ TenantHolders(t) = {}
<1>1. Users(t) = {}
  <2>1. CASE permits[t] = Null
    BY <2>1 DEF Users, TenantInv, RequestKept
  <2>2. CASE permits[t] # Null
    <3>1. Cardinality(Users(t)) = 0
      BY <2>2 DEF TenantInv, TenantKept
    <3>2. IsFiniteSet(Users(t))
      BY AdmissionAssumption, FS_Subset DEF Users
    <3> QED
      BY <3>1, <3>2, FS_EmptySet
  <2> QED
    BY <2>1, <2>2
<1>2. ASSUME NEW r \in TenantHolders(t) PROVE req[r].gen # Null
  <2>1. r \in Requests /\ req[r].held /\ RequestKept(r) /\ pc[r] \in Places
    BY DEF TenantHolders, TenantInv, PodInv
  <2> QED
    BY <2>1 DEF RequestKept, Places, NoState
<1> QED
  BY <1>1, <1>2 DEF Users, TenantHolders

\* The entry a request enters by: one of its tenant's users, or a new one if
\* there are none.
LEMMA EntryForFacts ==
    ASSUME PodInv, TenantInv, NEW t \in Tenants, NEW cap \in Caps
    PROVE  /\ EntryFor(t, cap) \in Entries
           /\ EntryFor(t, cap).cap \in Caps
           /\ EntryFor(t, cap).active = UserCount(t)
           /\ EntryFor(t, cap).free + HolderCount(t) = EntryFor(t, cap).cap
           /\ \/ Users(t) = {}
              \/ permits[t] # Null /\ EntryFor(t, cap).gen = permits[t].gen
                 /\ EntryFor(t, cap).cap = permits[t].cap
<1>1. permits[t] \in Entries \cup {Null} /\ now \in Nat /\ cap \in Nat
  BY AdmissionAssumption DEF TenantInv, PodInv
<1>2. CASE EntryFor(t, cap) = permits[t] /\ permits[t] # Null
  BY <1>1, <1>2 DEF TenantInv, TenantKept, UserCount, HolderCount
<1>3. CASE EntryFor(t, cap) = NewEntry(t, cap) /\ (permits[t] = Null \/ permits[t].active = 0)
  <2>1. Users(t) = {} /\ TenantHolders(t) = {}
    BY <1>3, Unused
  <2>2. UserCount(t) = 0 /\ HolderCount(t) = 0
    BY <2>1, FS_EmptySet DEF UserCount, HolderCount
  <2>3. FreshGen(t) \in Nat
    <3>1. Cardinality(Requests) \in Nat
      BY AdmissionAssumption, FS_CardinalityType
    <3>2. 0 \in 0..Cardinality(Requests)
      BY <3>1
    <3>3. \A r \in Requests : TenantOf[r] = t => req[r].gen # 0
      BY <2>1, NullAssumption DEF Users
    <3> QED
      BY <3>1, <3>2, <3>3 DEF FreshGen
  <2>4. /\ NewEntry(t, cap) \in Entries /\ NewEntry(t, cap).active = 0
        /\ NewEntry(t, cap).free = cap /\ NewEntry(t, cap).cap = cap
    BY <1>1, <2>3 DEF NewEntry, Entries
  <2> QED
    BY <1>1, <1>3, <2>1, <2>2, <2>4
<1>4. \/ EntryFor(t, cap) = permits[t] /\ permits[t] # Null
      \/ EntryFor(t, cap) = NewEntry(t, cap) /\ (permits[t] = Null \/ permits[t].active = 0)
  BY DEF EntryFor, Swept, Idle
<1> QED
  BY <1>2, <1>3, <1>4

\* Entering under a cap counts the request in, whichever entry it enters by.
LEMMA EnterCappedKeeps ==
    ASSUME PodInv, TenantInv, NEW r \in Requests, NEW cap \in Caps, NEW estimate \in Estimates,
           EnterCapped(r, cap, estimate)
    PROVE  TenantInv'
<1> DEFINE t == TenantOf[r]
           e == EntryFor(t, cap)
           taken == e.free > 0
           left == IF taken THEN e.free - 1 ELSE e.free
           n == AtMost(estimate, MaxTpm)
           d == [e EXCEPT !.active = e.active + 1, !.free = left]
           s == [req[r] EXCEPT !.cap = e.cap, !.gen = e.gen, !.held = taken, !.need = n]
<1>1. t \in Tenants /\ req[r] = NoState /\ req[r] \in LocalStates
  BY AdmissionAssumption DEF EnterCapped, TenantInv, RequestKept
<1>2. /\ e \in Entries /\ e.cap \in Caps /\ e.active = UserCount(t)
      /\ e.free + HolderCount(t) = e.cap
      /\ \/ Users(t) = {}
         \/ permits[t] # Null /\ e.gen = permits[t].gen /\ e.cap = permits[t].cap
  BY <1>1, EntryForFacts
<1>3. permits' = [Swept EXCEPT ![t] = d] /\ req' = [req EXCEPT ![r] = s]
  BY DEF EnterCapped
<1>4. pc'[r] \in (IF taken THEN {"shared", "pod"} ELSE {"tenant"})
      /\ \A x \in Requests : x # r => pc'[x] = pc[x]
  BY Moves DEF EnterCapped, TakePod, PodInv, Places
<1>5. n \in 0..MaxTpm
  BY EstimateNat
<1> HIDE DEF e, n
<1>6. taken \in BOOLEAN /\ left \in Nat /\ left = e.free - (IF taken THEN 1 ELSE 0)
  BY <1>2 DEF Entries
<1> HIDE DEF taken, left
<1>7. /\ d \in Entries /\ d.active = e.active + 1 /\ d.gen = e.gen /\ d.cap = e.cap
      /\ d.free = left
  <2> DEFINE m == e.active + 1
  <2>1. m \in Nat
    BY <1>2 DEF Entries
  <2> HIDE DEF m
  <2>2. [e EXCEPT !.active = m, !.free = left] \in Entries
    BY <1>2, <1>6, <2>1 DEF Entries
  <2> QED
    BY <1>2, <2>2 DEF m, Entries
<1>8. s \in LocalStates
  BY <1>1, <1>2, <1>5, <1>6 DEF LocalStates, Entries
<1>9. s.cap = e.cap /\ s.gen = e.gen /\ s.held = taken /\ s.rpm = 0 /\ s.tpm = 0
  BY <1>1 DEF NoState, LocalStates
<1> HIDE DEF d, s
<1>10. Swept \in [Tenants -> Entries \cup {Null}]
  BY DEF Swept, TenantInv
<1>11. /\ permits' \in [Tenants -> Entries \cup {Null}] /\ permits'[t] = d
       /\ \A u \in Tenants : u # t => permits'[u] = Swept[u]
  BY <1>1, <1>3, <1>7, <1>10
<1>12. /\ req' \in [Requests -> LocalStates] /\ req'[r] = s
       /\ \A x \in Requests : x # r => req'[x] = req[x]
  BY <1>3, <1>8 DEF TenantInv
<1>13. Only(r)
  BY <1>4, <1>12 DEF Only
<1>14. ASSUME NEW u \in Tenants, u # t PROVE Untouched(u)
  BY <1>11, <1>14, Unused DEF Swept, Idle, Untouched
<1>15. e.gen # Null /\ d # Null
  BY <1>2, <1>7, NullAssumption DEF Entries
<1>16. RequestKept(r)'
  <2>1. permits'[t] # Null /\ permits'[t].gen = s.gen /\ permits'[t].cap = s.cap
    BY <1>7, <1>9, <1>11, <1>15
  <2> QED
    BY <1>4, <1>6, <1>9, <1>12, <1>15, <2>1 DEF RequestKept
<1>17. TenantKept(t)'
  <2>1. /\ UserCount(t)' = UserCount(t) + 1
        /\ HolderCount(t)' = HolderCount(t) + (IF taken THEN 1 ELSE 0)
        /\ HolderCount(t) \in Nat
    <3>1. req[r].gen = Null /\ req[r].held = FALSE
      BY <1>1 DEF NoState
    <3> QED
      BY <1>9, <1>12, <1>13, <1>15, <3>1, UsersCount
  <2>2. /\ permits'[t].cap \in Caps /\ permits'[t].active = UserCount(t)'
        /\ permits'[t].free + HolderCount(t)' = permits'[t].cap
    BY <1>2, <1>6, <1>7, <1>11, <2>1 DEF Entries
  <2> QED
    BY <2>2 DEF TenantKept, UserCount, HolderCount
<1> QED
  BY <1>2, <1>7, <1>11, <1>13, <1>14, <1>15, <1>16, <1>17, OthersKept

\* A waiter that gets its tenant's permit takes it from the entry it waited at.
LEMMA GetTenantPermitKeeps ==
    ASSUME PodInv, TenantInv, NEW r \in Requests, GetTenantPermit(r)
    PROVE  TenantInv'
<1> DEFINE t == TenantOf[r]
           e == permits[t]
           left == e.free - 1
           d == [e EXCEPT !.free = left]
           s == [req[r] EXCEPT !.held = TRUE]
<1>1. /\ t \in Tenants /\ pc[r] = "tenant" /\ req[r] \in LocalStates
      /\ req[r].gen # Null /\ ~req[r].held /\ req[r].rpm = 0 /\ req[r].tpm = 0
      /\ RequestKept(r) /\ TenantKept(t)
  BY AdmissionAssumption DEF GetTenantPermit, TenantInv, RequestKept
<1>2. /\ e # Null /\ e \in Entries /\ e.gen = req[r].gen /\ e.cap = req[r].cap /\ e.free > 0
  BY <1>1 DEF GetTenantPermit, RequestKept, TenantInv
<1>3. permits' = [permits EXCEPT ![t] = d] /\ req' = [req EXCEPT ![r] = s]
  BY DEF GetTenantPermit
<1>4. pc'[r] \in {"shared", "pod"} /\ \A x \in Requests : x # r => pc'[x] = pc[x]
  BY Moves DEF GetTenantPermit, TakePod, PodInv, Places
<1>5. left \in Nat /\ left = e.free - 1
  BY <1>2 DEF Entries
<1> HIDE DEF e, left
<1>6. /\ d \in Entries /\ d.active = e.active /\ d.gen = e.gen /\ d.cap = e.cap
      /\ d.free = left
  BY <1>2, <1>5 DEF Entries
<1>7. s \in LocalStates
  BY <1>1 DEF LocalStates
<1>8. s.cap = req[r].cap /\ s.gen = req[r].gen /\ s.held = TRUE /\ s.rpm = 0 /\ s.tpm = 0
  BY <1>1 DEF LocalStates
<1> HIDE DEF d, s
<1>9. /\ permits' \in [Tenants -> Entries \cup {Null}] /\ permits'[t] = d
      /\ \A u \in Tenants : u # t => permits'[u] = permits[u]
  BY <1>1, <1>3, <1>6 DEF TenantInv
<1>10. /\ req' \in [Requests -> LocalStates] /\ req'[r] = s
       /\ \A x \in Requests : x # r => req'[x] = req[x]
  BY <1>3, <1>7 DEF TenantInv
<1>11. Only(r)
  BY <1>4, <1>10 DEF Only
<1>12. d # Null
  BY <1>6, NullAssumption
<1>13. RequestKept(r)'
  BY <1>1, <1>2, <1>4, <1>6, <1>8, <1>9, <1>10, <1>12 DEF RequestKept
<1>14. TenantKept(t)'
  <2>1. /\ UserCount(t)' = UserCount(t) /\ HolderCount(t)' = HolderCount(t) + 1
        /\ HolderCount(t) \in Nat /\ UserCount(t) \in Nat
    BY <1>1, <1>8, <1>10, <1>11, UsersCount
  <2>2. /\ e.cap \in Caps /\ e.active = UserCount(t)
        /\ e.free + HolderCount(t) = e.cap /\ e.free \in Nat
    BY <1>1, <1>2 DEF TenantKept, UserCount, HolderCount, e, Entries
  <2>3. /\ permits'[t].cap \in Caps /\ permits'[t].active = UserCount(t)'
        /\ permits'[t].free + HolderCount(t)' = permits'[t].cap
    BY <1>5, <1>6, <1>9, <2>1, <2>2
  <2> QED
    BY <2>3 DEF TenantKept, UserCount, HolderCount
<1>15. \A u \in Tenants : u # t => Untouched(u)
  BY <1>9 DEF Untouched
<1> QED
  BY <1>6, <1>9, <1>11, <1>12, <1>13, <1>14, <1>15, OthersKept DEF e

\* A request that leaves __concurrency_permit() gives back to its tenant's
\* entry just what it held of it.
LEMMA LeaveKeeps ==
    ASSUME PodInv, TenantInv, NEW r \in Requests, NEW place \in {"done", "store"},
           pc[r] \in {"tenant", "pod", "shared", "quota", "giveback", "upstream"}, Goto(r, place),
           permits' = PermitsWithout(r), req' = [req EXCEPT ![r] = NoState]
    PROVE  TenantInv'
<1> DEFINE t == TenantOf[r]
           e == permits[t]
<1>1. /\ t \in Tenants /\ req[r] \in LocalStates /\ RequestKept(r) /\ TenantKept(t)
      /\ permits \in [Tenants -> Entries \cup {Null}] /\ now \in Nat
  BY AdmissionAssumption DEF TenantInv, PodInv
<1>2. /\ NoState \in LocalStates /\ NoState.gen = Null /\ NoState.held = FALSE
      /\ NoState.rpm = 0 /\ NoState.tpm = 0
  BY AdmissionAssumption DEF NoState, LocalStates
<1>3. /\ req' \in [Requests -> LocalStates] /\ req'[r] = NoState
      /\ \A x \in Requests : x # r => req'[x] = req[x]
  BY <1>2 DEF TenantInv
<1>4. pc'[r] = place /\ \A x \in Requests : x # r => pc'[x] = pc[x]
  BY Moves DEF PodInv, Places
<1>5. Only(r)
  BY <1>3, <1>4 DEF Only
<1>6. RequestKept(r)'
  <2>1. NoState' = NoState
    BY DEF NoState
  <2> QED
    BY <1>2, <1>3, <1>4, <2>1 DEF RequestKept
<1>7. CASE req[r].gen = Null
  <2>1. permits' = permits
    BY <1>7 DEF PermitsWithout
  <2>2. req[r].held = FALSE
    BY <1>1, <1>7 DEF RequestKept, LocalStates
  <2> QED
    BY <1>2, <1>3, <1>5, <1>6, <1>7, <2>1, <2>2, EntryUnchanged
<1>8. CASE req[r].gen # Null
  <2> DEFINE free == IF req[r].held THEN e.free + 1 ELSE e.free
             active == e.active - 1
             d == [e EXCEPT !.free = free, !.active = active, !.last = now]
  <2>1. e # Null /\ e \in Entries /\ e.gen = req[r].gen /\ e.cap = req[r].cap
    BY <1>1, <1>8 DEF RequestKept
  <2>2. permits' = [permits EXCEPT ![t] = d]
    BY <1>8, <2>1 DEF PermitsWithout
  <2>3. /\ e.cap \in Caps /\ e.active = UserCount(t) /\ e.free + HolderCount(t) = e.cap
        /\ e.free \in Nat
    BY <1>1, <2>1 DEF TenantKept, UserCount, HolderCount, Entries
  <2>4. /\ UserCount(t) \in Nat /\ HolderCount(t) \in Nat /\ UserCount(t) >= 1
        /\ UserCount(t)' = UserCount(t) - 1
        /\ HolderCount(t)' = HolderCount(t) - (IF req[r].held THEN 1 ELSE 0)
    BY <1>2, <1>3, <1>5, <1>8, UsersCount
  <2>5. free \in Nat /\ active \in Nat /\ free = e.free + (IF req[r].held THEN 1 ELSE 0)
    BY <2>3, <2>4
  <2>6. active = e.active - 1
    OBVIOUS
  <2> HIDE DEF e, free, active
  <2>7. /\ d \in Entries /\ d.gen = e.gen /\ d.cap = e.cap /\ d.free = free
        /\ d.active = active
    BY <1>1, <2>1, <2>5 DEF Entries
  <2> HIDE DEF d
  <2>8. /\ permits' \in [Tenants -> Entries \cup {Null}] /\ permits'[t] = d
        /\ \A u \in Tenants : u # t => permits'[u] = permits[u]
    BY <1>1, <2>2, <2>7
  <2>9. d # Null
    BY <2>7, NullAssumption
  <2>10. TenantKept(t)'
    <3>1. /\ permits'[t].cap \in Caps /\ permits'[t].active = UserCount(t)'
          /\ permits'[t].free + HolderCount(t)' = permits'[t].cap
      BY <2>3, <2>4, <2>5, <2>6, <2>7, <2>8
    <3> QED
      BY <3>1 DEF TenantKept, UserCount, HolderCount
  <2>11. \A u \in Tenants : u # t => Untouched(u)
    BY <2>8 DEF Untouched
  <2> QED
    BY <1>5, <1>6, <2>7, <2>8, <2>9, <2>10, <2>11, OthersKept DEF e
<1> QED
  BY <1>7, <1>8

\* A call is sent with the quota it asked for, and nothing else changes hands.
LEMMA AdmitKeeps ==
    ASSUME PodInv, TenantInv, NEW r \in Requests, Admit(r)
    PROVE  TenantInv'
<1> DEFINE s == [req[r] EXCEPT !.rpm = 1, !.tpm = req[r].need]
<1>1. /\ pc[r] = "quota" /\ req[r] \in LocalStates /\ RequestKept(r) /\ permits' = permits
      /\ req' = [req EXCEPT ![r] = s]
  BY DEF Admit, TenantInv
<1>2. pc'[r] = "upstream" /\ \A x \in Requests : x # r => pc'[x] = pc[x]
  BY Moves DEF Admit, PodInv, Places
<1>3. s \in LocalStates
  <2> DEFINE one == 1
             n == req[r].need
             Fractions == 0..1
             Needs == 0..MaxTpm
             Gens == Nat \cup {Null}
             States == [cap : Caps \cup {0}, gen : Gens, held : BOOLEAN,
                        need : Needs, rpm : Fractions, tpm : Needs]
  <2>1. LocalStates = States
    BY DEF LocalStates
  <2>2. one \in Fractions
    OBVIOUS
  <2> HIDE DEF one, Fractions, Needs, Gens
  <2>3. n \in Needs
    BY <1>1, <2>1
  <2>4. [req[r] EXCEPT !.rpm = one, !.tpm = n] \in States
    BY <1>1, <2>1, <2>2, <2>3
  <2> QED
    BY <2>1, <2>4 DEF one
<1>4. /\ s.gen = req[r].gen /\ s.held = req[r].held /\ s.cap = req[r].cap /\ s.rpm = 1
  BY <1>1 DEF LocalStates
<1> HIDE DEF s
<1>5. /\ req' \in [Requests -> LocalStates] /\ req'[r] = s
      /\ \A x \in Requests : x # r => req'[x] = req[x]
  BY <1>1, <1>3 DEF TenantInv
<1>6. Only(r)
  BY <1>2, <1>5 DEF Only
<1>7. RequestKept(r)'
  BY <1>1, <1>2, <1>4, <1>5 DEF RequestKept
<1> QED
  BY <1>1, <1>4, <1>5, <1>6, <1>7, EntryUnchanged

\* No step of a request loses count of a tenant's entry.
LEMMA TenantStep ==
    ASSUME PodInv, TenantInv, NEW r \in Requests, Step(r)
    PROVE  TenantInv'
<1>1. ASSUME NEW place \in {"done", "store"}, NEW rpm, NEW tpm, LeaveTo(r, place, rpm, tpm),
             pc[r] \in PodPlaces
      PROVE  TenantInv'
  BY <1>1, LeaveKeeps DEF LeaveTo, PodPlaces
<1>2. /\ "start" \in Places /\ "done" \in Places /\ "store" \in Places
      /\ "shared" \in Places /\ "quota" \in Places /\ "giveback" \in Places
  BY DEF Places
<1>3. CASE Start(r)
  <2>1. \/ Goto(r, "start")
        \/ Goto(r, "done")
    BY <1>3 DEF Start
  <2> QED
    BY <1>2, <1>3, <2>1, MoveKeeps DEF Start
<1>4. CASE CacheAnswers(r)
  BY <1>2, <1>4, MoveKeeps DEF CacheAnswers
<1>5. CASE Refused(r)
  BY <1>2, <1>5, MoveKeeps DEF Refused
<1>6. ASSUME NEW estimate \in Estimates, EnterUncapped(r, estimate) PROVE TenantInv'
  BY <1>6, EnterUncappedKeeps
<1>7. ASSUME NEW estimate \in Estimates, NEW cap \in Caps, EnterCapped(r, cap, estimate)
      PROVE  TenantInv'
  BY <1>7, EnterCappedKeeps
<1>8. CASE GetTenantPermit(r)
  BY <1>8, GetTenantPermitKeeps
<1>9. CASE GetPodPermit(r)
  <2>1. Goto(r, "shared") /\ pc[r] = "pod" /\ UNCHANGED <<permits, req>>
    BY <1>9 DEF GetPodPermit, TakePod
  <2> QED
    BY <1>2, <2>1, MoveKeeps
<1>10. CASE GiveUpWaiting(r)
  BY <1>10, LeaveKeeps DEF GiveUpWaiting
<1>11. CASE SharedGranted(r)
  BY <1>2, <1>11, MoveKeeps DEF SharedGranted
<1>12. CASE SharedDenied(r)
  BY <1>12, <1>1 DEF SharedDenied, PodPlaces
<1>13. CASE Admit(r)
  BY <1>13, AdmitKeeps
<1>14. CASE SleepForQuota(r)
  BY <1>14 DEF SleepForQuota, TenantInv, RequestKept, TenantKept, Users, TenantHolders, NoState
<1>15. CASE GiveUpQuota(r)
  BY <1>2, <1>15, MoveKeeps DEF GiveUpQuota
<1>20. CASE SharedTakenInVain(r) \/ GiveBack(r) \/ GiveBackFails(r)
  BY <1>20, <1>1 DEF SharedTakenInVain, GiveBack, GiveBackFails, PodPlaces
<1>16. ASSUME NEW used \in Usages, Answered(r, used) PROVE TenantInv'
  <2> DEFINE place == IF r \in Streams THEN "done" ELSE "store"
  <2>1. /\ place \in {"done", "store"} /\ pc[r] \in PodPlaces
        /\ LeaveTo(r, place, RequestRefund(r, TRUE), TokenRefund(r, used))
    BY <1>16 DEF Answered, PodPlaces
  <2> HIDE DEF place
  <2> QED
    BY <2>1, <1>1
<1>17. CASE \E used \in Usages \cup {0} : Failed(r, used)
  BY <1>17, <1>1 DEF Failed, PodPlaces
<1>18. CASE NotDispatched(r)
  BY <1>18, <1>1 DEF NotDispatched, PodPlaces
<1>19. CASE StoreEnds(r)
  BY <1>2, <1>19, MoveKeeps DEF StoreEnds
<1> QED
  BY <1>3, <1>4, <1>5, <1>6, <1>7, <1>8, <1>9, <1>10, <1>11, <1>12, <1>13, <1>14, <1>15,
     <1>16, <1>17, <1>18, <1>19, <1>20 DEF Step

-----------------------------------------------------------------------------
(* The quota *)

\* A step of a request is its own.
LEMMA StepOnly ==
    ASSUME PodInv, TenantInv, NEW r \in Requests, Step(r)
    PROVE  Only(r)
<1>1. req' \in [Requests -> LocalStates]
  BY TenantStep DEF TenantInv
<1>2. ASSUME NEW place \in Places, Goto(r, place), NEW s, req' = [req EXCEPT ![r] = s]
      PROVE  \A x \in Requests : x # r => req'[x] = req[x] /\ pc'[x] = pc[x]
  BY <1>2 DEF PodInv, TenantInv, Goto
<1>3. ASSUME NEW place \in Places, Goto(r, place), req' = req
      PROVE  \A x \in Requests : x # r => req'[x] = req[x] /\ pc'[x] = pc[x]
  BY <1>3 DEF PodInv, Goto
<1> USE DEF Places
<1>4. TakePod(r) => Goto(r, "shared") \/ Goto(r, "pod")
  BY DEF TakePod
<1>5. CASE Start(r)
  <2>1. req' = req /\ (Goto(r, "start") \/ Goto(r, "done"))
    BY <1>5 DEF Start
  <2> QED
    BY <1>1, <1>3, <2>1 DEF Only
<1>6. CASE CacheAnswers(r) \/ Refused(r) \/ StoreEnds(r)
  BY <1>1, <1>3, <1>6 DEF CacheAnswers, Refused, StoreEnds, Only
<1>7. CASE \E estimate \in Estimates : EnterUncapped(r, estimate)
  BY <1>1, <1>2, <1>4, <1>7 DEF EnterUncapped, Only
<1>8. CASE \E estimate \in Estimates, cap \in Caps : EnterCapped(r, cap, estimate)
  <2>1. PICK estimate \in Estimates, cap \in Caps : EnterCapped(r, cap, estimate)
    BY <1>8
  <2>2. Goto(r, "shared") \/ Goto(r, "pod") \/ Goto(r, "tenant")
    BY <1>4, <2>1 DEF EnterCapped
  <2>3. \A x \in Requests : x # r => req'[x] = req[x] /\ pc'[x] = pc[x]
    BY <1>2, <2>1, <2>2 DEF EnterCapped
  <2> QED
    BY <1>1, <2>3 DEF Only
<1>9. CASE GetTenantPermit(r) \/ GetPodPermit(r)
  BY <1>1, <1>2, <1>3, <1>4, <1>9 DEF GetTenantPermit, GetPodPermit, Only
<1>10. CASE GiveUpWaiting(r) \/ SharedGranted(r) \/ Admit(r) \/ GiveUpQuota(r)
  BY <1>1, <1>2, <1>3, <1>10 DEF GiveUpWaiting, SharedGranted, Admit, GiveUpQuota, Only
<1>11. CASE \/ SharedDenied(r) \/ SharedTakenInVain(r) \/ GiveBack(r) \/ GiveBackFails(r)
            \/ NotDispatched(r)
            \/ \E used \in Usages \cup {0} : Failed(r, used)
  BY <1>1, <1>2, <1>11 DEF SharedDenied, SharedTakenInVain, GiveBack, GiveBackFails, Failed,
     NotDispatched, LeaveTo, Only
<1>12. CASE SleepForQuota(r)
  BY <1>1, <1>12 DEF SleepForQuota, Only
<1>13. CASE \E used \in Usages : Answered(r, used)
  <2>1. \/ Goto(r, "done")
        \/ Goto(r, "store")
    BY <1>13 DEF Answered, LeaveTo
  <2>2. req' = [req EXCEPT ![r] = NoState]
    BY <1>13 DEF Answered, LeaveTo
  <2> QED
    BY <1>1, <1>2, <2>1, <2>2 DEF Only
<1> QED
  BY <1>5, <1>6, <1>7, <1>8, <1>9, <1>10, <1>11, <1>12, <1>13 DEF Step

TpmOf == [x \in Requests |-> req[x].tpm]

\* The tokens of a set of requests are a natural number.
LEMMA TpmCounts ==
    ASSUME req \in [Requests -> LocalStates], NEW S \in SUBSET Requests
    PROVE  Counts(TpmOf, S) /\ SumFunctionOnSet(TpmOf, S) \in Nat
<1>1. \A x \in Requests : req[x].tpm \in Nat
  BY AdmissionAssumption DEF LocalStates
<1>2. IsFiniteSet(S)
  BY CountRequests
<1>3. Counts(TpmOf, S)
  BY <1>1, <1>2 DEF Counts, TpmOf
<1> QED
  BY <1>3, SumBasics

\* What a step of r does to the calls admitted and to the tokens they hold.
LEMMA HeldMoves ==
    ASSUME PodInv, TenantInv, NEW r \in Requests, Only(r)
    PROVE  /\ Cardinality(Admitted) \in Nat /\ TpmHeld \in Nat
           /\ pc[r] # "upstream" /\ pc'[r] # "upstream" =>
                 Admitted' = Admitted /\ TpmHeld' = TpmHeld
           /\ pc[r] = "upstream" /\ pc'[r] # "upstream" =>
                 /\ Cardinality(Admitted)' = Cardinality(Admitted) - 1
                 /\ TpmHeld' = TpmHeld - req[r].tpm
           /\ pc[r] # "upstream" /\ pc'[r] = "upstream" =>
                 /\ Cardinality(Admitted)' = Cardinality(Admitted) + 1
                 /\ TpmHeld' = TpmHeld + req'[r].tpm
<1> DEFINE A == Admitted
           B == Admitted \ {r}
           f == TpmOf
           g == TpmOf'
<1>1. A \in SUBSET Requests /\ B \in SUBSET Requests
  BY DEF Admitted
<1>2. TpmHeld = SumFunctionOnSet(f, A) /\ TpmHeld' = SumFunctionOnSet(g, A')
  BY DEF TpmHeld, TpmOf
<1>3. /\ Counts(f, A) /\ SumFunctionOnSet(f, A) \in Nat
      /\ Counts(f, B) /\ SumFunctionOnSet(f, B) \in Nat
      /\ Counts(f, {r}) /\ Counts(g, {r}) /\ Counts(g, B)
  <2>1. req \in [Requests -> LocalStates] /\ req' \in [Requests -> LocalStates]
    BY DEF TenantInv, Only
  <2>2. \A S \in SUBSET Requests : Counts(TpmOf, S)'
    <3>1. \A x \in Requests : req'[x].tpm \in Nat
      BY <2>1, AdmissionAssumption DEF LocalStates
    <3>2. \A S \in SUBSET Requests : IsFiniteSet(S)
      BY CountRequests
    <3> QED
      BY <3>1, <3>2 DEF Counts, TpmOf
  <2>3. Counts(g, {r}) /\ Counts(g, B)
    BY <1>1, <2>2 DEF Counts
  <2> QED
    BY <1>1, <2>1, <2>3, TpmCounts
<1>4. f[r] = req[r].tpm /\ g[r] = req'[r].tpm /\ \A x \in B : f[x] = g[x]
  BY <1>1 DEF TpmOf, Only
<1>5. SumFunctionOnSet(g, B) = SumFunctionOnSet(f, B)
  BY <1>3, <1>4, SumAgrees
<1>6. Cardinality(A) \in Nat
  BY <1>1, CountRequests
<1>7. CASE pc[r] # "upstream" /\ pc'[r] # "upstream"
  <2>1. A' = A /\ A = B
    BY <1>7 DEF Admitted, Only
  <2> QED
    BY <1>2, <1>3, <1>5, <1>6, <1>7, <2>1
<1>8. CASE pc[r] = "upstream" /\ pc'[r] # "upstream"
  <2>1. A' = B /\ r \in A /\ A = B \cup {r} /\ B \cap {r} = {}
    BY <1>8 DEF Admitted, Only
  <2>2. Cardinality(B) = Cardinality(A) - 1
    BY <1>1, <2>1, CountRequests
  <2>3. SumFunctionOnSet(f, B \cup {r}) = SumFunctionOnSet(f, B) + SumFunctionOnSet(f, {r})
    BY <1>3, <2>1, SumUnion
  <2>4. SumFunctionOnSet(f, {r}) = req[r].tpm /\ req[r].tpm \in Nat
    BY <1>3, <1>4, SumBasics DEF Counts
  <2>5. TpmHeld' = SumFunctionOnSet(f, B)
    BY <1>2, <1>5, <2>1
  <2>6. TpmHeld = SumFunctionOnSet(f, B) + req[r].tpm
    BY <1>2, <2>1, <2>3, <2>4
  <2>7. TpmHeld' = TpmHeld - req[r].tpm
    BY <1>3, <2>4, <2>5, <2>6
  <2>8. Cardinality(A') = Cardinality(A) - 1
    BY <2>1, <2>2
  <2> QED
    BY <1>2, <1>3, <1>6, <1>8, <2>7, <2>8
<1>9. CASE pc[r] # "upstream" /\ pc'[r] = "upstream"
  <2>1. A' = B \cup {r} /\ r \notin A /\ A = B /\ B \cap {r} = {}
    BY <1>9 DEF Admitted, Only
  <2>2. Cardinality(A \cup {r}) = Cardinality(A) + 1
    BY <1>1, <2>1, CountRequests
  <2>3. SumFunctionOnSet(g, B \cup {r}) = SumFunctionOnSet(g, B) + SumFunctionOnSet(g, {r})
    BY <1>3, <2>1, SumUnion
  <2>4. SumFunctionOnSet(g, {r}) = req'[r].tpm
    BY <1>3, <1>4, SumBasics DEF Counts
  <2>5. TpmHeld' = SumFunctionOnSet(f, B) + req'[r].tpm
    BY <1>2, <1>5, <2>1, <2>3, <2>4
  <2>6. TpmHeld' = TpmHeld + req'[r].tpm
    BY <1>2, <2>1, <2>5
  <2>7. Cardinality(A') = Cardinality(A) + 1
    BY <2>1, <2>2
  <2> QED
    BY <1>2, <1>3, <1>6, <1>9, <2>6, <2>7
<1> QED
  BY <1>2, <1>3, <1>6, <1>7, <1>8, <1>9

HoldingPlaces == {"quota", "giveback"}

\* What a step of r does to the requests in local admission.
LEMMA FleetMoves ==
    ASSUME PodInv, TenantInv, NEW r \in Requests, Only(r)
    PROVE  /\ Cardinality(FleetHolders) \in Nat
           /\ (pc[r] \in HoldingPlaces <=> pc'[r] \in HoldingPlaces) => FleetHolders' = FleetHolders
           /\ pc[r] \in HoldingPlaces /\ pc'[r] \notin HoldingPlaces =>
                 Cardinality(FleetHolders)' = Cardinality(FleetHolders) - 1 /\ Cardinality(FleetHolders) >= 1
           /\ pc[r] \notin HoldingPlaces /\ pc'[r] \in HoldingPlaces =>
                 Cardinality(FleetHolders)' = Cardinality(FleetHolders) + 1
<1>1. FleetHolders \in SUBSET Requests /\ Cardinality(FleetHolders) \in Nat
  BY CountRequests DEF FleetHolders
<1>2. (pc[r] \in HoldingPlaces <=> pc'[r] \in HoldingPlaces) => FleetHolders' = FleetHolders
  BY DEF FleetHolders, HoldingPlaces, Only
<1>3. ASSUME pc[r] \in HoldingPlaces, pc'[r] \notin HoldingPlaces
      PROVE  Cardinality(FleetHolders)' = Cardinality(FleetHolders) - 1 /\ Cardinality(FleetHolders) >= 1
  <2>1. FleetHolders' = FleetHolders \ {r} /\ r \in FleetHolders
    BY <1>3 DEF FleetHolders, HoldingPlaces, Only
  <2> QED
    BY <1>1, <2>1, CountRequests
<1>4. ASSUME pc[r] \notin HoldingPlaces, pc'[r] \in HoldingPlaces
      PROVE  Cardinality(FleetHolders)' = Cardinality(FleetHolders) + 1
  <2>1. FleetHolders' = FleetHolders \cup {r} /\ r \notin FleetHolders
    BY <1>4 DEF FleetHolders, HoldingPlaces, Only
  <2> QED
    BY <1>1, <2>1, CountRequests
<1> QED
  BY <1>1, <1>2, <1>3, <1>4

\* A rate times a longer time is no less, and times add up.
LEMMA RateTimes ==
    ASSUME NEW a \in Nat, NEW b \in Nat, a <= b, NEW rate \in Nat
    PROVE  /\ a * rate \in Nat /\ b * rate \in Nat /\ (b - a) * rate \in Nat
           /\ a * rate + (b - a) * rate = b * rate
<1>1. b - a \in Nat /\ b = a + (b - a)
  OBVIOUS
<1>2. \A m, n \in Nat : m * rate \in Nat /\ (m + n) * rate = m * rate + n * rate
  OBVIOUS
<1> QED
  BY <1>1, <1>2

\* A refill adds no more than the rate does in the time since the last one.
LEMMA RefillBounds ==
    ASSUME PodInv, QuotaInv
    PROVE  /\ Refilled \in Buckets /\ Refilled.updated = now
           /\ Refilled.rpm <= MaxRpm /\ Refilled.tpm <= MaxTpm
           /\ Refilled.rpm + bucket.updated * RpmRate <= bucket.rpm + now * RpmRate
           /\ Refilled.tpm + bucket.updated * TpmRate <= bucket.tpm + now * TpmRate
           /\ bucket.updated * RpmRate \in Nat /\ now * RpmRate \in Nat
           /\ bucket.updated * TpmRate \in Nat /\ now * TpmRate \in Nat
<1> DEFINE u == bucket.updated
           rpm == (now - u) * RpmRate
           tpm == (now - u) * TpmRate
<1>1. /\ bucket.rpm \in Nat /\ bucket.tpm \in Nat /\ u \in Nat /\ now \in Nat /\ u <= now
      /\ RpmRate \in Nat /\ TpmRate \in Nat /\ MaxRpm \in Nat /\ MaxTpm \in Nat
  BY AdmissionAssumption DEF PodInv, QuotaInv, Buckets
<1>2. /\ u * RpmRate \in Nat /\ now * RpmRate \in Nat /\ rpm \in Nat
      /\ u * RpmRate + rpm = now * RpmRate
  BY <1>1, RateTimes
<1>3. /\ u * TpmRate \in Nat /\ now * TpmRate \in Nat /\ tpm \in Nat
      /\ u * TpmRate + tpm = now * TpmRate
  BY <1>1, RateTimes
<1>4. /\ Refilled.rpm = AtMost(bucket.rpm + rpm, MaxRpm)
      /\ Refilled.tpm = AtMost(bucket.tpm + tpm, MaxTpm)
      /\ Refilled.updated = now
      /\ Refilled = [rpm |-> Refilled.rpm, tpm |-> Refilled.tpm, updated |-> now]
  BY DEF Refilled
<1> HIDE DEF u, rpm, tpm
<1>5. /\ Refilled.rpm \in Nat /\ Refilled.rpm <= MaxRpm /\ Refilled.rpm <= bucket.rpm + rpm
      /\ Refilled.tpm \in Nat /\ Refilled.tpm <= MaxTpm /\ Refilled.tpm <= bucket.tpm + tpm
  BY <1>1, <1>2, <1>3, <1>4 DEF AtMost
<1>6. Refilled \in Buckets
  BY <1>1, <1>4, <1>5 DEF Buckets
<1>7. /\ Refilled.rpm + u * RpmRate <= bucket.rpm + now * RpmRate
      /\ Refilled.tpm + u * TpmRate <= bucket.tpm + now * TpmRate
  <2> DEFINE a == u * RpmRate
             b == now * RpmRate
             c == u * TpmRate
             d == now * TpmRate
  <2>1. a \in Nat /\ b \in Nat /\ c \in Nat /\ d \in Nat /\ a + rpm = b /\ c + tpm = d
    BY <1>2, <1>3
  <2> HIDE DEF a, b, c, d
  <2>2. Refilled.rpm + a <= bucket.rpm + b /\ Refilled.tpm + c <= bucket.tpm + d
    BY <1>1, <1>2, <1>3, <1>5, <2>1
  <2> QED
    BY <2>2 DEF a, b, c, d
<1> QED
  BY <1>2, <1>3, <1>4, <1>5, <1>6, <1>7 DEF u

\* A step that leaves the quota, its calls and its history alone keeps it.
LEMMA QuotaUntouched ==
    ASSUME PodInv, TenantInv, QuotaInv, NEW r \in Requests, Only(r),
           UNCHANGED <<bucket, shared, now, history>>,
           pc[r] \notin {"quota", "giveback", "upstream"},
           pc'[r] \notin {"quota", "giveback", "upstream"}
    PROVE  QuotaInv'
<1>1. Admitted' = Admitted /\ TpmHeld' = TpmHeld
  BY HeldMoves
<1>2. FleetHolders' = FleetHolders
  BY FleetMoves DEF HoldingPlaces
<1> QED
  BY <1>1, <1>2 DEF QuotaInv, Charged, Gone

\* Leaving returns no more to the bucket than it is given.
LEMMA LeaveRefunds ==
    ASSUME PodInv, QuotaInv, NEW r \in Requests, NEW place \in Places,
           NEW rpm \in Nat, NEW tpm \in Nat, LeaveTo(r, place, rpm, tpm)
    PROVE  /\ bucket' \in Buckets /\ bucket'.updated = bucket.updated
           /\ bucket'.rpm <= MaxRpm /\ bucket'.rpm <= bucket.rpm + rpm
           /\ bucket'.tpm <= MaxTpm /\ bucket'.tpm <= bucket.tpm + tpm
           /\ pc'[r] = place
<1> DEFINE m == AtMost(bucket.rpm + rpm, MaxRpm)
           n == AtMost(bucket.tpm + tpm, MaxTpm)
<1>1. bucket \in Buckets /\ MaxRpm \in Nat /\ MaxTpm \in Nat
  BY AdmissionAssumption DEF QuotaInv
<1>2. bucket' = [bucket EXCEPT !.rpm = m, !.tpm = n]
  BY <1>1 DEF LeaveTo, Buckets
<1>3. /\ m \in Nat /\ m <= MaxRpm /\ m <= bucket.rpm + rpm
      /\ n \in Nat /\ n <= MaxTpm /\ n <= bucket.tpm + tpm
  BY <1>1 DEF AtMost, Buckets
<1> HIDE DEF m, n
<1>4. bucket' \in Buckets /\ bucket'.updated = bucket.updated /\ bucket'.rpm = m /\ bucket'.tpm = n
  BY <1>1, <1>2, <1>3 DEF Buckets
<1>5. pc'[r] = place
  BY Moves DEF LeaveTo, PodInv
<1> QED
  BY <1>3, <1>4, <1>5

\* The types the quota's arithmetic rests on
Amounts ==
    /\ bucket.rpm \in Nat /\ bucket.tpm \in Nat /\ bucket.updated \in Nat /\ now \in Nat
    /\ history.rpm \in Nat /\ Charged \in Nat /\ Gone \in Nat
    /\ Cardinality(Admitted) \in Nat /\ TpmHeld \in Nat /\ shared \in Nat
    /\ MaxRpm + bucket.updated * RpmRate \in Nat /\ MaxTpm + bucket.updated * TpmRate \in Nat

LEMMA AmountsTyped ==
    ASSUME PodInv, TenantInv, QuotaInv
    PROVE  Amounts
<1>1. Cardinality(Admitted) \in Nat
  BY CountRequests DEF Admitted
<1>2. TpmHeld \in Nat
  BY TpmCounts DEF TpmHeld, TpmOf, Admitted, TenantInv
<1>3. bucket.updated * RpmRate \in Nat /\ bucket.updated * TpmRate \in Nat
  BY RefillBounds
<1>4. MaxRpm + bucket.updated * RpmRate \in Nat /\ MaxTpm + bucket.updated * TpmRate \in Nat
  <2> DEFINE a == bucket.updated * RpmRate
             b == bucket.updated * TpmRate
  <2> HIDE DEF a, b
  <2>1. a \in Nat /\ b \in Nat /\ MaxRpm \in Nat /\ MaxTpm \in Nat
    BY <1>3, AdmissionAssumption DEF a, b
  <2>2. MaxRpm + a \in Nat /\ MaxTpm + b \in Nat
    BY <2>1
  <2> QED
    BY <2>2 DEF a, b
<1>5. /\ bucket.rpm \in Nat /\ bucket.tpm \in Nat /\ bucket.updated \in Nat /\ now \in Nat
      /\ history.rpm \in Nat /\ Charged \in Nat /\ Gone \in Nat
      /\ shared \in Nat
  BY DEF QuotaInv, Buckets, PodInv, Histories, Charged, Gone
<1> QED
  BY <1>1, <1>2, <1>4, <1>5 DEF Amounts

\* A request that leaves before its call was admitted takes no quota with it.
LEMMA LeaveUnadmitted ==
    ASSUME PodInv, TenantInv, QuotaInv, NEW r \in Requests, Only(r), NEW n \in Nat,
           pc[r] \in {"shared", "giveback"}, LeaveTo(r, "done", 0, 0), now' = now,
           history' = [history EXCEPT !.lost = history.lost + n],
           shared' = (shared + n) - (IF pc[r] = "giveback" THEN 1 ELSE 0)
    PROVE  QuotaInv'
<1>1. Amounts
  BY AmountsTyped
<1>2. /\ bucket' \in Buckets /\ bucket'.updated = bucket.updated /\ pc'[r] = "done"
      /\ bucket'.rpm <= MaxRpm /\ bucket'.rpm <= bucket.rpm + 0
      /\ bucket'.tpm <= MaxTpm /\ bucket'.tpm <= bucket.tpm + 0
  BY LeaveRefunds DEF Places
<1>3. Admitted' = Admitted /\ TpmHeld' = TpmHeld
  BY <1>2, HeldMoves
<1>4. /\ Cardinality(FleetHolders) \in Nat
      /\ Cardinality(FleetHolders)' = Cardinality(FleetHolders) - (IF pc[r] = "giveback" THEN 1 ELSE 0)
      /\ pc[r] = "giveback" => Cardinality(FleetHolders) >= 1
  BY <1>2, FleetMoves DEF HoldingPlaces
<1>5. /\ shared = Cardinality(FleetHolders) + Gone
      /\ bucket.rpm + Cardinality(Admitted) + history.rpm <= MaxRpm + bucket.updated * RpmRate
      /\ bucket.tpm + TpmHeld + Charged <= MaxTpm + bucket.updated * TpmRate
      /\ bucket.updated <= now
  BY DEF QuotaInv
<1>8. /\ history' \in Histories /\ history'.unpaid <= history'.used
      /\ Charged' = Charged /\ Gone' = Gone + n /\ history'.rpm = history.rpm
  <2>1. history \in Histories /\ history.unpaid <= history.used
    BY DEF QuotaInv
  <2> QED
    BY <2>1 DEF Histories, Charged, Gone
<1>6. shared' \in Nat /\ shared' = Cardinality(FleetHolders)' + Gone'
  BY <1>1, <1>4, <1>5, <1>8 DEF Amounts
<1>7. /\ bucket'.rpm + Cardinality(Admitted) + history.rpm <= MaxRpm + bucket.updated * RpmRate
      /\ bucket'.tpm + TpmHeld + Charged <= MaxTpm + bucket.updated * TpmRate
  BY <1>1, <1>2, <1>5 DEF Amounts, Buckets
<1> QED
  BY <1>2, <1>3, <1>5, <1>6, <1>7, <1>8 DEF QuotaInv

\* A call that ends is charged its request once sent, and the tokens it used;
\* it is refunded no more than what it held less that.
LEMMA CallEnds ==
    ASSUME PodInv, TenantInv, QuotaInv, NEW r \in Requests, Only(r), pc[r] = "upstream",
           NEW place \in {"done", "store"}, NEW rpm \in 0..1, NEW tpm \in Nat, NEW spent \in Nat,
           tpm + spent <= req[r].tpm, LeaveTo(r, place, rpm, tpm),
           history' \in Histories, history'.unpaid <= history'.used,
           history'.rpm = history.rpm + (1 - rpm), Charged' = Charged + spent, Gone' = Gone,
           UNCHANGED <<shared, now>>
    PROVE  QuotaInv'
<1>1. Amounts
  BY AmountsTyped
<1>2. /\ bucket' \in Buckets /\ bucket'.updated = bucket.updated /\ pc'[r] = place
      /\ bucket'.rpm <= MaxRpm /\ bucket'.rpm <= bucket.rpm + rpm
      /\ bucket'.tpm <= MaxTpm /\ bucket'.tpm <= bucket.tpm + tpm
  <2>1. place \in Places /\ rpm \in Nat
    BY DEF Places
  <2> QED
    BY <2>1, LeaveRefunds
<1>3. /\ Cardinality(Admitted)' = Cardinality(Admitted) - 1
      /\ TpmHeld' = TpmHeld - req[r].tpm
  BY <1>2, HeldMoves
<1>4. FleetHolders' = FleetHolders
  BY <1>2, FleetMoves DEF HoldingPlaces
<1>5. /\ bucket.rpm + Cardinality(Admitted) + history.rpm <= MaxRpm + bucket.updated * RpmRate
      /\ bucket.tpm + TpmHeld + Charged <= MaxTpm + bucket.updated * TpmRate
  BY DEF QuotaInv
<1>6. req[r].tpm \in Nat
  BY AdmissionAssumption DEF TenantInv, LocalStates
<1>7. bucket'.rpm + Cardinality(Admitted)' + history'.rpm <= MaxRpm + bucket.updated * RpmRate
  BY <1>1, <1>2, <1>3, <1>5 DEF Amounts, Buckets
<1>8. bucket'.tpm + TpmHeld' + Charged' <= MaxTpm + bucket.updated * TpmRate
  BY <1>1, <1>2, <1>3, <1>5, <1>6 DEF Amounts, Buckets
<1> QED
  BY <1>2, <1>4, <1>7, <1>8 DEF QuotaInv

\* A call is admitted with the quota it takes out of the refilled bucket.
LEMMA AdmitBalances ==
    ASSUME PodInv, TenantInv, QuotaInv, NEW r \in Requests, Only(r), Admit(r)
    PROVE  QuotaInv'
<1> DEFINE m == Refilled.rpm - 1
           n == Refilled.tpm - req[r].need
           s == [req[r] EXCEPT !.rpm = 1, !.tpm = req[r].need]
<1>1. Amounts
  BY AmountsTyped
<1>2. /\ Refilled \in Buckets /\ Refilled.updated = now
      /\ Refilled.rpm <= MaxRpm /\ Refilled.tpm <= MaxTpm
      /\ Refilled.rpm + bucket.updated * RpmRate <= bucket.rpm + now * RpmRate
      /\ Refilled.tpm + bucket.updated * TpmRate <= bucket.tpm + now * TpmRate
      /\ bucket.updated * RpmRate \in Nat /\ now * RpmRate \in Nat
      /\ bucket.updated * TpmRate \in Nat /\ now * TpmRate \in Nat
  BY RefillBounds
<1>3. /\ req[r] \in LocalStates /\ req[r].need \in Nat /\ MaxRpm \in Nat /\ MaxTpm \in Nat
      /\ Refilled.rpm >= 1 /\ Refilled.tpm >= req[r].need
      /\ Refilled.rpm \in Nat /\ Refilled.tpm \in Nat
  BY <1>2, AdmissionAssumption DEF Admit, Affordable, TenantInv, LocalStates, Buckets
<1>4. /\ m \in Nat /\ m = Refilled.rpm - 1 /\ n \in Nat /\ n = Refilled.tpm - req[r].need
  BY <1>3
<1>5. bucket' = [Refilled EXCEPT !.rpm = m, !.tpm = n]
  BY <1>2 DEF Admit, Buckets
<1> HIDE DEF m, n
<1>6. bucket' \in Buckets /\ bucket'.updated = now /\ bucket'.rpm = m /\ bucket'.tpm = n
  BY <1>2, <1>4, <1>5 DEF Buckets
<1>7. req'[r].tpm = req[r].need
  <2>1. req' = [req EXCEPT ![r] = s] /\ s.tpm = req[r].need
    BY <1>3 DEF Admit, LocalStates
  <2> HIDE DEF s
  <2> QED
    BY <2>1 DEF TenantInv
<1>8. pc[r] = "quota" /\ pc'[r] = "upstream"
  BY Moves DEF Admit, PodInv, Places
<1>9. /\ Cardinality(Admitted)' = Cardinality(Admitted) + 1
      /\ TpmHeld' = TpmHeld + req[r].need
  BY <1>7, <1>8, HeldMoves
<1>10. /\ Cardinality(FleetHolders)' = Cardinality(FleetHolders) - 1 /\ Cardinality(FleetHolders) >= 1
       /\ Cardinality(FleetHolders) \in Nat
  BY <1>8, FleetMoves DEF HoldingPlaces
<1>11. /\ history' \in Histories /\ history'.rpm = history.rpm
       /\ history'.unpaid <= history'.used /\ Charged' = Charged /\ Gone' = Gone + 1
  <2>1. history \in Histories /\ history.unpaid <= history.used
    BY DEF QuotaInv
  <2>2. history' = [history EXCEPT !.admitted = history.admitted + 1]
    BY DEF Admit
  <2> QED
    BY <2>1, <2>2 DEF Histories, Charged, Gone
<1>12. /\ bucket.rpm + Cardinality(Admitted) + history.rpm <= MaxRpm + bucket.updated * RpmRate
       /\ bucket.tpm + TpmHeld + Charged <= MaxTpm + bucket.updated * TpmRate
       /\ shared = Cardinality(FleetHolders) + Gone /\ shared \in Nat
  BY DEF QuotaInv
<1>13. now' = now /\ shared' = shared /\ now \in Nat
  BY <1>1 DEF Admit, Amounts
<1>14. bucket'.rpm + Cardinality(Admitted)' + history'.rpm <= MaxRpm + now * RpmRate
  BY <1>1, <1>2, <1>3, <1>4, <1>6, <1>9, <1>11, <1>12 DEF Amounts
<1>15. bucket'.tpm + TpmHeld' + Charged' <= MaxTpm + now * TpmRate
  BY <1>1, <1>2, <1>3, <1>4, <1>6, <1>9, <1>11, <1>12 DEF Amounts
<1>16. shared' = Cardinality(FleetHolders)' + Gone'
  BY <1>1, <1>10, <1>11, <1>12, <1>13 DEF Amounts
<1>17. bucket'.rpm <= MaxRpm /\ bucket'.tpm <= MaxTpm
  BY <1>2, <1>3, <1>4, <1>6
<1> QED
  BY <1>6, <1>11, <1>12, <1>13, <1>14, <1>15, <1>16, <1>17 DEF QuotaInv

\* A refill without an admission keeps the balance.
LEMMA SleepBalances ==
    ASSUME PodInv, TenantInv, QuotaInv, NEW r \in Requests, SleepForQuota(r)
    PROVE  QuotaInv'
<1>1. Amounts
  BY AmountsTyped
<1>2. /\ Refilled \in Buckets /\ Refilled.updated = now
      /\ Refilled.rpm <= MaxRpm /\ Refilled.tpm <= MaxTpm
      /\ Refilled.rpm + bucket.updated * RpmRate <= bucket.rpm + now * RpmRate
      /\ Refilled.tpm + bucket.updated * TpmRate <= bucket.tpm + now * TpmRate
      /\ bucket.updated * RpmRate \in Nat /\ now * RpmRate \in Nat
      /\ bucket.updated * TpmRate \in Nat /\ now * TpmRate \in Nat
  BY RefillBounds
<1>3. /\ bucket' = Refilled /\ UNCHANGED <<shared, history, now, pc, req>>
      /\ Admitted' = Admitted /\ FleetHolders' = FleetHolders /\ TpmHeld' = TpmHeld
      /\ Charged' = Charged /\ Gone' = Gone
  BY DEF SleepForQuota, Admitted, FleetHolders, TpmHeld, Charged, Gone
<1>4. /\ bucket.rpm + Cardinality(Admitted) + history.rpm <= MaxRpm + bucket.updated * RpmRate
      /\ bucket.tpm + TpmHeld + Charged <= MaxTpm + bucket.updated * TpmRate
  BY DEF QuotaInv
<1>5. /\ Refilled.rpm + Cardinality(Admitted) + history.rpm <= MaxRpm + now * RpmRate
      /\ Refilled.tpm + TpmHeld + Charged <= MaxTpm + now * TpmRate
  <2> DEFINE a == bucket.updated * RpmRate
             b == now * RpmRate
             c == bucket.updated * TpmRate
             d == now * TpmRate
  <2> HIDE DEF a, b, c, d
  <2>1. a \in Nat /\ b \in Nat /\ c \in Nat /\ d \in Nat
    BY <1>2 DEF a, b, c, d
  <2>2. /\ Refilled.rpm \in Nat /\ Refilled.rpm + a <= bucket.rpm + b
        /\ Refilled.tpm \in Nat /\ Refilled.tpm + c <= bucket.tpm + d
    BY <1>2 DEF a, b, c, d, Buckets
  <2>3. /\ bucket.rpm + Cardinality(Admitted) + history.rpm <= MaxRpm + a
        /\ bucket.tpm + TpmHeld + Charged <= MaxTpm + c
    BY <1>4 DEF a, c
  <2>4. /\ MaxRpm \in Nat /\ bucket.rpm \in Nat /\ Cardinality(Admitted) \in Nat
        /\ history.rpm \in Nat
    BY <1>1, AdmissionAssumption DEF Amounts
  <2>5. /\ MaxTpm \in Nat /\ bucket.tpm \in Nat /\ TpmHeld \in Nat /\ Charged \in Nat
    BY <1>1, AdmissionAssumption DEF Amounts
  <2>6. Refilled.rpm + Cardinality(Admitted) + history.rpm <= MaxRpm + b
    BY <2>1, <2>2, <2>3, <2>4
  <2>7. Refilled.tpm + TpmHeld + Charged <= MaxTpm + d
    BY <2>1, <2>2, <2>3, <2>5
  <2> QED
    BY <2>6, <2>7 DEF b, d
<1>6. now \in Nat /\ now <= now
  BY <1>1 DEF Amounts
<1> QED
  BY <1>2, <1>3, <1>5, <1>6 DEF QuotaInv

\* No step of a request makes quota out of nothing.
LEMMA QuotaStep ==
    ASSUME PodInv, TenantInv, QuotaInv, NEW r \in Requests, Step(r)
    PROVE  QuotaInv'
<1>1. Only(r)
  BY StepOnly
<1>2. ASSUME NEW place \in Places \ {"quota", "giveback", "upstream"}, Goto(r, place),
             pc[r] \notin {"quota", "giveback", "upstream"}, UNCHANGED <<bucket, shared, now, history>>
      PROVE  QuotaInv'
  <2>1. pc'[r] = place
    BY <1>2, Moves DEF PodInv
  <2> QED
    BY <1>1, <1>2, <2>1, QuotaUntouched
<1>3. {"start", "done", "shared", "pod", "tenant"} \subseteq
         Places \ {"quota", "giveback", "upstream"}
  BY DEF Places
<1>4. TakePod(r) => Goto(r, "shared") \/ Goto(r, "pod")
  BY DEF TakePod
<1>5. history \in Histories /\ Amounts
  BY AmountsTyped DEF QuotaInv
<1>6. req[r] \in LocalStates /\ req[r].tpm \in Nat /\ RequestKept(r)
  BY AdmissionAssumption DEF TenantInv, LocalStates
<1>7. CASE Start(r)
  <2>1. Goto(r, "start") \/ Goto(r, "done")
    BY <1>7 DEF Start
  <2> QED
    BY <1>2, <1>3, <1>7, <2>1 DEF Start
<1>8. CASE CacheAnswers(r) \/ Refused(r) \/ StoreEnds(r)
  BY <1>2, <1>3, <1>8 DEF CacheAnswers, Refused, StoreEnds
<1>9. CASE \E estimate \in Estimates : EnterUncapped(r, estimate)
  BY <1>2, <1>3, <1>4, <1>9 DEF EnterUncapped
<1>10. CASE \E estimate \in Estimates, cap \in Caps : EnterCapped(r, cap, estimate)
  <2>1. PICK estimate \in Estimates, cap \in Caps : EnterCapped(r, cap, estimate)
    BY <1>10
  <2>2. Goto(r, "shared") \/ Goto(r, "pod") \/ Goto(r, "tenant")
    BY <1>4, <2>1 DEF EnterCapped
  <2>3. pc[r] = "start" /\ UNCHANGED <<bucket, shared, now, history>>
    BY <2>1 DEF EnterCapped
  <2> QED
    BY <1>2, <1>3, <2>2, <2>3
<1>11. CASE GetTenantPermit(r) \/ GetPodPermit(r)
  BY <1>2, <1>3, <1>4, <1>11 DEF GetTenantPermit, GetPodPermit
<1>12. CASE GiveUpWaiting(r)
  BY <1>2, <1>3, <1>12 DEF GiveUpWaiting
<1>13. CASE SharedGranted(r)
  <2>1. pc[r] = "shared" /\ pc'[r] = "quota"
    BY <1>13, Moves DEF SharedGranted, PodInv, Places
  <2>2. Admitted' = Admitted /\ TpmHeld' = TpmHeld
    BY <1>1, <2>1, HeldMoves
  <2>3. Cardinality(FleetHolders)' = Cardinality(FleetHolders) + 1 /\ Cardinality(FleetHolders) \in Nat
    BY <1>1, <2>1, FleetMoves DEF HoldingPlaces
  <2>4. UNCHANGED <<bucket, now, history>> /\ shared' = shared + 1
    BY <1>13 DEF SharedGranted
  <2>6. Gone' = Gone /\ Charged' = Charged
    BY <2>4 DEF Gone, Charged
  <2>5. shared' \in Nat /\ shared' = Cardinality(FleetHolders)' + Gone'
    BY <1>5, <2>3, <2>4, <2>6 DEF Amounts, QuotaInv
  <2> QED
    BY <2>2, <2>4, <2>5, <2>6 DEF QuotaInv
<1>14. CASE SharedDenied(r) \/ SharedTakenInVain(r) \/ GiveBack(r) \/ GiveBackFails(r)
  <2> DEFINE n == IF SharedTakenInVain(r) \/ GiveBackFails(r) THEN 1 ELSE 0
  <2>1. /\ pc[r] \in {"shared", "giveback"} /\ LeaveTo(r, "done", 0, 0) /\ now' = now
        /\ pc[r] = "shared" <=> SharedDenied(r) \/ SharedTakenInVain(r)
    BY <1>14 DEF SharedDenied, SharedTakenInVain, GiveBack, GiveBackFails
  <2>2. history' = [history EXCEPT !.lost = history.lost + n]
    <3>1. [history EXCEPT !.lost = history.lost + 0] = history
      BY <1>5 DEF Histories
    <3> QED
      BY <1>5, <1>14, <3>1 DEF SharedDenied, SharedTakenInVain, GiveBack, GiveBackFails, Histories
  <2>3. shared' = (shared + n) - (IF pc[r] = "giveback" THEN 1 ELSE 0)
    BY <1>5, <1>14 DEF SharedDenied, SharedTakenInVain, GiveBack, GiveBackFails, Amounts
  <2>4. n \in Nat
    OBVIOUS
  <2> HIDE DEF n
  <2> QED
    BY <1>1, <2>1, <2>2, <2>3, <2>4, LeaveUnadmitted
<1>15. CASE Admit(r)
  BY <1>1, <1>15, AdmitBalances
<1>16. CASE SleepForQuota(r)
  BY <1>16, SleepBalances
<1>17. CASE GiveUpQuota(r)
  <2>1. pc[r] = "quota" /\ pc'[r] = "giveback" /\ UNCHANGED <<bucket, shared, now, history>>
    BY <1>17, Moves DEF GiveUpQuota, PodInv, Places
  <2>2. Admitted' = Admitted /\ TpmHeld' = TpmHeld
    BY <1>1, <2>1, HeldMoves
  <2>3. FleetHolders' = FleetHolders
    BY <1>1, <2>1, FleetMoves DEF HoldingPlaces
  <2> QED
    BY <2>1, <2>2, <2>3 DEF QuotaInv, Charged, Gone
<1>18. ASSUME NEW used \in Nat, NEW unpaid \in Nat, NEW place \in {"done", "store"},
             NEW spent \in Nat, NEW refund \in Nat, pc[r] = "upstream", Used(used, unpaid),
             used = unpaid + spent, refund + spent <= req[r].tpm,
             LeaveTo(r, place, 0, refund), UNCHANGED <<shared, now>>
       PROVE  QuotaInv'
  <2>1. history.unpaid <= history.used
    BY DEF QuotaInv
  <2> DEFINE a == history.rpm + 1
             b == history.used + used
             c == history.unpaid + unpaid
  <2>2. history' = [history EXCEPT !.rpm = a, !.used = b, !.unpaid = c]
    BY <1>5, <1>18 DEF Used, Histories
  <2>6. a \in Nat /\ b \in Nat /\ c \in Nat
    BY <1>5, <1>18 DEF Histories
  <2> HIDE DEF a, b, c
  <2>7. /\ history' \in Histories /\ history'.rpm = a /\ history'.used = b
        /\ history'.unpaid = c
        /\ history'.admitted = history.admitted /\ history'.lost = history.lost
    BY <1>5, <2>2, <2>6 DEF Histories
  <2>5. /\ history' \in Histories /\ history'.rpm = history.rpm + 1
        /\ history'.used = history.used + used /\ history'.unpaid = history.unpaid + unpaid
        /\ history'.admitted = history.admitted /\ history'.lost = history.lost
        /\ history.rpm \in Nat /\ history.used \in Nat /\ history.unpaid \in Nat
    BY <1>5, <2>7 DEF a, b, c, Histories
  <2>3. /\ history' \in Histories /\ history'.unpaid <= history'.used
        /\ history'.rpm = history.rpm + (1 - 0) /\ Charged' = Charged + spent /\ Gone' = Gone
    BY <1>18, <2>1, <2>5 DEF Charged, Gone
  <2>4. 0 \in 0..1
    OBVIOUS
  <2> QED
    BY <1>1, <1>18, <2>3, <2>4, CallEnds
<1>19. ASSUME NEW used \in Usages, Answered(r, used) PROVE QuotaInv'
  <2> DEFINE place == IF r \in Streams THEN "done" ELSE "store"
             spent == AtMost(used, req[r].tpm)
             refund == TokenRefund(r, used)
             unpaid == used - spent
  <2>1. place \in {"done", "store"} /\ used \in Nat
    BY AdmissionAssumption
  <2>2. /\ spent \in Nat /\ refund \in Nat /\ refund + spent <= req[r].tpm
        /\ unpaid \in Nat /\ used = unpaid + spent
    BY <1>6, <2>1 DEF AtMost, TokenRefund
  <2>3. pc[r] = "upstream" /\ LeaveTo(r, place, 0, refund) /\ UNCHANGED <<shared, now>>
    BY <1>19 DEF Answered, RequestRefund
  <2>4. Used(used, unpaid)
    BY <1>19 DEF Answered
  <2> HIDE DEF place, spent, refund, unpaid
  <2> QED
    BY <1>18, <2>1, <2>2, <2>3, <2>4
<1>20. ASSUME NEW used \in Usages \cup {0}, Failed(r, used) PROVE QuotaInv'
  <2> DEFINE refund == TokenRefund(r, 0)
  <2>1. refund \in Nat /\ refund + 0 <= req[r].tpm /\ 0 \in Nat
    BY <1>6 DEF TokenRefund
  <2>2. used \in Nat /\ used = used + 0
    BY AdmissionAssumption
  <2>3. pc[r] = "upstream" /\ LeaveTo(r, "done", 0, refund) /\ UNCHANGED <<shared, now>>
    BY <1>20 DEF Failed, RequestRefund
  <2>4. Used(used, used)
    BY <1>20 DEF Failed
  <2> HIDE DEF refund
  <2> QED
    BY <1>18, <2>1, <2>2, <2>3, <2>4
<1>21. CASE NotDispatched(r)
  <2> DEFINE refund == TokenRefund(r, 0)
  <2>1. refund \in Nat /\ refund + 0 <= req[r].tpm
    BY <1>6 DEF TokenRefund
  <2>2. pc[r] = "upstream" /\ LeaveTo(r, "done", 1, refund) /\ UNCHANGED <<shared, now, history>>
    BY <1>6, <1>21 DEF NotDispatched, RequestRefund, RequestKept
  <2>3. /\ history'.rpm = history.rpm + (1 - 1) /\ Charged' = Charged + 0 /\ Gone' = Gone
        /\ history' \in Histories /\ history'.unpaid <= history'.used
    BY <1>5, <2>2 DEF Amounts, Charged, Gone, QuotaInv
  <2> HIDE DEF refund
  <2>4. 1 \in 0..1 /\ 0 \in Nat
    OBVIOUS
  <2> QED
    BY <1>1, <2>1, <2>2, <2>3, <2>4, CallEnds
<1> QED
  BY <1>7, <1>8, <1>9, <1>10, <1>11, <1>12, <1>13, <1>14, <1>15, <1>16, <1>17, <1>19, <1>20,
     <1>21 DEF Step

-----------------------------------------------------------------------------
(* Theorems *)

\* Draining and the clock disturb none of it.
LEMMA Passing ==
    ASSUME PodInv, TenantInv, QuotaInv, Drain \/ DrainReturns \/ Tick \/ UNCHANGED vars
    PROVE  PodInv' /\ TenantInv' /\ QuotaInv'
<1>1. /\ UNCHANGED <<permits, pod, inflight, bucket, shared, pc, req, history>>
      /\ draining' \in BOOLEAN /\ drained' \in BOOLEAN \cup {Null}
      /\ now' \in Nat /\ now' >= now
  <2>1. CASE Drain
    BY <2>1 DEF Drain, PodInv
  <2>2. CASE DrainReturns
    <3>1. drained' \in BOOLEAN
      <4>1. drained' = (inflight = 0)
        BY <2>2 DEF DrainReturns
      <4> QED
        BY <4>1, Zenon
    <3> QED
      BY <2>2, <3>1 DEF DrainReturns, PodInv
  <2>3. CASE Tick
    BY <2>3 DEF Tick, PodInv
  <2>4. CASE UNCHANGED vars
    BY <2>4 DEF vars, PodInv
  <2> QED
    BY <2>1, <2>2, <2>3, <2>4
<1>2. PodInv'
  BY <1>1 DEF PodInv, PodPermitsConserved, Inflight
<1>3. TenantInv'
  BY <1>1 DEF TenantInv, RequestKept, TenantKept, Users, TenantHolders, NoState
<1>4. /\ Admitted' = Admitted /\ FleetHolders' = FleetHolders /\ TpmHeld' = TpmHeld
      /\ Charged' = Charged /\ Gone' = Gone
  BY <1>1 DEF Admitted, FleetHolders, TpmHeld, Charged, Gone
<1>5. bucket.updated \in Nat /\ now \in Nat /\ bucket.updated <= now'
  BY <1>1 DEF QuotaInv, PodInv, Buckets
<1>6. QuotaInv'
  BY <1>1, <1>4, <1>5 DEF QuotaInv
<1> QED
  BY <1>2, <1>3, <1>6

\* The permits, the quota and what each request holds of them agree, always.
LEMMA AlwaysKept == Spec => [](PodInv /\ TenantInv /\ QuotaInv)
<1>1. Init => PodInv /\ TenantInv /\ QuotaInv
  <2> SUFFICES ASSUME Init PROVE PodInv /\ TenantInv /\ QuotaInv
    OBVIOUS
  <2>1. /\ Inflight = {} /\ FleetHolders = {} /\ Admitted = {}
        /\ \A t \in Tenants : Users(t) = {} /\ TenantHolders(t) = {}
    BY DEF Init, Inflight, FleetHolders, Admitted, Users, TenantHolders, NoState
  <2>2. Cardinality({}) = 0
    BY FS_EmptySet
  <2>3. PodInv
    <3>1. pc \in [Requests -> Places]
      BY DEF Init, Places
    <3>2. pod = Pod /\ Pod \in Nat /\ inflight = 0 /\ Cardinality(Inflight) = 0
      BY <2>1, <2>2, AdmissionAssumption DEF Init
    <3>3. PodPermitsConserved /\ pod \in 0..Pod /\ inflight \in Nat
      BY <3>2 DEF PodPermitsConserved
    <3>4. draining \in BOOLEAN /\ drained \in BOOLEAN \cup {Null} /\ now \in Nat
      BY DEF Init
    <3> QED
      BY <3>1, <3>3, <3>4 DEF PodInv
  <2>4. NoState \in LocalStates /\ NoState.gen = Null /\ NoState.rpm = 0 /\ NoState.tpm = 0
    BY AdmissionAssumption DEF NoState, LocalStates
  <2>5. TenantInv
    BY <2>4 DEF Init, TenantInv, RequestKept, TenantKept
  <2>6. TpmHeld = 0
    BY <2>1, SumBasics DEF TpmHeld
  <2>7. QuotaInv
    <3>1. /\ bucket \in Buckets /\ bucket.rpm = MaxRpm /\ bucket.tpm = MaxTpm
          /\ bucket.updated = 0 /\ now = 0
          /\ MaxRpm \in Nat /\ MaxTpm \in Nat /\ RpmRate \in Nat /\ TpmRate \in Nat
      BY AdmissionAssumption DEF Init, Buckets
    <3>2. /\ history \in Histories /\ history.rpm = 0
          /\ history.unpaid <= history.used /\ Charged = 0 /\ Gone = 0 /\ shared = 0
      BY DEF Init, Histories, Charged, Gone
    <3>3. 0 * RpmRate = 0 /\ 0 * TpmRate = 0
      BY <3>1
    <3> QED
      BY <2>1, <2>2, <2>6, <3>1, <3>2, <3>3 DEF QuotaInv
  <2> QED
    BY <2>3, <2>5, <2>7
<1>2. (PodInv /\ TenantInv /\ QuotaInv) /\ [Next]_vars => (PodInv /\ TenantInv /\ QuotaInv)'
  <2> SUFFICES ASSUME PodInv, TenantInv, QuotaInv, [Next]_vars
               PROVE  PodInv' /\ TenantInv' /\ QuotaInv'
    OBVIOUS
  <2>1. CASE \E r \in Requests : Step(r)
    BY <2>1, PodStep, TenantStep, QuotaStep
  <2>2. CASE Drain \/ DrainReturns \/ Tick \/ UNCHANGED vars
    BY <2>2, Passing
  <2> QED
    BY <2>1, <2>2 DEF Next, Finished
<1> QED
  BY <1>1, <1>2, PTL DEF Spec

\* ContextKept: the context a request's tokens are estimated from is what
\* _manage_context_budget() promises, for every conversation and budget.
THEOREM ContextAlwaysKept == ContextKept
<1> SUFFICES ASSUME NEW msgs \in Fitting
             PROVE  KeepsTheRecent(msgs, Budget, Kept(msgs, Budget))
  BY DEF ContextKept
<1>1. Conversation(msgs) /\ Budget \in Nat /\ ~Overflows(msgs, Budget)
  BY AdmissionAssumption DEF Fitting, Conversation
<1> QED
  BY <1>1, BudgetKeepsTheRecent

\* AdmissionInv: buckets stay within their caps, no pod permit is lost or
\* returned twice, and what is sent is the context promised.
THEOREM AdmissionKept == Spec => []AdmissionInv
<1>1. PodInv /\ TenantInv /\ QuotaInv => AdmissionInv
  <2> SUFFICES ASSUME PodInv, TenantInv, QuotaInv PROVE AdmissionInv
    OBVIOUS
  <2>1. TypeOK
    BY DEF PodInv, TenantInv, QuotaInv, TypeOK
  <2> QED
    BY <2>1, ContextAlwaysKept DEF AdmissionInv, PodInv
<1> QED
  BY <1>1, AlwaysKept, PTL

\* TenantCapHolds: a tenant never runs more requests than its cap, although its
\* entry is evicted, replaced and waited at by many.
THEOREM TenantCapsHold == Spec => []TenantCapHolds
<1>1. PodInv /\ TenantInv => TenantCapHolds
  <2> SUFFICES ASSUME PodInv, TenantInv, NEW t \in Tenants
               PROVE  /\ \A r \in TenantHolders(t) : Cardinality(TenantHolders(t)) <= req[r].cap
                      /\ permits[t] # Null =>
                            permits[t].free + Cardinality(TenantHolders(t)) = permits[t].cap
    BY DEF TenantCapHolds
  <2>1. TenantKept(t) /\ permits[t] \in Entries \cup {Null}
    BY DEF TenantInv
  <2>2. ASSUME NEW r \in TenantHolders(t)
        PROVE  Cardinality(TenantHolders(t)) <= req[r].cap
    <3>1. r \in Requests /\ TenantOf[r] = t /\ req[r].held /\ RequestKept(r) /\ pc[r] \in Places
      BY DEF TenantHolders, TenantInv, PodInv
    <3>2. req[r].gen # Null
      BY <3>1 DEF RequestKept, Places, NoState
    <3>3. permits[t] # Null /\ permits[t].cap = req[r].cap
      BY <3>1, <3>2 DEF RequestKept
    <3>4. permits[t].free \in Nat /\ Cardinality(TenantHolders(t)) \in Nat
      BY <2>1, <3>3, CountRequests DEF Entries, TenantHolders
    <3> QED
      BY <2>1, <3>3, <3>4 DEF TenantKept
  <2> QED
    BY <2>1, <2>2 DEF TenantKept
<1> QED
  BY <1>1, AlwaysKept, PTL

\* QuotaConserved: whatever the rates, caps and usages, no call is refunded twice
\* and no answer's tokens are refunded, those of failed calls are all that goes
\* uncharged below the estimate, and the fleet's quota is held by just the requests
\* that took it and by what a failing hook kept.
THEOREM QuotaAlwaysConserved == Spec => []QuotaConserved
<1>1. PodInv /\ TenantInv /\ QuotaInv => QuotaConserved
  <2> SUFFICES ASSUME PodInv, TenantInv, QuotaInv PROVE QuotaConserved
    OBVIOUS
  <2>1. Amounts
    BY AmountsTyped
  <2> DEFINE a == bucket.updated * RpmRate
             b == now * RpmRate
             c == bucket.updated * TpmRate
             d == now * TpmRate
  <2>2. a \in Nat /\ b \in Nat /\ a <= b /\ c \in Nat /\ d \in Nat /\ c <= d
    <3>1. /\ bucket.updated \in Nat /\ now \in Nat /\ bucket.updated <= now
          /\ RpmRate \in Nat /\ TpmRate \in Nat
      BY <2>1, AdmissionAssumption DEF Amounts, QuotaInv
    <3>2. a \in Nat /\ b \in Nat /\ a + (now - bucket.updated) * RpmRate = b
          /\ (now - bucket.updated) * RpmRate \in Nat
      BY <3>1, RateTimes
    <3>3. c \in Nat /\ d \in Nat /\ c + (now - bucket.updated) * TpmRate = d
          /\ (now - bucket.updated) * TpmRate \in Nat
      BY <3>1, RateTimes
    <3> QED
      BY <3>2, <3>3
  <2> HIDE DEF a, b, c, d
  <2>3. /\ bucket.rpm + Cardinality(Admitted) + history.rpm <= MaxRpm + a
        /\ bucket.tpm + TpmHeld + Charged <= MaxTpm + c
    BY DEF QuotaInv, a, c
  <2>4. /\ bucket.rpm + Cardinality(Admitted) + history.rpm <= MaxRpm + b
        /\ bucket.tpm + TpmHeld + Charged <= MaxTpm + d
    <3>1. /\ bucket.rpm \in Nat /\ Cardinality(Admitted) \in Nat /\ history.rpm \in Nat
          /\ bucket.tpm \in Nat /\ TpmHeld \in Nat /\ Charged \in Nat
          /\ MaxRpm \in Nat /\ MaxTpm \in Nat
      BY <2>1, AdmissionAssumption DEF Amounts
    <3> QED
      BY <2>2, <2>3, <3>1
  <2>5. bucket.tpm + TpmHeld + history.used <= MaxTpm + d + history.unpaid
    <3>1. bucket.tpm \in Nat /\ TpmHeld \in Nat /\ MaxTpm \in Nat
      BY <2>1, AdmissionAssumption DEF Amounts
    <3>2. history.used \in Nat /\ history.unpaid \in Nat
      BY DEF QuotaInv, Histories
    <3> QED
      BY <2>2, <2>4, <3>1, <3>2 DEF Charged
  <2>6. shared = Cardinality(FleetHolders) + history.admitted + history.lost
    <3>1. shared = Cardinality(FleetHolders) + (history.admitted + history.lost)
      BY DEF QuotaInv, Gone
    <3>2. Cardinality(FleetHolders) \in Nat /\ history.admitted \in Nat /\ history.lost \in Nat
      BY CountRequests DEF FleetHolders, QuotaInv, Histories
    <3> QED
      BY <3>1, <3>2
  <2> QED
    BY <2>4, <2>5, <2>6 DEF QuotaConserved, b, d
<1> QED
  BY <1>1, AlwaysKept, PTL
=============================================================================
