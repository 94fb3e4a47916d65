---------------------------- MODULE ServicesProofs ----------------------------
(***************************************************************************)
(* Theorems about the components of Services, for any value of their       *)
(* constants.  A component's theorem is proved of its own specification;   *)
(* that of Services implements each of them.                               *)
(***************************************************************************)
EXTENDS Services, KnowledgeProofs, SequenceTheorems

-----------------------------------------------------------------------------
(***************************************************************************)
(* Finite sets.                                                            *)
(***************************************************************************)
\* The elements of a finite set of numbers that are smaller than one of them
Smaller(S, s) == {t \in S : t < s}

\* Some element has any given number of smaller ones: ranks are injective, so that
\* they are all the numbers there are below the set's size.
LEMMA Ranks ==
    ASSUME NEW S, S \subseteq Nat, IsFiniteSet(S)
    PROVE  \A i \in 1..Cardinality(S) :
               \E s \in S : Cardinality({t \in S : t < s}) = i - 1
<1> DEFINE n == Cardinality(S)
           rank == [s \in S |-> Cardinality(Smaller(S, s))]
<1>1. n \in Nat
  BY FS_CardinalityType
<1>2. \A s \in S : /\ IsFiniteSet(Smaller(S, s))
                   /\ Cardinality(Smaller(S, s)) \in Nat
                   /\ Cardinality(Smaller(S, s)) < n
  <2> TAKE s \in S
  <2>1. Smaller(S, s) \in SUBSET S /\ s \notin Smaller(S, s)
    BY DEF Smaller
  <2>2. IsFiniteSet(Smaller(S, s))
    BY <2>1, FS_Subset
  <2>3. Cardinality(Smaller(S, s)) <= n /\ Cardinality(Smaller(S, s)) # n
    BY <2>1, FS_Subset
  <2>4. Cardinality(Smaller(S, s)) \in Nat
    BY <2>2, FS_CardinalityType
  <2>5. QED
    BY <1>1, <2>2, <2>3, <2>4
<1>3. rank \in [S -> 0..(n - 1)]
  BY <1>1, <1>2
<1>4. ASSUME NEW s \in S, NEW u \in S, s < u PROVE rank[s] # rank[u]
  <2>1. Smaller(S, s) \in SUBSET Smaller(S, u)
    <3>1. \A t \in S : t < s => t < u
      BY <1>4
    <3>2. QED
      BY <3>1 DEF Smaller
  <2>2. s \in Smaller(S, u) /\ s \notin Smaller(S, s)
    BY <1>4 DEF Smaller
  <2>3. Cardinality(Smaller(S, s)) # Cardinality(Smaller(S, u))
    BY <1>2, <2>1, <2>2, FS_Subset
  <2>4. QED
    BY <2>3
<1>5. rank \in Injection(S, 0..(n - 1))
  <2>1. \A s, u \in S : s # u => rank[s] # rank[u]
    <3> TAKE s, u \in S
    <3>1. s < u \/ u < s \/ s = u
      OBVIOUS
    <3>2. QED
      BY <3>1, <1>4
  <2>2. IsInjective(rank)
    BY <2>1 DEF IsInjective
  <2>3. QED
    BY <1>3, <2>1 DEF Injection, IsInjective
<1>6. IsFiniteSet(0..(n - 1)) /\ Cardinality(0..(n - 1)) = n
  <2>1. 0 \in Int /\ n - 1 \in Int /\ (IF 0 > n - 1 THEN 0 ELSE n - 1 - 0 + 1) = n
    BY <1>1
  <2> HIDE DEF n
  <2>2. QED
    BY <2>1, FS_Interval
<1>7. rank \in Surjection(S, 0..(n - 1))
  BY <1>5, <1>6, FS_Injection
<1>8. ASSUME NEW i \in 1..n PROVE \E s \in S : Cardinality(Smaller(S, s)) = i - 1
  <2>1. i - 1 \in 0..(n - 1)
    BY <1>1
  <2>2. PICK s \in S : rank[s] = i - 1
    BY <1>7, <2>1 DEF Surjection
  <2>3. QED
    BY <2>2
<1>9. QED
  BY <1>8 DEF Smaller

\* gather's order has each step of the batch once.
LEMMA OrderOfSteps ==
    ASSUME NEW S, S \subseteq Nat, IsFiniteSet(S)
    PROVE  /\ DOMAIN InOrder(S) = 1..Cardinality(S)
           /\ InOrder(S) \in [1..Cardinality(S) -> S]
           /\ \A i, j \in 1..Cardinality(S) : InOrder(S)[i] = InOrder(S)[j] => i = j
<1>1. \A i \in 1..Cardinality(S) :
        /\ InOrder(S)[i] \in S
        /\ Cardinality({t \in S : t < InOrder(S)[i]}) = i - 1
  BY Ranks DEF InOrder
<1>2. DOMAIN InOrder(S) = 1..Cardinality(S)
  BY DEF InOrder
<1>3. ASSUME NEW i \in 1..Cardinality(S), NEW j \in 1..Cardinality(S), InOrder(S)[i] = InOrder(S)[j]
      PROVE  i = j
  <2>1. i - 1 = j - 1
    BY <1>1, <1>3
  <2>2. i \in Int /\ j \in Int
    BY FS_CardinalityType
  <2>3. QED
    BY <2>1, <2>2
<1>4. QED
  <2>1. InOrder(S) \in [1..Cardinality(S) -> S]
    BY <1>1 DEF InOrder
  <2>2. QED
    BY <1>2, <1>3, <2>1

\* A nonempty finite set of numbers has a smallest one.
LEMMA Smallest ==
    ASSUME NEW S, S \subseteq Nat, IsFiniteSet(S), S # {}
    PROVE  \E s \in S : \A t \in S : s <= t
<1>1. Cardinality(S) \in Nat /\ Cardinality(S) # 0
  BY FS_CardinalityType, FS_EmptySet
<1>2. PICK s \in S : Cardinality({t \in S : t < s}) = 0
  <2>1. 1 \in 1..Cardinality(S) /\ 1 - 1 = 0
    BY <1>1
  <2>2. QED
    BY <2>1, Ranks
<1>3. {t \in S : t < s} = {}
  BY <1>2, FS_Subset, FS_EmptySet
<1>4. QED
  BY <1>3

\* An element more at most
LEMMA OneMore ==
    ASSUME NEW S, NEW x, NEW n \in Nat, IsFiniteSet(S), Cardinality(S) <= n
    PROVE  IsFiniteSet(S \cup {x}) /\ Cardinality(S \cup {x}) <= n + 1
<1>1. Cardinality(S) \in Nat
  BY FS_CardinalityType
<1>2. /\ IsFiniteSet(S \cup {x})
      /\ Cardinality(S \cup {x}) = IF x \in S THEN Cardinality(S) ELSE Cardinality(S) + 1
  BY FS_AddElement
<1>3. QED
  BY <1>1, <1>2

\* The sizes of a few elements
LEMMA SmallSets ==
    /\ \A a, b : a # b => Cardinality({a, b}) = 2
    /\ \A a, b : IsFiniteSet({a, b}) /\ Cardinality({a, b}) <= 2
    /\ \A a, b, c : IsFiniteSet({a, b, c}) /\ Cardinality({a, b, c}) <= 3
    /\ \A a, b, c, d : IsFiniteSet({a, b, c, d}) /\ Cardinality({a, b, c, d}) <= 4
    /\ \A a, b, c, d, e : IsFiniteSet({a, b, c, d, e}) /\ Cardinality({a, b, c, d, e}) <= 5
<1>1. \A a : IsFiniteSet({a}) /\ Cardinality({a}) = 1
  BY FS_Singleton
<1>2. \A a, b : a # b => Cardinality({a, b}) = 2
  <2> SUFFICES ASSUME NEW a, NEW b, a # b PROVE Cardinality({a, b}) = 2
    OBVIOUS
  <2>1. b \notin {a} /\ {a} \cup {b} = {a, b}
    OBVIOUS
  <2>2. Cardinality({a} \cup {b}) = IF b \in {a} THEN Cardinality({a}) ELSE Cardinality({a}) + 1
    BY <1>1, FS_AddElement
  <2>3. Cardinality({a, b}) = IF b \in {a} THEN Cardinality({a}) ELSE Cardinality({a}) + 1
    BY <2>1, <2>2
  <2>4. QED
    BY <1>1, <2>1, <2>3
<1>3. ASSUME NEW a, NEW b PROVE IsFiniteSet({a, b}) /\ Cardinality({a, b}) <= 2
  <2>1. IsFiniteSet({a} \cup {b}) /\ Cardinality({a} \cup {b}) <= 1 + 1
    <3>1. IsFiniteSet({a}) /\ Cardinality({a}) = 1
      BY <1>1, Zenon
    <3>2. Cardinality({a}) <= 1
      BY <3>1
    <3>3. QED
      BY <3>1, <3>2, OneMore
  <2>2. {a} \cup {b} = {a, b}
    OBVIOUS
  <2>3. QED
    BY <2>1, <2>2
<1>4. ASSUME NEW a, NEW b, NEW c PROVE IsFiniteSet({a, b, c}) /\ Cardinality({a, b, c}) <= 3
  <2>1. IsFiniteSet({a, b} \cup {c}) /\ Cardinality({a, b} \cup {c}) <= 2 + 1
    BY <1>3, OneMore
  <2>2. {a, b} \cup {c} = {a, b, c}
    OBVIOUS
  <2>3. QED
    BY <2>1, <2>2
<1>5. ASSUME NEW a, NEW b, NEW c, NEW d
      PROVE  IsFiniteSet({a, b, c, d}) /\ Cardinality({a, b, c, d}) <= 4
  <2>1. IsFiniteSet({a, b, c} \cup {d}) /\ Cardinality({a, b, c} \cup {d}) <= 3 + 1
    BY <1>4, OneMore
  <2>2. {a, b, c} \cup {d} = {a, b, c, d}
    OBVIOUS
  <2>3. QED
    BY <2>1, <2>2
<1>6. ASSUME NEW a, NEW b, NEW c, NEW d, NEW e
      PROVE  IsFiniteSet({a, b, c, d, e}) /\ Cardinality({a, b, c, d, e}) <= 5
  <2>1. IsFiniteSet({a, b, c, d} \cup {e}) /\ Cardinality({a, b, c, d} \cup {e}) <= 4 + 1
    BY <1>5, OneMore
  <2>2. {a, b, c, d} \cup {e} = {a, b, c, d, e}
    OBVIOUS
  <2>3. QED
    BY <2>1, <2>2
<1>7. QED
  BY <1>2, <1>3, <1>4, <1>5, <1>6

LEMMA MinOf ==
    ASSUME NEW S, S \subseteq Nat, IsFiniteSet(S), S # {}
    PROVE  Min(S) \in S /\ \A t \in S : Min(S) <= t
<1>1. \E s \in S : \A t \in S : s <= t
  BY Smallest
<1>2. QED
  BY <1>1 DEF Min

-----------------------------------------------------------------------------
(***************************************************************************)
(* Analysis.                                                               *)
(***************************************************************************)
\* What a batch's answers add to the results
Answer == [step : Steps, outcome : Outcomes]

\* A step that succeeded is not tried again.
NotAgain == pending \cap Completed = {}

AnalysisInv == AnalysisTypeOK /\ NotAgain /\ CalledWhenReady

LEMMA StepsAreFinite == Steps \subseteq Nat /\ IsFiniteSet(Steps)
<1>1. PlanSize \in Nat
  BY AnalysisAssumption
<1>2. QED
  BY <1>1, FS_Interval DEF Steps

LEMMA BatchIsReady == AnalysisTypeOK /\ Ready # {} => NextBatch \subseteq Ready
<1> SUFFICES ASSUME AnalysisTypeOK, Ready # {} PROVE NextBatch \subseteq Ready
  OBVIOUS
<1>1. Ready \subseteq Steps
  BY DEF Ready, AnalysisTypeOK
<1>2. Ready \subseteq Nat /\ IsFiniteSet(Ready)
  BY <1>1, StepsAreFinite, FS_Subset
<1>3. \E s \in Ready : \A t \in Ready : s <= t
  BY <1>2, Smallest
<1>4. QED
  BY <1>3 DEF NextBatch

LEMMA StartKeepsInv == AnalysisInv /\ StartBatch => AnalysisInv'
<1> SUFFICES ASSUME AnalysisInv, StartBatch PROVE AnalysisInv'
  OBVIOUS
<1>1. NextBatch \subseteq Ready /\ Ready \subseteq pending /\ pending \subseteq Steps
  BY BatchIsReady DEF AnalysisInv, StartBatch, CanGoOn, Ready, AnalysisTypeOK
<1>2. DOMAIN flight' = NextBatch /\ \A s \in NextBatch : flight'[s] = "CALLED"
  BY DEF StartBatch
<1>3. Completed' = Completed
  BY DEF StartBatch, Completed
<1>4. AnalysisTypeOK'
  BY <1>1, <1>2 DEF AnalysisInv, AnalysisTypeOK, StartBatch
<1>5. NotAgain'
  BY <1>3 DEF AnalysisInv, NotAgain, StartBatch
<1>6. \A s \in DOMAIN flight' : plan'.depends[s] \subseteq Completed' /\ s \notin Completed'
  BY <1>1, <1>2, <1>3 DEF Ready, StartBatch, AnalysisInv, NotAgain
<1>7. CalledWhenReady'
  BY <1>6 DEF CalledWhenReady, AnalysisInv, StartBatch
<1>8. QED
  BY <1>4, <1>5, <1>7 DEF AnalysisInv

LEMMA ReturnKeepsInv ==
    ASSUME AnalysisInv, NEW s \in Steps, CallReturns(s)
    PROVE  AnalysisInv'
<1>1. DOMAIN flight' = DOMAIN flight /\ \A t \in DOMAIN flight :
        flight'[t] \in Outcomes \cup {"CALLED"}
  BY DEF CallReturns, AnalysisInv, AnalysisTypeOK
<1>2. Completed' = Completed
  BY DEF CallReturns, Completed
<1>3. AnalysisTypeOK'
  BY <1>1 DEF AnalysisInv, AnalysisTypeOK, CallReturns
<1>4. NotAgain'
  BY <1>2 DEF AnalysisInv, NotAgain, CallReturns
<1>5. \A t \in DOMAIN flight' : plan'.depends[t] \subseteq Completed' /\ t \notin Completed'
  BY <1>1, <1>2 DEF CalledWhenReady, AnalysisInv, CallReturns
<1>6. CalledWhenReady'
  BY <1>5 DEF CalledWhenReady, AnalysisInv, CallReturns
<1>7. QED
  BY <1>3, <1>4, <1>6 DEF AnalysisInv

\* The results of a batch: one for each of its steps, after those before.
LEMMA EndedBatch ==
    ASSUME AnalysisTypeOK, EndBatch
    PROVE  \E m \in Nat : \E order \in [1..m -> DOMAIN flight] :
             /\ \A i, j \in 1..m : order[i] = order[j] => i = j
             /\ results' \in Seq(Answer) /\ Len(results') = Len(results) + m
             /\ \A i \in 1..Len(results) : results'[i] = results[i]
             /\ \A i \in 1..m : results'[Len(results) + i] =
                    [step |-> order[i], outcome |-> flight[order[i]]]
<1> DEFINE S == DOMAIN flight
           m == Cardinality(S)
           order == InOrder(S)
           new == [i \in DOMAIN order |-> [step |-> order[i], outcome |-> flight[order[i]]]]
<1>1. S \subseteq Steps /\ S \subseteq Nat /\ IsFiniteSet(S)
  BY StepsAreFinite, FS_Subset DEF AnalysisTypeOK
<1>2. m \in Nat
  BY <1>1, FS_CardinalityType
<1>3. /\ DOMAIN order = 1..m /\ order \in [1..m -> S]
      /\ \A i, j \in 1..m : order[i] = order[j] => i = j
  BY <1>1, OrderOfSteps
<1>4. \A i \in 1..m : order[i] \in S
  BY <1>3
<1>5. results' = results \o new
  BY DEF EndBatch
<1>6. \A s \in S : flight[s] \in Outcomes
  BY DEF EndBatch, AnalysisTypeOK
<1> HIDE DEF m, order
<1>7. new \in [1..m -> Answer]
  BY <1>1, <1>3, <1>4, <1>6 DEF Answer
<1>8. new \in Seq(Answer) /\ Len(new) = m
  BY <1>2, <1>7
<1>9. results \in Seq(Answer)
  BY DEF AnalysisTypeOK, Answer
<1>10. \A i \in 1..m : new[i] = [step |-> order[i], outcome |-> flight[order[i]]]
  BY <1>3
<1> HIDE DEF new
<1>11. /\ results' \in Seq(Answer) /\ Len(results') = Len(results) + m
       /\ \A i \in 1..Len(results) : results'[i] = results[i]
       /\ \A i \in 1..m : results'[Len(results) + i] = new[i]
  <2>1. results' \in Seq(Answer) /\ Len(results') = Len(results) + m
    <3>1. results \o new \in Seq(Answer)
      BY <1>8, <1>9
    <3>2. Len(results \o new) = Len(results) + Len(new)
      BY <1>8, <1>9
    <3>3. QED
      BY <1>5, <1>8, <3>1, <3>2
  <2>2. ASSUME NEW i \in 1..Len(results) PROVE results'[i] = results[i]
    <3>1. i \in 1..(Len(results) + Len(new)) /\ i <= Len(results)
      BY <1>2, <1>8, <1>9
    <3>2. QED
      BY <1>5, <1>8, <1>9, <3>1
  <2>3. ASSUME NEW i \in 1..m PROVE results'[Len(results) + i] = new[i]
    <3>1. /\ Len(results) + i \in 1..(Len(results) + Len(new))
          /\ Len(results) + i > Len(results) /\ Len(results) + i - Len(results) = i
      BY <1>2, <1>8, <1>9
    <3>2. QED
      BY <1>5, <1>8, <1>9, <3>1
  <2>4. QED
    BY <2>1, <2>2, <2>3
<1>12. QED
  <2>1. \A i \in 1..m : results'[Len(results) + i] =
            [step |-> order[i], outcome |-> flight[order[i]]]
    BY <1>10, <1>11
  <2>2. QED
    BY <1>2, <1>3, <1>11, <2>1

LEMMA EndKeepsInv == AnalysisInv /\ EndBatch => AnalysisInv'
<1> SUFFICES ASSUME AnalysisInv, EndBatch PROVE AnalysisInv'
  OBVIOUS
<1> DEFINE n == Len(results)
<1>1. AnalysisTypeOK
  BY DEF AnalysisInv
<1>2. PICK m \in Nat : \E order \in [1..m -> DOMAIN flight] :
        /\ \A i, j \in 1..m : order[i] = order[j] => i = j
        /\ results' \in Seq(Answer) /\ Len(results') = n + m
        /\ \A i \in 1..n : results'[i] = results[i]
        /\ \A i \in 1..m : results'[n + i] = [step |-> order[i], outcome |-> flight[order[i]]]
  BY <1>1, EndedBatch
<1>2a. PICK order \in [1..m -> DOMAIN flight] :
        /\ \A i, j \in 1..m : order[i] = order[j] => i = j
        /\ results' \in Seq(Answer) /\ Len(results') = n + m
        /\ \A i \in 1..n : results'[i] = results[i]
        /\ \A i \in 1..m : results'[n + i] = [step |-> order[i], outcome |-> flight[order[i]]]
  BY <1>2
<1>3. n \in Nat /\ DOMAIN results = 1..n /\ DOMAIN results' = 1..(n + m)
  BY <1>1, <1>2 DEF AnalysisTypeOK
<1> HIDE DEF n
<1>4. \A j \in 1..(n + m) : j \in 1..n \/ (j > n /\ j - n \in 1..m /\ j = n + (j - n))
  BY <1>3
<1>5. \A j \in 1..(n + m) : j \in 1..n => results'[j] = results[j]
  BY <1>2
<1>6. \A j \in 1..(n + m) : j \notin 1..n =>
        /\ results'[j].step = order[j - n]
        /\ results'[j].outcome = flight[order[j - n]]
        /\ order[j - n] \in DOMAIN flight
  <2> SUFFICES ASSUME NEW j \in 1..(n + m), j \notin 1..n
               PROVE  /\ results'[j].step = order[j - n]
                      /\ results'[j].outcome = flight[order[j - n]]
                      /\ order[j - n] \in DOMAIN flight
    OBVIOUS
  <2>1. j - n \in 1..m /\ j = n + (j - n)
    BY <1>4
  <2>2. results'[j] = [step |-> order[j - n], outcome |-> flight[order[j - n]]]
    BY <1>2a, <2>1
  <2>3. QED
    BY <1>2a, <2>1, <2>2
<1>7. Completed \subseteq Completed' /\ Completed' \subseteq Completed \cup DOMAIN flight
  <2>1. Completed \subseteq Completed'
    <3> SUFFICES ASSUME NEW i \in 1..n, results[i].outcome = "OK"
                 PROVE  results[i].step \in Completed'
      BY <1>3 DEF Completed
    <3>1. i \in 1..(n + m) /\ results'[i] = results[i]
      BY <1>2, <1>3
    <3>2. QED
      BY <1>3, <3>1 DEF Completed
  <2>2. ASSUME NEW i \in 1..(n + m), results'[i].outcome = "OK"
        PROVE  results'[i].step \in Completed \cup DOMAIN flight
    <3>1. CASE i \in 1..n
      BY <1>3, <1>5, <2>2, <3>1 DEF Completed
    <3>2. CASE i \notin 1..n
      BY <1>6, <3>2
    <3>3. QED
      BY <3>1, <3>2
  <2>3. QED
    BY <1>3, <2>1, <2>2 DEF Completed
<1>8. AnalysisTypeOK'
  BY <1>1, <1>2 DEF AnalysisTypeOK, EndBatch, Answer
<1>9. NotAgain'
  BY <1>7 DEF AnalysisInv, NotAgain, EndBatch
<1>10. \A s \in DOMAIN flight' : plan'.depends[s] \subseteq Completed' /\ s \notin Completed'
  BY DEF EndBatch
<1>11. ASSUME NEW i \in 1..(n + m), NEW j \in 1..(n + m),
              results'[i].step = results'[j].step, results'[i].outcome = "OK"
       PROVE  j <= i
  <2>1. CASE j \in 1..n /\ i \in 1..n
    BY <1>3, <1>5, <1>11, <2>1 DEF AnalysisInv, CalledWhenReady
  <2>2. CASE j \in 1..n /\ i \notin 1..n
    BY <1>3, <1>4, <2>2
  <2>3. CASE j \notin 1..n /\ i \in 1..n
    <3>1. results[i].step \in Completed
      BY <1>3, <1>5, <1>11, <2>3 DEF Completed
    <3>2. results[i].step \in DOMAIN flight
      BY <1>5, <1>6, <1>11, <2>3
    <3>3. QED
      BY <3>1, <3>2 DEF AnalysisInv, CalledWhenReady
  <2>4. CASE j \notin 1..n /\ i \notin 1..n
    <3>1. j - n = i - n
      BY <1>2a, <1>4, <1>6, <1>11, <2>4
    <3>2. QED
      BY <1>3, <3>1
  <2>5. QED
    BY <2>1, <2>2, <2>3, <2>4
<1>12. ASSUME NEW i \in 1..(n + m), NEW j \in 1..(n + m), i < j,
              results'[i].step \in plan.depends[results'[j].step]
       PROVE  \E k \in 1..(j - 1) : results'[k].step = results'[i].step
                                    /\ results'[k].outcome = "OK"
  <2>1. CASE j \in 1..n
    <3>1. i \in 1..n /\ results'[i] = results[i] /\ results'[j] = results[j]
      BY <1>3, <1>5, <1>12, <2>1
    <3>2. PICK k \in 1..(j - 1) : results[k].step = results[i].step /\ results[k].outcome = "OK"
      BY <1>3, <1>12, <2>1, <3>1 DEF AnalysisInv, CalledWhenReady
    <3>3. k \in 1..n /\ k \in 1..(n + m)
      BY <1>3, <2>1
    <3>4. QED
      BY <1>5, <3>1, <3>2, <3>3
  <2>2. CASE j \notin 1..n
    <3>1. results'[i].step \in Completed
      BY <1>6, <1>12, <2>2 DEF AnalysisInv, CalledWhenReady
    <3>2. PICK k \in 1..n : results[k].step = results'[i].step /\ results[k].outcome = "OK"
      BY <1>3, <3>1 DEF Completed
    <3>3. k \in 1..(j - 1) /\ k \in 1..(n + m)
      BY <1>3, <1>4, <2>2
    <3>4. QED
      BY <1>5, <3>2, <3>3
  <2>3. QED
    BY <2>1, <2>2
<1>13. CalledWhenReady'
  <2>1. plan' = plan
    BY DEF EndBatch
  <2>2. QED
    BY <1>3, <1>10, <1>11, <1>12, <2>1 DEF CalledWhenReady
<1>14. QED
  BY <1>8, <1>9, <1>13 DEF AnalysisInv

LEMMA ReviseKeepsInv == AnalysisInv /\ Revise => AnalysisInv'
<1> SUFFICES ASSUME AnalysisInv, Revise PROVE AnalysisInv'
  OBVIOUS
<1>1. Completed' = Completed /\ UNCHANGED <<plan, flight, results>>
  BY DEF Revise, Completed
<1>2. \/ revision' = 1 /\ pending' = Steps \ Completed /\ phase' = phase
      \/ phase' = "DONE" /\ revision' = revision /\ pending' = pending
  BY DEF Revise, Remaining
<1>3. AnalysisTypeOK'
  BY <1>1, <1>2 DEF AnalysisInv, AnalysisTypeOK
<1>4. NotAgain'
  BY <1>1, <1>2 DEF AnalysisInv, NotAgain
<1>5. CalledWhenReady'
  BY <1>1 DEF AnalysisInv, CalledWhenReady
<1>6. QED
  BY <1>3, <1>4, <1>5 DEF AnalysisInv

LEMMA AnalysisInvInit == AnalysisInit => AnalysisInv
<1> SUFFICES ASSUME AnalysisInit PROVE AnalysisInv
  OBVIOUS
<1>1. DOMAIN results = {} /\ results \in Seq(Answer)
  BY DEF AnalysisInit
<1>2. Completed = {}
  BY <1>1 DEF Completed
<1>3. DOMAIN flight = {}
  BY DEF AnalysisInit
<1>4. AnalysisTypeOK
  BY <1>1, <1>3 DEF AnalysisInit, AnalysisTypeOK, Answer
<1>5. NotAgain /\ CalledWhenReady
  BY <1>1, <1>2, <1>3 DEF NotAgain, CalledWhenReady
<1>6. QED
  BY <1>4, <1>5 DEF AnalysisInv

LEMMA AnalysisInvStep == AnalysisInv /\ [AnalysisNext]_analysisVars => AnalysisInv'
<1>1. ASSUME AnalysisInv, AnalysisNext PROVE AnalysisInv'
  BY <1>1, StartKeepsInv, ReturnKeepsInv, EndKeepsInv, ReviseKeepsInv DEF AnalysisNext
<1>2. ASSUME AnalysisInv, UNCHANGED analysisVars PROVE AnalysisInv'
  BY <1>2 DEF analysisVars, AnalysisInv, AnalysisTypeOK, NotAgain, CalledWhenReady, Completed
<1>3. QED
  BY <1>1, <1>2

\* In an analysis of any number of steps with any limit of calls, revised or not, a
\* step is called after all it depends on have succeeded, and not once it has itself.
THEOREM StepsAreCalledWhenReady == AnalysisSpec => []CalledWhenReady
<1>1. AnalysisInv => CalledWhenReady
  BY DEF AnalysisInv
<1>2. QED
  BY <1>1, AnalysisInvInit, AnalysisInvStep, PTL DEF AnalysisSpec

-----------------------------------------------------------------------------
(***************************************************************************)
(* Investigation.                                                          *)
(***************************************************************************)

\* The lookups a call has been made for, the rules' own one aside
Called(evidence) ==
    {l \in Lookups \ {"knowledge_rule"} : evidence[l] \in {"CALLED", "SUCCESS", "FAILED"}}

\* How far the investigation has come, phase by phase
Progress ==
    LET e == inquiry.evidence IN
    /\ inquiry.phase # "knowledge" => \A l \in FollowUps : e[l] # "CALLED"
    /\ inquiry.phase # "done" => ~inquiry.complete /\ e["knowledge_rule"] = "NONE"
    /\ inquiry.phase \in {"risk", "requirement", "follow_ups"} =>
        \A l \in FollowUps : e[l] = "NONE"
    /\ inquiry.phase \in {"risk", "requirement"} => e["requirement"] = "NONE"
    /\ inquiry.phase = "risk" => e["risk_signals"] = "NONE"
    /\ inquiry.phase \notin {"risk", "done"} => e["risk_signals"] = "SUCCESS"
    /\ inquiry.phase \in {"follow_ups", "knowledge"} =>
        inquiry.budget >= 2 /\ e["requirement"] \in {"SUCCESS", "FAILED"}
    \* What was not wanted was not looked up, and the rest was.
    /\ inquiry.phase = "knowledge" =>
        \A i \in 1..3 : e[InTurn[i]] = "NONE" <=> ~Wanted[i]

InquiryInv == InvestigationTypeOK /\ Progress /\ CompleteWithinBudget

\* What a lookup leaves alone.  The status it ends with is its own.
LEMMA LookedUp ==
    ASSUME InvestigationTypeOK, NEW l \in Lookups, NEW evidence \in Looked(l)
    PROVE  /\ evidence \in [Lookups -> {"NONE", "CALLED", "SUCCESS", "FAILED", "UNAVAILABLE"}]
           /\ evidence[l] \in {"SUCCESS", "FAILED"}
           /\ \A k \in Lookups : k # l => evidence[k] = inquiry.evidence[k]
  BY DEF Looked, InvestigationTypeOK, Inquiry

LEMMA InquiryFields ==
    InvestigationTypeOK =>
        /\ inquiry.budget \in Nat \ {0}
        /\ inquiry.price \in BOOLEAN /\ inquiry.executed \in BOOLEAN
        /\ inquiry.proposed \in BOOLEAN
  BY InvestigationAssumption DEF InvestigationTypeOK, Inquiry

\* The calls that go before each follow-up
LEMMA CallsBefore ==
    /\ Before(1) = 0 /\ Before(2) = 1
    /\ Wanted[2] => Before(3) = 2
    /\ ~Wanted[2] => Before(3) = 1
<1>1. 1..(1 - 1) = {} /\ 1..(2 - 1) = {1} /\ 1..(3 - 1) = {1, 2}
  OBVIOUS
<1>2. Wanted[1] = TRUE
  BY DEF Wanted
<1>3. {j \in 1..(1 - 1) : Wanted[j]} = {} /\ {j \in 1..(2 - 1) : Wanted[j]} = {1}
  BY <1>1, <1>2
<1>4. Wanted[2] => {j \in 1..(3 - 1) : Wanted[j]} = {1, 2}
  BY <1>1, <1>2
<1>5. ~Wanted[2] => {j \in 1..(3 - 1) : Wanted[j]} = {1}
  BY <1>1, <1>2
<1>6. Cardinality({}) = 0 /\ Cardinality({1}) = 1 /\ Cardinality({1, 2}) = 2
  <2>1. Cardinality({}) = 0 /\ Cardinality({1}) = 1
    BY FS_EmptySet, FS_Singleton, Zenon
  <2>2. 1 # 2
    OBVIOUS
  <2>3. Cardinality({1, 2}) = 2
    BY <2>2, SmallSets, Zenon
  <2>4. QED
    BY <2>1, <2>3
<1>7. QED
  BY <1>3, <1>4, <1>5, <1>6 DEF Before

\* What is wanted depends on the request only.
LEMMA WantedLookups ==
    /\ Wanted[2] <=> inquiry.evidence["requirement"] = "SUCCESS" /\ inquiry.price
    /\ Wanted[3] <=> inquiry.evidence["requirement"] = "SUCCESS" /\ Supplier
  BY DEF Wanted

LEMMA CalledIsBounded ==
    ASSUME NEW e, NEW n \in Nat, NEW S, IsFiniteSet(S), Cardinality(S) <= n, Called(e) \subseteq S
    PROVE  CallsMade(e) <= n /\ CallsMade(e) \in Nat
<1>1. CallsMade(e) = Cardinality(Called(e))
  BY DEF CallsMade, Called
<1>2. IsFiniteSet(Called(e)) /\ Cardinality(Called(e)) <= Cardinality(S)
  BY FS_Subset
<1>3. Cardinality(Called(e)) \in Nat /\ Cardinality(S) \in Nat
  BY <1>2, FS_CardinalityType
<1>4. QED
  BY <1>1, <1>2, <1>3

LEMMA FollowUpKeepsInv == InquiryInv /\ FollowUp => InquiryInv'
<1> SUFFICES ASSUME InquiryInv, FollowUp PROVE InquiryInv'
  OBVIOUS
<1> DEFINE e == inquiry.evidence
           b == inquiry.budget
<1>1. /\ inquiry \in Inquiry /\ inquiry.phase = "follow_ups"
      /\ b \in Nat /\ b >= 2 /\ ~inquiry.complete
      /\ e["risk_signals"] = "SUCCESS" /\ e["requirement"] \in {"SUCCESS", "FAILED"}
      /\ e["knowledge_rule"] = "NONE" /\ \A l \in FollowUps : e[l] = "NONE"
  BY InquiryFields DEF InquiryInv, Progress, InvestigationTypeOK, FollowUp
<1>2. /\ inquiry'.phase = "knowledge" /\ inquiry'.complete = inquiry.complete
      /\ inquiry'.budget = b /\ inquiry'.price = inquiry.price
      /\ inquiry'.executed = inquiry.executed /\ inquiry'.proposed = inquiry.proposed
      /\ inquiry'.evidence = [l \in Lookups |->
            IF \E i \in 1..3 : InTurn[i] = l /\ Wanted[i]
            THEN LET i == CHOOSE i \in 1..3 : InTurn[i] = l
                 IN IF WithinBudget(i) THEN "CALLED" ELSE "UNAVAILABLE"
            ELSE e[l]]
  BY <1>1 DEF FollowUp, Inquiry
<1>3. /\ InTurn[1] = "similar_cases" /\ InTurn[2] = "historical_price"
      /\ InTurn[3] = "supplier_performance"
  BY DEF InTurn
<1>4. \A i \in 1..3 : i = 1 \/ i = 2 \/ i = 3
  OBVIOUS
<1>5. \A i \in 1..3 : InTurn[i] \in Lookups /\ (CHOOSE j \in 1..3 : InTurn[j] = InTurn[i]) = i
  BY <1>3, <1>4 DEF Lookups, FollowUps
<1>6. \A i \in 1..3 : inquiry'.evidence[InTurn[i]] =
        IF Wanted[i] THEN IF WithinBudget(i) THEN "CALLED" ELSE "UNAVAILABLE" ELSE "NONE"
  <2> TAKE i \in 1..3
  <2>1. InTurn[i] \in FollowUps
    BY <1>3, <1>4 DEF FollowUps
  <2>2. (\E j \in 1..3 : InTurn[j] = InTurn[i] /\ Wanted[j]) <=> Wanted[i]
    BY <1>3, <1>4
  <2>3. QED
    BY <1>1, <1>2, <1>5, <2>1, <2>2
<1>7. \A l \in Lookups \ FollowUps : inquiry'.evidence[l] = e[l]
  BY <1>2, <1>3, <1>4 DEF Lookups, FollowUps
<1>8. \A l \in FollowUps : \E i \in 1..3 : l = InTurn[i]
  BY <1>3 DEF FollowUps
<1>9. InvestigationTypeOK'
  <2>1. inquiry'.evidence \in [Lookups -> {"NONE", "CALLED", "SUCCESS", "FAILED", "UNAVAILABLE"}]
    <3>1. ASSUME NEW l \in Lookups
          PROVE  inquiry'.evidence[l] \in {"NONE", "CALLED", "SUCCESS", "FAILED", "UNAVAILABLE"}
      BY <1>1, <1>6, <1>7, <1>8 DEF Inquiry
    <3>2. QED
      BY <1>2, <3>1
  <2>2. inquiry' = [inquiry EXCEPT !.phase = "knowledge", !.evidence = inquiry'.evidence]
    BY <1>1, <1>2 DEF FollowUp, Inquiry
  <2>3. QED
    BY <1>1, <2>1, <2>2 DEF InvestigationTypeOK, Inquiry
<1>10. (Wanted[2] <=> Wanted'[2]) /\ (Wanted[3] <=> Wanted'[3]) /\ Wanted[1] /\ Wanted'[1]
  BY <1>2, <1>7 DEF Wanted, Supplier, Lookups, FollowUps
<1>11. Progress'
  <2>1. \A i \in 1..3 : inquiry'.evidence[InTurn[i]] = "NONE" <=> ~Wanted'[i]
    BY <1>4, <1>6, <1>10
  <2>2. /\ inquiry'.evidence["risk_signals"] = "SUCCESS"
        /\ inquiry'.evidence["requirement"] \in {"SUCCESS", "FAILED"}
        /\ inquiry'.evidence["knowledge_rule"] = "NONE"
    BY <1>1, <1>7 DEF Lookups, FollowUps
  <2>3. QED
    BY <1>1, <1>2, <2>1, <2>2 DEF Progress
<1>12. CallsMade(inquiry'.evidence) <= b
  <2> DEFINE C == Called(inquiry'.evidence)
  <2>1. /\ "historical_price" \in C => Wanted[2] /\ 1 < b - 2
        /\ "supplier_performance" \in C => Wanted[3] /\ Before(3) < b - 2
        /\ "similar_cases" \in C => 0 < b - 2
    BY <1>3, <1>6, CallsBefore DEF Called, WithinBudget
  <2>2. C \subseteq {"risk_signals", "requirement", "similar_cases", "historical_price",
                     "supplier_performance"}
    BY DEF Called, Lookups, FollowUps
  <2> HIDE DEF C
  <2>3. CASE b = 2
    <3>1. C \subseteq {"risk_signals", "requirement"}
      BY <2>1, <2>2, <2>3, CallsBefore
    <3>2. QED
      BY <2>3, <3>1, SmallSets, CalledIsBounded DEF C
  <2>4. CASE b = 3
    <3>1. C \subseteq {"risk_signals", "requirement", "similar_cases"}
      BY <2>1, <2>2, <2>4, CallsBefore
    <3>2. QED
      BY <2>4, <3>1, SmallSets, CalledIsBounded DEF C
  <2>5. CASE b = 4
    <3>1. \/ C \subseteq {"risk_signals", "requirement", "similar_cases", "historical_price"}
          \/ C \subseteq {"risk_signals", "requirement", "similar_cases", "supplier_performance"}
      BY <2>1, <2>2, <2>5, CallsBefore
    <3>2. QED
      BY <2>5, <3>1, SmallSets, CalledIsBounded DEF C
  <2>6. CASE b >= 5
    <3>1. CallsMade(inquiry'.evidence) <= 5 /\ CallsMade(inquiry'.evidence) \in Nat
      BY <2>2, SmallSets, CalledIsBounded DEF C
    <3>2. QED
      BY <1>1, <2>6, <3>1
  <2>7. QED
    BY <1>1, <2>3, <2>4, <2>5, <2>6
<1>13. CompleteWithinBudget'
  BY <1>1, <1>2, <1>12 DEF CompleteWithinBudget
<1>14. QED
  BY <1>9, <1>11, <1>13 DEF InquiryInv

LEMMA RiskSignalsKeepInv == InquiryInv /\ RiskSignals => InquiryInv'
<1> SUFFICES ASSUME InquiryInv, RiskSignals PROVE InquiryInv'
  OBVIOUS
<1>1. PICK evidence \in Looked("risk_signals") :
        inquiry' = [inquiry EXCEPT !.evidence = evidence,
            !.phase = IF evidence["risk_signals"] = "FAILED" THEN "done" ELSE "requirement"]
  BY DEF RiskSignals
<1>2. /\ inquiry \in Inquiry /\ inquiry.phase = "risk"
  BY DEF InquiryInv, InvestigationTypeOK, RiskSignals
<1>3. "risk_signals" \in Lookups
  BY DEF Lookups
<1>4. /\ evidence \in [Lookups -> {"NONE", "CALLED", "SUCCESS", "FAILED", "UNAVAILABLE"}]
      /\ evidence["risk_signals"] \in {"SUCCESS", "FAILED"}
      /\ \A k \in Lookups : k # "risk_signals" => evidence[k] = inquiry.evidence[k]
  BY <1>2, <1>3, LookedUp DEF InvestigationTypeOK
<1>5. /\ inquiry'.evidence = evidence /\ inquiry'.complete = inquiry.complete
      /\ inquiry'.budget = inquiry.budget /\ inquiry'.phase \in {"done", "requirement"}
      /\ inquiry'.phase = "requirement" => evidence["risk_signals"] = "SUCCESS"
  BY <1>1, <1>2, <1>4 DEF Inquiry
<1>6. InvestigationTypeOK'
  BY <1>1, <1>2, <1>4 DEF InvestigationTypeOK, Inquiry
<1>7. Progress'
  BY <1>2, <1>4, <1>5 DEF Progress, InquiryInv, Lookups, FollowUps
<1>8. Called(evidence) \subseteq {"risk_signals", "requirement"}
         /\ "requirement" \notin Called(evidence)
  BY <1>2, <1>4 DEF Called, Progress, InquiryInv, Lookups, FollowUps
<1>9. CallsMade(evidence) <= 1
  <2>1. Called(evidence) \subseteq {"risk_signals"}
    BY <1>8
  <2>2. IsFiniteSet({"risk_signals"}) /\ Cardinality({"risk_signals"}) = 1
    BY FS_Singleton, Zenon
  <2>3. Cardinality({"risk_signals"}) <= 1
    BY <2>2
  <2>4. QED
    BY <2>1, <2>2, <2>3, CalledIsBounded
<1>10. CallsMade(evidence) \in Nat /\ inquiry.budget \in Nat \ {0}
  BY <1>8, CalledIsBounded, SmallSets, InquiryFields DEF InquiryInv
<1>11. CompleteWithinBudget'
  BY <1>2, <1>5, <1>9, <1>10 DEF CompleteWithinBudget, Progress, InquiryInv
<1>12. QED
  BY <1>6, <1>7, <1>11 DEF InquiryInv

LEMMA RequirementKeepsInv == InquiryInv /\ Requirement => InquiryInv'
<1> SUFFICES ASSUME InquiryInv, Requirement PROVE InquiryInv'
  OBVIOUS
<1>1. /\ inquiry \in Inquiry /\ inquiry.phase = "requirement" /\ ~inquiry.complete
      /\ inquiry.budget \in Nat \ {0}
      /\ inquiry.evidence["risk_signals"] = "SUCCESS"
      /\ inquiry.evidence["knowledge_rule"] = "NONE"
      /\ inquiry.evidence["requirement"] = "NONE"
      /\ \A l \in FollowUps : inquiry.evidence[l] = "NONE"
  BY InquiryFields DEF InquiryInv, InvestigationTypeOK, Requirement, Progress
<1>2. PICK evidence :
        /\ evidence \in [Lookups -> {"NONE", "CALLED", "SUCCESS", "FAILED", "UNAVAILABLE"}]
        /\ \A k \in Lookups : k # "requirement" => evidence[k] = inquiry.evidence[k]
        /\ \/ /\ inquiry.budget < 2 /\ evidence["requirement"] = "UNAVAILABLE"
              /\ inquiry' = [inquiry EXCEPT !.phase = "done", !.evidence = evidence]
           \/ /\ ~(inquiry.budget < 2) /\ evidence["requirement"] \in {"SUCCESS", "FAILED"}
              /\ inquiry' = [inquiry EXCEPT !.evidence = evidence, !.phase = "follow_ups"]
  <2>1. CASE inquiry.budget < 2
    <3> DEFINE e == [inquiry.evidence EXCEPT !["requirement"] = "UNAVAILABLE"]
    <3>1. inquiry' = [inquiry EXCEPT !.phase = "done", !.evidence = e]
      BY <1>1, <2>1 DEF Requirement, Inquiry
    <3>2. /\ e \in [Lookups -> {"NONE", "CALLED", "SUCCESS", "FAILED", "UNAVAILABLE"}]
          /\ e["requirement"] = "UNAVAILABLE"
          /\ \A k \in Lookups : k # "requirement" => e[k] = inquiry.evidence[k]
      BY <1>1 DEF Inquiry, Lookups
    <3>3. QED
      BY <2>1, <3>1, <3>2
  <2>2. CASE ~(inquiry.budget < 2)
    <3>1. PICK e \in Looked("requirement") :
            inquiry' = [inquiry EXCEPT !.evidence = e, !.phase = "follow_ups"]
      BY <2>2 DEF Requirement
    <3>2. "requirement" \in Lookups
      BY DEF Lookups
    <3>3. QED
      BY <2>2, <3>1, <3>2, LookedUp DEF InquiryInv
  <2>3. QED
    BY <2>1, <2>2
<1>3. InvestigationTypeOK'
  BY <1>1, <1>2 DEF InvestigationTypeOK, Inquiry
<1>4. /\ inquiry'.evidence = evidence /\ inquiry'.complete = inquiry.complete
      /\ inquiry'.budget = inquiry.budget
      /\ \/ inquiry'.phase = "done"
         \/ inquiry'.phase = "follow_ups" /\ inquiry'.budget >= 2
            /\ evidence["requirement"] \in {"SUCCESS", "FAILED"}
  <2>1. CASE inquiry.budget < 2
    BY <1>1, <1>2, <2>1 DEF Inquiry
  <2>2. CASE ~(inquiry.budget < 2)
    <3>1. inquiry' = [inquiry EXCEPT !.evidence = evidence, !.phase = "follow_ups"]
      BY <1>2, <2>2
    <3>2. /\ inquiry'.evidence = evidence /\ inquiry'.complete = inquiry.complete
          /\ inquiry'.budget = inquiry.budget /\ inquiry'.phase = "follow_ups"
      BY <1>1, <3>1 DEF Inquiry
    <3>3. inquiry.budget >= 2
      BY <1>1, <2>2
    <3>4. QED
      BY <1>2, <2>2, <3>2, <3>3
  <2>3. QED
    BY <2>1, <2>2
<1>5. \A l \in Lookups \ {"requirement"} : evidence[l] =
            IF l = "risk_signals" THEN "SUCCESS" ELSE "NONE"
  BY <1>1, <1>2 DEF Lookups, FollowUps
<1>6. Progress'
  BY <1>1, <1>4, <1>5 DEF Progress, Lookups, FollowUps
<1>7. CallsMade(evidence) <= inquiry.budget
  <2>1. CASE inquiry.budget < 2
    <3>1. Called(evidence) \subseteq {"risk_signals"}
      BY <1>2, <1>5, <2>1 DEF Called
    <3>2. IsFiniteSet({"risk_signals"}) /\ Cardinality({"risk_signals"}) = 1
      BY FS_Singleton, Zenon
    <3>3. Cardinality({"risk_signals"}) <= inquiry.budget
      BY <1>1, <3>2
    <3>4. QED
      BY <1>1, <3>1, <3>2, <3>3, CalledIsBounded
  <2>2. CASE ~(inquiry.budget < 2)
    <3>1. Called(evidence) \subseteq {"risk_signals", "requirement"}
      BY <1>5 DEF Called
    <3>2. CallsMade(evidence) <= 2 /\ CallsMade(evidence) \in Nat
      BY <3>1, SmallSets, CalledIsBounded
    <3>3. QED
      BY <1>1, <2>2, <3>2
  <2>3. QED
    BY <2>1, <2>2
<1>8. CompleteWithinBudget'
  BY <1>1, <1>4, <1>7 DEF CompleteWithinBudget
<1>9. QED
  BY <1>3, <1>6, <1>8 DEF InquiryInv

LEMMA FollowUpEndsKeepsInv == InquiryInv /\ FollowUpEnds => InquiryInv'
<1> SUFFICES ASSUME InquiryInv, FollowUpEnds PROVE InquiryInv'
  OBVIOUS
<1>1. PICK l \in FollowUps : \E e \in Looked(l) :
        inquiry.evidence[l] = "CALLED" /\ inquiry' = [inquiry EXCEPT !.evidence = e]
  BY DEF FollowUpEnds
<1>2. PICK e \in Looked(l) :
        inquiry.evidence[l] = "CALLED" /\ inquiry' = [inquiry EXCEPT !.evidence = e]
  BY <1>1
<1>3. inquiry \in Inquiry /\ inquiry.phase = "knowledge" /\ l \in Lookups
  BY <1>2 DEF InquiryInv, InvestigationTypeOK, Progress, Lookups
<1>4. /\ e \in [Lookups -> {"NONE", "CALLED", "SUCCESS", "FAILED", "UNAVAILABLE"}]
      /\ e[l] \in {"SUCCESS", "FAILED"}
      /\ \A k \in Lookups : k # l => e[k] = inquiry.evidence[k]
  BY <1>3, LookedUp DEF InquiryInv
<1>5. /\ inquiry'.evidence = e /\ inquiry'.complete = inquiry.complete
      /\ inquiry'.budget = inquiry.budget /\ inquiry'.phase = "knowledge"
      /\ inquiry'.price = inquiry.price
      /\ inquiry'.executed = inquiry.executed /\ inquiry'.proposed = inquiry.proposed
  BY <1>2, <1>3 DEF Inquiry
<1>6. InvestigationTypeOK'
  BY <1>2, <1>3, <1>4 DEF InvestigationTypeOK, Inquiry
<1>7. e["requirement"] = inquiry.evidence["requirement"]
  BY <1>4 DEF Lookups, FollowUps
<1>8. Wanted' = Wanted
  BY <1>5, <1>7 DEF Wanted, Supplier
<1>9. \A i \in 1..3 : InTurn[i] \in Lookups /\ (e[InTurn[i]] = "NONE" <=> ~Wanted'[i])
  <2> TAKE i \in 1..3
  <2>1. InTurn[i] \in Lookups
    BY DEF InTurn, Lookups, FollowUps
  <2>2. e[InTurn[i]] = "NONE" <=> inquiry.evidence[InTurn[i]] = "NONE"
    BY <1>2, <1>4, <2>1
  <2>3. inquiry.evidence[InTurn[i]] = "NONE" <=> ~Wanted[i]
    BY <1>3 DEF InquiryInv, Progress
  <2>4. QED
    BY <1>8, <2>1, <2>2, <2>3
<1>10. Progress'
  BY <1>3, <1>4, <1>5, <1>7, <1>9 DEF Progress, InquiryInv, Lookups, FollowUps
<1>11. Called(e) = Called(inquiry.evidence)
  BY <1>2, <1>4 DEF Called
<1>12. CompleteWithinBudget'
  BY <1>3, <1>5, <1>11 DEF CompleteWithinBudget, InquiryInv, CallsMade, Called, Progress
<1>13. QED
  BY <1>6, <1>10, <1>12 DEF InquiryInv

LEMMA KnowledgeKeepsInv == InquiryInv /\ KnowledgeRules => InquiryInv'
<1> SUFFICES ASSUME InquiryInv, KnowledgeRules PROVE InquiryInv'
  OBVIOUS
<1>1. PICK status \in {"SUCCESS", "UNAVAILABLE"} :
        inquiry' = [inquiry EXCEPT !.phase = "done",
            !.evidence = [inquiry.evidence EXCEPT !["knowledge_rule"] = status],
            !.complete = \A l \in Lookups :
                [inquiry.evidence EXCEPT !["knowledge_rule"] = status][l] \in {"NONE", "SUCCESS"}]
  BY DEF KnowledgeRules
<1> DEFINE e == [inquiry.evidence EXCEPT !["knowledge_rule"] = status]
           c == \A l \in Lookups : e[l] \in {"NONE", "SUCCESS"}
<1>2. inquiry \in Inquiry /\ inquiry.phase = "knowledge" /\ "knowledge_rule" \in Lookups
  BY DEF InquiryInv, InvestigationTypeOK, KnowledgeRules, Lookups
<1>3. /\ e \in [Lookups -> {"NONE", "CALLED", "SUCCESS", "FAILED", "UNAVAILABLE"}]
      /\ e["knowledge_rule"] = status
      /\ \A k \in Lookups : k # "knowledge_rule" => e[k] = inquiry.evidence[k]
  BY <1>2 DEF Inquiry
<1>4. c \in BOOLEAN /\ inquiry' = [inquiry EXCEPT !.phase = "done", !.evidence = e, !.complete = c]
  BY <1>1
<1> HIDE DEF e
<1>5. /\ inquiry'.evidence = e /\ (inquiry'.complete <=> c)
      /\ inquiry'.budget = inquiry.budget /\ inquiry'.phase = "done"
      /\ inquiry'.price = inquiry.price
      /\ inquiry'.executed = inquiry.executed /\ inquiry'.proposed = inquiry.proposed
  BY <1>2, <1>4 DEF Inquiry
<1>6. InvestigationTypeOK'
  <2> HIDE DEF c
  <2>1. QED
    BY <1>2, <1>3, <1>4 DEF InvestigationTypeOK, Inquiry
<1>7. Progress'
  BY <1>2, <1>3, <1>5 DEF Progress, KnowledgeRules, Lookups, FollowUps
<1>8. CallsMade(e) <= inquiry.budget
  <2>1. Called(e) = Called(inquiry.evidence)
    BY <1>3 DEF Called
  <2>2. QED
    BY <2>1 DEF InquiryInv, CompleteWithinBudget, CallsMade, Called
<1>9. ASSUME c, NEW l \in Lookups
      PROVE  \/ e[l] = "SUCCESS"
             \/ l = "historical_price" /\ ~inquiry.price
             \/ l = "supplier_performance" /\ ~inquiry.executed /\ ~inquiry.proposed
  <2>1. e["requirement"] = "SUCCESS" /\ inquiry.evidence["requirement"] = "SUCCESS"
    BY <1>2, <1>3, <1>9 DEF InquiryInv, Progress, Lookups, FollowUps
  <2>2. \A i \in 1..3 : inquiry.evidence[InTurn[i]] = "NONE" <=> ~Wanted[i]
    BY <1>2 DEF InquiryInv, Progress
  <2>3. /\ inquiry.evidence["similar_cases"] # "NONE"
        /\ inquiry.evidence["historical_price"] = "NONE" => ~inquiry.price
        /\ inquiry.evidence["supplier_performance"] = "NONE" =>
             ~inquiry.executed /\ ~inquiry.proposed
    <3>1. 1 \in 1..3 /\ 2 \in 1..3 /\ 3 \in 1..3 /\ Wanted[1]
      BY DEF Wanted
    <3>2. QED
      BY <2>1, <2>2, <3>1, WantedLookups DEF InTurn, Supplier
  <2>4. e["risk_signals"] = "SUCCESS"
    BY <1>2, <1>3 DEF InquiryInv, Progress, Lookups, FollowUps
  <2>5. QED
    BY <1>3, <1>9, <2>1, <2>3, <2>4 DEF Lookups, FollowUps
<1>10. CompleteWithinBudget'
  BY <1>5, <1>8, <1>9 DEF CompleteWithinBudget
<1>11. QED
  BY <1>6, <1>7, <1>10 DEF InquiryInv

LEMMA InquiryInvInit == InvestigationInit => InquiryInv
<1> SUFFICES ASSUME InvestigationInit PROVE InquiryInv
  OBVIOUS
<1>1. /\ inquiry \in Inquiry /\ inquiry.phase = "risk" /\ inquiry.complete = FALSE
      /\ \A l \in Lookups : inquiry.evidence[l] = "NONE"
  BY DEF InvestigationInit, Inquiry
<1>2. Called(inquiry.evidence) = {}
  BY <1>1 DEF Called
<1>3. CallsMade(inquiry.evidence) = 0 /\ inquiry.budget \in Nat
  <2>1. CallsMade(inquiry.evidence) = Cardinality(Called(inquiry.evidence))
    BY DEF CallsMade, Called
  <2>2. QED
    BY <1>1, <1>2, <2>1, FS_EmptySet, InquiryFields DEF InvestigationTypeOK
<1>4. QED
  BY <1>1, <1>3 DEF InquiryInv, InvestigationTypeOK, Progress, CompleteWithinBudget, Lookups, FollowUps

LEMMA InquiryInvStep == InquiryInv /\ [InvestigationNext]_inquiry => InquiryInv'
<1>1. ASSUME InquiryInv, InvestigationNext PROVE InquiryInv'
  BY <1>1, RiskSignalsKeepInv, RequirementKeepsInv, FollowUpKeepsInv, FollowUpEndsKeepsInv,
     KnowledgeKeepsInv DEF InvestigationNext
<1>2. ASSUME InquiryInv, UNCHANGED inquiry PROVE InquiryInv'
  BY <1>2 DEF InquiryInv, InvestigationTypeOK, Progress, CompleteWithinBudget, Wanted, Supplier
<1>3. QED
  BY <1>1, <1>2

\* With any budget, an investigation makes no more calls than it may, and calls
\* itself complete only when all lookups that apply to the request succeeded.
THEOREM InquiryWithinBudget == InvestigationSpec => []CompleteWithinBudget
<1>1. InquiryInv => CompleteWithinBudget
  BY DEF InquiryInv
<1>2. QED
  BY <1>1, InquiryInvInit, InquiryInvStep, PTL DEF InvestigationSpec

-----------------------------------------------------------------------------
(***************************************************************************)
(* Tool calls.                                                             *)
(***************************************************************************)
\* A call's record, with the ages at which the call passed and the attempts on
\* their way: a call about to be sent has an attempt left, what was not sent has
\* not arrived, and what the handler answered, it was asked.
GoodRecord(c, r, h, w) ==
    /\ r \in Call
    /\ r.tool \in {"ASKED", "DELAYED"} => r.attempt <= MaxRetries
    /\ r.tool = "NONE" /\ r.result = "PENDING" => r.attempt = 0
    /\ r.tool = "ANSWERED" => r.answer # "NONE"
    /\ r.result = "NONE" => r.attempt = 0 /\ r.tool = "NONE"
    /\ r.attempt = 0 => h = <<>> /\ \A n \in Attempts : <<c, n>> \notin w
    /\ r.answer \in {"OK", "REFUSED"} => h # <<>>
    /\ r.result \in {"OK", "REFUSED"} => h # <<>>

\* What the gateway still keeps of a call's nonce, n, given the call's age a: the
\* nonce outlives the signature, or is forgotten in the signature's last second.
GoodNonce(h, a, n) ==
    \/ h = <<>>
    \/ \E s \in 0..SignatureTTL :
        h = <<s>> /\ s <= a /\ (a <= SignatureTTL /\ a < s + NonceTTL => n + a >= NonceTTL + 1 + s)
    \/ /\ NonceTTL = SignatureTTL /\ h = <<0, SignatureTTL>>
       /\ a >= SignatureTTL /\ (a = SignatureTTL => n >= 2)

Records == \A c \in Calls : GoodRecord(c, call[c], handled[c], wire)
NonceKept == \A c \in Calls : GoodNonce(handled[c], age[c], nonces[<<c, 1>>])

ToolInv == ToolCallsTypeOK /\ Records /\ NonceKept

\* One call's record changes.
Changes(c, r) == call' = [call EXCEPT ![c] = r]

LEMMA FirstNonce == ASSUME NEW c \in Calls PROVE <<c, 1>> \in Calls \X Attempts
  BY ToolCallsAssumption DEF Attempts

LEMMA RecordsAreGood ==
    ASSUME ToolInv, NEW c \in Calls
    PROVE  GoodRecord(c, call[c], handled[c], wire)
  BY DEF ToolInv, Records

\* A second more, or a nonce forgotten, keeps the relation.
LEMMA NonceInTime ==
    ASSUME NEW h, NEW a \in 0..(SignatureTTL + 1), NEW n \in 0..(NonceTTL + 1),
           GoodNonce(h, a, n)
    PROVE  /\ a <= SignatureTTL => GoodNonce(h, a + 1, IF n > 0 THEN n - 1 ELSE 0)
           /\ a > SignatureTTL => GoodNonce(h, a, IF n > 0 THEN n - 1 ELSE 0)
           /\ n = 1 => GoodNonce(h, a, 0)
<1> DEFINE m == IF n > 0 THEN n - 1 ELSE 0
<1>0. m \in Nat /\ (n > 0 => m = n - 1)
  BY ToolCallsAssumption
<1> HIDE DEF m
<1>1. CASE h = <<>>
  BY <1>1 DEF GoodNonce
<1>2. ASSUME NEW s \in 0..SignatureTTL, h = <<s>>, s <= a,
             a <= SignatureTTL /\ a < s + NonceTTL => n + a >= NonceTTL + 1 + s
      PROVE  /\ a <= SignatureTTL => GoodNonce(h, a + 1, m)
             /\ a > SignatureTTL => GoodNonce(h, a, m)
             /\ n = 1 => GoodNonce(h, a, 0)
  <2>1. s <= a + 1 /\ ~(n = 1 /\ a <= SignatureTTL /\ a < s + NonceTTL)
    BY <1>2, ToolCallsAssumption
  <2>2. a + 1 <= SignatureTTL /\ a + 1 < s + NonceTTL => m + (a + 1) >= NonceTTL + 1 + s
    BY <1>0, <1>2, ToolCallsAssumption
  <2>3. a <= SignatureTTL => GoodNonce(h, a + 1, m)
    BY <1>2, <2>1, <2>2 DEF GoodNonce
  <2>4. a > SignatureTTL => GoodNonce(h, a, m)
    BY <1>2, ToolCallsAssumption DEF GoodNonce
  <2>5. n = 1 => GoodNonce(h, a, 0)
    BY <1>2, <2>1 DEF GoodNonce
  <2>6. QED
    BY <2>3, <2>4, <2>5
<1>3. CASE /\ NonceTTL = SignatureTTL /\ h = <<0, SignatureTTL>>
           /\ a >= SignatureTTL /\ (a = SignatureTTL => n >= 2)
  <2>1. a + 1 >= SignatureTTL /\ a + 1 # SignatureTTL /\ ~(n = 1 /\ a = SignatureTTL)
    BY <1>3, ToolCallsAssumption
  <2>2. a > SignatureTTL => a # SignatureTTL
    BY ToolCallsAssumption
  <2>3. QED
    BY <1>3, <2>1, <2>2 DEF GoodNonce, m
<1>4. QED
  BY <1>1, <1>2, <1>3 DEF GoodNonce, m

LEMMA TwoPasses == ASSUME NEW x \in Nat, NEW y \in Nat PROVE Append(<<x>>, y) = <<x, y>>
<1>1. <<x>> \in Seq(Nat) /\ <<x, y>> \in Seq(Nat) /\ Len(<<x, y>>) = 2
  OBVIOUS
<1>2. Append(<<x>>, y) \in Seq(Nat) /\ Len(Append(<<x>>, y)) = 2
  BY <1>1
<1>3. \A i \in 1..2 : Append(<<x>>, y)[i] = <<x, y>>[i]
  <2>1. Append(<<x>>, y)[1] = x /\ Append(<<x>>, y)[2] = y
    BY <1>1
  <2>2. <<x, y>>[1] = x /\ <<x, y>>[2] = y /\ \A i \in 1..2 : i = 1 \/ i = 2
    OBVIOUS
  <2>3. QED
    BY <2>1, <2>2
<1>4. QED
  BY <1>1, <1>2, <1>3, SeqEqual

\* A call that passes: for the first time, or as the exception has it.
LEMMA NoncePasses ==
    ASSUME NEW h, NEW a \in 0..SignatureTTL, GoodNonce(h, a, 0)
    PROVE  GoodNonce(Append(h, a), a, NonceTTL + 1) /\ Append(h, a) # <<>>
<1>1. CASE h = <<>>
  <2>1. Append(h, a) = <<a>>
    BY <1>1
  <2>2. QED
    BY <2>1, ToolCallsAssumption DEF GoodNonce
<1>2. ASSUME NEW s \in 0..SignatureTTL, h = <<s>>, s <= a,
             a <= SignatureTTL /\ a < s + NonceTTL => 0 + a >= NonceTTL + 1 + s
      PROVE  GoodNonce(Append(h, a), a, NonceTTL + 1) /\ Append(h, a) # <<>>
  <2>1. s = 0 /\ a = SignatureTTL /\ NonceTTL = SignatureTTL
    BY <1>2, ToolCallsAssumption
  <2>2. Append(<<0>>, SignatureTTL) = <<0, SignatureTTL>>
    BY TwoPasses, ToolCallsAssumption
  <2>3. Append(h, a) = <<0, SignatureTTL>>
    BY <1>2, <2>1, <2>2
  <2>4. QED
    BY <2>1, <2>3, ToolCallsAssumption DEF GoodNonce
<1>3. ~(a >= SignatureTTL /\ (a = SignatureTTL => 0 >= 2))
  BY ToolCallsAssumption
<1>4. QED
  BY <1>1, <1>2, <1>3 DEF GoodNonce

\* A nonce that is kept anew without its call passing
LEMMA NonceKeptAnew ==
    ASSUME NEW h, NEW a \in 0..SignatureTTL, GoodNonce(h, a, 0)
    PROVE  GoodNonce(h, a, NonceTTL + 1)
  BY ToolCallsAssumption DEF GoodNonce

\* What steps of the agent and of the child leave alone
LEMMA GatewayUntouched ==
    ASSUME ToolInv, Gateway
    PROVE  NonceKept' /\ age' \in [Calls -> 0..(SignatureTTL + 1)]
           /\ nonces' \in [Calls \X Attempts -> 0..(NonceTTL + 1)]
           /\ handled' \in [Calls -> Seq(0..SignatureTTL)]
  BY DEF ToolInv, ToolCallsTypeOK, NonceKept, Gateway

\* Good records of all calls, in the next state
LEMMA GoodRecords ==
    ASSUME ToolInv, session' \in {"CLOSED", "OPEN", "DEAD"},
           wire' \subseteq Calls \X Attempts,
           NonceKept' /\ age' \in [Calls -> 0..(SignatureTTL + 1)]
           /\ nonces' \in [Calls \X Attempts -> 0..(NonceTTL + 1)]
           /\ handled' \in [Calls -> Seq(0..SignatureTTL)],
           NEW f, call' = [c \in Calls |-> f[c]],
           \A c \in Calls : GoodRecord(c, f[c], handled'[c], wire')
    PROVE  ToolInv'
<1>1. \A c \in Calls : call'[c] = f[c]
  OBVIOUS
<1>2. ToolCallsTypeOK'
  BY <1>1 DEF ToolCallsTypeOK, GoodRecord
<1>3. Records'
  BY <1>1 DEF Records, GoodRecord
<1>4. QED
  BY <1>2, <1>3 DEF ToolInv

\* A step that changes one call's record, in the agent or the child, and what is on
\* its way of this call
LEMMA OneRecord ==
    ASSUME ToolInv, NEW c \in Calls, NEW r, GoodRecord(c, r, handled'[c], wire'),
           Changes(c, r), UNCHANGED session,
           wire' \subseteq Calls \X Attempts,
           NonceKept' /\ age' \in [Calls -> 0..(SignatureTTL + 1)]
           /\ nonces' \in [Calls \X Attempts -> 0..(NonceTTL + 1)]
           /\ handled' \in [Calls -> Seq(0..SignatureTTL)],
           \A d \in Calls \ {c} :
                handled'[d] = handled[d] /\ \A n \in Attempts : <<d, n>> \in wire' => <<d, n>> \in wire
    PROVE  ToolInv'
<1> DEFINE f == [d \in Calls |-> IF d = c THEN r ELSE call[d]]
<1>1. call' = [d \in Calls |-> f[d]]
  BY DEF Changes, ToolInv, ToolCallsTypeOK
<1>2. \A d \in Calls : GoodRecord(d, f[d], handled'[d], wire')
  <2>1. ASSUME NEW d \in Calls, d # c PROVE GoodRecord(d, call[d], handled'[d], wire')
    BY <2>1, RecordsAreGood DEF GoodRecord
  <2>2. QED
    BY <2>1
<1>3. session' \in {"CLOSED", "OPEN", "DEAD"}
  BY DEF ToolInv, ToolCallsTypeOK
<1> HIDE DEF f
<1>4. QED
  BY <1>1, <1>2, <1>3, GoodRecords

\* A step of the agent or the child that sends nothing.
LEMMA OneRecordOnly ==
    ASSUME ToolInv, NEW c \in Calls, NEW r, GoodRecord(c, r, handled[c], wire),
           Changes(c, r), Outside
    PROVE  ToolInv'
<1>1. wire' \subseteq Calls \X Attempts /\ Gateway
  BY DEF Outside, ToolInv, ToolCallsTypeOK
<1>2. QED
  BY <1>1, GatewayUntouched, OneRecord DEF Outside, Gateway

\* The record of a call whose tool has answered.
LEMMA AnsweredRecord ==
    ASSUME ToolInv, NEW c \in Calls, NEW code \in Answers, Answered(c, code),
           call[c].result # "NONE", NEW h, NEW w,
           GoodRecord(c, call[c], h, w), code \in {"OK", "REFUSED"} => h # <<>>
    PROVE  \E r : Changes(c, r) /\ GoodRecord(c, r, h, w)
<1> DEFINE r == [call[c] EXCEPT !.tool = "ANSWERED", !.answer = code]
<1>1. GoodRecord(c, r, h, w)
  BY DEF GoodRecord, Call, Answers
<1>2. Changes(c, r)
  BY DEF Answered, Changes, ToolInv, ToolCallsTypeOK, Call
<1>3. QED
  BY <1>1, <1>2

\* The record of a call whose attempt has failed: the next one is due if the
\* retries allow it.
LEMMA RetriedRecord ==
    ASSUME ToolInv, NEW c \in Calls, NEW code \in Answers \ {"OK", "REFUSED"},
           RetryOr(c, code), call[c].result # "NONE", NEW h, NEW w,
           GoodRecord(c, call[c], h, w)
    PROVE  \E r : Changes(c, r) /\ GoodRecord(c, r, h, w)
<1> DEFINE r == [call[c] EXCEPT !.tool = "DELAYED"]
<1>1. CASE call[c].attempt < MaxRetries + 1
  <2>1. GoodRecord(c, r, h, w)
    BY <1>1, ToolCallsAssumption DEF GoodRecord, Call
  <2>2. Changes(c, r)
    BY <1>1 DEF RetryOr, Changes, ToolInv, ToolCallsTypeOK, Call
  <2>3. QED
    BY <2>1, <2>2
<1>2. CASE ~(call[c].attempt < MaxRetries + 1)
  BY <1>2, AnsweredRecord DEF RetryOr
<1>3. QED
  BY <1>1, <1>2

\* What an answer to an attempt makes of its call, given that the call passed if
\* that is what the answer says.
LEMMA ParsedRecord ==
    ASSUME ToolInv, NEW c \in Calls, NEW n, NEW status \in Answers, Parsed(c, n, status),
           NEW h, NEW w, GoodRecord(c, call[c], h, w),
           status \in {"OK", "REFUSED"} => h # <<>>
    PROVE  \E r : Changes(c, r) /\ GoodRecord(c, r, h, w)
<1>1. CASE UNCHANGED call
  <2>1. Changes(c, call[c])
    BY <1>1 DEF Changes, ToolInv, ToolCallsTypeOK
  <2>2. QED
    BY <2>1
<1>0. call[c].tool = "WAITING" => call[c].result # "NONE"
  BY DEF GoodRecord
<1>2. CASE call[c].tool = "WAITING" /\ status = "SERVER_ERROR" /\ RetryOr(c, "SERVER_ERROR")
  BY <1>0, <1>2, RetriedRecord DEF Answers
<1>3. CASE call[c].tool = "WAITING" /\ Answered(c, status)
  BY <1>0, <1>3, AnsweredRecord
<1>4. QED
  BY <1>1, <1>2, <1>3 DEF Parsed

-----------------------------------------------------------------------------
\* Time: calls grow old, nonces are forgotten.
LEMMA TimeKeepsInv ==
    ASSUME ToolInv, SecondPasses \/ \E c \in Calls, n \in Attempts : NonceExpires(c, n)
    PROVE  ToolInv'
<1>1. ToolCallsTypeOK /\ UNCHANGED <<session, call, wire, handled>>
  BY DEF ToolInv, SecondPasses, NonceExpires
<1>2. ASSUME NEW c \in Calls
      PROVE  /\ age[c] \in 0..(SignatureTTL + 1) /\ nonces[<<c, 1>>] \in 0..(NonceTTL + 1)
             /\ GoodNonce(handled[c], age[c], nonces[<<c, 1>>])
             /\ ~(call[c].attempt > 0) => handled[c] = <<>>
  <2>1. /\ age[c] \in 0..(SignatureTTL + 1) /\ nonces[<<c, 1>>] \in 0..(NonceTTL + 1)
        /\ GoodNonce(handled[c], age[c], nonces[<<c, 1>>]) /\ call[c].attempt \in Nat
    BY <1>1, FirstNonce DEF ToolInv, NonceKept, ToolCallsTypeOK, Call
  <2>2. call[c].attempt = 0 => handled[c] = <<>>
    BY RecordsAreGood DEF GoodRecord
  <2>3. ~(call[c].attempt > 0) => call[c].attempt = 0
    BY <2>1
  <2>4. QED
    BY <2>1, <2>2, <2>3
<1> DEFINE older(c) == IF call[c].attempt > 0 /\ age[c] <= SignatureTTL THEN age[c] + 1 ELSE age[c]
<1>0. ASSUME NEW c \in Calls
      PROVE  older(c) \in 0..(SignatureTTL + 1) /\ (age[c] > SignatureTTL => older(c) = age[c])
  <2>1. age[c] \in 0..(SignatureTTL + 1)
    BY <1>1 DEF ToolCallsTypeOK
  <2>2. age[c] \in Int /\ 0 <= age[c] /\ age[c] <= SignatureTTL + 1
    BY <2>1, ToolCallsAssumption
  <2>3. CASE age[c] <= SignatureTTL
    BY <2>2, <2>3, ToolCallsAssumption
  <2>4. CASE ~(age[c] <= SignatureTTL)
    BY <2>2, <2>4, ToolCallsAssumption
  <2>5. QED
    BY <2>3, <2>4
<1>3. CASE SecondPasses
  <2>1. age' \in [Calls -> 0..(SignatureTTL + 1)] /\ nonces' \in [Calls \X Attempts -> 0..(NonceTTL + 1)]
    <3>2. ASSUME NEW k \in Calls \X Attempts
          PROVE  (IF nonces[k] > 0 THEN nonces[k] - 1 ELSE 0) \in 0..(NonceTTL + 1)
      BY <1>1, ToolCallsAssumption DEF ToolCallsTypeOK
    <3>3. QED
      BY <1>0, <1>3, <3>2 DEF SecondPasses
  <2>2. ASSUME NEW c \in Calls
        PROVE  GoodNonce(handled[c], age'[c], nonces'[<<c, 1>>])
    <3>1. nonces'[<<c, 1>>] = IF nonces[<<c, 1>>] > 0 THEN nonces[<<c, 1>>] - 1 ELSE 0
      BY <1>3, FirstNonce DEF SecondPasses
    <3>2. age'[c] = IF call[c].attempt > 0 /\ age[c] <= SignatureTTL THEN age[c] + 1 ELSE age[c]
      BY <1>3 DEF SecondPasses
    <3>3. CASE call[c].attempt > 0
      <4>1. CASE age[c] <= SignatureTTL
        BY <1>2, <3>1, <3>2, <3>3, <4>1, NonceInTime
      <4>2. CASE age[c] > SignatureTTL
        <5>1. age'[c] = age[c]
          BY <1>0, <3>2, <4>2
        <5>2. QED
          BY <1>2, <3>1, <4>2, <5>1, NonceInTime
      <4>3. QED
        BY <1>2, <4>1, <4>2, ToolCallsAssumption
    <3>4. CASE ~(call[c].attempt > 0)
      <4>1. handled[c] = <<>>
        BY <1>2, <3>4
      <4>2. QED
        BY <4>1 DEF GoodNonce
    <3>5. QED
      BY <3>3, <3>4
  <2>3. QED
    BY <1>1, <2>1, <2>2 DEF ToolInv, ToolCallsTypeOK, NonceKept, Records
<1>4. ASSUME NEW e \in Calls, NEW n \in Attempts, NonceExpires(e, n) PROVE ToolInv'
  <2>1. age' = age /\ nonces' \in [Calls \X Attempts -> 0..(NonceTTL + 1)]
    BY <1>1, <1>4, ToolCallsAssumption DEF NonceExpires, ToolCallsTypeOK
  <2>2. ASSUME NEW c \in Calls PROVE GoodNonce(handled[c], age[c], nonces'[<<c, 1>>])
    <3>1. nonces'[<<c, 1>>] = nonces[<<c, 1>>] \/ (nonces[<<c, 1>>] = 1 /\ nonces'[<<c, 1>>] = 0)
      BY <1>1, <1>4, FirstNonce DEF NonceExpires, ToolCallsTypeOK
    <3>2. QED
      BY <1>2, <3>1, NonceInTime
  <2>3. QED
    BY <1>1, <2>1, <2>2 DEF ToolInv, ToolCallsTypeOK, NonceKept, Records
<1>5. QED
  BY <1>3, <1>4

\* The gateway lets an attempt pass, refuses it or fails.
LEMMA ArriveKeepsInv ==
    ASSUME ToolInv, NEW c \in Calls, NEW n \in Attempts, Arrive(c, n)
    PROVE  ToolInv'
<1>1. ToolCallsTypeOK /\ NonceKept /\ <<c, 1>> \in Calls \X Attempts
  BY FirstNonce DEF ToolInv
<1>2. /\ wire' \subseteq Calls \X Attempts /\ wire' \subseteq wire
      /\ UNCHANGED <<session, age>> /\ age' \in [Calls -> 0..(SignatureTTL + 1)]
  BY <1>1 DEF Arrive, ToolCallsTypeOK
<1>3. GoodRecord(c, call[c], handled[c], wire) /\ call[c].attempt # 0
  BY RecordsAreGood DEF GoodRecord, Arrive
<1>4. GoodRecord(c, call[c], handled[c], wire')
  BY <1>2, <1>3 DEF GoodRecord
<1>5. age[c] \in 0..(SignatureTTL + 1) /\ GoodNonce(handled[c], age[c], nonces[<<c, 1>>])
  BY <1>1 DEF ToolCallsTypeOK, NonceKept
<1>6. ASSUME Signed(c), nonces[Nonce(c, n)] = 0
      PROVE  age[c] \in 0..SignatureTTL /\ GoodNonce(handled[c], age[c], 0)
  BY <1>5, <1>6, ToolCallsAssumption DEF Signed, Nonce
<1>7. ASSUME Keep(c, n)
      PROVE  /\ nonces' \in [Calls \X Attempts -> 0..(NonceTTL + 1)]
             /\ nonces'[<<c, 1>>] = NonceTTL + 1
             /\ \A d \in Calls \ {c} : nonces'[<<d, 1>>] = nonces[<<d, 1>>]
  <2>1. nonces' = [nonces EXCEPT ![<<c, 1>>] = NonceTTL + 1]
    BY <1>7 DEF Keep, Nonce
  <2>2. NonceTTL + 1 \in 0..(NonceTTL + 1)
    BY ToolCallsAssumption
  <2>3. QED
    BY <1>1, <2>1, <2>2, FirstNonce DEF ToolCallsTypeOK
<1>8. CASE Parsed(c, n, "UNAUTHORIZED") /\ UNCHANGED <<nonces, handled>>
  <2>1. NonceKept' /\ nonces' \in [Calls \X Attempts -> 0..(NonceTTL + 1)]
        /\ handled' \in [Calls -> Seq(0..SignatureTTL)]
    BY <1>1, <1>2, <1>8 DEF NonceKept, ToolCallsTypeOK
  <2>2. PICK r : Changes(c, r) /\ GoodRecord(c, r, handled[c], wire')
    BY <1>4, <1>8, ParsedRecord DEF Answers
  <2>3. QED
    BY <1>2, <1>8, <2>1, <2>2, OneRecord
<1>9. CASE /\ Signed(c) /\ nonces[Nonce(c, n)] = 0 /\ Keep(c, n)
           /\ handled' = [handled EXCEPT ![c] = Append(@, age[c])]
           /\ \E status \in {"OK", "REFUSED", "SERVER_ERROR"} : Parsed(c, n, status)
  <2>1. handled'[c] = Append(handled[c], age[c]) /\ \A d \in Calls \ {c} : handled'[d] = handled[d]
    BY <1>1, <1>9 DEF ToolCallsTypeOK
  <2>2. GoodNonce(Append(handled[c], age[c]), age[c], NonceTTL + 1) /\ handled'[c] # <<>>
    BY <1>6, <1>9, <2>1, NoncePasses
  <2>3. handled' \in [Calls -> Seq(0..SignatureTTL)]
    <3>1. handled[c] \in Seq(0..SignatureTTL) /\ age[c] \in 0..SignatureTTL
      BY <1>1, <1>6, <1>9 DEF ToolCallsTypeOK
    <3>2. Append(handled[c], age[c]) \in Seq(0..SignatureTTL)
      BY <3>1
    <3>3. QED
      BY <1>1, <1>9, <3>2 DEF ToolCallsTypeOK
  <2>4. NonceKept'
    <3>1. ASSUME NEW d \in Calls PROVE GoodNonce(handled'[d], age'[d], nonces'[<<d, 1>>])
      <4>1. CASE d = c
        BY <1>2, <1>7, <1>9, <2>1, <2>2, <4>1
      <4>2. CASE d # c
        BY <1>1, <1>2, <1>7, <1>9, <2>1, <4>2 DEF NonceKept
      <4>3. QED
        BY <4>1, <4>2
    <3>2. QED
      BY <3>1 DEF NonceKept
  <2>5. GoodRecord(c, call[c], handled'[c], wire')
    BY <1>3, <1>4, <2>2 DEF GoodRecord
  <2>6. PICK r : Changes(c, r) /\ GoodRecord(c, r, handled'[c], wire')
    BY <1>9, <2>2, <2>5, ParsedRecord DEF Answers
  <2>7. QED
    BY <1>2, <1>7, <1>9, <2>1, <2>3, <2>4, <2>6, OneRecord
<1>10. CASE /\ Signed(c)
            /\ \/ UNCHANGED nonces
               \/ nonces[Nonce(c, n)] = 0 /\ Keep(c, n)
            /\ Parsed(c, n, "SERVER_ERROR") /\ UNCHANGED handled
  <2>1. NonceKept' /\ nonces' \in [Calls \X Attempts -> 0..(NonceTTL + 1)]
    <3>1. CASE UNCHANGED nonces
      BY <1>1, <1>2, <1>10, <3>1 DEF NonceKept, ToolCallsTypeOK
    <3>2. CASE nonces[Nonce(c, n)] = 0 /\ Keep(c, n)
      <4>1. ASSUME NEW d \in Calls PROVE GoodNonce(handled'[d], age'[d], nonces'[<<d, 1>>])
        <5>1. CASE d = c
          BY <1>2, <1>6, <1>7, <1>10, <3>2, <5>1, NonceKeptAnew
        <5>2. CASE d # c
          BY <1>1, <1>2, <1>7, <1>10, <3>2, <5>2 DEF NonceKept
        <5>3. QED
          BY <5>1, <5>2
      <4>2. QED
        BY <1>7, <3>2, <4>1 DEF NonceKept
    <3>3. QED
      BY <1>10, <3>1, <3>2
  <2>2. handled' \in [Calls -> Seq(0..SignatureTTL)]
    BY <1>1, <1>10 DEF ToolCallsTypeOK
  <2>3. PICK r : Changes(c, r) /\ GoodRecord(c, r, handled[c], wire')
    BY <1>4, <1>10, ParsedRecord DEF Answers
  <2>4. QED
    BY <1>2, <1>10, <2>1, <2>2, <2>3, OneRecord
<1>11. QED
  BY <1>8, <1>9, <1>10 DEF Arrive

\* The connection is made once, before any call; its end leaves every call.
LEMMA ConnectionKeepsInv ==
    ASSUME ToolInv, Connect \/ ChildDies
    PROVE  ToolInv'
<1>1. /\ session' \in {"CLOSED", "OPEN", "DEAD"} /\ UNCHANGED <<handled, wire>>
      /\ wire' \subseteq Calls \X Attempts /\ Gateway
  BY DEF Connect, ChildDies, ToolInv, ToolCallsTypeOK, Gateway
<1>2. CASE Connect
  <2>1. ASSUME NEW result \in {"PENDING", "MCP_CLIENT_ERROR"},
               call' = [c \in Calls |-> [NoCall EXCEPT !.result = result]]
        PROVE  ToolInv'
    <3> DEFINE f == [c \in Calls |-> [NoCall EXCEPT !.result = result]]
    <3>1. \A c \in Calls : GoodRecord(c, f[c], handled'[c], wire')
      <4>1. ASSUME NEW c \in Calls
            PROVE  handled'[c] = <<>> /\ \A n \in Attempts : <<c, n>> \notin wire'
        BY <1>1, <1>2, RecordsAreGood DEF Connect, GoodRecord
      <4>2. QED
        BY <4>1, ToolCallsAssumption DEF GoodRecord, NoCall, Call, Failures, Answers
    <3>2. call' = [c \in Calls |-> f[c]]
      BY <2>1
    <3> HIDE DEF f
    <3>3. QED
      BY <1>1, <3>1, <3>2, GatewayUntouched, GoodRecords
  <2>2. QED
    BY <1>2, <2>1 DEF Connect
<1>3. CASE ChildDies
  <2> DEFINE f == [c \in Calls |->
        IF call[c].result = "PENDING"
        THEN [call[c] EXCEPT !.tool = "NONE", !.result = "MCP_TRANSPORT_ERROR"]
        ELSE [call[c] EXCEPT !.tool = "NONE"]]
  <2>1. ASSUME NEW c \in Calls PROVE GoodRecord(c, f[c], handled'[c], wire')
    <3>1. GoodRecord(c, call[c], handled[c], wire)
      BY RecordsAreGood
    <3>2. QED
      BY <1>1, <3>1 DEF GoodRecord, Call, Failures
  <2>2. call' = [c \in Calls |-> f[c]]
    BY <1>3 DEF ChildDies
  <2> HIDE DEF f
  <2>3. QED
    BY <1>1, <2>1, <2>2, GatewayUntouched, GoodRecords
<1>4. QED
  BY <1>2, <1>3

\* The agent's side of a call
LEMMA AgentKeepsInv ==
    ASSUME ToolInv, NEW c \in Calls, Ask(c) \/ CallTimesOut(c) \/ Return(c)
    PROVE  ToolInv'
<1>1. GoodRecord(c, call[c], handled[c], wire)
  BY RecordsAreGood
<1>2. ASSUME NEW r, GoodRecord(c, r, handled[c], wire), Changes(c, r), Outside PROVE ToolInv'
  BY <1>2, OneRecordOnly
<1>3. CASE Ask(c)
  <2> DEFINE r1 == [call[c] EXCEPT !.tool = "ASKED"]
             r2 == [call[c] EXCEPT !.result = "MCP_PROTOCOL_TOOL_ERROR"]
  <2>1. GoodRecord(c, r1, handled[c], wire)
    BY <1>1, <1>3, ToolCallsAssumption DEF GoodRecord, Call, Ask
  <2>2. GoodRecord(c, r2, handled[c], wire)
    BY <1>1, <1>3 DEF GoodRecord, Call, Ask, Failures
  <2>3. (Changes(c, r1) \/ Changes(c, r2)) /\ Outside
    BY <1>3 DEF Ask, Changes, ToolInv, ToolCallsTypeOK
  <2>4. QED
    BY <1>2, <2>1, <2>2, <2>3
<1>4. CASE CallTimesOut(c)
  <2> DEFINE r == [call[c] EXCEPT !.result = "MCP_TOOL_TIMEOUT_RAISED"]
  <2>1. GoodRecord(c, r, handled[c], wire)
    BY <1>1, <1>4 DEF GoodRecord, Call, Failures, CallTimesOut
  <2>2. Changes(c, r) /\ Outside
    BY <1>4 DEF CallTimesOut, Changes
  <2>3. QED
    BY <1>2, <2>1, <2>2
<1>5. CASE Return(c)
  <2> DEFINE r == [call[c] EXCEPT !.result = call[c].answer]
  <2>1. GoodRecord(c, r, handled[c], wire)
    BY <1>1, <1>5 DEF GoodRecord, Call, Return
  <2>2. Changes(c, r) /\ Outside
    BY <1>5 DEF Return, Changes
  <2>3. QED
    BY <1>2, <2>1, <2>2
<1>6. QED
  BY <1>3, <1>4, <1>5

\* The child's side of a call
LEMMA ChildKeepsInv ==
    ASSUME ToolInv, NEW c \in Calls, Attempt(c) \/ AttemptFails(c) \/ ToolTimesOut(c)
    PROVE  ToolInv'
<1>1. GoodRecord(c, call[c], handled[c], wire) /\ call[c].result # "NONE"
  BY RecordsAreGood DEF GoodRecord, Attempt, AttemptFails, ToolTimesOut
<1>2. UNCHANGED session /\ Gateway /\ handled' = handled
  BY DEF Attempt, AttemptFails, ToolTimesOut, Outside, Gateway
<1>3. ASSUME NEW r, GoodRecord(c, r, handled[c], wire'), Changes(c, r),
             wire' \subseteq Calls \X Attempts,
             \A d \in Calls \ {c} : \A n \in Attempts : <<d, n>> \in wire' => <<d, n>> \in wire
      PROVE  ToolInv'
  BY <1>2, <1>3, GatewayUntouched, OneRecord
<1>4. CASE Attempt(c)
  <2> DEFINE r == [call[c] EXCEPT !.tool = "WAITING", !.attempt = @ + 1]
  <2>1. call[c].attempt \in Nat /\ call[c].attempt <= MaxRetries
    BY <1>1, <1>4 DEF GoodRecord, Call, Attempt
  <2>2. GoodRecord(c, r, handled[c], wire')
    <3>1. call[c] \in Call /\ call[c].attempt + 1 \in 0..(MaxRetries + 1)
      BY <1>1, <2>1, ToolCallsAssumption DEF GoodRecord
    <3>2. r \in Call /\ r.tool = "WAITING"
      BY <3>1 DEF Call
    <3>3. r.answer = call[c].answer /\ r.result = call[c].result
      BY <3>1 DEF Call
    <3>4. r.attempt = call[c].attempt + 1
      BY <3>1 DEF Call
    <3>5. r.attempt # 0
      BY <2>1, <3>4
    <3>6. QED
      BY <1>1, <3>2, <3>3, <3>5 DEF GoodRecord
  <2>3. Changes(c, r)
    BY <1>4 DEF Attempt, Changes
  <2>4. /\ wire' \subseteq Calls \X Attempts
        /\ \A d \in Calls \ {c} : \A n \in Attempts : <<d, n>> \in wire' => <<d, n>> \in wire
    BY <1>4, <2>1, ToolCallsAssumption DEF Attempt, Attempts, ToolInv, ToolCallsTypeOK
  <2>5. QED
    BY <1>3, <2>2, <2>3, <2>4
<1>5. CASE AttemptFails(c)
  <2>1. PICK code \in {"BACKEND_TIMEOUT", "BACKEND_UNAVAILABLE"} : RetryOr(c, code)
    BY <1>5 DEF AttemptFails
  <2>2. wire' \subseteq Calls \X Attempts /\ wire' \subseteq wire
    BY <1>5 DEF AttemptFails, ToolInv, ToolCallsTypeOK
  <2>3. GoodRecord(c, call[c], handled[c], wire')
    BY <1>1, <2>2 DEF GoodRecord
  <2>4. PICK r : Changes(c, r) /\ GoodRecord(c, r, handled[c], wire')
    BY <1>1, <2>1, <2>3, RetriedRecord DEF Answers
  <2>5. QED
    BY <1>3, <2>2, <2>4
<1>6. CASE ToolTimesOut(c)
  <2>1. PICK r : Changes(c, r) /\ GoodRecord(c, r, handled[c], wire)
    BY <1>1, <1>6, AnsweredRecord DEF ToolTimesOut, Answers
  <2>2. Outside
    BY <1>6 DEF ToolTimesOut
  <2>3. QED
    BY <2>1, <2>2, OneRecordOnly
<1>7. QED
  BY <1>4, <1>5, <1>6

LEMMA ToolInvInit == ToolCallsInit => ToolInv
<1> SUFFICES ASSUME ToolCallsInit PROVE ToolInv
  OBVIOUS
<1>1. /\ NoCall \in Call /\ NoCall.tool = "NONE" /\ NoCall.answer = "NONE"
      /\ NoCall.result = "NONE" /\ NoCall.attempt = 0
  BY ToolCallsAssumption DEF NoCall, Call
<1>2. \A c \in Calls : call[c] = NoCall /\ handled[c] = <<>>
  BY DEF ToolCallsInit
<1>3. <<>> \in Seq(0..SignatureTTL) /\ 0 \in 0..(SignatureTTL + 1) /\ 0 \in 0..(NonceTTL + 1)
  BY ToolCallsAssumption
<1>4. ToolCallsTypeOK
  BY <1>1, <1>3 DEF ToolCallsInit, ToolCallsTypeOK
<1>5. Records
  BY <1>1, <1>2 DEF Records, GoodRecord, ToolCallsInit
<1>6. NonceKept
  BY <1>2 DEF NonceKept, GoodNonce
<1>7. QED
  BY <1>4, <1>5, <1>6 DEF ToolInv

LEMMA ToolInvStep == ToolInv /\ [ToolCallsNext]_toolVars => ToolInv'
<1>1. ASSUME ToolInv, ToolCallsNext PROVE ToolInv'
  <2>1. CASE Connect \/ ChildDies
    BY <1>1, <2>1, ConnectionKeepsInv
  <2>2. CASE SecondPasses
    BY <1>1, <2>2, TimeKeepsInv
  <2>3. ASSUME NEW c \in Calls,
               \/ Ask(c) \/ CallTimesOut(c) \/ Return(c)
               \/ session = "OPEN" /\ (Attempt(c) \/ AttemptFails(c) \/ ToolTimesOut(c))
               \/ \E n \in Attempts : Arrive(c, n) \/ NonceExpires(c, n)
        PROVE  ToolInv'
    BY <1>1, <2>3, AgentKeepsInv, ChildKeepsInv, ArriveKeepsInv, TimeKeepsInv
  <2>4. QED
    BY <1>1, <2>1, <2>2, <2>3 DEF ToolCallsNext
<1>2. ASSUME ToolInv, UNCHANGED toolVars PROVE ToolInv'
  BY <1>2 DEF toolVars, ToolInv, ToolCallsTypeOK, Records, NonceKept
<1>3. QED
  BY <1>1, <1>2

\* However often and however late a signed request arrives, the gateway lets it
\* pass once, with the one exception of two equal time limits: for any number of
\* concurrent calls, any number of retries and any limits of which the nonce's is
\* not the shorter.  What the agent takes for the handler's answer did pass.
THEOREM OnceForAll == ToolCallsSpec => []CarriedOutOnce
<1>1. ASSUME ToolInv, NEW c \in Calls
      PROVE  /\ \/ Len(handled[c]) <= 1
                \/ NonceTTL = SignatureTTL /\ handled[c] = <<0, SignatureTTL>>
             /\ call[c].result \in {"OK", "REFUSED"} => handled[c] # <<>>
  <2>1. GoodNonce(handled[c], age[c], nonces[<<c, 1>>])
    BY <1>1 DEF ToolInv, NonceKept
  <2>2. CASE handled[c] = <<>>
    BY <1>1, <2>2, RecordsAreGood DEF GoodRecord
  <2>3. CASE \E s \in 0..SignatureTTL : handled[c] = <<s>>
    BY <2>3
  <2>4. CASE NonceTTL = SignatureTTL /\ handled[c] = <<0, SignatureTTL>>
    BY <2>4
  <2>5. QED
    BY <2>1, <2>2, <2>3, <2>4 DEF GoodNonce
<1>2. ToolInv => CarriedOutOnce
  BY <1>1 DEF CarriedOutOnce
<1>3. QED
  BY <1>2, ToolInvInit, ToolInvStep, PTL DEF ToolCallsSpec

-----------------------------------------------------------------------------
(***************************************************************************)
(* Read models.                                                            *)
(***************************************************************************)

\* Every list and report keeps to the detail's rule.
LEMMA ViewsKeepToTheRule ==
    ASSUME NEW u \in Readers
    PROVE  /\ \A view \in Views : Lists(u, view) => CanView(u)
           /\ IsRecordOf(u) => CanView(u)
           /\ IsAnalysedFor(u) => CanView(u)
           /\ BlacklistedIn(u) => CanView(u)
           /\ MayChooseHandler(u) => CanView(u)
           /\ SupplierEvidenceFor(u) => CanView(u)
<1>1. ASSUME NEW view \in Views, Lists(u, view) PROVE CanView(u)
  <2>1. view = "CREATED_BY_ME" => u.applicant
    BY <1>1 DEF Lists
  <2>2. view = "PENDING_FOR_ME" => u.handler
    BY <1>1 DEF Lists
  <2>3. view = "BUILDING_SCOPE" => u.building /\ u.roles \cap {"BUILDING_MANAGER", "ADMIN"} # {}
    BY <1>1 DEF Lists
  <2>4. view = "ADMIN_SCOPE" => "ADMIN" \in u.roles
    BY <1>1 DEF Lists
  <2>5. view = "HANDLED_BY_ME" => u.applicant \/ u.operator
    BY <1>1 DEF Lists
  <2>6. QED
    BY <2>1, <2>2, <2>3, <2>4, <2>5 DEF Views, CanView
<1>2. (IsRecordOf(u) => CanView(u)) /\ (IsAnalysedFor(u) => CanView(u))
  BY DEF IsRecordOf, IsAnalysedFor, CanView
<1>3. /\ BlacklistedIn(u) => CanView(u)
      /\ MayChooseHandler(u) => CanView(u)
      /\ SupplierEvidenceFor(u) => CanView(u)
  BY DEF BlacklistedIn, MayChooseHandler, SupplierEvidenceFor, CanView
<1>4. QED
  BY <1>1, <1>2, <1>3

\* A supplier that was only proposed has delivered nothing late.
LEMMA DelayedWasPurchased ==
    ASSUME NEW r \in HistoryRows, IsDelayed(r)
    PROVE  r.executed # NoSupplier /\ SupplierOf(r) = r.executed
  BY DEF HistoryRows, IsDelayed, SupplierOf

\* _apply_exclusions leaves no delayed purchase, and none of a supplier with one.
LEMMA ExclusionsAreWhole ==
    ASSUME NEW S \in SUBSET HistoryRows, NEW B, NEW row \in WithoutExcluded(S, B)
    PROVE  /\ ~IsDelayed(row) /\ SupplierOf(row) \notin B
           /\ DelayRatio(S, SupplierOf(row))[1] = 0
<1> DEFINE kept == {r \in S : SupplierOf(r) \notin B}
           delayed == {SupplierOf(r) : r \in {q \in kept :
                           SupplierOf(q) # NoSupplier /\ IsDelayed(q)}}
<1>1. row \in kept /\ SupplierOf(row) \notin delayed
  BY DEF WithoutExcluded
<1>2. ~IsDelayed(row)
  BY <1>1, DelayedWasPurchased
<1>3. SupplierOf(row) \notin B
  BY <1>1
<1>4. ASSUME NEW r \in S, r.executed = SupplierOf(row), IsDelayed(r) PROVE FALSE
  <2>1. r.executed # NoSupplier /\ SupplierOf(r) = SupplierOf(row)
    BY <1>4, DelayedWasPurchased
  <2>2. r \in kept /\ SupplierOf(r) # NoSupplier
    BY <1>3, <1>4, <2>1
  <2>3. SupplierOf(r) \in delayed
    BY <1>4, <2>2
  <2>4. QED
    BY <1>1, <2>1, <2>3
<1>5. DelayRatio(S, SupplierOf(row))[1] = 0
  <2>1. {r \in {q \in Purchases(S, SupplierOf(row)) : q.expected # NoDay} : IsDelayed(r)} = {}
    BY <1>4 DEF Purchases
  <2>2. Cardinality({r \in {q \in Purchases(S, SupplierOf(row)) : q.expected # NoDay} :
            IsDelayed(r)}) = 0
    BY <2>1, FS_EmptySet, Zenon
  <2>3. DelayRatio(S, SupplierOf(row))[1] = Cardinality(
            {r \in {q \in Purchases(S, SupplierOf(row)) : q.expected # NoDay} : IsDelayed(r)})
    BY DEF DelayRatio
  <2>4. QED
    BY <2>2, <2>3
<1>6. QED
  BY <1>2, <1>3, <1>5

\* The best suppliers that are not blacklisted
LEMMA BestAreRecommended ==
    ASSUME NEW B \in SUBSET TopSuppliers
    PROVE  /\ Recommended(B) \cap B = {}
           /\ \A s \in Recommended(B) : (1..s) \ B \subseteq Recommended(B)
<1>1. \A s \in Recommended(B) : s \in 1..3 /\ s \notin B /\ \A t \in (1..3) \ B : s <= t
  BY DEF Recommended
<1>2. ASSUME NEW s \in Recommended(B), NEW t \in (1..s) \ B PROVE t \in Recommended(B)
  <2>1. t \in (1..3) \ B /\ t <= s
    BY <1>1
  <2>2. t = s
    BY <1>1, <2>1
  <2>3. QED
    BY <2>2
<1>3. QED
  BY <1>1, <1>2

LEMMA ReadersStep ==
    ASSUME ReadModelsNext
    PROVE  ListedMayBeOpened' /\ ExclusionsHold'
<1>1. ASSUME NEW u \in Readers, CanView(u), Finds(u)
      PROVE  ListedMayBeOpened' /\ ExclusionsHold'
  BY <1>1 DEF Finds, ListedMayBeOpened, ExclusionsHold
<1>2. CASE \/ ListRequests \/ ReadRecord \/ AnalyseRequest \/ ListBuildingRisks \/ ChooseHandler
           \/ ShowSupplierEvidence
  BY <1>1, <1>2, ViewsKeepToTheRule
     DEF ListRequests, ReadRecord, AnalyseRequest, ListBuildingRisks, ChooseHandler,
         ShowSupplierEvidence
<1>3. CASE QueryRows
  <2>1. PICK q \in HistoryRows, r \in HistoryRows, B \in SUBSET {"A", "B"} :
          reading' = [kind |-> "query", rows |-> {q, r}, blacklisted |-> B,
                      shown |-> WithoutExcluded({q, r}, B)]
    BY <1>3 DEF QueryRows
  <2>2. \A row \in WithoutExcluded({q, r}, B) :
            /\ ~IsDelayed(row) /\ SupplierOf(row) \notin B
            /\ DelayRatio({q, r}, SupplierOf(row))[1] = 0
    BY ExclusionsAreWhole
  <2>3. QED
    BY <2>1, <2>2 DEF ListedMayBeOpened, ExclusionsHold
<1>4. CASE RecommendSuppliers
  <2>1. PICK B \in SUBSET TopSuppliers :
          reading' = [kind |-> "suppliers", blacklisted |-> B, shown |-> Recommended(B)]
    BY <1>4 DEF RecommendSuppliers
  <2>2. QED
    BY <2>1, BestAreRecommended DEF ListedMayBeOpened, ExclusionsHold
<1>5. CASE ShowEvidence
  <2>1. PICK u \in Readers, kind \in Evidences :
          /\ u.roles \cap EvidenceRoles(kind) # {}
          /\ reading' = [kind |-> "evidence", of |-> kind, reader |-> u]
    BY <1>5 DEF ShowEvidence
  <2>2. u.roles # {}
    BY <2>1
  <2>3. ~CanView(u) /\ kind \in Commercial => u.roles \cap {"BUILDING_MANAGER", "PURCHASER"} # {}
    <3>1. EvidenceRoles("history") = {"BUILDING_MANAGER", "PURCHASER", "ADMIN"}
          /\ EvidenceRoles("contract") = {"PURCHASER", "ADMIN"}
      BY DEF EvidenceRoles
    <3>2. QED
      BY <2>1, <3>1 DEF Commercial, CanView
  <2>4. QED
    BY <2>1, <2>2, <2>3 DEF ListedMayBeOpened, ExclusionsHold
<1>6. QED
  BY <1>2, <1>3, <1>4, <1>5 DEF ReadModelsNext

-----------------------------------------------------------------------------
(***************************************************************************)
(* Suppliers.                                                              *)
(***************************************************************************)
\* What may be written, and a transaction
Writes == {NothingWritten}
    \cup [op : {"CREATE"}, row : SupplierRow]
    \cup [op : {"LIST"}, token : Tokens, row : Entry]
    \cup [op : {"RELEASE"}, token : Tokens, entry : Nat, by : Managers \cup Admins]
Transaction == [open : BOOLEAN, supplier : Seq(SupplierRow), entry : Seq(Entry),
                tokens : SUBSET Tokens, wrote : Writes]

RowsOK ==
    /\ supplier \in Seq(SupplierRow) /\ entry \in Seq(Entry)
    /\ log \in Seq([token : Tokens, released : BOOLEAN, entry : Nat])
    /\ tx \in [Sessions -> Transaction]

\* A write about the blacklist, which has an action token
Logged(w) == w.op \in {"LIST", "RELEASE"}

\* Only an open transaction has written, and what the transactions have written can
\* all be committed, in any order: their tokens are new, and differ; the entries
\* they release are not released, and differ.
WritesCanCommit ==
    \A s \in Sessions : LET w == tx[s].wrote IN
        /\ w # NothingWritten => tx[s].open
        /\ Logged(w) => w.token \notin Used
        /\ w.op = "RELEASE" =>
             /\ w.entry \in DOMAIN entry /\ ~entry[w.entry].released
             /\ w.by \in Admins \cup {entry[w.entry].registrar}
        /\ \A r \in Sessions \ {s} : LET v == tx[r].wrote IN
             /\ Logged(w) /\ Logged(v) => w.token # v.token
             /\ w.op = "RELEASE" /\ v.op = "RELEASE" => w.entry # v.entry

SuppliersInv == RowsOK /\ WritesCanCommit

LEMMA WriteFields ==
    ASSUME NEW w \in Writes
    PROVE  /\ w.op \in {"NONE", "CREATE", "LIST", "RELEASE"}
           /\ w.op = "NONE" <=> w = NothingWritten
           /\ w.op = "CREATE" => w.row \in SupplierRow
           /\ w.op = "LIST" => w.row \in Entry /\ w.token \in Tokens
           /\ w.op = "RELEASE" => /\ w.token \in Tokens /\ w.entry \in Nat
                                  /\ w.by \in Managers \cup Admins
  BY DEF Writes, NothingWritten

LEMMA TransactionFields ==
    ASSUME RowsOK, NEW s \in Sessions
    PROVE  /\ tx[s] \in Transaction /\ tx[s].wrote \in Writes /\ tx[s].open \in BOOLEAN
           /\ tx[s].entry \in Seq(Entry)
  BY DEF RowsOK, Transaction

\* The last step of every request
LEMMA NoTransaction == NoTx \in Transaction /\ NoTx.wrote = NothingWritten
<1>1. NothingWritten \in Writes
  BY DEF Writes
<1>2. <<>> \in Seq(SupplierRow) /\ <<>> \in Seq(Entry)
  OBVIOUS
<1>3. QED
  BY <1>1, <1>2 DEF NoTx, Transaction

LEMMA NoneOp == NothingWritten.op = "NONE" /\ ~Logged(NothingWritten)
  BY DEF NothingWritten, Logged

\* A transaction that opens or ends, and the clock, leave the others' writes alone.
LEMMA OpenOrEnd ==
    ASSUME SuppliersInv, NEW s \in Sessions, NEW t \in Transaction,
           t.wrote = NothingWritten, tx' = [tx EXCEPT ![s] = t],
           supplier' \in Seq(SupplierRow), UNCHANGED <<entry, log>>
    PROVE  SuppliersInv'
<1>1. /\ tx' \in [Sessions -> Transaction] /\ tx'[s] = t
      /\ \A r \in Sessions \ {s} : tx'[r] = tx[r]
  BY DEF SuppliersInv, RowsOK
<1>2. RowsOK'
  BY <1>1 DEF SuppliersInv, RowsOK
<1>3. Used' = Used
  BY DEF Used
<1>4. WritesCanCommit'
  BY <1>1, <1>3, NoneOp DEF SuppliersInv, WritesCanCommit
<1>5. QED
  BY <1>2, <1>4 DEF SuppliersInv

\* A transaction writes what can be committed after all others.
LEMMA WritingKeepsInv ==
    ASSUME SuppliersInv, NEW s \in Sessions, NEW w \in Writes, Writing(s, w),
           Logged(w) => TokenFree(w.token),
           w.op = "RELEASE" =>
             /\ w.entry \in DOMAIN entry /\ ~entry[w.entry].released
             /\ w.by \in Admins \cup {entry[w.entry].registrar}
             /\ \A r \in Writers("RELEASE") : tx[r].wrote.entry # w.entry
    PROVE  SuppliersInv'
<1>1. tx[s].open /\ tx[s] \in Transaction /\ tx \in [Sessions -> Transaction]
  BY TransactionFields DEF Writing, SuppliersInv, RowsOK
<1>2. tx' = [tx EXCEPT ![s] = [tx[s] EXCEPT !.wrote = w]]
  BY <1>1 DEF Writing
<1>3. /\ [tx[s] EXCEPT !.wrote = w] \in Transaction
      /\ [tx[s] EXCEPT !.wrote = w].wrote = w
      /\ [tx[s] EXCEPT !.wrote = w].open = tx[s].open
  BY <1>1 DEF Transaction
<1>4. /\ tx' \in [Sessions -> Transaction] /\ tx'[s].wrote = w /\ tx'[s].open
      /\ \A r \in Sessions \ {s} : tx'[r] = tx[r]
  BY <1>1, <1>2, <1>3
<1>5. RowsOK'
  BY <1>4 DEF Writing, SuppliersInv, RowsOK
<1>6. Used' = Used /\ entry' = entry
  BY DEF Used, Writing
<1>7. \A r \in Sessions : tx[r].wrote \in Writes
  BY TransactionFields DEF SuppliersInv
<1>8. \A r \in Sessions \ {s} : /\ Logged(w) /\ Logged(tx[r].wrote) => w.token # tx[r].wrote.token
                                /\ w.op = "RELEASE" /\ tx[r].wrote.op = "RELEASE" =>
                                    w.entry # tx[r].wrote.entry
  <2> TAKE r \in Sessions \ {s}
  <2>1. Logged(tx[r].wrote) => tx[r].open
    BY NoneOp DEF SuppliersInv, WritesCanCommit
  <2>2. Logged(tx[r].wrote) => r \in Writers("LIST") \cup Writers("RELEASE")
    BY <2>1 DEF Writers, Logged
  <2>3. tx[r].wrote.op = "RELEASE" => r \in Writers("RELEASE")
    BY <2>1 DEF Writers, Logged
  <2>4. QED
    BY <2>2, <2>3 DEF TokenFree
<1>9. Logged(w) => w.token \notin Used
  BY DEF TokenFree
<1>10. WritesCanCommit'
  <2> SUFFICES ASSUME NEW q \in Sessions
               PROVE  LET v == tx'[q].wrote IN
        /\ v # NothingWritten => tx'[q].open
        /\ Logged(v) => v.token \notin Used
        /\ v.op = "RELEASE" =>
             /\ v.entry \in DOMAIN entry /\ ~entry[v.entry].released
             /\ v.by \in Admins \cup {entry[v.entry].registrar}
        /\ \A r \in Sessions \ {q} : LET u == tx'[r].wrote IN
             /\ Logged(v) /\ Logged(u) => v.token # u.token
             /\ v.op = "RELEASE" /\ u.op = "RELEASE" => v.entry # u.entry
    BY <1>6 DEF WritesCanCommit
  <2>1. CASE q = s
    BY <1>4, <1>8, <1>9, <2>1
  <2>2. CASE q # s
    BY <1>4, <1>8, <2>2 DEF SuppliersInv, WritesCanCommit
  <2>3. QED
    BY <2>1, <2>2
<1>11. QED
  BY <1>5, <1>10 DEF SuppliersInv

LEMMA StartsAWrite ==
    ASSUME SuppliersInv, NEW s \in Sessions, Create(s) \/ CreateBlacklist(s) \/ ReleaseBlacklist(s)
    PROVE  SuppliersInv'
<1>1. CASE Create(s)
  <2>1. PICK row \in SupplierRow : Writing(s, [op |-> "CREATE", row |-> row])
    BY <1>1 DEF Create
  <2> DEFINE w == [op |-> "CREATE", row |-> row]
  <2>2. w \in Writes /\ ~Logged(w) /\ w.op # "RELEASE"
    BY DEF Writes, Logged
  <2>3. QED
    BY <2>1, <2>2, WritingKeepsInv
<1>2. CASE CreateBlacklist(s)
  <2>1. PICK i \in DOMAIN supplier, m \in Managers, token \in Tokens, start \in 0..MaxTime,
             end \in Times \cup {Permanent} :
          /\ TokenFree(token)
          /\ Writing(s, [op |-> "LIST", token |-> token,
                row |-> [supplier |-> i, registrar |-> m, start |-> start,
                         end |-> end, released |-> FALSE, by |-> Nobody]])
    BY <1>2 DEF CreateBlacklist
  <2> DEFINE row == [supplier |-> i, registrar |-> m, start |-> start,
                     end |-> end, released |-> FALSE, by |-> Nobody]
             w == [op |-> "LIST", token |-> token, row |-> row]
  <2>2. i \in Nat /\ start \in Times
    <3>1. i \in Nat
      BY DEF SuppliersInv, RowsOK
    <3>2. start \in Times
      BY SuppliersAssumption DEF Times
    <3>3. QED
      BY <3>1, <3>2
  <2>3. row \in Entry
    BY <2>2 DEF Entry
  <2> HIDE DEF row
  <2>4. w \in Writes /\ w.token = token /\ w.op # "RELEASE"
    BY <2>3 DEF Writes
  <2>5. Writing(s, w)
    BY <2>1 DEF row
  <2>6. QED
    BY <2>1, <2>4, <2>5, WritingKeepsInv
<1>3. CASE ReleaseBlacklist(s)
  <2>1. PICK k \in DOMAIN entry, e \in Managers \cup Admins, token \in Tokens :
          /\ \A r \in Writers("RELEASE") : tx[r].wrote.entry # k
          /\ ~Latest(s, k).released /\ (e \in Admins \/ e = Latest(s, k).registrar)
          /\ TokenFree(token)
          /\ Writing(s, [op |-> "RELEASE", token |-> token, entry |-> k, by |-> e])
    BY <1>3 DEF ReleaseBlacklist
  <2> DEFINE w == [op |-> "RELEASE", token |-> token, entry |-> k, by |-> e]
  <2>2. k \in Nat
    BY DEF SuppliersInv, RowsOK
  <2>3. w \in Writes /\ w.token = token /\ w.entry = k /\ w.by = e
    BY <2>2 DEF Writes
  <2>4. ~entry[k].released /\ e \in Admins \cup {entry[k].registrar}
    BY <2>1 DEF Latest
  <2> HIDE DEF w
  <2>5. Writing(s, w)
    BY <2>1 DEF w
  <2>6. QED
    BY <2>1, <2>3, <2>4, <2>5, WritingKeepsInv
<1>4. QED
  BY <1>1, <1>2, <1>3

\* A log row is added with the token of what is committed.
LEMMA UsedToken ==
    ASSUME NEW S, log \in Seq(S), NEW x \in S, log' = Append(log, x)
    PROVE  Used' = Used \cup {x.token}
<1> DEFINE n == Len(log)
<1>1. n \in Nat /\ DOMAIN log = 1..n /\ DOMAIN log' = 1..(n + 1)
  <2>1. Len(log') = n + 1 /\ log' \in Seq(S)
    OBVIOUS
  <2>2. QED
    BY <2>1
<1>2. (\A i \in 1..n : log'[i] = log[i]) /\ log'[n + 1] = x
  BY <1>1
<1>3. 1..(n + 1) = 1..n \cup {n + 1}
  BY <1>1
<1> HIDE DEF n
<1>4. Used' = {log'[i].token : i \in 1..n} \cup {log'[n + 1].token}
  BY <1>1, <1>3 DEF Used
<1>5. QED
  BY <1>1, <1>2, <1>4 DEF Used

\* A commit about the blacklist leaves what the others have written as it should be.
LEMMA CommittedLeavesOthers ==
    ASSUME SuppliersInv, NEW s \in Sessions, tx' = [tx EXCEPT ![s] = NoTx],
           Logged(tx[s].wrote), Used' = Used \cup {tx[s].wrote.token},
           \A r \in Sessions \ {s} : tx[r].wrote.op = "RELEASE" =>
               /\ tx[r].wrote.entry \in DOMAIN entry'
               /\ entry'[tx[r].wrote.entry] = entry[tx[r].wrote.entry]
    PROVE  WritesCanCommit'
<1>1. /\ tx'[s].wrote = NothingWritten
      /\ \A r \in Sessions \ {s} : tx'[r] = tx[r]
  BY NoTransaction DEF SuppliersInv, RowsOK
<1>2. \A r \in Sessions \ {s} : Logged(tx[r].wrote) => tx[r].wrote.token # tx[s].wrote.token
  BY DEF SuppliersInv, WritesCanCommit
<1> SUFFICES ASSUME NEW q \in Sessions
             PROVE  LET v == tx'[q].wrote IN
        /\ v # NothingWritten => tx'[q].open
        /\ Logged(v) => v.token \notin Used'
        /\ v.op = "RELEASE" =>
             /\ v.entry \in DOMAIN entry' /\ ~entry'[v.entry].released
             /\ v.by \in Admins \cup {entry'[v.entry].registrar}
        /\ \A r \in Sessions \ {q} : LET u == tx'[r].wrote IN
             /\ Logged(v) /\ Logged(u) => v.token # u.token
             /\ v.op = "RELEASE" /\ u.op = "RELEASE" => v.entry # u.entry
  BY DEF WritesCanCommit
<1>3. CASE q = s
  BY <1>1, <1>3, NoneOp
<1>4. CASE q # s
  <2>1. tx'[q] = tx[q]
    BY <1>1, <1>4
  <2>2. Logged(tx[q].wrote) => tx[q].wrote.token \notin Used'
    BY <1>2, <1>4 DEF SuppliersInv, WritesCanCommit
  <2>3. tx[q].wrote.op = "RELEASE" =>
             /\ tx[q].wrote.entry \in DOMAIN entry' /\ ~entry'[tx[q].wrote.entry].released
             /\ tx[q].wrote.by \in Admins \cup {entry'[tx[q].wrote.entry].registrar}
    BY <1>4 DEF SuppliersInv, WritesCanCommit
  <2>4. \A r \in Sessions \ {q} : LET u == tx'[r].wrote IN
             /\ Logged(tx[q].wrote) /\ Logged(u) => tx[q].wrote.token # u.token
             /\ tx[q].wrote.op = "RELEASE" /\ u.op = "RELEASE" => tx[q].wrote.entry # u.entry
    BY <1>1, NoneOp DEF SuppliersInv, WritesCanCommit
  <2>5. tx[q].wrote # NothingWritten => tx[q].open
    BY DEF SuppliersInv, WritesCanCommit
  <2>6. QED
    BY <2>1, <2>2, <2>3, <2>4, <2>5
<1>5. QED
  BY <1>3, <1>4

\* Release of entry k, as the log tells it
Released(k) ==
    /\ k \in DOMAIN entry' /\ ~entry[k].released
    /\ entry'[k] = [entry[k] EXCEPT !.released = TRUE, !.by = entry'[k].by]
    /\ entry'[k].by \in Admins \cup {entry[k].registrar}
    /\ \E token \in Tokens \ Used :
         log' = Append(log, [token |-> token, released |-> TRUE, entry |-> k])

LEMMA CommitKeepsInv ==
    ASSUME SuppliersInv, NEW s \in Sessions, Commit(s)
    PROVE  /\ SuppliersInv'
           /\ \A k \in DOMAIN entry : k \in DOMAIN entry' /\ (entry'[k] # entry[k] => Released(k))
<1> DEFINE w == tx[s].wrote
           Row == [token : Tokens, released : BOOLEAN, entry : Nat]
           n == Len(entry)
<1>1. w \in Writes /\ w # NothingWritten /\ tx' = [tx EXCEPT ![s] = NoTx]
  BY TransactionFields DEF Commit, SuppliersInv
<1>2. /\ entry \in Seq(Entry) /\ log \in Seq(Row) /\ supplier \in Seq(SupplierRow)
      /\ tx' \in [Sessions -> Transaction] /\ n \in Nat /\ DOMAIN entry = 1..n
  BY <1>1, NoTransaction DEF SuppliersInv, RowsOK
<1>3. CASE w.op = "CREATE"
  <2>1. /\ supplier' = Append(supplier, w.row) /\ UNCHANGED <<entry, log>>
        /\ w.row \in SupplierRow
    BY <1>1, <1>3, WriteFields DEF Commit
  <2>2. supplier' \in Seq(SupplierRow)
    BY <1>2, <2>1
  <2>3. SuppliersInv'
    BY <1>1, <2>1, <2>2, OpenOrEnd, NoTransaction
  <2>4. QED
    BY <2>1, <2>3
<1>4. CASE w.op = "LIST"
  <2> DEFINE x == [token |-> w.token, released |-> FALSE, entry |-> Len(entry) + 1]
  <2>1. /\ entry' = Append(entry, w.row) /\ log' = Append(log, x) /\ supplier' = supplier
        /\ w.row \in Entry /\ w.token \in Tokens
    BY <1>1, <1>4, WriteFields DEF Commit
  <2>2. x \in Row /\ x.token = w.token
    BY <1>2, <2>1
  <2> HIDE DEF x, Row
  <2>3. entry' \in Seq(Entry) /\ log' \in Seq(Row)
    BY <1>2, <2>1, <2>2
  <2>4. Used' = Used \cup {w.token}
    BY <1>2, <2>1, <2>2, UsedToken
  <2>5. \A k \in 1..n : k \in DOMAIN entry' /\ entry'[k] = entry[k]
    BY <1>2, <2>1
  <2>6. WritesCanCommit'
    <3>1. \A r \in Sessions : tx[r].wrote.op = "RELEASE" => tx[r].wrote.entry \in 1..n
      BY <1>2 DEF SuppliersInv, WritesCanCommit
    <3>2. Logged(w)
      BY <1>4 DEF Logged
    <3>3. QED
      BY <1>1, <2>4, <2>5, <3>1, <3>2, CommittedLeavesOthers
  <2>7. SuppliersInv'
    BY <1>2, <2>1, <2>3, <2>6 DEF SuppliersInv, RowsOK, Row
  <2>8. QED
    BY <1>2, <2>5, <2>7
<1>5. CASE w.op = "RELEASE"
  <2> DEFINE x == [token |-> w.token, released |-> TRUE, entry |-> w.entry]
             c == w.entry
  <2>1. /\ entry' = [entry EXCEPT ![c].released = TRUE, ![c].by = w.by]
        /\ log' = Append(log, x) /\ supplier' = supplier
        /\ w.token \in Tokens /\ c \in Nat /\ w.by \in Managers \cup Admins
    BY <1>1, <1>5, WriteFields DEF Commit
  <2>2. /\ c \in 1..n /\ ~entry[c].released /\ w.by \in Admins \cup {entry[c].registrar}
        /\ w.token \notin Used
    BY <1>2, <1>5 DEF SuppliersInv, WritesCanCommit, Logged
  <2>3. x \in Row /\ x.token = w.token
    BY <2>1
  <2> HIDE DEF x, Row
  <2>4. entry[c] \in Entry
    BY <1>2, <2>2
  <2>5. [entry[c] EXCEPT !.released = TRUE, !.by = w.by] \in Entry
    BY <2>1, <2>4 DEF Entry
  <2>6. entry' = [entry EXCEPT ![c] = [entry[c] EXCEPT !.released = TRUE, !.by = w.by]]
    BY <1>2, <2>1, <2>2
  <2>7. /\ DOMAIN entry' = 1..n /\ entry'[c] = [entry[c] EXCEPT !.released = TRUE, !.by = w.by]
        /\ \A k \in 1..n : k # c => entry'[k] = entry[k]
    BY <1>2, <2>2, <2>6
  <2>8. entry' \in Seq(Entry) /\ log' \in Seq(Row)
    BY <1>2, <2>1, <2>2, <2>3, <2>5, <2>6
  <2>9. Used' = Used \cup {w.token}
    BY <1>2, <2>1, <2>3, UsedToken
  <2>10. WritesCanCommit'
    <3>1. \A r \in Sessions \ {s} : tx[r].wrote.op = "RELEASE" =>
            tx[r].wrote.entry \in 1..n /\ tx[r].wrote.entry # c
      BY <1>2, <1>5 DEF SuppliersInv, WritesCanCommit
    <3>2. Logged(w)
      BY <1>5 DEF Logged
    <3>3. QED
      BY <1>1, <2>7, <2>9, <3>1, <3>2, CommittedLeavesOthers
  <2>11. SuppliersInv'
    BY <1>2, <2>1, <2>8, <2>10 DEF SuppliersInv, RowsOK, Row
  <2>12. Released(c)
    <3>1. entry'[c].by = w.by
      BY <2>4, <2>7 DEF Entry
    <3>2. w.token \in Tokens \ Used
      BY <2>1, <2>2
    <3>3. log' = Append(log, [token |-> w.token, released |-> TRUE, entry |-> c])
      BY <2>1 DEF x
    <3>4. QED
      BY <2>2, <2>7, <3>1, <3>2, <3>3 DEF Released
  <2>13. QED
    BY <1>2, <2>7, <2>11, <2>12
<1>6. QED
  BY <1>1, <1>3, <1>4, <1>5, WriteFields

LEMMA SuppliersInvInit == SuppliersInit => SuppliersInv
<1> SUFFICES ASSUME SuppliersInit PROVE SuppliersInv
  OBVIOUS
<1>1. RowsOK
  BY NoTransaction DEF SuppliersInit, RowsOK
<1>2. \A s \in Sessions : tx[s].wrote = NothingWritten
  BY NoTransaction DEF SuppliersInit
<1>3. WritesCanCommit
  BY <1>2, NoneOp DEF WritesCanCommit
<1>4. QED
  BY <1>1, <1>3 DEF SuppliersInv

\* An entry is as it was, or released, whatever step is taken.
EntriesStay == \A k \in DOMAIN entry : k \in DOMAIN entry' /\ (entry'[k] # entry[k] => Released(k))

LEMMA SuppliersStep == SuppliersInv /\ [SuppliersNext]_supplierVars => SuppliersInv' /\ EntriesStay
<1>1. ASSUME SuppliersInv, SuppliersNext PROVE SuppliersInv' /\ EntriesStay
  <2>1. CASE Tick
    <3>1. SuppliersInv'
      BY <1>1, <2>1 DEF Tick, SuppliersInv, RowsOK, WritesCanCommit, Used
    <3>2. QED
      BY <2>1, <3>1 DEF Tick, EntriesStay
  <2>2. ASSUME NEW s \in Sessions, Open(s) PROVE SuppliersInv' /\ EntriesStay
    <3> DEFINE t == [open |-> TRUE, supplier |-> supplier, entry |-> entry, tokens |-> Used,
                     wrote |-> NothingWritten]
    <3>1. tx' = [tx EXCEPT ![s] = t] /\ UNCHANGED <<supplier, entry, log>>
      BY <2>2 DEF Open
    <3>2. Used \subseteq Tokens
      <4> DEFINE Row == [token : Tokens, released : BOOLEAN, entry : Nat]
      <4>1. log \in Seq(Row)
        BY <1>1 DEF SuppliersInv, RowsOK
      <4>2. \A x \in Row : x.token \in Tokens
        OBVIOUS
      <4> HIDE DEF Row
      <4>3. \A i \in DOMAIN log : log[i] \in Row
        BY <4>1
      <4>4. QED
        BY <4>2, <4>3 DEF Used
    <3>3. t \in Transaction /\ t.wrote = NothingWritten
      BY <1>1, <3>2 DEF Transaction, SuppliersInv, RowsOK, Writes
    <3>4. supplier' \in Seq(SupplierRow)
      BY <1>1, <3>1 DEF SuppliersInv, RowsOK
    <3> HIDE DEF t
    <3>5. QED
      BY <1>1, <3>1, <3>3, <3>4, OpenOrEnd DEF EntriesStay
  <2>3. ASSUME NEW s \in Sessions, Create(s) \/ CreateBlacklist(s) \/ ReleaseBlacklist(s)
        PROVE  SuppliersInv' /\ EntriesStay
    <3>1. entry' = entry
      BY <2>3 DEF Create, CreateBlacklist, ReleaseBlacklist, Writing
    <3>2. QED
      BY <1>1, <2>3, <3>1, StartsAWrite DEF EntriesStay
  <2>4. ASSUME NEW s \in Sessions, Commit(s) PROVE SuppliersInv' /\ EntriesStay
    BY <1>1, <2>4, CommitKeepsInv DEF EntriesStay
  <2>5. ASSUME NEW s \in Sessions, Rollback(s) PROVE SuppliersInv' /\ EntriesStay
    <3>1. tx' = [tx EXCEPT ![s] = NoTx] /\ UNCHANGED <<supplier, entry, log>>
      BY <2>5 DEF Rollback
    <3>2. supplier' \in Seq(SupplierRow)
      BY <1>1, <3>1 DEF SuppliersInv, RowsOK
    <3>3. QED
      BY <1>1, <3>1, <3>2, OpenOrEnd, NoTransaction DEF EntriesStay
  <2>6. QED
    BY <1>1, <2>1, <2>2, <2>3, <2>4, <2>5 DEF SuppliersNext
<1>2. ASSUME SuppliersInv, UNCHANGED supplierVars PROVE SuppliersInv' /\ EntriesStay
  BY <1>2 DEF supplierVars, SuppliersInv, RowsOK, WritesCanCommit, Used, EntriesStay
<1>3. QED
  BY <1>1, <1>2

\* With any number of open transactions, suppliers and entries: an entry of the
\* blacklist changes only when it is released, by its registrar or an
\* administrator, once, with a log row under a token that was not used before.
THEOREM EntriesAreReleasedForGood == SuppliersSpec => ReleasedForGood
<1>1. EntriesStay =>
        \A k \in DOMAIN entry : /\ k \in DOMAIN entry'
         /\ entry'[k] # entry[k] =>
              /\ ~entry[k].released
              /\ entry'[k] = [entry[k] EXCEPT !.released = TRUE, !.by = entry'[k].by]
              /\ entry'[k].by \in Admins \cup {entry[k].registrar}
              /\ \E token \in Tokens \ Used :
                   log' = Append(log, [token |-> token, released |-> TRUE,
                                       entry |-> k])
  BY DEF EntriesStay, Released
<1>2. QED
  BY <1>1, SuppliersInvInit, SuppliersStep, PTL DEF SuppliersSpec, ReleasedForGood

\* The rows that others refer to exist, and so do those that a write refers to.
RowsExist ==
    /\ now \in Times
    /\ \A i \in DOMAIN entry : entry[i].supplier \in DOMAIN supplier
    /\ \A i \in DOMAIN log : log[i].entry \in DOMAIN entry
    /\ \A s \in Sessions :
        tx[s].wrote.op = "LIST" => tx[s].wrote.row.supplier \in DOMAIN supplier

LEMMA OneRowMore ==
    ASSUME NEW S, NEW q \in Seq(S), NEW x \in S
    PROVE  /\ DOMAIN q = 1..Len(q) /\ DOMAIN Append(q, x) = 1..(Len(q) + 1) /\ Len(q) \in Nat
           /\ \A i \in 1..Len(q) : Append(q, x)[i] = q[i]
           /\ Append(q, x)[Len(q) + 1] = x
           /\ \A i \in DOMAIN Append(q, x) : i \in DOMAIN q \/ i = Len(q) + 1
<1>1. /\ Len(q) \in Nat /\ DOMAIN q = 1..Len(q)
      /\ Append(q, x) \in Seq(S) /\ Len(Append(q, x)) = Len(q) + 1
      /\ \A i \in 1..Len(q) : Append(q, x)[i] = q[i]
      /\ Append(q, x)[Len(q) + 1] = x
  OBVIOUS
<1>2. DOMAIN Append(q, x) = 1..(Len(q) + 1)
  BY <1>1
<1>3. \A i \in 1..(Len(q) + 1) : i \in 1..Len(q) \/ i = Len(q) + 1
  BY <1>1
<1>4. QED
  BY <1>1, <1>2, <1>3

\* A transaction that opens, writes or ends, and commits nothing
LEMMA WrittenRowsExist ==
    ASSUME SuppliersInv, RowsExist, NEW s \in Sessions, NEW t, tx' = [tx EXCEPT ![s] = t],
           t.wrote.op = "LIST" => t.wrote.row.supplier \in DOMAIN supplier,
           UNCHANGED <<now, supplier, entry, log>>
    PROVE  RowsExist'
<1>1. \A r \in Sessions : tx'[r] = IF r = s THEN t ELSE tx[r]
  BY DEF SuppliersInv, RowsOK
<1>2. \A r \in Sessions :
        tx'[r].wrote.op = "LIST" => tx'[r].wrote.row.supplier \in DOMAIN supplier
  BY <1>1 DEF RowsExist
<1>3. QED
  BY <1>2 DEF RowsExist

LEMMA CommittedRowsExist ==
    ASSUME SuppliersInv, RowsExist, NEW s \in Sessions, Commit(s)
    PROVE  RowsExist'
<1> PICK w : w = tx[s].wrote
  OBVIOUS
<1>1. w \in Writes /\ tx' = [tx EXCEPT ![s] = NoTx] /\ now' = now
  BY TransactionFields DEF Commit, SuppliersInv
<1>2. \A r \in Sessions : tx'[r].wrote.op = "LIST" => tx'[r] = tx[r]
  <2>1. \A r \in Sessions : tx'[r] = IF r = s THEN NoTx ELSE tx[r]
    BY <1>1 DEF SuppliersInv, RowsOK
  <2>2. NoTx.wrote.op # "LIST"
    BY NoTransaction, NoneOp
  <2>3. QED
    BY <2>1, <2>2
<1> PICK n \in Nat : n = Len(entry)
  BY DEF SuppliersInv, RowsOK
<1>3. /\ entry \in Seq(Entry) /\ supplier \in Seq(SupplierRow)
      /\ log \in Seq([token : Tokens, released : BOOLEAN, entry : Nat])
      /\ DOMAIN entry = 1..n
  BY DEF SuppliersInv, RowsOK
<1>4. CASE w.op = "CREATE"
  <2>1. supplier' = Append(supplier, w.row) /\ w.row \in SupplierRow /\ UNCHANGED <<entry, log>>
    BY <1>1, <1>4, WriteFields DEF Commit
  <2>2. DOMAIN supplier \subseteq DOMAIN supplier'
    BY <1>3, <2>1, OneRowMore
  <2>3. QED
    BY <1>1, <1>2, <2>1, <2>2 DEF RowsExist
<1>5. CASE w.op = "LIST"
  <2> PICK x : x = [token |-> w.token, released |-> FALSE, entry |-> n + 1]
    OBVIOUS
  <2>1. /\ entry' = Append(entry, w.row) /\ log' = Append(log, x) /\ supplier' = supplier
        /\ w.row \in Entry /\ w.token \in Tokens
    BY <1>1, <1>5, WriteFields DEF Commit
  <2>2. x \in [token : Tokens, released : BOOLEAN, entry : Nat] /\ x.entry = n + 1
    BY <2>1
  <2>3. w.row.supplier \in DOMAIN supplier
    BY <1>5 DEF RowsExist
  <2>4. /\ DOMAIN entry' = 1..(n + 1) /\ entry'[n + 1] = w.row
        /\ \A i \in DOMAIN entry' : i \in DOMAIN entry \/ i = n + 1
        /\ \A i \in DOMAIN entry : entry'[i] = entry[i]
    BY <1>3, <2>1, OneRowMore
  <2>5. \A i \in DOMAIN entry' : entry'[i].supplier \in DOMAIN supplier'
    BY <2>1, <2>3, <2>4 DEF RowsExist
  <2>6. \A i \in DOMAIN log' : log'[i] = x \/ (i \in DOMAIN log /\ log'[i] = log[i])
    BY <1>3, <2>1, <2>2, OneRowMore
  <2>7. DOMAIN entry \subseteq DOMAIN entry' /\ n + 1 \in DOMAIN entry'
    BY <1>3, <2>4
  <2>8. \A i \in DOMAIN log' : log'[i].entry \in DOMAIN entry'
    BY <2>2, <2>6, <2>7 DEF RowsExist
  <2>9. QED
    BY <1>1, <1>2, <2>1, <2>5, <2>8 DEF RowsExist
<1>6. CASE w.op = "RELEASE"
  <2> PICK x : x = [token |-> w.token, released |-> TRUE, entry |-> w.entry]
    OBVIOUS
  <2>1. /\ entry' = [entry EXCEPT ![w.entry].released = TRUE, ![w.entry].by = w.by]
        /\ log' = Append(log, x) /\ supplier' = supplier
        /\ w.token \in Tokens /\ w.entry \in Nat
    BY <1>1, <1>6, WriteFields DEF Commit
  <2>2. x \in [token : Tokens, released : BOOLEAN, entry : Nat] /\ x.entry = w.entry
    BY <2>1
  <2>3. w.entry \in DOMAIN entry
    BY <1>6 DEF SuppliersInv, WritesCanCommit
  <2>4. entry[w.entry] \in Entry
    BY <1>3, <2>3
  <2>5. [entry[w.entry] EXCEPT !.released = TRUE, !.by = w.by].supplier = entry[w.entry].supplier
    BY <2>4 DEF Entry
  <2>6. entry' = [entry EXCEPT ![w.entry] = [entry[w.entry] EXCEPT !.released = TRUE, !.by = w.by]]
    BY <1>3, <2>1, <2>3
  <2>7. /\ DOMAIN entry' = DOMAIN entry
        /\ \A i \in DOMAIN entry : entry'[i].supplier = entry[i].supplier
    BY <2>5, <2>6
  <2>8. \A i \in DOMAIN log' : log'[i] = x \/ (i \in DOMAIN log /\ log'[i] = log[i])
    BY <1>3, <2>1, <2>2, OneRowMore
  <2>9. \A i \in DOMAIN log' : log'[i].entry \in DOMAIN entry'
    BY <2>2, <2>3, <2>7, <2>8 DEF RowsExist
  <2>10. QED
    BY <1>1, <1>2, <2>1, <2>7, <2>9 DEF RowsExist
<1>7. w.op \in {"CREATE", "LIST", "RELEASE"}
  BY <1>1, WriteFields DEF Commit
<1>8. QED
  BY <1>4, <1>5, <1>6, <1>7

LEMMA RowsExistInit == SuppliersInit => RowsExist
<1> SUFFICES ASSUME SuppliersInit PROVE RowsExist
  OBVIOUS
<1>1. now \in Times
  BY SuppliersAssumption DEF SuppliersInit, Times
<1>2. DOMAIN entry = {} /\ DOMAIN log = {}
  BY DEF SuppliersInit
<1>3. \A s \in Sessions : tx[s].wrote.op # "LIST"
  BY NoTransaction, NoneOp DEF SuppliersInit
<1>4. QED
  BY <1>1, <1>2, <1>3 DEF RowsExist

LEMMA RowsExistStep == SuppliersInv /\ RowsExist /\ [SuppliersNext]_supplierVars => RowsExist'
<1> SUFFICES ASSUME SuppliersInv, RowsExist, [SuppliersNext]_supplierVars PROVE RowsExist'
  OBVIOUS
<1>1. CASE UNCHANGED supplierVars
  BY <1>1 DEF supplierVars, RowsExist
<1>2. CASE Tick
  <2>1. now' \in Times
    BY <1>2, SuppliersAssumption DEF Tick, Times, RowsExist
  <2>2. QED
    BY <1>2, <2>1 DEF Tick, RowsExist
<1>3. ASSUME NEW s \in Sessions, Open(s) PROVE RowsExist'
  <2> PICK t : t = [open |-> TRUE, supplier |-> supplier, entry |-> entry, tokens |-> Used,
                    wrote |-> NothingWritten]
    OBVIOUS
  <2>1. t.wrote.op # "LIST"
    BY NoneOp
  <2>2. QED
    BY <1>3, <2>1, WrittenRowsExist DEF Open
<1>4. ASSUME NEW s \in Sessions, Rollback(s) PROVE RowsExist'
  <2>1. NoTx.wrote.op # "LIST"
    BY NoTransaction, NoneOp
  <2>2. QED
    BY <1>4, <2>1, WrittenRowsExist DEF Rollback
<1>5. ASSUME NEW s \in Sessions, NEW w, Writing(s, w),
             w.op = "LIST" => w.row.supplier \in DOMAIN supplier
      PROVE  RowsExist'
  <2> PICK t : t = [tx[s] EXCEPT !.wrote = w]
    OBVIOUS
  <2>1. tx[s] \in Transaction
    BY TransactionFields DEF SuppliersInv
  <2>2. t.wrote = w /\ tx' = [tx EXCEPT ![s] = t]
    BY <1>5, <2>1 DEF Writing, Transaction, SuppliersInv, RowsOK
  <2>3. QED
    BY <1>5, <2>2, WrittenRowsExist DEF Writing
<1>6. ASSUME NEW s \in Sessions, Create(s) \/ CreateBlacklist(s) \/ ReleaseBlacklist(s)
      PROVE  RowsExist'
  <2>1. PICK w : Writing(s, w) /\ (w.op = "LIST" => w.row.supplier \in DOMAIN supplier)
    <3>1. CASE Create(s)
      BY <3>1 DEF Create
    <3>2. CASE CreateBlacklist(s)
      BY <3>2 DEF CreateBlacklist
    <3>3. CASE ReleaseBlacklist(s)
      BY <3>3 DEF ReleaseBlacklist
    <3>4. QED
      BY <1>6, <3>1, <3>2, <3>3
  <2>2. QED
    BY <1>5, <2>1
<1>7. QED
  BY <1>1, <1>2, <1>3, <1>4, <1>6, CommittedRowsExist DEF SuppliersNext

LEMMA RowsHaveTypes == SuppliersInv /\ RowsExist => SuppliersTypeOK
  BY DEF SuppliersInv, RowsOK, RowsExist, SuppliersTypeOK, LogRow

\* The clock and the rows stay of their types, every entry of the blacklist is one of
\* a supplier, and every row of the log one of an entry: for any number of them.
THEOREM SuppliersTypeCorrect == SuppliersSpec => []SuppliersTypeOK
<1>1. QED
  BY RowsHaveTypes, SuppliersInvInit, SuppliersStep, RowsExistInit, RowsExistStep, PTL DEF SuppliersSpec

-----------------------------------------------------------------------------
(***************************************************************************)
(* Recommendation.                                                         *)
(***************************************************************************)
\* A user with a role of a profile, or an administrator, is permitted its search.
LEMMA RoleIsPermitted ==
    ASSUME NEW p \in Profiles, NEW roles, RequiredRole[p] \in roles \/ "ADMIN" \in roles
    PROVE  roles \cap Permitted(p) # {}
<1>1. RequiredRole[p] \in Permitted(p) /\ "ADMIN" \in Permitted(p)
  BY DEF Profiles, RequiredRole, Permitted
<1>2. QED
  BY <1>1

LEMMA ResolvedProfile ==
    ASSUME NEW roles \in SUBSET UserRoles, NEW explicit \in Profiles \cup {"NONE"},
           NEW status \in DOMAIN ProfileOfStatus, Resolve(roles, explicit, status) # "NONE"
    PROVE  /\ Resolve(roles, explicit, status) \in Profiles
           /\ roles \cap Permitted(Resolve(roles, explicit, status)) # {}
<1>1. CASE explicit # "NONE"
  BY <1>1, RoleIsPermitted DEF Resolve
<1>2. CASE explicit = "NONE" /\ Cardinality(Applicable(roles)) = 1
  <2>1. Applicable(roles) \subseteq Profiles
    BY DEF Applicable
  <2>2. Applicable(roles) # {}
    <3>1. Cardinality({}) = 0
      BY FS_EmptySet
    <3>2. QED
      BY <1>2, <3>1
  <2>3. \E p \in Profiles : p \in Applicable(roles)
    BY <2>1, <2>2
  <2>4. Resolve(roles, explicit, status) \in Profiles \cap Applicable(roles)
    BY <1>2, <2>3 DEF Resolve
  <2>5. QED
    BY <2>4, RoleIsPermitted DEF Applicable
<1>3. CASE explicit = "NONE" /\ Cardinality(Applicable(roles)) # 1
  <2>1. Resolve(roles, explicit, status) \in Applicable(roles)
    BY <1>3 DEF Resolve
  <2>2. QED
    BY <2>1, RoleIsPermitted DEF Applicable
<1>4. QED
  BY <1>1, <1>2, <1>3

Fields == DeviceFields \cup SupplierFields
EvidenceItem == [row : Rows, stage : 1..4]
Candidates == [refs : SUBSET Rows, shown : Nat, best : Nat]

AdviceRecord ==
    [phase : {"ASKED", "RESOLVED", "SEARCH", "CLARIFY", "ANSWERED", "FAILED"},
     profile : Profiles \cup {"NONE"}, permitted : BOOLEAN, query : SUBSET Fields,
     seller : Sellers \cup {"NONE"}, name : {"N1", "N2", "UNKNOWN", "NONE"},
     agrees : [Rows -> SUBSET Fields], sold : [Rows -> Sellers], stage : 1..5,
     asked : SUBSET SUBSET Fields, evidence : Seq(EvidenceItem), candidates : Seq(Candidates)]

\* The query of a search for contracts names its supplier twice, or by its name.
ContractsQuery ==
    advice.profile = "PURCHASER_CONTRACT" =>
        /\ advice.query \in {{}, {"supplier_name"}, SupplierFields}
        /\ advice.query = SupplierFields =>
            advice.seller \in Sellers /\ advice.name = NameOf[advice.seller]

\* A row of the evidence was found by its stage, and so was every newer one that
\* the stage matches.
FoundByStage(e) ==
    /\ e.stage <= Len(Stages(advice.profile))
    /\ e.row \in Matches(e.stage)
    /\ advice.query # {} => ~Unscoped(e.stage)
    /\ ~Unscoped(e.stage) => Arguments(e.stage) \ {"brand", "model"} # {}
    /\ ~TooMany(e.stage)
    /\ \A r \in Matches(e.stage) : r < e.row => HasRow(advice.evidence, r)

AdviceInv ==
    /\ advice \in AdviceRecord
    /\ ResolvedIsPermitted
    /\ advice.phase \in {"ASKED", "RESOLVED"} => advice.evidence = <<>>
    /\ ContractsQuery
    /\ \A i \in DOMAIN advice.evidence : FoundByStage(advice.evidence[i])
    /\ \A i \in DOMAIN advice.candidates : LET c == advice.candidates[i] IN
        \A r \in c.refs : c.shown <= r

LEMMA RowsAreFinite == Rows \subseteq Nat /\ IsFiniteSet(Rows)
<1>1. HistorySize \in Nat
  BY RecommendationAssumption
<1>2. QED
  BY <1>1, FS_Interval DEF Rows

LEMMA StageCount == \A p \in Profiles \cup {"NONE"} : Len(Stages(p)) \in 3..4
  BY DEF Stages

LEMMA StageNumber ==
    ASSUME NEW p \in Profiles \cup {"NONE"}, NEW stage \in 1..5, stage <= Len(Stages(p))
    PROVE  stage \in 1..4
<1>1. Len(Stages(p)) \in 3..4
  BY StageCount
<1>2. \A n \in 3..4 : stage <= n => stage \in 1..4
  OBVIOUS
<1>3. QED
  BY <1>1, <1>2

Ascending(rows, n) == \A i, j \in 1..n : i < j => rows[i] < rows[j]
HasAll(rows, n, S) == \A x \in S : \E i \in 1..n : rows[i] = x

\* The rows in their order are all of them.
LEMMA SortedHasAll ==
    ASSUME NEW S, S \subseteq Nat, IsFiniteSet(S),
           NEW n \in Nat, n = Cardinality(S), NEW rows \in [1..n -> S],
           Ascending(rows, n)
    PROVE  HasAll(rows, n, S)
<1>1. rows \in Injection(1..n, S)
  <2> SUFFICES ASSUME NEW i \in 1..n, NEW j \in 1..n, rows[i] = rows[j] PROVE i = j
    BY DEF Injection, IsInjective
  <2>1. rows[i] \in Nat /\ rows[j] \in Nat
    OBVIOUS
  <2>2. ~(i < j) /\ ~(j < i)
    BY <2>1 DEF Ascending
  <2>3. QED
    BY <2>2
<1>2. Cardinality(1..n) = n
  BY FS_Interval
<1>3. rows \in Surjection(1..n, S)
  BY <1>1, <1>2, FS_Injection
<1>4. QED
  BY <1>3 DEF Surjection, HasAll

LEMMA QuietAdvice ==
    /\ Quiet \in AdviceRecord
    /\ Quiet.phase = "ASKED" /\ Quiet.profile = "NONE"
    /\ Quiet.evidence = <<>> /\ Quiet.candidates = <<>>
<1>1. [r \in Rows |-> {}] \in [Rows -> SUBSET Fields] /\ [r \in Rows |-> "S1"] \in [Rows -> Sellers]
  BY DEF Sellers
<1>2. QED
  BY <1>1 DEF Quiet, AdviceRecord

LEMMA AdviceInvInit == RecommendationInit => AdviceInv
<1> SUFFICES ASSUME RecommendationInit PROVE AdviceInv
  OBVIOUS
<1>1. /\ advice \in AdviceRecord /\ advice.phase = "ASKED" /\ advice.profile = "NONE"
      /\ advice.evidence = <<>> /\ advice.candidates = <<>>
  BY QuietAdvice DEF RecommendationInit
<1>2. QED
  BY <1>1 DEF AdviceInv, ResolvedIsPermitted, ContractsQuery

LEMMA ResolveKeepsInv == AdviceInv /\ ResolveProfile => AdviceInv'
<1> SUFFICES ASSUME AdviceInv, ResolveProfile PROVE AdviceInv'
  OBVIOUS
<1>1. PICK roles \in SUBSET UserRoles, status \in DOMAIN ProfileOfStatus,
           explicit \in Profiles \cup {"NONE"} :
        LET profile == Resolve(roles, explicit, status)
        IN  advice' = [Quiet EXCEPT !.profile = profile,
                !.phase = IF profile = "NONE" THEN "CLARIFY" ELSE "RESOLVED",
                !.permitted = profile # "NONE" /\ roles \cap Permitted(profile) # {}]
  BY DEF ResolveProfile
<1> DEFINE profile == Resolve(roles, explicit, status)
<1>2. profile # "NONE" => profile \in Profiles /\ roles \cap Permitted(profile) # {}
  BY ResolvedProfile
<1> HIDE DEF profile
<1>3. advice' = [Quiet EXCEPT !.profile = profile,
                !.phase = IF profile = "NONE" THEN "CLARIFY" ELSE "RESOLVED",
                !.permitted = profile # "NONE" /\ roles \cap Permitted(profile) # {}]
  BY <1>1 DEF profile
<1>4. profile \in Profiles \cup {"NONE"}
  BY <1>2
<1>5. DEFINE p == profile # "NONE" /\ roles \cap Permitted(profile) # {}
<1>6. p \in BOOLEAN /\ (profile # "NONE" => p)
  BY <1>2
<1> HIDE DEF p
<1>7. advice' = [Quiet EXCEPT !.profile = profile,
                !.phase = IF profile = "NONE" THEN "CLARIFY" ELSE "RESOLVED", !.permitted = p]
  BY <1>3 DEF p
<1>8. /\ advice' \in AdviceRecord
      /\ advice'.phase = "RESOLVED" => advice'.permitted
      /\ advice'.evidence = <<>> /\ advice'.candidates = <<>>
      /\ advice'.query = {}
  <2>1. Quiet.query = {}
    BY DEF Quiet
  <2>2. QED
    BY <1>4, <1>6, <1>7, <2>1, QuietAdvice DEF AdviceRecord
<1>9. QED
  BY <1>8 DEF AdviceInv, ResolvedIsPermitted, ContractsQuery, SupplierFields

\* A search starts without evidence.
LEMMA StartsKeepsInv ==
    ASSUME AdviceInv, advice.phase = "RESOLVED",
           NEW query \in QueryFields(advice.profile), NEW seller \in Sellers \cup {"NONE"},
           NEW name \in {"N1", "N2", "UNKNOWN", "NONE"},
           NEW agrees \in [Rows -> SUBSET Fields], NEW sold \in [Rows -> Sellers],
           query = SupplierFields /\ advice.profile = "PURCHASER_CONTRACT" =>
                seller \in Sellers /\ name = NameOf[seller],
           StartsSearch(query, seller, name, agrees, sold)
    PROVE  AdviceInv'
<1>1. query \in SUBSET Fields
  BY DEF QueryFields, Fields, DeviceFields, SupplierFields
<1> DEFINE status == IF LacksDevice(advice.profile, query) THEN "CLARIFY" ELSE "SEARCH"
<1>2. status \in {"CLARIFY", "SEARCH"}
  OBVIOUS
<1>3. advice' = [advice EXCEPT !.query = query, !.seller = seller,
        !.name = name, !.agrees = agrees, !.sold = sold, !.phase = status]
  BY DEF StartsSearch
<1> HIDE DEF status
<1>4. advice \in AdviceRecord /\ advice.evidence = <<>>
  BY DEF AdviceInv
<1>5. /\ advice' \in AdviceRecord /\ advice'.evidence = advice.evidence
      /\ advice'.phase = status /\ advice'.profile = advice.profile
      /\ advice'.query = query /\ advice'.seller = seller /\ advice'.name = name
      /\ advice'.candidates = advice.candidates
  BY <1>1, <1>2, <1>3, <1>4 DEF AdviceRecord
<1>6. ContractsQuery'
  BY <1>5 DEF ContractsQuery, QueryFields
<1>7. ResolvedIsPermitted'
  BY <1>2, <1>5 DEF ResolvedIsPermitted
<1>8. DOMAIN advice'.evidence = {}
  BY <1>4, <1>5
<1>9. \A i \in DOMAIN advice'.candidates : LET c == advice'.candidates[i] IN
        \A r \in c.refs : c.shown <= r
  BY <1>5 DEF AdviceInv
<1>10. QED
  BY <1>2, <1>4, <1>5, <1>6, <1>7, <1>8, <1>9 DEF AdviceInv

LEMMA AdviceQueryKeepsInv == AdviceInv /\ (QueryDevices \/ QueryContracts) => AdviceInv'
<1> SUFFICES ASSUME AdviceInv, QueryDevices \/ QueryContracts PROVE AdviceInv'
  OBVIOUS
<1>0. /\ Quiet.sold \in [Rows -> Sellers] /\ Quiet.agrees \in [Rows -> SUBSET Fields]
  BY QuietAdvice DEF AdviceRecord
<1>1. CASE QueryDevices
  <2>1. PICK query \in QueryFields(advice.profile) : \E agrees \in [Rows -> SUBSET query] :
        StartsSearch(query, "NONE", "NONE", agrees, Quiet.sold)
    BY <1>1 DEF QueryDevices
  <2>2. PICK agrees \in [Rows -> SUBSET query] :
        StartsSearch(query, "NONE", "NONE", agrees, Quiet.sold)
    BY <2>1
  <2>3. query \subseteq Fields
    BY DEF QueryFields, Fields, DeviceFields, SupplierFields
  <2>4. agrees \in [Rows -> SUBSET Fields]
    BY <2>3
  <2>5. advice.phase = "RESOLVED" /\ advice.profile # "PURCHASER_CONTRACT"
    BY <1>1 DEF QueryDevices
  <2>6. QED
    BY <1>0, <2>2, <2>4, <2>5, StartsKeepsInv
<1>2. CASE QueryContracts
  <2>1. PICK query \in QueryFields(advice.profile), sold \in [Rows -> Sellers] :
       \E seller \in IF "supplier_id" \in query THEN Sellers ELSE {"NONE"} :
       \E name \in IF seller # "NONE" THEN {NameOf[seller]}
                   ELSE IF query = {} THEN {"NONE"} ELSE {"N1", "N2", "UNKNOWN"} :
        StartsSearch(query, seller, name, Quiet.agrees, sold)
    BY <1>2 DEF QueryContracts
  <2>2. PICK seller \in IF "supplier_id" \in query THEN Sellers ELSE {"NONE"} :
       \E name \in IF seller # "NONE" THEN {NameOf[seller]}
                   ELSE IF query = {} THEN {"NONE"} ELSE {"N1", "N2", "UNKNOWN"} :
        StartsSearch(query, seller, name, Quiet.agrees, sold)
    BY <2>1
  <2>3. PICK name \in IF seller # "NONE" THEN {NameOf[seller]}
                   ELSE IF query = {} THEN {"NONE"} ELSE {"N1", "N2", "UNKNOWN"} :
        StartsSearch(query, seller, name, Quiet.agrees, sold)
    BY <2>2
  <2>4. seller \in Sellers \cup {"NONE"} /\ ("supplier_id" \in query => seller \in Sellers)
    OBVIOUS
  <2>5. "NONE" \notin Sellers /\ \A s \in Sellers : NameOf[s] \in {"N1", "N2"}
    BY DEF Sellers, NameOf
  <2>6. name \in {"N1", "N2", "UNKNOWN", "NONE"}
    BY <2>4, <2>5
  <2>7. query = SupplierFields => seller \in Sellers /\ name = NameOf[seller]
    BY <2>4, <2>5 DEF SupplierFields
  <2>8. advice.phase = "RESOLVED"
    BY <1>2 DEF QueryContracts
  <2>9. QED
    BY <1>0, <2>3, <2>4, <2>6, <2>7, <2>8, StartsKeepsInv
<1>3. QED
  BY <1>1, <1>2

\* What the stages match, and what was found, stays when the search goes on.
LEMMA SearchGoesOn ==
    ASSUME AdviceInv, advice' \in AdviceRecord,
           advice'.profile = advice.profile, advice'.query = advice.query,
           advice'.seller = advice.seller, advice'.name = advice.name,
           advice'.agrees = advice.agrees, advice'.sold = advice.sold
    PROVE  /\ ContractsQuery'
           /\ \A i \in Nat : /\ Matches(i)' = Matches(i) /\ Arguments(i)' = Arguments(i)
                             /\ Unscoped(i)' = Unscoped(i) /\ TooMany(i)' = TooMany(i)
<1>1. ContractsQuery'
  BY DEF AdviceInv, ContractsQuery
<1>2. \A i \in Nat : Arguments(i)' = Arguments(i)
  BY DEF Arguments
<1>3. \A i \in Nat : Matches(i)' = Matches(i)
  BY <1>2 DEF Matches
<1>4. \A i \in Nat : Unscoped(i)' = Unscoped(i) /\ TooMany(i)' = TooMany(i)
  BY <1>2 DEF Unscoped, TooMany
<1>5. QED
  BY <1>1, <1>2, <1>3, <1>4

LEMMA EvidenceTypes ==
    ASSUME NEW a \in AdviceRecord
    PROVE  /\ a.evidence \in Seq(EvidenceItem)
           /\ \A i \in DOMAIN a.evidence : a.evidence[i] \in EvidenceItem
           /\ \A e \in EvidenceItem : e.row \in Rows /\ e.row \in Nat /\ e.stage \in 1..4
<1>1. a.evidence \in Seq(EvidenceItem)
  BY DEF AdviceRecord
<1>2. \A e \in EvidenceItem : e.row \in Rows /\ e.stage \in 1..4
  BY DEF EvidenceItem
<1>3. \A i \in DOMAIN a.evidence : a.evidence[i] \in EvidenceItem
  BY <1>1
<1>4. QED
  BY <1>1, <1>2, <1>3, RowsAreFinite

\* What was found stays so while the evidence grows.
LEMMA StaysFound ==
    ASSUME AdviceInv, advice' \in AdviceRecord,
           advice'.profile = advice.profile, advice'.query = advice.query,
           advice'.seller = advice.seller, advice'.name = advice.name,
           advice'.agrees = advice.agrees, advice'.sold = advice.sold,
           \A r \in Rows : HasRow(advice.evidence, r) => HasRow(advice.evidence, r)',
           NEW e \in EvidenceItem, FoundByStage(e)
    PROVE  FoundByStage(e)'
<1>1. advice \in AdviceRecord
  BY DEF AdviceInv
<1>2. e.stage \in Nat
  BY <1>1, EvidenceTypes
<1>3. /\ Matches(e.stage)' = Matches(e.stage) /\ Arguments(e.stage)' = Arguments(e.stage)
      /\ Unscoped(e.stage)' = Unscoped(e.stage) /\ TooMany(e.stage)' = TooMany(e.stage)
  BY <1>2, SearchGoesOn
<1>4. Matches(e.stage) \subseteq Rows
  BY DEF Matches
<1>5. \A r \in Matches(e.stage)' : r < e.row => HasRow(advice.evidence, r)'
  BY <1>3, <1>4 DEF FoundByStage
<1>6. QED
  BY <1>3, <1>5 DEF FoundByStage

\* Steps of the search that add no evidence
LEMMA NothingFoundKeepsInv ==
    ASSUME AdviceInv, NEW status \in {"SEARCH", "CLARIFY", "ANSWERED"}, NEW stage \in 1..5,
           NEW candidates \in Seq(Candidates),
           \A i \in DOMAIN candidates : LET c == candidates[i] IN
                \A r \in c.refs : c.shown <= r,
           advice' = [advice EXCEPT !.phase = status, !.stage = stage, !.candidates = candidates]
    PROVE  AdviceInv'
<1>1. advice \in AdviceRecord
  BY DEF AdviceInv
<1>2. /\ advice' \in AdviceRecord /\ advice'.evidence = advice.evidence /\ advice'.phase = status
      /\ advice'.candidates = candidates
      /\ advice'.profile = advice.profile /\ advice'.query = advice.query
      /\ advice'.seller = advice.seller /\ advice'.name = advice.name
      /\ advice'.agrees = advice.agrees /\ advice'.sold = advice.sold
  BY <1>1 DEF AdviceRecord
<1>3. ContractsQuery'
  BY <1>2, SearchGoesOn
<1>4. \A e \in EvidenceItem : FoundByStage(e) => FoundByStage(e)'
  BY <1>2, StaysFound DEF HasRow
<1>5. ASSUME NEW i \in DOMAIN advice'.evidence
      PROVE  FoundByStage(advice.evidence[i])'
  <2>1. advice'.evidence[i] \in EvidenceItem /\ FoundByStage(advice'.evidence[i])
    BY <1>1, <1>2, EvidenceTypes DEF AdviceInv
  <2>2. QED
    BY <1>4, <2>1
<1>6. QED
  BY <1>2, <1>3, <1>5 DEF AdviceInv, ResolvedIsPermitted

\* No row is taken before a newer one.
LEMMA NewerIsFound ==
    ASSUME NEW S \in SUBSET Rows, NEW n \in Nat, NEW q \in NewestRows(S, n), NEW r \in S, r < q
    PROVE  r \in NewestRows(S, n)
<1>1. S \subseteq Nat /\ IsFiniteSet(S) /\ q \in S
  BY RowsAreFinite, FS_Subset DEF NewestRows
<1>2. {p \in S : p < r} \subseteq {p \in S : p < q} /\ {p \in S : p < q} \subseteq S
  <2>1. r \in Nat /\ q \in Nat /\ \A p \in S : p \in Nat
    BY <1>1
  <2>2. \A p \in S : p < r => p < q
    BY <2>1
  <2>3. QED
    BY <2>2
<1>3. IsFiniteSet({p \in S : p < q})
  BY <1>1, <1>2, FS_Subset
<1>4. /\ Cardinality({p \in S : p < r}) \in Nat /\ Cardinality({p \in S : p < q}) \in Nat
      /\ Cardinality({p \in S : p < r}) <= Cardinality({p \in S : p < q})
  BY <1>2, <1>3, FS_Subset, FS_CardinalityType
<1>5. Cardinality({p \in S : p < q}) < n
  BY DEF NewestRows
<1>6. Cardinality({p \in S : p < r}) < n
  BY <1>4, <1>5
<1>7. QED
  BY <1>6 DEF NewestRows

\* The evidence with the rows that a stage found
Adding(old, rows, stage) ==
    old \o [i \in DOMAIN rows |-> [row |-> rows[i], stage |-> stage]]

\* It is the evidence, these rows of this stage, and nothing else.
Grown(old, new, stage, both) ==
    /\ both \in Seq(EvidenceItem)
    /\ \A i \in DOMAIN both : \/ i \in DOMAIN old /\ both[i] = old[i]
                              \/ both[i].row \in new /\ both[i].stage = stage
    /\ \A r : HasRow(both, r) <=> HasRow(old, r) \/ r \in new

LEMMA EvidenceGrows ==
    ASSUME NEW old \in Seq(EvidenceItem), NEW n \in Nat, NEW new \in SUBSET Rows,
           NEW rows \in [1..n -> new], HasAll(rows, n, new),
           NEW stage \in 1..4, NEW both, both = Adding(old, rows, stage)
    PROVE  Grown(old, new, stage, both)
<1> DEFINE found == [i \in 1..n |-> [row |-> rows[i], stage |-> stage]]
<1>1. /\ found \in Seq(EvidenceItem) /\ Len(found) = n
      /\ \A i \in 1..n : found[i].row = rows[i] /\ found[i].stage = stage
  <2>1. \A i \in 1..n : [row |-> rows[i], stage |-> stage] \in EvidenceItem
    BY DEF EvidenceItem
  <2>2. QED
    BY <2>1
<1>2. both = old \o found
  BY DEF found, Adding
<1> HIDE DEF found
<1>3. both \in Seq(EvidenceItem)
  BY <1>1, <1>2
<1>4. Len(both) = Len(old) + n /\ Len(old) \in Nat
  BY <1>1, <1>2
<1>5. DOMAIN both = 1..(Len(old) + n) /\ DOMAIN old = 1..Len(old)
  BY <1>3, <1>4
<1>6. \A i \in 1..Len(old) : both[i] = old[i]
  BY <1>1, <1>2
<1>7. \A i \in 1..n : both[Len(old) + i] = found[i] /\ Len(old) + i \in 1..(Len(old) + n)
  BY <1>1, <1>2, <1>4
<1>8. ASSUME NEW i \in DOMAIN both
      PROVE  \/ i \in DOMAIN old /\ both[i] = old[i]
             \/ \E k \in 1..n : both[i] = found[k]
  <2>1. CASE i <= Len(old)
    BY <1>4, <1>5, <1>6, <2>1
  <2>2. CASE ~(i <= Len(old))
    <3>1. i - Len(old) \in 1..n /\ Len(old) + (i - Len(old)) = i
      BY <1>4, <1>5, <2>2
    <3>2. QED
      BY <1>7, <3>1
  <2>3. QED
    BY <2>1, <2>2
<1>9. \A i \in DOMAIN both : \/ i \in DOMAIN old /\ both[i] = old[i]
                             \/ both[i].row \in new /\ both[i].stage = stage
  BY <1>1, <1>8
<1>10. ASSUME NEW r PROVE HasRow(both, r) <=> HasRow(old, r) \/ r \in new
  <2>1. HasRow(both, r) => HasRow(old, r) \/ r \in new
    BY <1>9 DEF HasRow
  <2>2. HasRow(old, r) => HasRow(both, r)
    BY <1>4, <1>5, <1>6 DEF HasRow
  <2>3. ASSUME r \in new PROVE HasRow(both, r)
    <3>1. PICK k \in 1..n : rows[k] = r
      BY <2>3 DEF HasAll
    <3>2. both[Len(old) + k].row = r /\ Len(old) + k \in DOMAIN both
      BY <1>1, <1>5, <1>7, <3>1
    <3>3. QED
      BY <3>2 DEF HasRow
  <2>4. QED
    BY <2>1, <2>2, <2>3
<1>11. QED
  BY <1>3, <1>9, <1>10 DEF Grown

\* What a stage finds is added to the evidence.
LEMMA FindsKeepsInv ==
    ASSUME AdviceInv, NEW stage \in 1..4, stage = advice.stage, advice.phase = "SEARCH",
           stage <= Len(Stages(advice.profile)), ~Skips(stage), ~TooMany(stage),
           NEW limit \in Nat, NEW found, found = NewestRows(Matches(stage), limit),
           NEW new, new = {r \in found : ~HasRow(advice.evidence, r)},
           NEW n \in Nat, NEW rows \in [1..n -> new], HasAll(rows, n, new),
           NEW both, both = Adding(advice.evidence, rows, stage),
           advice' = [advice EXCEPT !.stage = stage + 1, !.asked = @ \cup {Arguments(stage)},
                                    !.evidence = both]
    PROVE  AdviceInv'
<1>1. advice \in AdviceRecord
  BY DEF AdviceInv
<1>2. Matches(stage) \subseteq Rows /\ found \subseteq Matches(stage) /\ new \subseteq found
  BY DEF Matches, NewestRows
<1>3. /\ both \in Seq(EvidenceItem)
      /\ \A i \in DOMAIN both : \/ i \in DOMAIN advice.evidence /\ both[i] = advice.evidence[i]
                                \/ both[i].row \in new /\ both[i].stage = stage
      /\ \A r : HasRow(both, r) <=> HasRow(advice.evidence, r) \/ r \in new
  <2>1. new \in SUBSET Rows /\ advice.evidence \in Seq(EvidenceItem)
    BY <1>1, <1>2, EvidenceTypes
  <2>2. QED
    <3>1. Grown(advice.evidence, new, stage, both)
      BY <2>1, EvidenceGrows
    <3>2. QED
      BY <3>1 DEF Grown
<1>4. Arguments(stage) \in SUBSET Fields
  BY <1>1 DEF Arguments, AdviceRecord
<1>5. /\ advice' \in AdviceRecord /\ advice'.evidence = both /\ advice'.phase = "SEARCH"
      /\ advice'.candidates = advice.candidates
      /\ advice'.profile = advice.profile /\ advice'.query = advice.query
      /\ advice'.seller = advice.seller /\ advice'.name = advice.name
      /\ advice'.agrees = advice.agrees /\ advice'.sold = advice.sold
  <2>1. stage + 1 \in 1..5
    OBVIOUS
  <2>2. advice.asked \cup {Arguments(stage)} \in SUBSET SUBSET Fields
    BY <1>1, <1>4 DEF AdviceRecord
  <2>3. both \in Seq(EvidenceItem)
    BY <1>3
  <2>4. QED
    BY <1>1, <2>1, <2>2, <2>3 DEF AdviceRecord
<1>6. ContractsQuery'
  BY <1>5, SearchGoesOn
<1>7. \A e \in EvidenceItem : FoundByStage(e) => FoundByStage(e)'
  BY <1>3, <1>5, StaysFound
<1>8. ASSUME NEW e \in EvidenceItem, e.row \in new, e.stage = stage PROVE FoundByStage(e)'
  <2>1. e.stage \in Nat
    BY <1>8
  <2>2. /\ Matches(e.stage)' = Matches(stage) /\ Arguments(e.stage)' = Arguments(stage)
        /\ Unscoped(e.stage)' = Unscoped(stage) /\ TooMany(e.stage)' = TooMany(stage)
    BY <1>5, <1>8, <2>1, SearchGoesOn
  <2>3. e.row \in Matches(stage)
    BY <1>2, <1>8
  <2>4. /\ advice.query # {} => ~Unscoped(stage)
        /\ ~Unscoped(stage) => Arguments(stage) \ {"brand", "model"} # {}
    BY DEF Skips
  <2>5. ASSUME NEW r \in Matches(stage), r < e.row PROVE HasRow(both, r)
    <3>1. r \in found
      BY <1>2, <1>8, <2>5, NewerIsFound
    <3>2. HasRow(advice.evidence, r) \/ r \in new
      BY <3>1
    <3>3. QED
      BY <1>3, <3>2
  <2>6. \A r \in Matches(e.stage)' : r < e.row => HasRow(advice.evidence, r)'
    BY <1>5, <2>2, <2>5
  <2>7. e.stage <= Len(Stages(advice'.profile)) /\ (advice'.query # {} => ~Unscoped(e.stage)')
    BY <1>5, <1>8, <2>2, <2>4
  <2>8. ~TooMany(e.stage)' /\ e.row \in Matches(e.stage)'
        /\ (~Unscoped(e.stage)' => Arguments(e.stage)' \ {"brand", "model"} # {})
    BY <2>2, <2>3, <2>4
  <2>9. QED
    BY <2>6, <2>7, <2>8 DEF FoundByStage
<1>9. ASSUME NEW i \in DOMAIN advice'.evidence
      PROVE  FoundByStage(advice.evidence[i])'
  <2> SUFFICES ASSUME NEW e, e = advice'.evidence[i] PROVE FoundByStage(e)'
    OBVIOUS
  <2>1. e \in EvidenceItem
    BY <1>5, EvidenceTypes
  <2>2. \/ i \in DOMAIN advice.evidence /\ e = advice.evidence[i]
        \/ e.row \in new /\ e.stage = stage
    BY <1>3, <1>5
  <2>3. i \in DOMAIN advice.evidence /\ e = advice.evidence[i] => FoundByStage(e)
    BY DEF AdviceInv
  <2>4. QED
    BY <1>7, <1>8, <2>1, <2>2, <2>3
<1>10. \A i \in DOMAIN advice'.candidates : LET c == advice'.candidates[i] IN
        \A r \in c.refs : c.shown <= r
  BY <1>5 DEF AdviceInv
<1>11. QED
  BY <1>5, <1>6, <1>9, <1>10 DEF AdviceInv, ResolvedIsPermitted

LEMMA SearchKeepsInv == AdviceInv /\ SearchStage => AdviceInv'
<1> SUFFICES ASSUME AdviceInv, SearchStage PROVE AdviceInv'
  OBVIOUS
<1> DEFINE stage == advice.stage
           found == NewestRows(Matches(stage), EvidenceLimit - Len(advice.evidence))
           new == {r \in found : ~HasRow(advice.evidence, r)}
<1>1. /\ Searching /\ ~Skips(stage) /\ advice.phase = "SEARCH"
      /\ advice \in AdviceRecord /\ stage <= Len(Stages(advice.profile))
  BY DEF SearchStage, Searching, AdviceInv
<1>2. stage \in 1..4
  <2>1. stage \in 1..5 /\ advice.profile \in Profiles \cup {"NONE"}
    BY <1>1 DEF AdviceRecord
  <2>2. QED
    BY <1>1, <2>1, StageNumber
<1>3. EvidenceLimit - Len(advice.evidence) \in Nat
  <2>1. Len(advice.evidence) \in Nat
    BY <1>1, EvidenceTypes
  <2>2. Len(advice.evidence) < EvidenceLimit
    BY <1>1 DEF Searching
  <2>3. QED
    BY <2>1, <2>2, RecommendationAssumption
<1>4. Matches(stage) \subseteq Rows /\ found \subseteq Matches(stage) /\ new \subseteq found
  BY DEF Matches, NewestRows
<1>5. new \subseteq Nat /\ IsFiniteSet(new)
  BY <1>4, RowsAreFinite, FS_Subset
<1>6. CASE TooMany(stage)
  <2>1. advice' = [advice EXCEPT !.phase = "CLARIFY"]
    BY <1>6 DEF SearchStage
  <2>2. /\ advice' = [advice EXCEPT !.phase = "CLARIFY", !.stage = advice.stage,
                                    !.candidates = advice.candidates]
        /\ advice.stage \in 1..5 /\ advice.candidates \in Seq(Candidates)
    BY <1>1, <2>1 DEF AdviceRecord
  <2>3. \A i \in DOMAIN advice.candidates : LET c == advice.candidates[i] IN
                \A r \in c.refs : c.shown <= r
    BY DEF AdviceInv
  <2>4. QED
    BY <2>2, <2>3, NothingFoundKeepsInv
<1>7. CASE ~TooMany(stage)
  <2>1. PICK rows : /\ rows \in Sorted(new, <)
            /\ advice' = [advice EXCEPT !.stage = @ + 1, !.asked = @ \cup {Arguments(stage)},
                !.evidence = @ \o [i \in DOMAIN rows |-> [row |-> rows[i], stage |-> stage]]]
    BY <1>7, Zenon DEF SearchStage
  <2> DEFINE n == Cardinality(new)
             both == Adding(advice.evidence, rows, stage)
  <2>2. n \in Nat
    BY <1>5, FS_CardinalityType
  <2>3. rows \in [1..n -> new] /\ Ascending(rows, n)
    BY <2>1, Zenon DEF Sorted, Ascending
  <2>4. advice' = [advice EXCEPT !.stage = stage + 1, !.asked = @ \cup {Arguments(stage)},
                                 !.evidence = both]
    BY <2>1, Zenon DEF Adding
  <2> HIDE DEF both, n, new
  <2>5. HasAll(rows, n, new)
    <3>1. n = Cardinality(new)
      BY DEF n
    <3>2. QED
      BY <1>5, <2>2, <2>3, <3>1, SortedHasAll
  <2>6. both = Adding(advice.evidence, rows, stage)
    BY DEF both
  <2> HIDE DEF found
  <2>7. found = NewestRows(Matches(stage), EvidenceLimit - Len(advice.evidence))
        /\ new = {r \in found : ~HasRow(advice.evidence, r)}
    BY DEF found, new
  <2>8. stage = advice.stage
    OBVIOUS
  <2> HIDE DEF stage
  <2>9. QED
    BY <1>1, <1>2, <1>3, <1>7, <2>2, <2>3, <2>4, <2>5, <2>6, <2>7, <2>8, FindsKeepsInv
<1>8. QED
  BY <1>6, <1>7

\* A candidate shows its newest row.
ShowsNewest(c) == \A r \in c.refs : c.shown <= r

LEMMA CandidatesShowNewest ==
    ASSUME NEW items \in SUBSET EvidenceItem, items # {}
    PROVE  Candidate(items) \in Candidates /\ ShowsNewest(Candidate(items))
<1> DEFINE refs == {e.row : e \in items}
           stages == {e.stage : e \in items}
<1>1. refs \subseteq Rows /\ refs # {} /\ stages \subseteq 1..4 /\ stages # {}
  BY DEF EvidenceItem
<1>2. IsFiniteSet(1..4) /\ 1..4 \subseteq Nat
  <2>1. IsFiniteSet({1, 2, 3, 4})
    BY SmallSets, Zenon
  <2>2. 1..4 = {1, 2, 3, 4}
    OBVIOUS
  <2>3. QED
    BY <2>1, <2>2
<1>3. /\ refs \subseteq Nat /\ IsFiniteSet(refs)
      /\ stages \subseteq Nat /\ IsFiniteSet(stages)
  BY <1>1, <1>2, RowsAreFinite, FS_Subset
<1> HIDE DEF refs, stages
<1>4. Min(refs) \in refs /\ (\A t \in refs : Min(refs) <= t) /\ Min(stages) \in stages
  BY <1>1, <1>3, MinOf
<1>5. Candidate(items) = [refs |-> refs, shown |-> Min(refs), best |-> Min(stages)]
  BY DEF Candidate, refs, stages
<1>6. /\ Candidate(items).refs = refs /\ Candidate(items).shown = Min(refs)
      /\ Candidate(items) \in Candidates
  <2>1. refs \in SUBSET Rows /\ Min(refs) \in Nat /\ Min(stages) \in Nat
    BY <1>1, <1>3, <1>4
  <2>2. QED
    BY <1>5, <2>1 DEF Candidates
<1>7. QED
  BY <1>4, <1>6 DEF ShowsNewest

\* The first elements of a list
LEMMA FirstOf ==
    ASSUME NEW S, NEW n \in Nat, NEW list \in [1..n -> S], NEW limit \in Nat
    PROVE  LET first == SubSeq(list, 1, Min({limit, Len(list)}))
           IN  first \in Seq(S) /\ \A i \in DOMAIN first : first[i] \in S
<1>1. list \in Seq(S) /\ Len(list) = n
  OBVIOUS
<1>2. {limit, n} \subseteq Nat /\ IsFiniteSet({limit, n})
  BY SmallSets
<1>3. Min({limit, n}) \in Nat /\ Min({limit, n}) <= n
  BY <1>2, MinOf
<1> DEFINE m == Min({limit, n})
           first == SubSeq(list, 1, m)
<1>4. m \in Nat /\ m <= Len(list)
  BY <1>1, <1>3
<1> HIDE DEF m
<1>5. first \in Seq(S)
  BY <1>1, <1>4
<1> HIDE DEF first
<1>6. \A i \in DOMAIN first : first[i] \in S
  BY <1>5
<1>7. first = SubSeq(list, 1, Min({limit, Len(list)}))
  BY <1>1 DEF first, m
<1>8. QED
  BY <1>5, <1>6, <1>7

LEMMA RecommendKeepsInv == AdviceInv /\ Recommend => AdviceInv'
<1> SUFFICES ASSUME AdviceInv, Recommend PROVE AdviceInv'
  OBVIOUS
<1> DEFINE found == ToSet(advice.evidence)
<1>1. PICK key \in [Rows -> {"K1", "K2"}] :
        LET of(k) == {e \in found : key[e.row] = k}
            all == {Candidate(of(k)) : k \in {key[e.row] : e \in found}}
        IN  \E ranked \in Sorted(all, Precedes) :
            advice' = [advice EXCEPT !.phase = "ANSWERED",
                !.candidates = SubSeq(ranked, 1, Min({CandidateLimit, Len(ranked)}))]
  BY Zenon DEF Recommend
<1> DEFINE of(k) == {e \in found : key[e.row] = k}
           keys == {key[e.row] : e \in found}
           all == {Candidate(of(k)) : k \in keys}
<1>2. PICK ranked : /\ ranked \in Sorted(all, Precedes)
        /\ advice' = [advice EXCEPT !.phase = "ANSWERED",
                !.candidates = SubSeq(ranked, 1, Min({CandidateLimit, Len(ranked)}))]
  BY <1>1, Zenon
<1>3. advice \in AdviceRecord
  BY DEF AdviceInv
<1>4. found \subseteq EvidenceItem
  BY <1>3, EvidenceTypes DEF ToSet
<1> HIDE DEF found
<1>5. keys \subseteq {"K1", "K2"} /\ IsFiniteSet(keys)
  <2>1. keys \subseteq {"K1", "K2"}
    BY <1>4, EvidenceTypes, <1>3
  <2>2. IsFiniteSet({"K1", "K2"})
    BY SmallSets, Zenon
  <2>3. QED
    BY <2>1, <2>2, FS_Subset
<1>6. \A k \in keys : of(k) \in SUBSET EvidenceItem /\ of(k) # {}
  BY <1>4
<1>7. \A k \in keys : Candidate(of(k)) \in Candidates /\ ShowsNewest(Candidate(of(k)))
  <2> HIDE DEF of
  <2>1. QED
    BY <1>6, CandidatesShowNewest
<1>8. all \subseteq Candidates /\ \A c \in all : ShowsNewest(c)
  BY <1>7
<1>9. IsFiniteSet(all)
  <2> DEFINE f == [k \in keys |-> Candidate(of(k))]
  <2>1. f \in Surjection(keys, all)
    BY DEF Surjection
  <2> HIDE DEF f, all, keys
  <2>2. QED
    BY <1>5, <2>1, FS_Surjection
<1>10. Cardinality(all) \in Nat
  BY <1>9, FS_CardinalityType
<1> DEFINE n == Cardinality(all)
<1>11. ranked \in [1..n -> all]
  BY <1>2, Zenon DEF Sorted
<1> HIDE DEF all, n
<1> DEFINE first == SubSeq(ranked, 1, Min({CandidateLimit, Len(ranked)}))
<1>12. first \in Seq(all) /\ \A i \in DOMAIN first : first[i] \in all
  BY <1>10, <1>11, FirstOf, RecommendationAssumption DEF n
<1> HIDE DEF first
<1>13. first \in Seq(Candidates) /\ \A i \in DOMAIN first : ShowsNewest(first[i])
  BY <1>8, <1>12
<1>14. advice' = [advice EXCEPT !.phase = "ANSWERED", !.stage = advice.stage, !.candidates = first]
       /\ advice.stage \in 1..5
  <2>1. advice' = [advice EXCEPT !.phase = "ANSWERED", !.candidates = first]
    BY <1>2, Zenon DEF first
  <2>2. QED
    BY <1>3, <2>1 DEF AdviceRecord
<1>15. \A i \in DOMAIN first : LET c == first[i] IN \A r \in c.refs : c.shown <= r
  BY <1>13 DEF ShowsNewest
<1>16. QED
  BY <1>13, <1>14, <1>15, NothingFoundKeepsInv

LEMMA AdviceInvStep == AdviceInv /\ [RecommendationNext]_advice => AdviceInv'
<1> SUFFICES ASSUME AdviceInv, [RecommendationNext]_advice PROVE AdviceInv'
  OBVIOUS
<1>1. /\ advice \in AdviceRecord /\ advice.stage \in 1..5 /\ advice.candidates \in Seq(Candidates)
      /\ advice.profile \in Profiles \cup {"NONE"}
  BY DEF AdviceInv, AdviceRecord
<1>2. \A i \in DOMAIN advice.candidates : LET c == advice.candidates[i] IN
        \A r \in c.refs : c.shown <= r
  BY DEF AdviceInv
<1>3. CASE SkipStage
  <2>1. advice.phase = "SEARCH" /\ advice.stage <= Len(Stages(advice.profile))
    BY <1>3 DEF SkipStage, Searching
  <2>2. advice.stage \in 1..4
    BY <1>1, <2>1, StageNumber
  <2>3. advice.stage + 1 \in 1..5
    BY <2>2
  <2>4. advice' = [advice EXCEPT !.phase = "SEARCH", !.stage = advice.stage + 1,
                                 !.candidates = advice.candidates]
    BY <1>1, <1>3, <2>1 DEF SkipStage, AdviceRecord
  <2>5. QED
    BY <1>1, <1>2, <2>3, <2>4, NothingFoundKeepsInv
<1>4. CASE CallFails
  <2>1. advice' = [advice EXCEPT !.phase = "SEARCH", !.stage = 5,
                                 !.candidates = advice.candidates]
    BY <1>1, <1>4 DEF CallFails, Searching, AdviceRecord
  <2>2. \A n \in 1..5 :
            advice' = [advice EXCEPT !.phase = "SEARCH", !.stage = n,
                                     !.candidates = advice.candidates] => AdviceInv'
    BY <1>1, <1>2, NothingFoundKeepsInv
  <2>3. QED
    BY <2>1, <2>2
<1>5. CASE UNCHANGED advice
  <2>1. ResolvedIsPermitted' /\ ContractsQuery'
    BY <1>5 DEF AdviceInv, ResolvedIsPermitted, ContractsQuery
  <2>2. \A e \in EvidenceItem : FoundByStage(e) => FoundByStage(e)'
    BY <1>1, <1>5, StaysFound DEF HasRow
  <2>3. ASSUME NEW i \in DOMAIN advice'.evidence
        PROVE  FoundByStage(advice.evidence[i])'
    <3>1. advice'.evidence[i] \in EvidenceItem /\ FoundByStage(advice'.evidence[i])
      BY <1>1, <1>5, EvidenceTypes DEF AdviceInv
    <3>2. QED
      BY <2>2, <3>1
  <2>4. QED
    BY <1>5, <2>1, <2>3 DEF AdviceInv
<1>6. CASE SkillFails
  <2>1. advice' = [Quiet EXCEPT !.phase = "FAILED"]
    BY <1>6 DEF SkillFails
  <2>2. /\ advice' \in AdviceRecord /\ advice'.phase = "FAILED" /\ advice'.profile = "NONE"
        /\ advice'.evidence = <<>> /\ advice'.candidates = <<>>
    BY <2>1, QuietAdvice DEF AdviceRecord
  <2>3. QED
    BY <2>2 DEF AdviceInv, ResolvedIsPermitted, ContractsQuery
<1>7. QED
  BY <1>3, <1>4, <1>5, <1>6, ResolveKeepsInv, AdviceQueryKeepsInv, SearchKeepsInv, RecommendKeepsInv
     DEF RecommendationNext

\* No two suppliers of a name that is not ambiguous
LEMMA OneOfTheName ==
    ASSUME NEW name, Cardinality(SellersNamed(name)) <= 1,
           NEW s \in Sellers, NEW t \in Sellers, NameOf[s] = name, NameOf[t] = name
    PROVE  s = t
<1>1. s \in SellersNamed(name) /\ t \in SellersNamed(name)
  BY DEF SellersNamed
<1>2. SellersNamed(name) \subseteq {"S1", "S2", "S3"}
  BY DEF SellersNamed, Sellers
<1>3. IsFiniteSet({"S1", "S2", "S3"})
  BY SmallSets, Zenon
<1>4. IsFiniteSet(SellersNamed(name))
  BY <1>2, <1>3, FS_Subset
<1>5. SUFFICES ASSUME s # t PROVE FALSE
  OBVIOUS
<1>6. {s, t} \subseteq SellersNamed(name)
  BY <1>1
<1>7. Cardinality({s, t}) = 2
  BY <1>5, SmallSets
<1>8. Cardinality({s, t}) <= Cardinality(SellersNamed(name))
  BY <1>4, <1>6, FS_Subset
<1>9. Cardinality(SellersNamed(name)) \in Nat
  BY <1>4, FS_CardinalityType
<1>10. QED
  BY <1>7, <1>8, <1>9

\* The evidence of a search for one supplier is of one supplier.
LEMMA EvidenceOfOneSupplier == AdviceInv => OneSupplier
<1> SUFFICES ASSUME AdviceInv, advice.query # {}, advice.profile = "PURCHASER_CONTRACT",
                    NEW i \in DOMAIN advice.evidence, NEW j \in DOMAIN advice.evidence
             PROVE  advice.sold[advice.evidence[i].row] = advice.sold[advice.evidence[j].row]
  BY DEF OneSupplier
<1>1. advice \in AdviceRecord /\ advice.sold \in [Rows -> Sellers]
  BY DEF AdviceInv, AdviceRecord
<1>2. Stages(advice.profile) = <<{"supplier_id"}, {"supplier_name"}, {}>>
  BY DEF Stages
<1>3. advice.query \in {{"supplier_name"}, SupplierFields}
      /\ (advice.query = SupplierFields =>
            advice.seller \in Sellers /\ advice.name = NameOf[advice.seller])
  BY DEF AdviceInv, ContractsQuery
<1>4. ASSUME NEW e \in EvidenceItem, FoundByStage(e)
      PROVE  /\ advice.sold[e.row] \in Sellers
             /\ \/ advice.query = SupplierFields /\ advice.sold[e.row] = advice.seller
                \/ /\ NameOf[advice.sold[e.row]] = advice.name
                   /\ Cardinality(SellersNamed(advice.name)) <= 1
  <2>1. e.row \in Rows /\ e.stage \in 1..4
    BY <1>1, EvidenceTypes
  <2>2. e.stage \in {1, 2}
    <3>1. e.stage <= 3 /\ ~Unscoped(e.stage)
      BY <1>2, <1>4, <2>1 DEF FoundByStage
    <3>2. e.stage # 3
      BY <3>1 DEF Unscoped
    <3>3. QED
      BY <2>1, <3>1, <3>2
  <2>3. advice.sold[e.row] \in Sellers
    BY <1>1, <2>1
  <2>4. CASE e.stage = 1
    <3>1. Arguments(1) = {"supplier_id"} \cap advice.query
      BY <1>2 DEF Arguments
    <3>2. Arguments(1) \ {"brand", "model"} # {}
      BY <1>4, <2>4 DEF FoundByStage, Unscoped
    <3>3. advice.query = SupplierFields /\ Arguments(1) = {"supplier_id"}
      BY <1>3, <3>1, <3>2 DEF SupplierFields
    <3>4. advice.sold[e.row] = advice.seller
      BY <1>4, <2>4, <3>3 DEF FoundByStage, Matches
    <3>5. QED
      BY <2>3, <3>3, <3>4
  <2>5. CASE e.stage = 2
    <3>1. Arguments(2) = {"supplier_name"}
      BY <1>2, <1>3 DEF Arguments, SupplierFields
    <3>2. NameOf[advice.sold[e.row]] = advice.name
      BY <1>4, <2>5, <3>1 DEF FoundByStage, Matches
    <3>3. ~(Cardinality(SellersNamed(advice.name)) > 1)
      BY <1>4, <2>5, <3>1 DEF FoundByStage, TooMany
    <3>4. Cardinality(SellersNamed(advice.name)) \in Nat
      <4>1. SellersNamed(advice.name) \subseteq {"S1", "S2", "S3"}
        BY DEF SellersNamed, Sellers
      <4>2. IsFiniteSet({"S1", "S2", "S3"})
        BY SmallSets, Zenon
      <4>3. QED
        BY <4>1, <4>2, FS_Subset, FS_CardinalityType
    <3>5. QED
      BY <2>3, <3>2, <3>3, <3>4
  <2>6. QED
    BY <2>2, <2>4, <2>5
<1>5. /\ advice.evidence[i] \in EvidenceItem /\ FoundByStage(advice.evidence[i])
      /\ advice.evidence[j] \in EvidenceItem /\ FoundByStage(advice.evidence[j])
  BY <1>1, EvidenceTypes DEF AdviceInv
<1>6. QED
  BY <1>3, <1>4, <1>5, OneOfTheName

LEMMA EvidenceIsNewest == AdviceInv => NewestIsKept
  BY DEF AdviceInv, NewestIsKept, FoundByStage

\* A recommendation is made with a profile its user is permitted, and its evidence
\* is the newest there is, of the one supplier it was asked about.
THEOREM RecommendationIsKept ==
    RecommendationSpec => [](ResolvedIsPermitted /\ NewestIsKept /\ OneSupplier)
<1>1. AdviceInv => ResolvedIsPermitted /\ NewestIsKept /\ OneSupplier
  BY EvidenceIsNewest, EvidenceOfOneSupplier DEF AdviceInv
<1>2. QED
  BY <1>1, AdviceInvInit, AdviceInvStep, PTL DEF RecommendationSpec

-----------------------------------------------------------------------------
(***************************************************************************)
(* Device terms.                                                           *)
(***************************************************************************)
TermsTypes ==
    /\ collection \in [exists : BOOLEAN, points : SUBSET Terms]
    /\ rebuild \in [phase : {"idle", "embedding", "deleting", "creating", "upserting"},
                    sources : SUBSET Terms, left : SUBSET Terms]
    /\ rebuilds \in 0..MaxRebuilds
    /\ indexed \in [names : SUBSET Terms, whole : BOOLEAN]
    /\ lookup \in [phase : {"none", "exact", "semantic", "done"}, quiet : BOOLEAN,
                   status : {"NONE", "EXACT", "SEMANTIC", "NO_MATCH", "FALLBACK"},
                   names : SUBSET Spellings, asked : Terms]

\* What the script has inserted, and what it has to
RebuildOK ==
    /\ rebuild.phase \in {"idle", "embedding"} => rebuild.left = {}
    /\ rebuild.phase \in {"deleting", "creating"} => rebuild.left = Deduplicated(rebuild.sources)
    /\ rebuild.phase = "creating" => collection.points = {}
    /\ rebuild.phase = "upserting" =>
        /\ rebuild.left \subseteq Deduplicated(rebuild.sources)
        /\ collection.points = Deduplicated(rebuild.sources) \ rebuild.left

\* A history is whole until the script deletes it, and then no lookup is quiet.
WholeHistory ==
    /\ indexed.whole => /\ rebuild.phase \in {"idle", "embedding", "deleting"}
                        /\ collection.points = Deduplicated(indexed.names)
    /\ lookup.quiet => rebuild.phase = "idle"
    /\ lookup.phase = "semantic" /\ indexed.whole /\ lookup.quiet =>
        SameKey(lookup.asked, collection.points) = {}

TermsInv == TermsTypes /\ RebuildOK /\ WholeHistory /\ NamesOfTheHistory

LEMMA TermFields ==
    \A t \in Terms : /\ t.profession \in {"UPS", "RACK"} /\ t.name \in 1..3
                     /\ t = [profession |-> t.profession, name |-> t.name]
  BY DEF Terms, Spellings

LEMMA TermsAreFinite == IsFiniteSet(Terms)
<1>1. Terms \subseteq {[profession |-> "UPS", name |-> 1], [profession |-> "UPS", name |-> 2],
                       [profession |-> "UPS", name |-> 3], [profession |-> "RACK", name |-> 1]}
  BY DEF Terms, Spellings
<1>2. IsFiniteSet({[profession |-> "UPS", name |-> 1], [profession |-> "UPS", name |-> 2],
                   [profession |-> "UPS", name |-> 3], [profession |-> "RACK", name |-> 1]})
  BY SmallSets, Zenon
<1>3. QED
  BY <1>1, <1>2, FS_Subset

\* Names of one key are names in one profession.
LEMMA KeysTell ==
    \A t, u \in Terms : Key(t) = Key(u) => t.profession = u.profession
  BY DEF Key

\* Every name has one spelling, its own or one of the same key.
LEMMA OneSpelling ==
    ASSUME NEW S \in SUBSET Terms
    PROVE  /\ Deduplicated(S) \subseteq S
           /\ \A t \in S : \E u \in Deduplicated(S) : Key(u) = Key(t)
           /\ \A t, u \in Deduplicated(S) : Key(t) = Key(u) => t = u
<1>1. Deduplicated(S) \subseteq S
  BY DEF Deduplicated
<1>2. ASSUME NEW t \in S PROVE \E u \in Deduplicated(S) : Key(u) = Key(t)
  <2> DEFINE names == {u.name : u \in SameKey(t, S)}
  <2>1. names \subseteq 1..3
    BY TermFields DEF SameKey
  <2>2. t \in SameKey(t, S)
    BY DEF SameKey
  <2>3. names # {}
    BY <2>2
  <2>4. IsFiniteSet({1, 2, 3})
    BY SmallSets, Zenon
  <2>5. names \subseteq Nat /\ IsFiniteSet(names)
    <3>1. names \subseteq {1, 2, 3}
      BY <2>1
    <3>2. names \subseteq Nat
      BY <2>1
    <3> HIDE DEF names
    <3>3. QED
      BY <2>4, <3>1, <3>2, FS_Subset
  <2>6. PICK n \in names : \A m \in names : n <= m
    <3> HIDE DEF names
    <3>1. QED
      BY <2>3, <2>5, Smallest
  <2>7. PICK u \in SameKey(t, S) : u.name = n
    BY DEF names
  <2>8. \A v \in SameKey(t, S) : u.name <= v.name
    BY <2>6, <2>7
  <2>9. SameKey(u, S) = SameKey(t, S) /\ u \in S /\ Key(u) = Key(t)
    BY <2>7 DEF SameKey
  <2>10. u \in Deduplicated(S)
    BY <2>8, <2>9 DEF Deduplicated
  <2>11. QED
    BY <2>9, <2>10
<1>3. ASSUME NEW t \in Deduplicated(S), NEW u \in Deduplicated(S), Key(t) = Key(u) PROVE t = u
  <2>1. t \in S /\ u \in S
    BY <1>1
  <2>2. u \in SameKey(t, S) /\ t \in SameKey(u, S)
    BY <1>3, <2>1 DEF SameKey
  <2>3. t.name <= u.name /\ u.name <= t.name
    BY <2>2 DEF Deduplicated
  <2>4. t.name = u.name
    BY <2>1, <2>3, TermFields
  <2>5. t.profession = u.profession
    BY <1>3, <2>1, KeysTell
  <2>6. QED
    BY <2>1, <2>4, <2>5, TermFields
<1>4. QED
  BY <1>1, <1>2, <1>3

\* What the script does to its run and to the collection; a lookup is not quiet then.
LEMMA ScriptKeepsLookup ==
    ASSUME TermsInv, TermsTypes', RebuildOK', UNCHANGED lookup, ~lookup.quiet,
           indexed'.whole => /\ rebuild'.phase \in {"idle", "embedding", "deleting"}
                             /\ collection'.points = Deduplicated(indexed'.names)
    PROVE  TermsInv'
<1>1. lookup.quiet = FALSE
  BY DEF TermsInv, TermsTypes
<1>2. WholeHistory'
  BY <1>1 DEF WholeHistory
<1>3. NamesOfTheHistory'
  BY <1>1 DEF TermsInv, NamesOfTheHistory
<1>4. QED
  BY <1>2, <1>3 DEF TermsInv

LEMMA TermsInvInit == DeviceTermsInit => TermsInv
<1> SUFFICES ASSUME DeviceTermsInit PROVE TermsInv
  OBVIOUS
<1>1. [profession |-> "UPS", name |-> 1] \in Terms
  BY DEF Terms, Spellings
<1>2. 0 \in 0..MaxRebuilds
  BY DeviceTermsAssumption
<1>3. TermsTypes
  BY <1>1, <1>2 DEF DeviceTermsInit, NoRebuild, NoLookup, TermsTypes
<1>4. RebuildOK /\ WholeHistory /\ NamesOfTheHistory
  BY DEF DeviceTermsInit, NoRebuild, NoLookup, RebuildOK, WholeHistory, NamesOfTheHistory
<1>5. QED
  BY <1>3, <1>4 DEF TermsInv

LEMMA ReadSourcesKeepsInv == TermsInv /\ ReadSources => TermsInv'
<1> SUFFICES ASSUME TermsInv, ReadSources PROVE TermsInv'
  OBVIOUS
<1>1. PICK S \in SUBSET Terms : rebuild' = [phase |-> "embedding", sources |-> S, left |-> {}]
  BY DEF ReadSources
<1>2. rebuild.phase = "idle" /\ lookup' = [lookup EXCEPT !.quiet = FALSE]
      /\ UNCHANGED <<collection, indexed>>
  BY DEF ReadSources
<1>3. rebuilds' \in 0..MaxRebuilds
  BY DeviceTermsAssumption DEF ReadSources, TermsInv, TermsTypes
<1>4. TermsTypes'
  BY <1>1, <1>2, <1>3 DEF TermsInv, TermsTypes
<1>5. RebuildOK'
  BY <1>1 DEF RebuildOK
<1>6. lookup'.quiet = FALSE
  BY <1>2 DEF TermsInv, TermsTypes
<1>7. lookup'.phase = lookup.phase /\ lookup'.names = lookup.names
  BY <1>2 DEF TermsInv, TermsTypes
<1>8. WholeHistory'
  BY <1>1, <1>2, <1>6 DEF TermsInv, WholeHistory
<1>9. NamesOfTheHistory'
  BY <1>6, <1>7 DEF TermsInv, NamesOfTheHistory
<1>10. QED
  BY <1>4, <1>5, <1>8, <1>9 DEF TermsInv

LEMMA EncodeKeepsInv == TermsInv /\ EncodeTerms => TermsInv'
<1> SUFFICES ASSUME TermsInv, EncodeTerms PROVE TermsInv'
  OBVIOUS
<1>1. /\ rebuild.phase = "embedding" /\ UNCHANGED <<collection, rebuilds, indexed, lookup>>
      /\ rebuild' = [rebuild EXCEPT !.phase = "deleting", !.left = Deduplicated(rebuild.sources)]
  BY DEF EncodeTerms
<1>2. rebuild.sources \in SUBSET Terms
  BY DEF TermsInv, TermsTypes
<1>3. Deduplicated(rebuild.sources) \in SUBSET Terms
  BY <1>2, OneSpelling
<1>4. /\ rebuild'.phase = "deleting" /\ rebuild'.sources = rebuild.sources
      /\ rebuild'.left = Deduplicated(rebuild.sources)
  BY <1>1 DEF TermsInv, TermsTypes
<1>5. TermsTypes'
  BY <1>1, <1>3 DEF TermsInv, TermsTypes
<1>6. RebuildOK'
  BY <1>4 DEF RebuildOK
<1>7. ~lookup.quiet
  BY <1>1 DEF TermsInv, WholeHistory
<1>8. QED
  BY <1>1, <1>4, <1>5, <1>6, <1>7, ScriptKeepsLookup DEF TermsInv, WholeHistory

LEMMA DeleteKeepsInv == TermsInv /\ DeleteCollection => TermsInv'
<1> SUFFICES ASSUME TermsInv, DeleteCollection PROVE TermsInv'
  OBVIOUS
<1>1. /\ rebuild.phase = "deleting" /\ UNCHANGED <<rebuilds, lookup>>
      /\ collection' = [exists |-> FALSE, points |-> {}]
      /\ rebuild' = [rebuild EXCEPT !.phase = "creating"]
      /\ indexed' = [indexed EXCEPT !.whole = FALSE]
  BY DEF DeleteCollection
<1>2. /\ rebuild'.phase = "creating" /\ rebuild'.sources = rebuild.sources
      /\ rebuild'.left = rebuild.left /\ indexed'.whole = FALSE
      /\ collection'.points = {}
  BY <1>1 DEF TermsInv, TermsTypes
<1>3. TermsTypes'
  BY <1>1 DEF TermsInv, TermsTypes
<1>4. RebuildOK'
  BY <1>1, <1>2 DEF TermsInv, RebuildOK
<1>5. ~lookup.quiet
  BY <1>1 DEF TermsInv, WholeHistory
<1>6. QED
  BY <1>1, <1>2, <1>3, <1>4, <1>5, ScriptKeepsLookup

\* The script goes on with what is left, or the history is whole.
LEMMA DoneKeepsInv ==
    ASSUME TermsInv, rebuild.phase \in {"creating", "upserting"}, UNCHANGED <<rebuilds, lookup>>,
           collection' \in [exists : BOOLEAN, points : SUBSET Terms],
           NEW left \in SUBSET Deduplicated(rebuild.sources), RebuildDone(left),
           collection'.points = Deduplicated(rebuild.sources) \ left
    PROVE  TermsInv'
<1>1. rebuild.sources \in SUBSET Terms
  BY DEF TermsInv, TermsTypes
<1>2. left \in SUBSET Terms
  BY <1>1, OneSpelling
<1>3. ~lookup.quiet /\ ~indexed.whole
  BY DEF TermsInv, WholeHistory
<1>4. CASE left = {}
  <2>1. rebuild' = NoRebuild /\ indexed' = [names |-> rebuild.sources, whole |-> TRUE]
    BY <1>4 DEF RebuildDone
  <2>2. TermsTypes'
    BY <1>1, <2>1 DEF TermsInv, TermsTypes, NoRebuild
  <2>3. RebuildOK'
    BY <2>1 DEF RebuildOK, NoRebuild
  <2>4. /\ rebuild'.phase = "idle" /\ indexed'.names = rebuild.sources
        /\ collection'.points = Deduplicated(rebuild.sources)
    BY <1>4, <2>1 DEF NoRebuild
  <2>5. QED
    BY <1>3, <2>2, <2>3, <2>4, ScriptKeepsLookup
<1>5. CASE left # {}
  <2>1. /\ rebuild' = [rebuild EXCEPT !.phase = "upserting", !.left = left]
        /\ indexed' = indexed
    BY <1>5 DEF RebuildDone
  <2>2. TermsTypes'
    BY <1>2, <2>1 DEF TermsInv, TermsTypes
  <2>3. /\ rebuild'.phase = "upserting" /\ rebuild'.sources = rebuild.sources
        /\ rebuild'.left = left
    BY <2>1 DEF TermsInv, TermsTypes
  <2>4. RebuildOK'
    BY <2>3 DEF RebuildOK
  <2>5. QED
    BY <1>3, <2>1, <2>2, <2>4, ScriptKeepsLookup
<1>6. QED
  BY <1>4, <1>5

LEMMA CreateKeepsInv == TermsInv /\ CreateCollection => TermsInv'
<1> SUFFICES ASSUME TermsInv, CreateCollection PROVE TermsInv'
  OBVIOUS
<1>1. /\ rebuild.phase = "creating" /\ UNCHANGED <<rebuilds, lookup>>
      /\ collection' = [collection EXCEPT !.exists = TRUE] /\ RebuildDone(rebuild.left)
  BY DEF CreateCollection
<1>2. rebuild.left = Deduplicated(rebuild.sources) /\ collection.points = {}
  BY <1>1 DEF TermsInv, RebuildOK
<1>3. /\ collection' \in [exists : BOOLEAN, points : SUBSET Terms]
      /\ collection'.points = Deduplicated(rebuild.sources) \ rebuild.left
  BY <1>1, <1>2 DEF TermsInv, TermsTypes
<1>4. QED
  BY <1>1, <1>2, <1>3, DoneKeepsInv

LEMMA UpsertTermsKeepsInv == TermsInv /\ UpsertTerms => TermsInv'
<1> SUFFICES ASSUME TermsInv, UpsertTerms PROVE TermsInv'
  OBVIOUS
<1> DEFINE names == Deduplicated(rebuild.sources)
<1>1. PICK t \in rebuild.left :
        /\ collection' = [collection EXCEPT !.points = (@ \ SameKey(t, @)) \cup {t}]
        /\ RebuildDone(rebuild.left \ {t})
  BY DEF UpsertTerms
<1>2. /\ rebuild.phase = "upserting" /\ UNCHANGED <<rebuilds, lookup>>
      /\ rebuild.left \subseteq names /\ collection.points = names \ rebuild.left
  BY DEF UpsertTerms, TermsInv, RebuildOK
<1>3. /\ \A u \in names : Key(u) = Key(t) => u = t
      /\ names \subseteq Terms
  <2>1. rebuild.sources \in SUBSET Terms
    BY DEF TermsInv, TermsTypes
  <2>2. QED
    BY <1>1, <1>2, <2>1, OneSpelling
<1> HIDE DEF names
<1>4. SameKey(t, collection.points) = {}
  BY <1>1, <1>2, <1>3 DEF SameKey
<1>5. collection'.points = names \ (rebuild.left \ {t})
  <2>1. collection'.points = collection.points \cup {t}
    BY <1>1, <1>4 DEF TermsInv, TermsTypes
  <2>2. QED
    BY <1>1, <1>2, <2>1
<1>6. collection' \in [exists : BOOLEAN, points : SUBSET Terms]
  <2>1. t \in Terms
    BY <1>1, <1>2, <1>3
  <2>2. (collection.points \ SameKey(t, collection.points)) \cup {t} \in SUBSET Terms
    BY <2>1 DEF TermsInv, TermsTypes
  <2>3. QED
    BY <1>1, <2>2 DEF TermsInv, TermsTypes
<1>7. rebuild.left \ {t} \in SUBSET names
  BY <1>2
<1>8. QED
  BY <1>1, <1>2, <1>5, <1>6, <1>7, DoneKeepsInv DEF names

LEMMA RebuildFailsKeepsInv == TermsInv /\ RebuildFails => TermsInv'
<1> SUFFICES ASSUME TermsInv, RebuildFails PROVE TermsInv'
  OBVIOUS
<1>1. /\ rebuild.phase # "idle" /\ rebuild' = NoRebuild
      /\ UNCHANGED <<collection, rebuilds, indexed, lookup>>
  BY DEF RebuildFails
<1>2. TermsTypes' /\ RebuildOK' /\ rebuild'.phase = "idle"
  BY <1>1 DEF TermsInv, TermsTypes, RebuildOK, NoRebuild
<1>3. ~lookup.quiet
  BY <1>1 DEF TermsInv, WholeHistory
<1>4. QED
  BY <1>1, <1>2, <1>3, ScriptKeepsLookup DEF TermsInv, WholeHistory

-----------------------------------------------------------------------------
\* What a lookup does: the collection and the script's run stay.
LEMMA LookupMoves ==
    ASSUME TermsInv, UNCHANGED <<collection, rebuild, rebuilds, indexed>>,
           lookup' \in [phase : {"none", "exact", "semantic", "done"}, quiet : BOOLEAN,
                   status : {"NONE", "EXACT", "SEMANTIC", "NO_MATCH", "FALLBACK"},
                   names : SUBSET Spellings, asked : Terms],
           lookup'.quiet => rebuild.phase = "idle",
           lookup'.phase = "semantic" /\ indexed.whole /\ lookup'.quiet =>
                SameKey(lookup'.asked, collection.points) = {},
           NamesOfTheHistory'
    PROVE  TermsInv'
<1>1. TermsTypes'
  BY DEF TermsInv, TermsTypes
<1>2. RebuildOK'
  BY DEF TermsInv, RebuildOK
<1>3. WholeHistory'
  BY DEF TermsInv, WholeHistory
<1>4. QED
  BY <1>1, <1>2, <1>3 DEF TermsInv

\* The names of the answer, of a lookup that is told when it finds them
LEMMA FoundKeepsInv ==
    ASSUME TermsInv, UNCHANGED <<collection, rebuild, rebuilds, indexed>>,
           NEW status \in {"EXACT", "SEMANTIC", "NO_MATCH", "FALLBACK"},
           NEW names \in SUBSET Spellings, names # {}, Found(status, names),
           indexed.whole /\ lookup.quiet =>
            LET own == {t \in indexed.names : t.profession = lookup.asked.profession}
                alike == {t.name : t \in SameKey(lookup.asked, own)}
            IN  \/ status = "FALLBACK" /\ names = {lookup.asked.name}
                \/ alike # {} /\ names \subseteq alike
                \/ alike = {} /\ own # {} /\ names \subseteq {t.name : t \in own}
                \/ own = {} /\ names = {lookup.asked.name}
    PROVE  TermsInv'
<1>1. lookup' = [lookup EXCEPT !.phase = "done", !.status = status, !.names = names]
  BY DEF Found
<1>2. /\ lookup' \in [phase : {"none", "exact", "semantic", "done"}, quiet : BOOLEAN,
                   status : {"NONE", "EXACT", "SEMANTIC", "NO_MATCH", "FALLBACK"},
                   names : SUBSET Spellings, asked : Terms]
      /\ lookup'.quiet = lookup.quiet /\ lookup'.phase = "done" /\ lookup'.asked = lookup.asked
      /\ lookup'.status = status /\ lookup'.names = names
  BY <1>1 DEF TermsInv, TermsTypes
<1>3. lookup.quiet => rebuild.phase = "idle"
  BY DEF TermsInv, WholeHistory
<1>4. NamesOfTheHistory'
  BY <1>2 DEF NamesOfTheHistory
<1>5. QED
  BY <1>2, <1>3, <1>4, LookupMoves

LEMMA AskNameKeepsInv == TermsInv /\ AskName => TermsInv'
<1> SUFFICES ASSUME TermsInv, AskName PROVE TermsInv'
  OBVIOUS
<1>1. PICK t \in Terms : lookup' = [NoLookup EXCEPT !.phase = "exact", !.asked = t,
                                    !.quiet = rebuild.phase = "idle"]
  BY DEF AskName
<1> DEFINE q == rebuild.phase = "idle"
<1>2. q \in BOOLEAN /\ (q => rebuild.phase = "idle")
  OBVIOUS
<1>3. lookup' = [NoLookup EXCEPT !.phase = "exact", !.asked = t, !.quiet = q]
  BY <1>1
<1> HIDE DEF q
<1>4. /\ lookup' \in [phase : {"none", "exact", "semantic", "done"}, quiet : BOOLEAN,
                   status : {"NONE", "EXACT", "SEMANTIC", "NO_MATCH", "FALLBACK"},
                   names : SUBSET Spellings, asked : Terms]
      /\ lookup'.quiet = q /\ lookup'.phase = "exact"
  BY <1>2, <1>3 DEF NoLookup
<1>5. NamesOfTheHistory'
  BY <1>4 DEF NamesOfTheHistory
<1>6. QED
  BY <1>2, <1>4, <1>5, LookupMoves DEF AskName

LEMMA UseNamesKeepsInv == TermsInv /\ UseNames => TermsInv'
<1> SUFFICES ASSUME TermsInv, UseNames PROVE TermsInv'
  OBVIOUS
<1>1. [profession |-> "UPS", name |-> 1] \in Terms
  BY DEF Terms, Spellings
<1>2. /\ lookup' \in [phase : {"none", "exact", "semantic", "done"}, quiet : BOOLEAN,
                   status : {"NONE", "EXACT", "SEMANTIC", "NO_MATCH", "FALLBACK"},
                   names : SUBSET Spellings, asked : Terms]
      /\ lookup'.quiet = FALSE /\ lookup'.phase = "none"
  BY <1>1 DEF UseNames, NoLookup
<1>3. NamesOfTheHistory'
  BY <1>2 DEF NamesOfTheHistory
<1>4. QED
  BY <1>2, <1>3, LookupMoves DEF UseNames

LEMMA LookupFailsKeepsInv == TermsInv /\ LookupFails => TermsInv'
<1> SUFFICES ASSUME TermsInv, LookupFails PROVE TermsInv'
  OBVIOUS
<1>1. lookup.asked.name \in Spellings
  BY TermFields DEF TermsInv, TermsTypes, Spellings
<1>2. {lookup.asked.name} \in SUBSET Spellings /\ {lookup.asked.name} # {}
  BY <1>1
<1>3. Found("FALLBACK", {lookup.asked.name}) /\ UNCHANGED <<collection, rebuild, rebuilds, indexed>>
  BY DEF LookupFails
<1>4. \A status \in {"FALLBACK"} : Found(status, {lookup.asked.name}) => TermsInv'
  BY <1>2, <1>3, FoundKeepsInv
<1>5. QED
  BY <1>3, <1>4

LEMMA ExactKeepsInv == TermsInv /\ FindExact => TermsInv'
<1> SUFFICES ASSUME TermsInv, FindExact PROVE TermsInv'
  OBVIOUS
<1> DEFINE alike == SameKey(lookup.asked, collection.points)
<1>1. UNCHANGED <<collection, rebuild, rebuilds, indexed>> /\ lookup.asked \in Terms
      /\ collection.points \in SUBSET Terms /\ indexed.names \in SUBSET Terms
  BY DEF FindExact, TermsInv, TermsTypes
<1>2. CASE alike = {}
  <2>1. lookup' = [lookup EXCEPT !.phase = "semantic"]
    BY <1>2 DEF FindExact
  <2>2. /\ lookup' \in [phase : {"none", "exact", "semantic", "done"}, quiet : BOOLEAN,
                   status : {"NONE", "EXACT", "SEMANTIC", "NO_MATCH", "FALLBACK"},
                   names : SUBSET Spellings, asked : Terms]
        /\ lookup'.quiet = lookup.quiet /\ lookup'.phase = "semantic"
        /\ lookup'.asked = lookup.asked
    BY <2>1 DEF TermsInv, TermsTypes
  <2>3. NamesOfTheHistory'
    BY <2>2 DEF NamesOfTheHistory
  <2>4. lookup.quiet => rebuild.phase = "idle"
    BY DEF TermsInv, WholeHistory
  <2>5. QED
    BY <1>1, <1>2, <2>2, <2>3, <2>4, LookupMoves
<1>3. CASE alike # {}
  <2>1. PICK t \in alike : Found("EXACT", {t.name})
    BY <1>3 DEF FindExact
  <2>2. t \in collection.points /\ Key(t) = Key(lookup.asked) /\ t \in Terms
    BY <1>1, <2>1 DEF SameKey
  <2>3. t.name \in Spellings
    BY <2>2, TermFields DEF Spellings
  <2>4. ASSUME indexed.whole
        PROVE  LET own == {u \in indexed.names : u.profession = lookup.asked.profession}
               IN  t \in SameKey(lookup.asked, own)
    <3>1. collection.points = Deduplicated(indexed.names)
      BY <2>4 DEF TermsInv, WholeHistory
    <3>2. t \in indexed.names
      BY <1>1, <2>2, <3>1, OneSpelling
    <3>3. t.profession = lookup.asked.profession
      BY <1>1, <2>2, KeysTell
    <3>4. QED
      BY <2>2, <3>2, <3>3 DEF SameKey
  <2>5. \A status \in {"EXACT"} : Found(status, {t.name}) => TermsInv'
    BY <1>1, <2>3, <2>4, FoundKeepsInv
  <2>6. QED
    BY <2>1, <2>5
<1>4. QED
  BY <1>2, <1>3

LEMMA SimilarKeepsInv == TermsInv /\ SearchSimilar => TermsInv'
<1> SUFFICES ASSUME TermsInv, SearchSimilar PROVE TermsInv'
  OBVIOUS
<1> DEFINE own == {t \in indexed.names : t.profession = lookup.asked.profession}
           n == Min({TopK, Cardinality(OfProfession)})
<1>1. UNCHANGED <<collection, rebuild, rebuilds, indexed>> /\ lookup.asked \in Terms
      /\ collection.points \in SUBSET Terms /\ indexed.names \in SUBSET Terms
      /\ lookup.phase = "semantic"
  BY DEF SearchSimilar, TermsInv, TermsTypes
<1>2. OfProfession \subseteq Terms /\ IsFiniteSet(OfProfession)
  <2>1. OfProfession \subseteq Terms
    BY <1>1 DEF OfProfession
  <2>2. QED
    BY <2>1, TermsAreFinite, FS_Subset
<1>3. n \in {TopK, Cardinality(OfProfession)}
  <2>1. {TopK, Cardinality(OfProfession)} \subseteq Nat
    BY <1>2, FS_CardinalityType, DeviceTermsAssumption
  <2>2. IsFiniteSet({TopK, Cardinality(OfProfession)})
    BY SmallSets, Zenon
  <2>3. QED
    BY <2>1, <2>2, MinOf
<1>4. ASSUME indexed.whole, lookup.quiet
      PROVE  /\ SameKey(lookup.asked, own) = {}
             /\ OfProfession \subseteq own
             /\ OfProfession = {} => own = {}
  <2>1. /\ collection.points = Deduplicated(indexed.names)
        /\ SameKey(lookup.asked, collection.points) = {}
    BY <1>1, <1>4 DEF TermsInv, WholeHistory
  <2>2. /\ Deduplicated(indexed.names) \subseteq indexed.names
        /\ \A t \in indexed.names : \E u \in Deduplicated(indexed.names) : Key(u) = Key(t)
    BY <1>1, OneSpelling
  <2>3. SameKey(lookup.asked, own) = {}
    BY <2>1, <2>2 DEF SameKey
  <2>4. OfProfession \subseteq own
    BY <2>1, <2>2 DEF OfProfession
  <2>5. ASSUME NEW t \in own PROVE OfProfession # {}
    <3>1. PICK u \in Deduplicated(indexed.names) : Key(u) = Key(t)
      BY <2>2
    <3>2. u \in Terms /\ t \in Terms
      BY <1>1, <2>2
    <3>3. u.profession = lookup.asked.profession
      BY <3>1, <3>2, KeysTell
    <3>4. QED
      BY <2>1, <3>3 DEF OfProfession
  <2>6. QED
    BY <2>3, <2>4, <2>5
<1>5. CASE n = 0
  <2>1. Found("NO_MATCH", {lookup.asked.name})
    BY <1>5 DEF SearchSimilar
  <2>2. OfProfession = {}
    <3>1. Cardinality(OfProfession) = 0
      BY <1>3, <1>5, DeviceTermsAssumption
    <3>2. QED
      BY <1>2, <3>1, FS_EmptySet
  <2>3. lookup.asked.name \in Spellings
    BY <1>1, TermFields DEF Spellings
  <2>4. \A status \in {"NO_MATCH"} : Found(status, {lookup.asked.name}) => TermsInv'
    BY <1>1, <1>4, <2>2, <2>3, FoundKeepsInv
  <2>5. QED
    BY <2>1, <2>4
<1>6. CASE n # 0
  <2>1. PICK S \in SUBSET OfProfession :
            Cardinality(S) = n /\ Found("SEMANTIC", {t.name : t \in S})
    BY <1>6 DEF SearchSimilar
  <2>2. S # {}
    <3>1. Cardinality({}) = 0
      BY FS_EmptySet
    <3>2. QED
      BY <1>6, <2>1, <3>1
  <2> DEFINE names == {t.name : t \in S}
  <2>3. names \in SUBSET Spellings /\ names # {}
    BY <1>2, <2>2, TermFields DEF Spellings
  <2>4. indexed.whole /\ lookup.quiet => own # {} /\ names \subseteq {t.name : t \in own}
    BY <1>4, <2>2
  <2> DEFINE alike == {t.name : t \in SameKey(lookup.asked, own)}
  <2>5. indexed.whole /\ lookup.quiet => alike = {}
    BY <1>4
  <2>6. Found("SEMANTIC", names)
    BY <2>1
  <2> HIDE DEF names
  <2>7. \A status \in {"SEMANTIC"} : Found(status, names) => TermsInv'
    BY <1>1, <2>3, <2>4, <2>5, FoundKeepsInv
  <2>8. QED
    BY <2>6, <2>7
<1>7. QED
  BY <1>5, <1>6

LEMMA TermsInvStep == TermsInv /\ [DeviceTermsNext]_termVars => TermsInv'
<1> SUFFICES ASSUME TermsInv, [DeviceTermsNext]_termVars PROVE TermsInv'
  OBVIOUS
<1>1. CASE UNCHANGED termVars
  BY <1>1 DEF termVars, TermsInv, TermsTypes, RebuildOK, WholeHistory, NamesOfTheHistory
<1>2. QED
  BY <1>1, ReadSourcesKeepsInv, EncodeKeepsInv, DeleteKeepsInv, CreateKeepsInv,
     UpsertTermsKeepsInv, RebuildFailsKeepsInv, AskNameKeepsInv, UseNamesKeepsInv,
     LookupFailsKeepsInv, ExactKeepsInv, SimilarKeepsInv DEF DeviceTermsNext

-----------------------------------------------------------------------------
(***************************************************************************)
(* The components together.                                                *)
(***************************************************************************)
\* What is said of the readers holds, and holds after each of their steps.
ReadersInv == ListedMayBeOpened /\ ExclusionsHold

LEMMA ReadersInvInit == ReadModelsInit => ReadersInv
  BY DEF ReadModelsInit, ReadersInv, ListedMayBeOpened, ExclusionsHold

LEMMA ReadersInvStep == ReadersInv /\ [ReadModelsNext]_reading => ReadersInv'
<1>1. ASSUME ReadersInv, UNCHANGED reading PROVE ReadersInv'
  BY <1>1 DEF ReadersInv, ListedMayBeOpened, ExclusionsHold
<1>2. QED
  BY <1>1, ReadersStep DEF ReadersInv

\* A behaviour of the composition is one of every component: the steps of the other
\* components are stuttering steps to it.
LEMMA PartsInit ==
    ServicesInit =>
        /\ SuppliersInit /\ ToolCallsInit /\ AnalysisInit /\ InvestigationInit
        /\ KnowledgeInit /\ RecommendationInit /\ ReadModelsInit /\ DeviceTermsInit
  BY DEF ServicesInit

LEMMA PartsStep ==
    [ServicesNext]_servicesVars =>
        /\ [SuppliersNext]_supplierVars /\ [ToolCallsNext]_toolVars
        /\ [AnalysisNext]_analysisVars /\ [InvestigationNext]_inquiry
        /\ [KnowledgeNext]_knowledgeVars /\ [RecommendationNext]_advice
        /\ [ReadModelsNext]_reading /\ [DeviceTermsNext]_termVars
<1>1. CASE UNCHANGED servicesVars
  BY <1>1 DEF servicesVars
<1>2. CASE SuppliersPart
  BY <1>2 DEF SuppliersPart
<1>3. CASE ToolsPart
  BY <1>3 DEF ToolsPart
<1>4. CASE AnalysisPart
  BY <1>4 DEF AnalysisPart
<1>5. CASE InvestigationPart
  BY <1>5 DEF InvestigationPart
<1>6. CASE KnowledgePart
  BY <1>6 DEF KnowledgePart
<1>7. CASE RecommendationPart
  BY <1>7 DEF RecommendationPart
<1>8. CASE ReadersPart
  BY <1>8 DEF ReadersPart
<1>9. CASE TermsPart
  BY <1>9 DEF TermsPart
<1>10. QED
  BY <1>1, <1>2, <1>3, <1>4, <1>5, <1>6, <1>7, <1>8, <1>9 DEF ServicesNext

\* The composition implements the specifications of its components (of the tool
\* calls and of the analysis without their fairness), so that what is proved of
\* a component holds in it.
THEOREM ServicesImplementTheirParts ==
    ServicesSpec =>
        /\ SuppliersSpec /\ InvestigationSpec /\ KnowledgeSpec
        /\ RecommendationSpec /\ ReadModelsInit /\ [][ReadModelsNext]_reading
        /\ DeviceTermsSpec
        /\ ToolCallsInit /\ [][ToolCallsNext]_toolVars
        /\ AnalysisInit /\ [][AnalysisNext]_analysisVars
<1>1. QED
  BY PartsInit, PartsStep, PTL
     DEF ServicesSpec, SuppliersSpec, InvestigationSpec, KnowledgeSpec,
         RecommendationSpec, DeviceTermsSpec

\* With any number of rows and rebuildings and any limits: a recommendation searches by
\* the names of the history while the index holds a whole one, and what it shows is
\* the newest of the evidence, of the one supplier it was asked about.
THEOREM RecommendationsKeepEvidence == ServicesSpec => []EvidenceIsKept
<1>1. AdviceInv => NewestIsKept /\ OneSupplier
  BY EvidenceIsNewest, EvidenceOfOneSupplier
<1>2. TermsInv => NamesOfTheHistory
  BY DEF TermsInv
<1>3. AdviceInv /\ TermsInv => EvidenceIsKept
  BY <1>1, <1>2 DEF EvidenceIsKept
<1>4. QED
  BY <1>3, PartsInit, PartsStep, AdviceInvInit, AdviceInvStep, TermsInvInit, TermsInvStep, PTL
     DEF ServicesSpec

\* Whatever is asked for: what lists, records, reports and a manager's supplier
\* evidence contain may be opened by their reader; other evidence is shown to those
\* with a role, and commercial evidence to building managers and purchasers; a
\* search is permitted to its user, and what was to be left out is left out.
THEOREM ReadersKeepToTheirRights == ServicesSpec => []ReadersStayWithin
<1>1. AdviceInv /\ ReadersInv => ReadersStayWithin
  BY DEF AdviceInv, ReadersInv, ReadersStayWithin
<1>2. QED
  BY <1>1, PartsInit, PartsStep, AdviceInvInit, AdviceInvStep, ReadersInvInit, ReadersInvStep, PTL
     DEF ServicesSpec

-----------------------------------------------------------------------------
(***************************************************************************)
(* The types of all components.                                            *)
(***************************************************************************)
LEMMA ReadersTypesInit == ReadModelsInit => ReadModelsTypeOK
  BY DEF ReadModelsInit, ReadModelsTypeOK

\* What a query shows is of its rows, and who is recommended is one of the suppliers.
LEMMA ReadersTypesStep == ReadModelsTypeOK /\ [ReadModelsNext]_reading => ReadModelsTypeOK'
<1> SUFFICES ASSUME ReadModelsTypeOK, [ReadModelsNext]_reading PROVE ReadModelsTypeOK'
  OBVIOUS
<1>1. CASE UNCHANGED reading
  BY <1>1 DEF ReadModelsTypeOK
<1>2. ASSUME \E u \in Readers : Finds(u) PROVE ReadModelsTypeOK'
  <2>1. reading'.kind = "request"
    BY <1>2 DEF Finds
  <2>2. QED
    BY <2>1 DEF ReadModelsTypeOK
<1>3. CASE QueryRows
  <2>1. PICK q \in HistoryRows, r \in HistoryRows, blacklisted \in SUBSET {"A", "B"} :
            reading' = [kind |-> "query", rows |-> {q, r}, blacklisted |-> blacklisted,
                        shown |-> WithoutExcluded({q, r}, blacklisted)]
    BY <1>3 DEF QueryRows
  <2>2. WithoutExcluded({q, r}, blacklisted) \subseteq {q, r}
    BY DEF WithoutExcluded
  <2>3. /\ reading'.kind = "query" /\ reading'.blacklisted \subseteq {"A", "B"}
        /\ reading'.rows \subseteq HistoryRows /\ reading'.shown \subseteq HistoryRows
    BY <2>1, <2>2
  <2>4. QED
    BY <2>3 DEF ReadModelsTypeOK
<1>4. CASE RecommendSuppliers
  <2>1. PICK blacklisted \in SUBSET TopSuppliers :
            reading' = [kind |-> "suppliers", blacklisted |-> blacklisted,
                        shown |-> Recommended(blacklisted)]
    BY <1>4 DEF RecommendSuppliers
  <2>2. Recommended(blacklisted) \subseteq TopSuppliers
    BY DEF Recommended, TopSuppliers
  <2>3. reading'.kind = "suppliers" /\ reading'.shown \subseteq TopSuppliers
    BY <2>1, <2>2
  <2>4. QED
    BY <2>3 DEF ReadModelsTypeOK
<1>5. CASE ShowEvidence
  <2>1. reading'.kind = "evidence" /\ reading'.of \in Evidences
    BY <1>5 DEF ShowEvidence
  <2>2. QED
    BY <2>1 DEF ReadModelsTypeOK
<1>6. QED
  BY <1>1, <1>2, <1>3, <1>4, <1>5 DEF ReadModelsNext, ListRequests, ReadRecord, AnalyseRequest,
     ListBuildingRisks, ChooseHandler, ShowSupplierEvidence

LEMMA AdviceTypes == AdviceInv => RecommendationTypeOK
<1> SUFFICES ASSUME AdviceInv PROVE RecommendationTypeOK
  OBVIOUS
<1>1. advice \in AdviceRecord
  BY DEF AdviceInv
<1>2. DOMAIN advice = DOMAIN Quiet
  BY <1>1 DEF AdviceRecord, Quiet
<1>3. /\ advice.profile \in Profiles \cup {"NONE"}
      /\ advice.phase \in {"ASKED", "RESOLVED", "SEARCH", "CLARIFY", "ANSWERED", "FAILED"}
      /\ advice.permitted \in BOOLEAN /\ advice.asked \subseteq SUBSET Fields
      /\ advice.evidence \in Seq(EvidenceItem)
  BY <1>1 DEF AdviceRecord
<1>4. \A i \in DOMAIN advice.evidence : advice.evidence[i] \in EvidenceItem
  BY <1>3
<1>5. QED
  BY <1>2, <1>3, <1>4 DEF RecommendationTypeOK, EvidenceItem, Fields

\* What is left to insert is of what was read.
LEMMA TermTypes == TermsInv => DeviceTermsTypeOK
<1> SUFFICES ASSUME TermsInv PROVE DeviceTermsTypeOK
  OBVIOUS
<1>1. TermsTypes /\ RebuildOK
  BY DEF TermsInv
<1>2. rebuild.sources \in SUBSET Terms
  BY <1>1 DEF TermsTypes
<1>3. Deduplicated(rebuild.sources) \subseteq rebuild.sources
  BY <1>2, OneSpelling
<1>4. rebuild.left \subseteq rebuild.sources
  BY <1>1, <1>3 DEF TermsTypes, RebuildOK
<1>5. QED
  BY <1>1, <1>4 DEF TermsTypes, DeviceTermsTypeOK

LEMMA PartsStay == part \in Parts /\ [ServicesNext]_servicesVars => part' \in Parts
  BY DEF ServicesNext, servicesVars, SuppliersPart, ToolsPart, AnalysisPart, InvestigationPart,
     KnowledgePart, RecommendationPart, ReadersPart, TermsPart

\* The variables of every component have the values the code gives them, for rows,
\* runs, calls and histories of any number, and with any number of runs of a sync.
THEOREM ServicesTypeCorrect == ServicesSpec => []ServicesTypeOK
<1> DEFINE Inv == /\ part \in Parts /\ SuppliersInv /\ RowsExist /\ ToolInv /\ AnalysisInv
                  /\ InquiryInv /\ TypesInv /\ AdviceInv /\ ReadModelsTypeOK /\ TermsInv
<1>1. ServicesInit => Inv
  BY PartsInit, SuppliersInvInit, RowsExistInit, ToolInvInit, AnalysisInvInit, InquiryInvInit,
     TypesInvInit, AdviceInvInit, ReadersTypesInit, TermsInvInit DEF ServicesInit
<1>2. Inv /\ [ServicesNext]_servicesVars => Inv'
  BY PartsStep, SuppliersStep, RowsExistStep, ToolInvStep, AnalysisInvStep, InquiryInvStep,
     TypesInvStep, AdviceInvStep, ReadersTypesStep, TermsInvStep, PartsStay
<1>3. Inv => ServicesTypeOK
  <2>1. SuppliersInv /\ RowsExist => SuppliersTypeOK
    BY RowsHaveTypes
  <2>2. ToolInv => ToolCallsTypeOK
    BY DEF ToolInv
  <2>3. AnalysisInv => AnalysisTypeOK
    BY DEF AnalysisInv
  <2>4. InquiryInv => InvestigationTypeOK
    BY DEF InquiryInv
  <2>5. QED
    BY <2>1, <2>2, <2>3, <2>4, TypesInvTypes, AdviceTypes, TermTypes DEF ServicesTypeOK
<1>4. QED
  BY <1>1, <1>2, <1>3, PTL DEF ServicesSpec
=============================================================================
