------------------------ MODULE PredecessorSearch_proofs ------------------------
(***************************************************************************)
(* For every finite or infinite set of blocks and every graph on it, the   *)
(* worklist search returns the transitive predecessors, if it returns.     *)
(* On a finite graph it takes one step for each entry that it is to look   *)
(* at, of which there is at most one for each edge and each first entry;   *)
(* and it returns what the operator of ReachingValues does.                *)
(***************************************************************************)
EXTENDS PredecessorSearch, IR_proofs

\* What the head and the tail of a worklist hold, and what a push adds.
LEMMA HeadAndTail ==
  ASSUME NEW s \in Seq(Blocks), s # <<>>
  PROVE  /\ Head(s) \in Blocks
         /\ Tail(s) \in Seq(Blocks)
         /\ ToSet(s) = {Head(s)} \cup ToSet(Tail(s))
<1>1. Head(s) \in Blocks /\ Tail(s) \in Seq(Blocks)
  OBVIOUS
<1>2. ASSUME NEW x \in ToSet(s) PROVE x \in {Head(s)} \cup ToSet(Tail(s))
  <2>1. PICK k \in DOMAIN s : x = s[k]
    BY <1>2 DEF ToSet
  <2>2. CASE k = 1
    BY <2>1, <2>2
  <2>3. CASE k # 1
    <3>1. k - 1 \in DOMAIN Tail(s) /\ Tail(s)[k - 1] = s[k]
      BY <2>3
    <3> QED  BY <2>1, <3>1 DEF ToSet
  <2> QED  BY <2>2, <2>3
<1>3. ASSUME NEW x \in {Head(s)} \cup ToSet(Tail(s)) PROVE x \in ToSet(s)
  <2>1. CASE x = Head(s)
    <3>1. 1 \in DOMAIN s /\ x = s[1]
      BY <2>1
    <3> QED  BY <3>1 DEF ToSet
  <2>2. CASE x \in ToSet(Tail(s))
    <3>1. PICK k \in DOMAIN Tail(s) : x = Tail(s)[k]
      BY <2>2 DEF ToSet
    <3>2. k + 1 \in DOMAIN s /\ x = s[k + 1]
      BY <3>1
    <3> QED  BY <3>2 DEF ToSet
  <2> QED  BY <1>3, <2>1, <2>2
<1> QED  BY <1>1, <1>2, <1>3

LEMMA Push ==
  ASSUME NEW s \in Seq(Blocks), NEW t \in Seq(Blocks)
  PROVE  ToSet(s \o t) = ToSet(s) \cup ToSet(t)
<1>1. ASSUME NEW x \in ToSet(s \o t) PROVE x \in ToSet(s) \cup ToSet(t)
  <2>1. PICK k \in DOMAIN (s \o t) : x = (s \o t)[k]
    BY <1>1 DEF ToSet
  <2>2. CASE k <= Len(s)
    <3>1. k \in DOMAIN s /\ x = s[k]
      BY <2>1, <2>2
    <3> QED  BY <3>1 DEF ToSet
  <2>3. CASE ~ k <= Len(s)
    <3>1. k - Len(s) \in DOMAIN t /\ x = t[k - Len(s)]
      BY <2>1, <2>3
    <3> QED  BY <3>1 DEF ToSet
  <2> QED  BY <2>2, <2>3
<1>2. ASSUME NEW x \in ToSet(s) PROVE x \in ToSet(s \o t)
  <2>1. PICK k \in DOMAIN s : x = s[k]
    BY <1>2 DEF ToSet
  <2>2. k \in DOMAIN (s \o t) /\ x = (s \o t)[k]
    BY <2>1
  <2> QED  BY <2>2 DEF ToSet
<1>3. ASSUME NEW x \in ToSet(t) PROVE x \in ToSet(s \o t)
  <2>1. PICK k \in DOMAIN t : x = t[k]
    BY <1>3 DEF ToSet
  <2>2. k + Len(s) \in DOMAIN (s \o t) /\ x = (s \o t)[k + Len(s)]
    BY <2>1
  <2> QED  BY <2>2 DEF ToSet
<1> QED  BY <1>1, <1>2, <1>3

-------------------------------------------------------------------------------
(* The inductive invariant: the worklist holds what the result lacks to be *)
(* closed, and neither holds anything else.                                *)
IInv == TypeOK /\ NothingForgotten /\ OnlyPredecessors

LEMMA InitIInv == Init => IInv
<1> SUFFICES ASSUME Init PROVE IInv
  OBVIOUS
<1>1. preds \in [Blocks -> Seq(Blocks)]
  BY GraphsAssumption DEF Init
<1>2. TypeOK
  BY <1>1 DEF Init, TypeOK
<1>3. NothingForgotten
  BY DEF Init, NothingForgotten, HasPredecessors
<1>4. OnlyPredecessors
  BY DEF Init, OnlyPredecessors, Closed, HasPredecessors
<1> QED  BY <1>2, <1>3, <1>4 DEF IInv

LEMMA ContinueIInv == IInv /\ Continue => IInv'
<1> SUFFICES ASSUME IInv, Continue PROVE IInv'
  OBVIOUS
<1>1. /\ Tail(q) \in Seq(Blocks)
      /\ ToSet(q) = {Head(q)} \cup ToSet(Tail(q))
  BY HeadAndTail DEF IInv, TypeOK, Continue
<1>2. blocks' \cup ToSet(q') = blocks \cup ToSet(q)
  BY <1>1 DEF Continue
<1>3. TypeOK'
  BY <1>1 DEF IInv, TypeOK, Continue
<1>4. NothingForgotten'
  BY <1>2 DEF IInv, NothingForgotten, HasPredecessors, Continue
<1>5. OnlyPredecessors'
  BY <1>2 DEF IInv, OnlyPredecessors, Closed, HasPredecessors, Continue
<1> QED  BY <1>3, <1>4, <1>5 DEF IInv

LEMMA VisitIInv == IInv /\ Visit => IInv'
<1> SUFFICES ASSUME IInv, Visit PROVE IInv'
  OBVIOUS
<1>1. /\ Head(q) \in Blocks
      /\ Tail(q) \in Seq(Blocks)
      /\ ToSet(q) = {Head(q)} \cup ToSet(Tail(q))
  BY HeadAndTail DEF IInv, TypeOK, Visit
<1>2. preds[Head(q)] \in Seq(Blocks)
  BY <1>1, GraphsAssumption DEF IInv, TypeOK
<1>3. ToSet(q') = ToSet(Tail(q)) \cup ToSet(preds[Head(q)])
  BY <1>1, <1>2, Push DEF Visit
<1>4. blocks' \cup ToSet(q') = blocks \cup ToSet(q) \cup ToSet(preds[Head(q)])
  BY <1>1, <1>3 DEF Visit
<1>5. TypeOK'
  BY <1>1, <1>2 DEF IInv, TypeOK, Visit
<1>6. NothingForgotten'
  <2> SUFFICES ASSUME NEW b \in blocks' \cup {block}
               PROVE  ToSet(preds[b]) \subseteq blocks' \cup ToSet(q')
    BY DEF NothingForgotten, HasPredecessors, Visit
  <2>1. CASE b = Head(q)
    BY <1>4, <2>1
  <2>2. CASE b # Head(q)
    BY <1>4, <2>2 DEF IInv, NothingForgotten, HasPredecessors, Visit
  <2> QED  BY <2>1, <2>2
<1>7. OnlyPredecessors'
  <2> SUFFICES ASSUME NEW S \in SUBSET Blocks, Closed(S)'
               PROVE  blocks' \cup ToSet(q') \subseteq S
    BY DEF OnlyPredecessors
  <2>1. Closed(S)
    BY DEF Closed, HasPredecessors, Visit
  <2>2. blocks \cup ToSet(q) \subseteq S
    BY <2>1 DEF IInv, OnlyPredecessors
  <2>3. ToSet(preds[Head(q)]) \subseteq S
    BY <1>1, <2>1, <2>2 DEF Closed, HasPredecessors
  <2> QED  BY <1>4, <2>2, <2>3
<1> QED  BY <1>5, <1>6, <1>7 DEF IInv

LEMMA NextIInv == IInv /\ [Next]_vars => IInv'
<1>1. IInv /\ Return => IInv'
  BY DEF IInv, TypeOK, NothingForgotten, OnlyPredecessors, Closed,
         HasPredecessors, Return, vars
<1>2. IInv /\ UNCHANGED vars => IInv'
  BY DEF IInv, TypeOK, NothingForgotten, OnlyPredecessors, Closed,
         HasPredecessors, vars
<1> QED  BY <1>1, <1>2, ContinueIInv, VisitIInv DEF Next

THEOREM Invariance == Spec => []IInv
BY InitIInv, NextIInv, PTL DEF Spec

\* The search's state keeps its shape on every graph.
THEOREM TypeCorrect == Spec => []TypeOK
<1>1. IInv => TypeOK
  BY DEF IInv
<1> QED  BY Invariance, <1>1, PTL

\* On every graph, what the result lacks to be closed under predecessors waits
\* in the worklist.
THEOREM Complete == Spec => []NothingForgotten
<1>1. IInv => NothingForgotten
  BY DEF IInv
<1> QED  BY Invariance, <1>1, PTL

\* On every graph, the result is the least set that holds the predecessors of
\* the block and of its own members.
THEOREM Correct == Spec => []ReturnsTransitivePredecessors
<1>1. IInv => ReturnsTransitivePredecessors
  <2> SUFFICES ASSUME IInv, q = <<>> PROVE
        /\ Closed(blocks)
        /\ \A S \in SUBSET Blocks : Closed(S) => blocks \subseteq S
    BY DEF ReturnsTransitivePredecessors
  <2>1. ToSet(q) = {}
    BY DEF ToSet
  <2>2. Closed(blocks)
    BY <2>1 DEF IInv, NothingForgotten, Closed, HasPredecessors
  <2>3. \A S \in SUBSET Blocks : Closed(S) => blocks \subseteq S
    BY DEF IInv, OnlyPredecessors
  <2> QED  BY <2>2, <2>3
<1> QED  BY Invariance, <1>1, PTL

-------------------------------------------------------------------------------
(* The work that is left.                                                  *)

\* The edges into some blocks are finitely many.
LEMMA EdgesAreFinite ==
  ASSUME IsFiniteSet(Blocks), preds \in [Blocks -> Seq(Blocks)], NEW S \in SUBSET Blocks
  PROVE  IsFiniteSet(EdgesInto(S))
<1> DEFINE T == {{b} \X DOMAIN preds[b] : b \in S}
           f == [b \in S |-> {b} \X DOMAIN preds[b]]
<1>1. IsFiniteSet(S)
  BY FS_Subset
<1>2. f \in Surjection(S, T)
  BY DEF Surjection
<1>3. \A t \in T : IsFiniteSet(t)
  <2> SUFFICES ASSUME NEW b \in S PROVE IsFiniteSet({b} \X DOMAIN preds[b])
    OBVIOUS
  <2>1. IsFiniteSet(DOMAIN preds[b])
    <3>1. Len(preds[b]) \in Nat /\ DOMAIN preds[b] = 1 .. Len(preds[b])
      OBVIOUS
    <3> QED  BY <3>1, FS_Interval
  <2> QED  BY <2>1, FS_Singleton, FS_Product
<1> HIDE DEF T, f
<1>4. IsFiniteSet(T)
  BY <1>1, <1>2, FS_Surjection
<1>5. IsFiniteSet(UNION T)
  BY <1>3, <1>4, FS_UNION
<1> QED  BY <1>5 DEF EdgesInto, T

\* A block has one edge into it for each of its predecessors, and no other block
\* has those edges.
LEMMA EdgesOfOne ==
  ASSUME IsFiniteSet(Blocks), preds \in [Blocks -> Seq(Blocks)],
         NEW S \in SUBSET Blocks, NEW h \in S
  PROVE  Cardinality(EdgesInto(S)) = Cardinality(EdgesInto(S \ {h})) + Len(preds[h])
<1> DEFINE own  == {h} \X DOMAIN preds[h]
           rest == EdgesInto(S \ {h})
<1>1. IsFiniteSet(own) /\ Cardinality(own) = Len(preds[h]) /\ Len(preds[h]) \in Nat
  <2>1. Len(preds[h]) \in Nat /\ DOMAIN preds[h] = 1 .. Len(preds[h])
    OBVIOUS
  <2>2. IsFiniteSet(1 .. Len(preds[h])) /\ Cardinality(1 .. Len(preds[h])) = Len(preds[h])
    BY <2>1, FS_Interval
  <2>3. IsFiniteSet({h}) /\ Cardinality({h}) = 1
    BY FS_Singleton
  <2>4. /\ IsFiniteSet({h} \X (1 .. Len(preds[h])))
        /\ Cardinality({h} \X (1 .. Len(preds[h])))
             = Cardinality({h}) * Cardinality(1 .. Len(preds[h]))
    BY <2>2, <2>3, FS_Product
  <2> QED  BY <2>1, <2>2, <2>3, <2>4
<1>2. IsFiniteSet(rest)
  BY EdgesAreFinite
<1>3. EdgesInto(S) = rest \cup own
  BY DEF EdgesInto
<1>4. rest \cap own = {}
  BY DEF EdgesInto
<1> HIDE DEF own, rest
<1>5. Cardinality(rest \cup own) = Cardinality(rest) + Cardinality(own) - Cardinality({})
  BY <1>1, <1>2, <1>4, FS_Union
<1>6. Cardinality({}) = 0 /\ Cardinality(rest) \in Nat
  BY <1>2, FS_EmptySet, FS_CardinalityType
<1>7. Cardinality(EdgesInto(S)) = Cardinality(rest) + Len(preds[h])
  BY <1>1, <1>3, <1>5, <1>6
<1> QED  BY <1>7 DEF rest

\* The work is a number, and what waits is part of it.
LEMMA WorkIsNumber ==
  ASSUME IsFiniteSet(Blocks), TypeOK
  PROVE  /\ Cardinality(EdgesInto(Blocks \ blocks)) \in Nat
         /\ Len(q) \in Nat /\ WorkLeft \in Nat /\ Len(q) <= WorkLeft
<1>1. preds \in [Blocks -> Seq(Blocks)] /\ Len(q) \in Nat
  BY GraphsAssumption DEF TypeOK
<1>2. Cardinality(EdgesInto(Blocks \ blocks)) \in Nat
  BY <1>1, EdgesAreFinite, FS_CardinalityType
<1> QED  BY <1>1, <1>2 DEF WorkLeft

LEMMA StepIsProgress ==
  ASSUME IsFiniteSet(Blocks), TypeOK, Continue \/ Visit
  PROVE  WorkLeft' = WorkLeft - 1
<1>1. preds \in [Blocks -> Seq(Blocks)]
  BY GraphsAssumption DEF TypeOK
<1>2. /\ Head(q) \in Blocks /\ Tail(q) \in Seq(Blocks)
      /\ Len(Tail(q)) = Len(q) - 1 /\ Len(q) \in Nat
  <2>1. q \in Seq(Blocks) /\ q # <<>>
    BY DEF TypeOK, Continue, Visit
  <2> QED  BY <2>1
<1>3. \A S : EdgesInto(S)' = EdgesInto(S)
  BY DEF EdgesInto, Continue, Visit
<1>4. Cardinality(EdgesInto(Blocks \ blocks)) \in Nat
  BY WorkIsNumber
<1>5. CASE Continue
  <2>1. EdgesInto(Blocks \ blocks)' = EdgesInto(Blocks \ blocks)
    BY <1>5 DEF EdgesInto, Continue
  <2>2. Len(q') = Len(q) - 1
    BY <1>2, <1>5 DEF Continue
  <2> QED  BY <1>2, <1>4, <2>1, <2>2 DEF WorkLeft
<1>6. CASE Visit
  <2>1. Head(q) \in Blocks \ blocks /\ blocks' = blocks \cup {Head(q)}
    BY <1>2, <1>6 DEF Visit
  <2>2. Len(q') = Len(q) - 1 + Len(preds[Head(q)]) /\ Len(preds[Head(q)]) \in Nat
    <3>1. preds[Head(q)] \in Seq(Blocks) /\ q' = Tail(q) \o preds[Head(q)]
      BY <1>1, <1>2, <1>6 DEF Visit
    <3> QED  BY <1>2, <3>1
  <2>3. Cardinality(EdgesInto(Blocks \ blocks))
          = Cardinality(EdgesInto((Blocks \ blocks) \ {Head(q)})) + Len(preds[Head(q)])
    BY <1>1, <2>1, EdgesOfOne
  <2>4. EdgesInto(Blocks \ blocks)' = EdgesInto((Blocks \ blocks) \ {Head(q)})
    <3>1. Blocks \ blocks' = (Blocks \ blocks) \ {Head(q)}
      BY <2>1
    <3>2. EdgesInto(Blocks \ blocks)' = UNION {{b} \X DOMAIN preds[b] : b \in Blocks \ blocks'}
      BY <1>6 DEF EdgesInto, Visit
    <3> QED  BY <3>1, <3>2 DEF EdgesInto
  <2>5. Cardinality(EdgesInto((Blocks \ blocks) \ {Head(q)})) \in Nat
    BY <1>1, EdgesAreFinite, FS_CardinalityType
  <2> QED  BY <1>2, <2>2, <2>3, <2>4, <2>5 DEF WorkLeft
<1> QED  BY <1>5, <1>6

\* On every finite graph, the search is one step nearer its end after each step:
\* it takes as many steps as there was work, and no fairness makes it longer.
THEOREM Progress ==
  ASSUME IsFiniteSet(Blocks)
  PROVE  Spec => EveryStepIsProgress
<1>1. IInv /\ [Next]_vars => [WorkLeft' = WorkLeft - 1]_vars
  BY StepIsProgress DEF IInv, Next, Return
<1> QED  BY <1>1, Invariance, PTL DEF Spec, EveryStepIsProgress

\* The work that was there in the beginning.
WorkInv == WorkLeft <= Len(preds[block]) + Cardinality(EdgesInto(Blocks))

\* On every finite graph, the worklist holds no more than an entry for each edge
\* and those it began with.
THEOREM Bounded ==
  ASSUME IsFiniteSet(Blocks)
  PROVE  Spec => []WorklistBounded
<1>1. Init => WorkInv
  <2> SUFFICES ASSUME Init PROVE WorkInv
    OBVIOUS
  <2>1. q = preds[block] /\ Blocks \ blocks = Blocks
    BY DEF Init
  <2>2. Len(q) \in Nat /\ Cardinality(EdgesInto(Blocks)) \in Nat
    BY <2>1, InitIInv, WorkIsNumber DEF IInv
  <2>3. WorkLeft = Len(preds[block]) + Cardinality(EdgesInto(Blocks))
    BY <2>1 DEF WorkLeft
  <2>4. Len(preds[block]) + Cardinality(EdgesInto(Blocks)) \in Nat
    BY <2>1, <2>2
  <2> QED  BY <2>3, <2>4 DEF WorkInv
<1>2. IInv /\ WorkInv /\ [Next]_vars => WorkInv'
  <2> SUFFICES ASSUME IInv, WorkInv, [Next]_vars PROVE WorkInv'
    OBVIOUS
  <2>1. CASE Continue \/ Visit
    <3>1. WorkLeft' = WorkLeft - 1 /\ WorkLeft \in Nat
      BY <2>1, StepIsProgress, WorkIsNumber DEF IInv
    <3>2. UNCHANGED << preds, block >>
      BY <2>1 DEF Continue, Visit
    <3>3. Len(preds[block]) + Cardinality(EdgesInto(Blocks)) \in Nat
      <4>1. preds \in [Blocks -> Seq(Blocks)] /\ block \in Blocks
        BY GraphsAssumption DEF IInv, TypeOK
      <4>2. Cardinality(EdgesInto(Blocks)) \in Nat
        BY <4>1, EdgesAreFinite, FS_CardinalityType
      <4>3. Len(preds[block]) \in Nat
        BY <4>1
      <4> QED  BY <4>2, <4>3
    <3> DEFINE most == Len(preds[block]) + Cardinality(EdgesInto(Blocks))
    <3>4. most' = most
      BY <3>2 DEF EdgesInto
    <3>5. WorkLeft <= most
      BY DEF WorkInv
    <3>6. most \in Nat
      BY <3>3
    <3> HIDE DEF most
    <3>7. WorkLeft' <= most'
      BY <3>1, <3>4, <3>5, <3>6
    <3> QED  BY <3>7 DEF WorkInv, most
  <2>2. CASE UNCHANGED vars
    BY <2>2 DEF WorkInv, WorkLeft, EdgesInto, vars
  <2> QED  BY <2>1, <2>2 DEF Next, Return
<1>3. IInv /\ WorkInv => WorklistBounded
  <2> SUFFICES ASSUME IInv, WorkInv PROVE WorklistBounded
    OBVIOUS
  <2>1. Len(q) \in Nat /\ WorkLeft \in Nat /\ Len(q) <= WorkLeft
    BY WorkIsNumber DEF IInv
  <2>2. Len(preds[block]) + Cardinality(EdgesInto(Blocks)) \in Nat
    <3>1. preds \in [Blocks -> Seq(Blocks)] /\ block \in Blocks
      BY GraphsAssumption DEF IInv, TypeOK
    <3>2. Cardinality(EdgesInto(Blocks)) \in Nat
      BY <3>1, EdgesAreFinite, FS_CardinalityType
    <3>3. Len(preds[block]) \in Nat
      BY <3>1
    <3> QED  BY <3>2, <3>3
  <2> QED  BY <2>1, <2>2 DEF WorkInv, WorklistBounded
<1> QED  BY <1>1, <1>2, <1>3, Invariance, PTL DEF Spec

-------------------------------------------------------------------------------
(* The search and the operator.                                            *)

Incoming == [b \in Blocks |-> ToSet(preds[b])]

\* What is found is least in the sense of IR_proofs too.
LEMMA FoundIsLeast ==
  ASSUME IInv, q = <<>>
  PROVE  /\ IsRelation(Incoming, Blocks) /\ ToSet(preds[block]) \in SUBSET Blocks
         /\ blocks = Least(Incoming, Blocks, ToSet(preds[block]))
<1>1. /\ block \in Blocks /\ blocks \subseteq Blocks
      /\ \A b \in Blocks : ToSet(preds[b]) \subseteq Blocks
  <2>1. preds \in [Blocks -> Seq(Blocks)] /\ block \in Blocks /\ blocks \subseteq Blocks
    BY GraphsAssumption DEF IInv, TypeOK
  <2> QED  BY <2>1 DEF ToSet
<1>2. Closed(blocks) /\ \A S \in SUBSET Blocks : Closed(S) => blocks \subseteq S
  <2>1. ToSet(q) = {}
    BY DEF ToSet
  <2> QED  BY <2>1 DEF IInv, NothingForgotten, OnlyPredecessors, Closed
<1>3. \A S \in SUBSET Blocks :
        Closed(S) <=> ToSet(preds[block]) \subseteq S /\ ClosedUnder(Incoming, S)
  BY DEF Closed, HasPredecessors, ClosedUnder, Incoming
<1>4. blocks = Least(Incoming, Blocks, ToSet(preds[block]))
  BY <1>1, <1>2, <1>3 DEF Least
<1>5. IsRelation(Incoming, Blocks)
  BY <1>1 DEF IsRelation, Incoming
<1> QED  BY <1>1, <1>4, <1>5

\* The operator computes the same set, for any function that has this graph.
LEMMA SearchIsOperator ==
  ASSUME IInv, q = <<>>, IsFiniteSet(Blocks),
         NEW f, R!BlocksOf(f) = Blocks,
         \A b \in Blocks : R!Preds(f, b) = ToSet(preds[b])
  PROVE  blocks = R!transitivePredecessors(f, block)
<1> DEFINE B == Blocks
           E == Incoming
           S == ToSet(preds[block])
           Q(T) == T \cup UNION {R!Preds(f, p) : p \in T}
           G(g) == g = [T \in SUBSET R!BlocksOf(f) |-> IF Q(T) = T THEN T ELSE g[Q(T)]]
<1>1. R!transitivePredecessors(f, block) = (CHOOSE g : G(g))[R!Preds(f, block)]
  BY Zenon DEF R!transitivePredecessors, R!Closure
<1>2. \A T \in SUBSET B : Q(T) = Extended(E, T)
  BY DEF Extended, Incoming
<1>3. IsRelation(E, B) /\ S \in SUBSET B /\ blocks = Least(E, B, S) /\ R!Preds(f, block) = S
  BY FoundIsLeast DEF IInv, TypeOK
<1> HIDE DEF E, Q, S
<1>4. \A g : G(g) <=> IsGrow(g, E, B)
  BY <1>2 DEF IsGrow
<1>5. (CHOOSE g : G(g)) = (CHOOSE g : IsGrow(g, E, B))
  <2> HIDE DEF G
  <2> QED  BY <1>4, Zenon
<1>6. IsGrow(CHOOSE g : IsGrow(g, E, B), E, B)
  BY <1>3, GrowExists, Zenon
<1> HIDE DEF G, B
<1>7. (CHOOSE g : IsGrow(g, E, B))[S] = Least(E, B, S)
  BY <1>3, <1>6, GrowIs DEF B
<1> QED  BY <1>1, <1>3, <1>5, <1>7

\* A finite set as a sequence.
LEMMA SequenceOf ==
  ASSUME NEW S, IsFiniteSet(S)
  PROVE  SetToSeq(S) \in Seq(S) /\ ToSet(SetToSeq(S)) = S
<1> DEFINE n == Cardinality(S)
           s == SetToSeq(S)
<1>1. n \in Nat /\ ExistsBijection(1 .. n, S)
  BY FS_CardinalityType
<1>2. PICK h \in [1 .. n -> S] : \A a, b \in 1 .. n : h[a] = h[b] => a = b
  BY <1>1 DEF ExistsBijection, Bijection, Injection, IsInjective
<1>3. \E g \in [1 .. n -> S] : IsInjective(g)
  BY <1>2 DEF IsInjective
<1>4. s \in [1 .. n -> S] /\ IsInjective(s)
  BY <1>3 DEF SetToSeq
<1> HIDE DEF s
<1>5. s \in Injection(1 .. n, S)
  BY <1>4 DEF Injection, IsInjective
<1>6. Cardinality(1 .. n) = n
  BY <1>1, FS_Interval
<1>7. s \in Surjection(1 .. n, S)
  BY <1>5, <1>6, FS_Injection
<1>8. ToSet(s) = S
  BY <1>4, <1>7 DEF Surjection, ToSet
<1> QED  BY <1>1, <1>4, <1>8 DEF s

\* The function of AsFunction has this graph.
LEMMA AsFunctionIs ==
  ASSUME IInv, IsFiniteSet(Blocks)
  PROVE  /\ R!BlocksOf(AsFunction) = Blocks
         /\ \A b \in Blocks : R!Preds(AsFunction, b) = ToSet(preds[b])
<1> DEFINE Next1(b) == {s \in Blocks : b \in ToSet(preds[s])}
           f == AsFunction
<1>1. /\ f.layout = [b \in Blocks |-> << b >>]
      /\ \A b \in Blocks : f.code[b].to = SetToSeq(Next1(b)) /\ f.code[b].op = "br"
  BY DEF AsFunction, R!Ins
<1>2. \A b \in Blocks : ToSet(SetToSeq(Next1(b))) = Next1(b)
  BY SequenceOf, FS_Subset
<1>3. \A b \in Blocks : ToSet(preds[b]) \subseteq Blocks
  <2>1. preds \in [Blocks -> Seq(Blocks)]
    BY GraphsAssumption DEF IInv, TypeOK
  <2> QED  BY <2>1 DEF ToSet
<1> HIDE DEF f, Next1
<1>4. R!BlocksOf(f) = Blocks
  BY <1>1 DEF R!BlocksOf
<1>5. ASSUME NEW b \in Blocks PROVE R!Succs(f, b) = Next1(b)
  BY <1>1, <1>2 DEF R!Succs, R!Last, R!ToSet, ToSet, R!Terminators
<1>6. \A b \in Blocks : R!Preds(f, b) = ToSet(preds[b])
  BY <1>3, <1>4, <1>5 DEF R!Preds, Next1
<1> QED  BY <1>4, <1>6 DEF f

\* On every finite graph, what the search returns is what ReachingValues, and with
\* it the model of the mutators, takes transitivePredecessors to be.
THEOREM SameAsOperator ==
  ASSUME IsFiniteSet(Blocks)
  PROVE  Spec => []SameAsReachingValues
<1>1. IInv => SameAsReachingValues
  BY AsFunctionIs, SearchIsOperator DEF SameAsReachingValues
<1> QED  BY <1>1, Invariance, PTL

===============================================================================
