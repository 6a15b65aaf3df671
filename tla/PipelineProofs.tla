--------------------------- MODULE PipelineProofs ---------------------------
(***************************************************************************)
(* Theorems about RuleEngine and Pipeline, for any conditions that are     *)
(* finite trees, any rules, answers and datasets, and any bound on depth.  *)
(***************************************************************************)
EXTENDS Pipeline, LlmGatewayProofs, FiniteSetTheorems

-----------------------------------------------------------------------------
(* Induction and recursion *)

\* A set of naturals that is not empty has a least element.
LEMMA Least ==
    ASSUME NEW T \in SUBSET Nat, T # {}
    PROVE  \E n \in T : \A m \in T : n <= m
<1> DEFINE Below == {0 .. n : n \in T}
<1>1. Below \subseteq FiniteSubsetsOf(Nat) /\ Below # {}
  <2>1. \A n \in T : 0 .. n \in SUBSET Nat /\ IsFiniteSet(0 .. n)
    BY FS_Interval
  <2>2. QED
    BY <2>1 DEF FiniteSubsetsOf
<1>2. PICK B \in Below : \A C \in Below : ~(<<C, B>> \in StrictSubsetOrdering(Nat))
  <2>1. IsWellFoundedOn(StrictSubsetOrdering(Nat), FiniteSubsetsOf(Nat))
    BY FS_StrictSubsetOrderingWellFounded
  <2> HIDE DEF Below
  <2>2. QED
    BY <1>1, <2>1, WFMin
<1>3. PICK n \in T : B = 0 .. n
  OBVIOUS
<1>4. ASSUME NEW m \in T PROVE n <= m
  <2>1. SUFFICES ASSUME m < n PROVE FALSE
    OBVIOUS
  <2>2. 0 .. m \in Below
    OBVIOUS
  <2>3. n \in 0 .. n /\ n \notin 0 .. m
    BY <2>1
  <2>4. 0 .. m \subseteq 0 .. n /\ 0 .. m \in SUBSET Nat /\ 0 .. n \in SUBSET Nat
    BY <2>1
  <2>5. QED
    BY <1>2, <1>3, <2>2, <2>3, <2>4 DEF StrictSubsetOrdering
<1>5. QED
  BY <1>4

\* Complete induction, for the elements of X by their rank: if something is
\* missing in Y, so is something of which nothing below is missing.
LEMMA LeastMissing ==
    ASSUME NEW X, NEW rank \in [X -> Nat], NEW Y, ~(X \subseteq Y)
    PROVE  \E x \in X \ Y : \A y \in X : rank[y] < rank[x] => y \in Y
<1> DEFINE T == {rank[x] : x \in X \ Y}
<1>1. T \in SUBSET Nat /\ T # {}
  OBVIOUS
<1>2. PICK n \in T : \A m \in T : n <= m
  <2> HIDE DEF T
  <2>1. QED
    BY <1>1, Least
<1>3. PICK x \in X \ Y : n = rank[x]
  OBVIOUS
<1>4. ASSUME NEW y \in X, rank[y] < rank[x], y \notin Y PROVE FALSE
  BY <1>2, <1>3, <1>4
<1>5. QED
  BY <1>3, <1>4

\* g is what D makes of it, below rank n.
Settled(X, rank, D, g, n) == \A x \in X : rank[x] < n => g[x] = D[g][x]

\* What D makes of an element depends on the elements of lower rank only.
Causal(X, V, rank, D) ==
    /\ rank \in [X -> Nat]
    /\ D \in [[X -> V] -> [X -> V]]
    /\ \A g, h \in [X -> V], x \in X :
          (\A y \in X : rank[y] < rank[x] => g[y] = h[y]) => D[g][x] = D[h][x]

\* A recursive definition that is causal has a solution.
LEMMA FixedPoint ==
    ASSUME NEW X, NEW V, NEW v0 \in V, NEW rank, NEW D, Causal(X, V, rank, D)
    PROVE  \E f \in [X -> V] : f = D[f]
<1> DEFINE F == [X -> V]
<1> USE DEF Causal
<1>1. ASSUME NEW g \in F, NEW n \in Nat, Settled(X, rank, D, g, n)
      PROVE  D[g] \in F /\ Settled(X, rank, D, D[g], n + 1)
  <2>1. D[g] \in F
    OBVIOUS
  <2>2. ASSUME NEW x \in X, rank[x] < n + 1 PROVE D[g][x] = D[D[g]][x]
    <3>1. \A y \in X : rank[y] < rank[x] => g[y] = D[g][y]
      BY <1>1, <2>2 DEF Settled
    <3>2. QED
      BY <2>1, <3>1
  <2>3. QED
    BY <2>1, <2>2 DEF Settled
<1>2. \A n \in Nat : \E g \in F : Settled(X, rank, D, g, n)
  <2> DEFINE Y == {n \in Nat : \E g \in F : Settled(X, rank, D, g, n)}
  <2>1. SUFFICES Nat \subseteq Y
    OBVIOUS
  <2>2. SUFFICES ASSUME ~(Nat \subseteq Y) PROVE FALSE
    OBVIOUS
  <2>3. PICK n \in Nat \ Y : \A m \in Nat : m < n => m \in Y
    <3>1. Nat \ Y \in SUBSET Nat /\ Nat \ Y # {}
      BY <2>2
    <3> HIDE DEF Y
    <3>2. PICK n \in Nat \ Y : \A m \in Nat \ Y : n <= m
      BY <3>1, Least
    <3>3. QED
      BY <3>2
  <2>4. n # 0
    <3>1. [x \in X |-> v0] \in F
      OBVIOUS
    <3>2. Settled(X, rank, D, [x \in X |-> v0], 0)
      BY DEF Settled
    <3>3. QED
      BY <3>1, <3>2
  <2>5. PICK g \in F : Settled(X, rank, D, g, n - 1)
    BY <2>3, <2>4
  <2>6. D[g] \in F /\ Settled(X, rank, D, D[g], (n - 1) + 1)
    BY <1>1, <2>4, <2>5
  <2>7. n \in Y
    BY <2>6
  <2>8. QED
    BY <2>3, <2>7
<1>3. ASSUME NEW g \in F, NEW h \in F, NEW n \in Nat, NEW m \in Nat,
             Settled(X, rank, D, g, n), Settled(X, rank, D, h, m), NEW z \in X, rank[z] < n, rank[z] < m
      PROVE  g[z] = h[z]
  <2> DEFINE Y == {x \in X : rank[x] < n /\ rank[x] < m => g[x] = h[x]}
  <2>1. SUFFICES ASSUME ~(X \subseteq Y) PROVE FALSE
    BY <1>3
  <2>2. PICK x \in X \ Y : \A y \in X : rank[y] < rank[x] => y \in Y
    <3> HIDE DEF Y
    <3>1. QED
      BY <2>1, LeastMissing
  <2>3. rank[x] < n /\ rank[x] < m /\ g[x] # h[x]
    BY <2>2
  <2>4. \A y \in X : rank[y] < rank[x] => g[y] = h[y]
    BY <2>2, <2>3
  <2>5. D[g][x] = D[h][x]
    BY <2>4
  <2>6. QED
    BY <1>3, <2>3, <2>5 DEF Settled
<1> DEFINE G(n) == CHOOSE g \in F : Settled(X, rank, D, g, n)
<1>4. \A n \in Nat : G(n) \in F /\ Settled(X, rank, D, G(n), n)
  BY <1>2
<1> DEFINE f == [x \in X |-> G(rank[x] + 1)[x]]
<1> HIDE DEF G
<1>5. f \in F
  BY <1>4
<1>6. ASSUME NEW x \in X PROVE f[x] = D[f][x]
  <2>1. PICK h \in F : h = G(rank[x] + 1) /\ Settled(X, rank, D, h, rank[x] + 1)
    BY <1>4
  <2>2. ASSUME NEW y \in X, rank[y] < rank[x] PROVE f[y] = h[y]
    <3>1. PICK g \in F : g = G(rank[y] + 1) /\ Settled(X, rank, D, g, rank[y] + 1)
      BY <1>4
    <3>2. f[y] = g[y]
      BY <3>1
    <3>3. rank[y] + 1 \in Nat /\ rank[x] + 1 \in Nat /\ rank[y] < rank[y] + 1 /\ rank[y] < rank[x] + 1
      BY <2>2
    <3>4. g[y] = h[y]
      BY <1>3, <2>1, <3>1, <3>3
    <3>5. QED
      BY <3>2, <3>4
  <2>3. f[x] = h[x]
    BY <2>1
  <2>4. D[f][x] = D[h][x]
    <3> HIDE DEF f
    <3>1. QED
      BY <1>5, <2>1, <2>2
  <2>5. h[x] = D[h][x]
    BY <2>1 DEF Settled
  <2>6. QED
    BY <2>3, <2>4, <2>5
<1>7. f = D[f]
  <2>1. D[f] \in F
    BY <1>5
  <2>2. QED
    BY <1>5, <1>6, <2>1
<1>8. QED
  BY <1>5, <1>7

-----------------------------------------------------------------------------
(* The recursive definitions of RuleEngine have the meaning that they spell *)

\* The parts of a node are conditions of smaller height.
LEMMA PartsAreLower ==
    ASSUME NEW node \in Conditions
    PROVE  /\ Height \in [Conditions -> Nat]
           /\ Parts(node) \in Seq(Conditions)
           /\ \A i \in DOMAIN Parts(node) :
                 Parts(node)[i] \in Conditions /\ Height[Parts(node)[i]] < Height[node]
<1>1. /\ Height \in [Conditions -> Nat]
      /\ Parts(node) \in Seq(Conditions)
      /\ \A i \in DOMAIN Parts(node) : Height[Parts(node)[i]] < Height[node]
  BY EngineAssumption
<1>2. \A i \in DOMAIN Parts(node) : Parts(node)[i] \in Conditions
  BY <1>1
<1>3. QED
  BY <1>1, <1>2

\* Functions that agree on the conditions below a node agree on its parts.
LEMMA AgreeOnParts ==
    ASSUME NEW node \in Conditions, NEW g, NEW h,
           \A c \in Conditions : Height[c] < Height[node] => g[c] = h[c]
    PROVE  \A i \in DOMAIN Parts(node) : g[Parts(node)[i]] = h[Parts(node)[i]]
BY PartsAreLower

\* FixedPoint for definitions by recursion on conditions.
LEMMA Recursion ==
    ASSUME NEW V, NEW v0 \in V, NEW D \in [[Conditions -> V] -> [Conditions -> V]],
           \A g, h \in [Conditions -> V], node \in Conditions :
               (\A i \in DOMAIN Parts(node) : g[Parts(node)[i]] = h[Parts(node)[i]])
                   => D[g][node] = D[h][node]
    PROVE  \E f \in [Conditions -> V] : f = D[f]
<1>1. Height \in [Conditions -> Nat]
  BY EngineAssumption
<1>2. ASSUME NEW g \in [Conditions -> V], NEW h \in [Conditions -> V], NEW node \in Conditions,
             \A c \in Conditions : Height[c] < Height[node] => g[c] = h[c]
      PROVE  D[g][node] = D[h][node]
  <2>1. \A i \in DOMAIN Parts(node) : g[Parts(node)[i]] = h[Parts(node)[i]]
    BY <1>2, AgreeOnParts
  <2>2. QED
    BY <2>1
<1>3. Causal(Conditions, V, Height, D)
  BY <1>1, <1>2 DEF Causal
<1>4. QED
  BY <1>3, FixedPoint

\* validate_condition for one node, given the outcomes of others.
ValidStep(valid, node) == [depth \in Nat |->
    /\ WithinDepth(depth)
    /\ \/ /\ node.op \in {"and", "or", "not"} /\ Parts(node) # <<>>
          /\ \A i \in DOMAIN Parts(node) : valid[Parts(node)[i]][depth + 1]
       \/ node.op = "exists" /\ HasKey(node)
       \/ node.op = "in" /\ HasKey(node) /\ "value" \in DOMAIN node /\ Is(node.value, "list")
       \/ node.op \in Compare \cup {"contains"} /\ HasKey(node) /\ "value" \in DOMAIN node]

LEMMA ValidityIs == Validity = [node \in Conditions |-> ValidStep(Validity, node)]
<1> DEFINE V == [Nat -> BOOLEAN]
           F == [Conditions -> V]
           D == [g \in F |-> [node \in Conditions |-> ValidStep(g, node)]]
<1>1. [depth \in Nat |-> TRUE] \in V
  OBVIOUS
<1>2. \A g \in F, node \in Conditions : ValidStep(g, node) \in V
  BY DEF ValidStep
<1>3. D \in [F -> F]
  BY <1>2
<1>4. \A g, h \in F, node \in Conditions :
          (\A i \in DOMAIN Parts(node) : g[Parts(node)[i]] = h[Parts(node)[i]])
              => D[g][node] = D[h][node]
  BY DEF ValidStep
<1>5. PICK f \in F : f = D[f]
  <2> HIDE DEF D, V
  <2>1. QED
    BY <1>1, <1>3, <1>4, Recursion
<1>6. f = [node \in Conditions |-> ValidStep(f, node)]
  BY <1>5
<1>7. Validity = CHOOSE valid : valid = [node \in Conditions |-> ValidStep(valid, node)]
  BY DEF Validity, ValidStep
<1>8. QED
  BY <1>6, <1>7

\* evaluate_condition for one node, given the outcomes of others.
EvalStep(eval, node, fs) == [depth \in Nat |->
    LET outcomes == [i \in DOMAIN Parts(node) |-> eval[Parts(node)[i]][depth + 1]] IN
    IF depth > MaxDepth THEN "false"
    ELSE CASE node.op = "and" -> Decide(outcomes, "true")
           [] node.op = "or" -> Decide(outcomes, "false")
           [] node.op = "not" -> Not(outcomes)
           [] OTHER -> Look(node, fs)]

Verdict == {"true", "false", "raises"}

\* all() and any() give the first outcome that is not the unit, if there is one.
LEMMA Decision ==
    ASSUME NEW n \in Nat, NEW outcomes \in [1 .. n -> Verdict], NEW unit \in Verdict
    PROVE  \/ Decide(outcomes, unit) = unit /\ \A i \in 1 .. n : outcomes[i] = unit
           \/ \E i \in 1 .. n : outcomes[i] # unit /\ Decide(outcomes, unit) = outcomes[i]
<1> DEFINE stops == {i \in DOMAIN outcomes : outcomes[i] # unit}
<1>1. CASE stops = {}
  BY <1>1 DEF Decide
<1>2. CASE stops # {}
  <2>1. stops \in SUBSET Nat
    OBVIOUS
  <2>2. \E i \in stops : \A j \in stops : i <= j
    <3> HIDE DEF stops
    <3>1. QED
      BY <1>2, <2>1, Least
  <2>3. PICK i \in stops : i = CHOOSE m \in stops : \A j \in stops : m <= j
    <3> HIDE DEF stops
    <3>1. QED
      BY <2>2
  <2>4. Decide(outcomes, unit) = outcomes[i]
    BY <1>2, <2>3 DEF Decide
  <2>5. QED
    BY <2>4
<1>3. QED
  BY <1>1, <1>2

LEMMA LookVerdict == ASSUME NEW node, NEW fs PROVE Look(node, fs) \in Verdict
<1>1. \A b : Truth(b) \in Verdict
  BY DEF Truth, Verdict
<1>2. \A op, v, w : Ordered(op, v, w) \in Verdict
  BY <1>1 DEF Ordered, Verdict
<1>3. \A v, w : Contains(v, w) \in Verdict
  BY <1>1 DEF Contains, Verdict
<1>4. "false" \in Verdict
  BY DEF Verdict
<1>5. QED
  BY <1>1, <1>2, <1>3, <1>4 DEF Look

\* An outcome is one of three.
LEMMA EvalStepVerdict ==
    ASSUME NEW node \in Conditions, NEW fs, NEW depth \in Nat, NEW g,
           \A i \in DOMAIN Parts(node) : g[Parts(node)[i]] \in [Nat -> Verdict]
    PROVE  EvalStep(g, node, fs)[depth] \in Verdict
<1> DEFINE outcomes == [i \in DOMAIN Parts(node) |-> g[Parts(node)[i]][depth + 1]]
<1>1. PICK n \in Nat : DOMAIN Parts(node) = 1 .. n
  BY PartsAreLower
<1>2. outcomes \in [1 .. n -> Verdict]
  <2>1. ASSUME NEW i \in 1 .. n PROVE g[Parts(node)[i]][depth + 1] \in Verdict
    <3>1. g[Parts(node)[i]] \in [Nat -> Verdict] /\ depth + 1 \in Nat
      BY <1>1
    <3>2. QED
      BY <3>1
  <2>2. QED
    BY <1>1, <2>1
<1> HIDE DEF outcomes
<1>3. {"true", "false", "raises"} = Verdict
  BY DEF Verdict
<1>4. Decide(outcomes, "true") \in Verdict /\ Decide(outcomes, "false") \in Verdict
  BY <1>2, <1>3, Decision
<1>5. Not(outcomes) \in Verdict
  BY <1>3 DEF Not, Truth
<1>6. Look(node, fs) \in Verdict
  BY LookVerdict
<1>7. EvalStep(g, node, fs)[depth] =
          IF depth > MaxDepth THEN "false"
          ELSE CASE node.op = "and" -> Decide(outcomes, "true")
                 [] node.op = "or" -> Decide(outcomes, "false")
                 [] node.op = "not" -> Not(outcomes)
                 [] OTHER -> Look(node, fs)
  BY DEF EvalStep, outcomes
<1>8. QED
  BY <1>3, <1>4, <1>5, <1>6, <1>7

\* The recursive function of evaluate_condition satisfies its own definition.
LEMMA EvaluationIs ==
    ASSUME NEW fs
    PROVE  /\ Evaluation(fs) \in [Conditions -> [Nat -> Verdict]]
           /\ Evaluation(fs) = [node \in Conditions |-> EvalStep(Evaluation(fs), node, fs)]
<1> DEFINE V == [Nat -> Verdict]
           F == [Conditions -> V]
           D == [g \in F |-> [node \in Conditions |-> EvalStep(g, node, fs)]]
<1>1. [depth \in Nat |-> "false"] \in V
  BY DEF Verdict
<1>2. \A g \in F, node \in Conditions, depth \in Nat : EvalStep(g, node, fs)[depth] \in Verdict
  BY PartsAreLower, EvalStepVerdict
<1>3. \A g \in F, node \in Conditions : EvalStep(g, node, fs) \in V
  BY <1>2 DEF EvalStep
<1>4. D \in [F -> F]
  BY <1>3
<1>5. ASSUME NEW g \in F, NEW h \in F, NEW node \in Conditions,
             \A i \in DOMAIN Parts(node) : g[Parts(node)[i]] = h[Parts(node)[i]]
      PROVE  D[g][node] = D[h][node]
  <2>1. \A depth \in Nat : [i \in DOMAIN Parts(node) |-> g[Parts(node)[i]][depth + 1]]
                             = [i \in DOMAIN Parts(node) |-> h[Parts(node)[i]][depth + 1]]
    BY <1>5
  <2>2. EvalStep(g, node, fs) = EvalStep(h, node, fs)
    BY <2>1 DEF EvalStep
  <2>3. QED
    BY <2>2
<1>6. PICK f \in F : f = D[f]
  <2> HIDE DEF D, V
  <2>1. QED
    BY <1>1, <1>4, <1>5, Recursion
<1>7. f = [node \in Conditions |-> EvalStep(f, node, fs)]
  BY <1>6
<1>8. Evaluation(fs) = CHOOSE eval : eval = [node \in Conditions |-> EvalStep(eval, node, fs)]
  BY DEF Evaluation, EvalStep
<1>9. Evaluation(fs) = [node \in Conditions |-> EvalStep(Evaluation(fs), node, fs)]
  BY <1>7, <1>8
<1>10. Conditions \subseteq {node \in Conditions : Evaluation(fs)[node] \in V}
  <2> DEFINE Y == {node \in Conditions : Evaluation(fs)[node] \in V}
  <2>1. SUFFICES ASSUME ~(Conditions \subseteq Y) PROVE FALSE
    OBVIOUS
  <2>2. PICK node \in Conditions \ Y : \A c \in Conditions : Height[c] < Height[node] => c \in Y
    <3>1. Height \in [Conditions -> Nat]
      BY EngineAssumption
    <3> HIDE DEF Y
    <3>2. QED
      BY <2>1, <3>1, LeastMissing
  <2>3. \A i \in DOMAIN Parts(node) : Evaluation(fs)[Parts(node)[i]] \in [Nat -> Verdict]
    BY <2>2, PartsAreLower
  <2>4. \A depth \in Nat : EvalStep(Evaluation(fs), node, fs)[depth] \in Verdict
    BY <2>3, EvalStepVerdict
  <2>5. Evaluation(fs)[node] = EvalStep(Evaluation(fs), node, fs)
    BY <1>9
  <2>6. Evaluation(fs)[node] \in V
    BY <2>4, <2>5 DEF EvalStep
  <2>7. QED
    BY <2>2, <2>6
<1>11. QED
  BY <1>9, <1>10

\* What a node says, given what others say.
MeaningStep(holds, node, fs) ==
    CASE node.op = "and" -> \A i \in DOMAIN Parts(node) : holds[Parts(node)[i]]
      [] node.op = "or" -> \E i \in DOMAIN Parts(node) : holds[Parts(node)[i]]
      [] node.op = "not" -> \A i \in DOMAIN Parts(node) : ~holds[Parts(node)[i]]
      [] OTHER -> Says(node, fs)

\* The recursive function of the reference satisfies its own definition.
LEMMA MeaningIs ==
    ASSUME NEW fs
    PROVE  Meaning(fs) = [node \in Conditions |-> MeaningStep(Meaning(fs), node, fs)]
<1> DEFINE F == [Conditions -> BOOLEAN]
           D == [g \in F |-> [node \in Conditions |-> MeaningStep(g, node, fs)]]
<1>1. ASSUME NEW g \in F, NEW node \in Conditions PROVE MeaningStep(g, node, fs) \in BOOLEAN
  <2>1. Says(node, fs) \in BOOLEAN
    BY DEF Says
  <2>2. QED
    BY <2>1 DEF MeaningStep
<1>2. D \in [F -> F]
  BY <1>1
<1>3. ASSUME NEW g \in F, NEW h \in F, NEW node \in Conditions,
             \A i \in DOMAIN Parts(node) : g[Parts(node)[i]] = h[Parts(node)[i]]
      PROVE  D[g][node] = D[h][node]
  <2>1. MeaningStep(g, node, fs) = MeaningStep(h, node, fs)
    BY <1>3 DEF MeaningStep
  <2>2. QED
    BY <2>1
<1>4. PICK f \in F : f = D[f]
  <2> HIDE DEF D
  <2>1. QED
    BY <1>2, <1>3, Recursion
<1>5. f = [node \in Conditions |-> MeaningStep(f, node, fs)]
  BY <1>4
<1>6. Meaning(fs) = CHOOSE holds : holds = [node \in Conditions |-> MeaningStep(holds, node, fs)]
  BY DEF Meaning, MeaningStep
<1>7. QED
  BY <1>5, <1>6

\* The leaves of a node are those of its parts, if it has any.
LEMMA LeavesAre ==
    \A node \in Conditions :
        Leaves(node) = IF Parts(node) = <<>> THEN {node}
                       ELSE UNION {Leaves(Parts(node)[i]) : i \in DOMAIN Parts(node)}
<1> DEFINE Step(g, node) == IF Parts(node) = <<>> THEN {node}
                            ELSE UNION {g[Parts(node)[i]] : i \in DOMAIN Parts(node)}
           F == [Conditions -> SUBSET Conditions]
           D == [g \in F |-> [node \in Conditions |-> Step(g, node)]]
<1>1. \A g \in F, node \in Conditions : Step(g, node) \in SUBSET Conditions
  BY PartsAreLower
<1>2. D \in [F -> F]
  BY <1>1
<1>3. ASSUME NEW g \in F, NEW h \in F, NEW node \in Conditions,
             \A i \in DOMAIN Parts(node) : g[Parts(node)[i]] = h[Parts(node)[i]]
      PROVE  D[g][node] = D[h][node]
  <2>1. {g[Parts(node)[i]] : i \in DOMAIN Parts(node)} = {h[Parts(node)[i]] : i \in DOMAIN Parts(node)}
    BY <1>3
  <2>2. Step(g, node) = Step(h, node)
    BY <2>1
  <2> HIDE DEF Step
  <2>3. QED
    BY <2>2
<1>4. PICK f \in F : f = D[f]
  <2>1. {} \in SUBSET Conditions
    OBVIOUS
  <2> HIDE DEF D
  <2>2. QED
    BY <1>2, <1>3, <2>1, Recursion
<1>5. f = [node \in Conditions |-> Step(f, node)]
  <2> HIDE DEF Step
  <2>1. QED
    BY <1>4
<1>6. Leafage = CHOOSE leaves : leaves = [node \in Conditions |-> Step(leaves, node)]
  BY DEF Leafage
<1>7. Leafage = [node \in Conditions |-> Step(Leafage, node)]
  <2> HIDE DEF Step
  <2>1. QED
    BY <1>5, <1>6
<1>8. \A node \in Conditions : Leafage[node] = Step(Leafage, node)
  <2> HIDE DEF Step
  <2>1. QED
    BY <1>7
<1>9. QED
  BY <1>8 DEF Leaves

-----------------------------------------------------------------------------
(* Evaluation and reference agree *)

Leaf(op) == op \in Compare \cup {"exists", "in", "contains"}

\* A value has one type.
LEMMA OneType ==
    ASSUME NEW v \in Values
    PROVE  /\ Is(v, "null") <=> v = [null |-> 0]
           /\ ~(Is(v, "list") /\ Is(v, "text"))
<1>1. PICK type \in ValueType : DOMAIN v = {type}
  BY EngineAssumption
<1>2. Is(v, "null") => v = [null |-> 0]
  BY EngineAssumption DEF Is
<1>3. DOMAIN [null |-> 0] = {"null"}
  OBVIOUS
<1>4. QED
  BY <1>1, <1>2, <1>3 DEF Is

\* A leaf that does not raise gives what the reference says.
LEMMA LookSays ==
    ASSUME NEW node, Leaf(node.op), NEW fs, AreFacts(fs), Look(node, fs) # "raises"
    PROVE  Look(node, fs) = "true" <=> Says(node, fs)
<1> DEFINE answers == {fs[k] : k \in DOMAIN fs \cap {node.key}}
           actual == fs[node.key]
           w == node.value
<1>1. \A b : Truth(b) = "true" <=> b
  BY DEF Truth
<1>2. CASE node.key \notin DOMAIN fs
  <2>1. answers = {}
    BY <1>2
  <2>2. QED
    BY <1>1, <1>2, <2>1 DEF Look, Says, Leaf, Compare
<1>3. CASE node.key \in DOMAIN fs
  <2>1. answers = {actual}
    BY <1>3
  <2>2. actual \in Values
    BY <1>3 DEF AreFacts
  <2> HIDE DEF actual, answers
  <2>3. CASE node.op = "exists"
    <3>1. Look(node, fs) = Truth(~Is(actual, "null"))
      BY <1>3, <2>3 DEF Look, actual
    <3>2. Says(node, fs) <=> answers \notin {{}, {[null |-> 0]}}
      BY <2>3 DEF Says, answers
    <3>3. answers \notin {{}, {[null |-> 0]}} <=> actual # [null |-> 0]
      BY <2>1
    <3>4. QED
      BY <1>1, <2>2, <3>1, <3>2, <3>3, OneType
  <2>4. CASE node.op \in {"eq", "ne", "in"}
    <3>1. Look(node, fs) = CASE node.op = "eq" -> Truth(Same(actual, w))
                             [] node.op = "ne" -> Truth(~Same(actual, w))
                             [] node.op = "in" -> Truth(Among(actual, w.list))
      BY <1>3, <2>4 DEF Look, Truth, actual
    <3>2. Says(node, fs) <=> CASE node.op = "eq" -> \E v \in answers : Same(v, w)
                             [] node.op = "ne" -> \A v \in answers : ~Same(v, w)
                             [] node.op = "in" -> \E v \in answers : Among(v, w.list)
      BY <2>4 DEF Says, answers
    <3>3. QED
      BY <2>1, <2>4, <3>1, <3>2 DEF Truth
  <2>5. CASE node.op \in {"gt", "gte", "lt", "lte"}
    <3> DEFINE numbers == {v \in answers : Is(v, "number") /\ Is(w, "number")}
    <3>1. Look(node, fs) = Ordered(node.op, actual, w)
      BY <1>3, <2>5 DEF Look, actual
    <3>2. Says(node, fs) <=> CASE node.op = "gt" -> \E v \in numbers : v.number > w.number
                             [] node.op = "gte" -> \E v \in numbers : v.number >= w.number
                             [] node.op = "lt" -> \E v \in numbers : v.number < w.number
                             [] node.op = "lte" -> \E v \in numbers : v.number <= w.number
      BY <2>5 DEF Says, answers
    <3>3. numbers = IF Is(actual, "number") /\ Is(w, "number") THEN {actual} ELSE {}
      BY <2>1
    <3> HIDE DEF numbers
    <3>4. QED
      BY <2>5, <3>1, <3>2, <3>3 DEF Ordered, Truth
  <2>6. CASE node.op = "contains"
    <3>1. Look(node, fs) = Contains(actual, w)
      BY <1>3, <2>6 DEF Look, actual
    <3>2. Says(node, fs) <=>
              \E v \in answers : \/ Is(v, "list") /\ Among(w, v.list)
                                 \/ Is(v, "text") /\ Is(w, "text") /\ w.text \in Within[v.text]
      BY <2>6 DEF Says, answers
    <3>3. QED
      BY <2>1, <2>2, <3>1, <3>2, OneType DEF Contains, Truth
  <2>7. QED
    BY <2>3, <2>4, <2>5, <2>6 DEF Leaf, Compare
<1>4. QED
  BY <1>2, <1>3

\* Only a rule that looks for something else than a text in a text raises.
LooksInText(node, fs) ==
    /\ node.op = "contains" /\ ~Is(node.value, "text")
    /\ node.key \in DOMAIN fs /\ Is(fs[node.key], "text")

LEMMA LookRaises ==
    ASSUME NEW node, Leaf(node.op), NEW fs, Look(node, fs) = "raises"
    PROVE  LooksInText(node, fs)
<1>1. \A b : Truth(b) # "raises"
  BY DEF Truth
<1>2. \A op, v, w : Ordered(op, v, w) # "raises"
  BY <1>1 DEF Ordered
<1>3. \A v, w : Contains(v, w) = "raises" => Is(v, "text") /\ ~Is(w, "text")
  BY <1>1 DEF Contains
<1>4. node.op = "contains" /\ node.key \in DOMAIN fs /\ Look(node, fs) = Contains(fs[node.key], node.value)
  BY <1>1, <1>2 DEF Look, Leaf, Compare
<1>5. QED
  BY <1>3, <1>4 DEF LooksInText

\* An evaluation is right about a condition, or it raises for a reason.
Agrees(node, depth, fs) ==
    IF Eval(node, fs, depth) = "raises" THEN \E leaf \in Leaves(node) : LooksInText(leaf, fs)
    ELSE Eval(node, fs, depth) = "true" <=> Holds(node, fs)

\* The parts of a valid condition are valid one level down; a leaf has none.
LEMMA ValidParts ==
    ASSUME NEW node \in Conditions, NEW depth \in Nat, Valid(node, depth)
    PROVE  /\ depth <= MaxDepth
           /\ \/ Leaf(node.op) /\ Parts(node) = <<>>
              \/ /\ node.op \in {"and", "or", "not"} /\ Parts(node) # <<>>
                 /\ \A i \in DOMAIN Parts(node) : Valid(Parts(node)[i], depth + 1)
<1>1. Valid(node, depth) = ValidStep(Validity, node)[depth]
  <2>1. Validity[node] = ValidStep(Validity, node)
    BY ValidityIs
  <2>2. QED
    BY <2>1 DEF Valid
<1>2. /\ WithinDepth(depth)
      /\ \/ /\ node.op \in {"and", "or", "not"} /\ Parts(node) # <<>>
            /\ \A i \in DOMAIN Parts(node) : Validity[Parts(node)[i]][depth + 1]
         \/ node.op \in Compare \cup {"exists", "in", "contains"}
  BY <1>1 DEF ValidStep
<1>3. node.op \in Compare \cup {"exists", "in", "contains"} => Parts(node) = <<>>
  BY DEF Parts, Compare
<1>4. QED
  BY <1>2, <1>3 DEF WithinDepth, Leaf, Valid

\* What the equations of the recursive functions say of one node.
LEMMA OneNode ==
    ASSUME NEW node \in Conditions, NEW depth \in Nat, depth <= MaxDepth, NEW fs
    PROVE  /\ Eval(node, fs, depth) =
                LET outcomes == [i \in DOMAIN Parts(node) |-> Eval(Parts(node)[i], fs, depth + 1)] IN
                CASE node.op = "and" -> Decide(outcomes, "true")
                  [] node.op = "or" -> Decide(outcomes, "false")
                  [] node.op = "not" -> Not(outcomes)
                  [] OTHER -> Look(node, fs)
           /\ Eval(node, fs, depth) \in Verdict
           /\ Holds(node, fs) = MeaningStep(Meaning(fs), node, fs)
<1>1. Evaluation(fs)[node] = EvalStep(Evaluation(fs), node, fs) /\ Evaluation(fs)[node][depth] \in Verdict
  BY EvaluationIs
<1>2. Holds(node, fs) = MeaningStep(Meaning(fs), node, fs)
  BY MeaningIs DEF Holds
<1>3. MaxDepth \in Nat
  BY EngineAssumption
<1>4. QED
  BY <1>1, <1>2, <1>3 DEF Eval, EvalStep

\* A leaf agrees.
LEMMA LeafAgrees ==
    ASSUME NEW fs, AreFacts(fs), NEW node \in Conditions, NEW depth \in Nat, depth <= MaxDepth,
           Leaf(node.op), Parts(node) = <<>>
    PROVE  Agrees(node, depth, fs)
<1>1. Leaves(node) = {node}
  BY LeavesAre
<1>2. Eval(node, fs, depth) = Look(node, fs) /\ Holds(node, fs) = Says(node, fs)
  BY OneNode DEF MeaningStep, Leaf, Compare
<1>3. QED
  BY <1>1, <1>2, LookSays, LookRaises DEF Agrees

\* What is made of parts that agree agrees.
LEMMA PartsAgree ==
    ASSUME NEW fs, NEW node \in Conditions, NEW depth \in Nat, depth <= MaxDepth,
           node.op \in {"and", "or", "not"}, Parts(node) # <<>>,
           \A i \in DOMAIN Parts(node) : Agrees(Parts(node)[i], depth + 1, fs)
    PROVE  Agrees(node, depth, fs)
<1> DEFINE part(i) == Parts(node)[i]
           outcome(i) == Eval(part(i), fs, depth + 1)
           outcomes == [i \in DOMAIN Parts(node) |-> outcome(i)]
<1>1. PICK n \in Nat : DOMAIN Parts(node) = 1 .. n
  BY PartsAreLower
<1>2. ASSUME NEW i \in 1 .. n PROVE outcome(i) \in Verdict
  BY <1>1, PartsAreLower, EvaluationIs DEF Eval
<1>3. outcomes \in [1 .. n -> Verdict] /\ \A i \in 1 .. n : outcomes[i] = outcome(i)
  BY <1>1, <1>2
<1>4. ASSUME NEW i \in 1 .. n
      PROVE  /\ outcome(i) = "raises" => \E leaf \in Leaves(node) : LooksInText(leaf, fs)
             /\ outcome(i) # "raises" => (outcome(i) = "true" <=> Holds(part(i), fs))
  <2>1. Agrees(part(i), depth + 1, fs)
    BY <1>1
  <2>2. Leaves(part(i)) \subseteq Leaves(node)
    BY <1>1, LeavesAre
  <2>3. QED
    BY <2>1, <2>2 DEF Agrees
<1>5. \A i \in 1 .. n : Holds(part(i), fs) = Meaning(fs)[part(i)]
  BY DEF Holds
<1>6. /\ Eval(node, fs, depth) = CASE node.op = "and" -> Decide(outcomes, "true")
                                   [] node.op = "or" -> Decide(outcomes, "false")
                                   [] node.op = "not" -> Not(outcomes)
      /\ Holds(node, fs) <=> CASE node.op = "and" -> \A i \in 1 .. n : Holds(part(i), fs)
                               [] node.op = "or" -> \E i \in 1 .. n : Holds(part(i), fs)
                               [] node.op = "not" -> \A i \in 1 .. n : ~Holds(part(i), fs)
  BY <1>1, OneNode DEF MeaningStep, Holds
<1>7. node.op = "not" => n = 1
  <2>1. node.op = "not" => \E arg : Parts(node) = <<arg>>
    BY DEF Parts
  <2>2. \A arg : DOMAIN <<arg>> = {1}
    OBVIOUS
  <2>3. 1 .. n = {1} => n = 1
    OBVIOUS
  <2>4. QED
    BY <1>1, <2>1, <2>2, <2>3
<1> HIDE DEF outcomes, outcome, part
<1>8. CASE node.op = "and"
  <2>1. \/ Decide(outcomes, "true") = "true" /\ \A i \in 1 .. n : outcomes[i] = "true"
        \/ \E i \in 1 .. n : outcomes[i] # "true" /\ Decide(outcomes, "true") = outcomes[i]
    BY <1>3, Decision DEF Verdict
  <2>2. QED
    BY <1>2, <1>3, <1>4, <1>6, <1>8, <2>1 DEF Agrees, Verdict
<1>9. CASE node.op = "or"
  <2>1. \/ Decide(outcomes, "false") = "false" /\ \A i \in 1 .. n : outcomes[i] = "false"
        \/ \E i \in 1 .. n : outcomes[i] # "false" /\ Decide(outcomes, "false") = outcomes[i]
    BY <1>3, Decision DEF Verdict
  <2>2. QED
    BY <1>2, <1>3, <1>4, <1>6, <1>9, <2>1 DEF Agrees, Verdict
<1>10. CASE node.op = "not"
  <2>1. n = 1 /\ 1 \in 1 .. n /\ \A i \in 1 .. n : i = 1
    BY <1>7, <1>10
  <2>2. outcomes # <<>>
    BY <1>3, <2>1
  <2>3. Not(outcomes) = IF outcome(1) = "raises" THEN "raises" ELSE Truth(outcome(1) = "false")
    BY <1>3, <2>1, <2>2 DEF Not
  <2>4. Holds(node, fs) <=> ~Holds(part(1), fs)
    BY <1>6, <1>10, <2>1
  <2>5. Eval(node, fs, depth) = Not(outcomes)
    BY <1>6, <1>10
  <2>6. QED
    BY <1>2, <1>4, <2>1, <2>3, <2>4, <2>5 DEF Agrees, Truth, Verdict
<1>11. QED
  BY <1>8, <1>9, <1>10

\* The depth bound of the evaluation is one that valid conditions never meet:
\* evaluated, they say what they mean.
LEMMA ValidAgrees ==
    ASSUME NEW fs, AreFacts(fs)
    PROVE  \A node \in Conditions, depth \in Nat : Valid(node, depth) => Agrees(node, depth, fs)
<1> DEFINE Y == {node \in Conditions : \A depth \in Nat : Valid(node, depth) => Agrees(node, depth, fs)}
<1>1. SUFFICES ASSUME ~(Conditions \subseteq Y) PROVE FALSE
  OBVIOUS
<1>2. PICK node \in Conditions \ Y : \A c \in Conditions : Height[c] < Height[node] => c \in Y
  <2>1. Height \in [Conditions -> Nat]
    BY EngineAssumption
  <2> HIDE DEF Y
  <2>2. QED
    BY <1>1, <2>1, LeastMissing
<1>3. ASSUME NEW depth \in Nat, Valid(node, depth) PROVE Agrees(node, depth, fs)
  <2>1. depth <= MaxDepth
    BY <1>3, ValidParts
  <2>2. CASE Leaf(node.op) /\ Parts(node) = <<>>
    BY <2>1, <2>2, LeafAgrees
  <2>3. CASE /\ node.op \in {"and", "or", "not"} /\ Parts(node) # <<>>
             /\ \A i \in DOMAIN Parts(node) : Valid(Parts(node)[i], depth + 1)
    <3>1. ASSUME NEW i \in DOMAIN Parts(node) PROVE Agrees(Parts(node)[i], depth + 1, fs)
      <4>1. Parts(node)[i] \in Y
        BY <1>2, PartsAreLower
      <4>2. depth + 1 \in Nat /\ Valid(Parts(node)[i], depth + 1)
        BY <2>3
      <4>3. QED
        BY <4>1, <4>2
    <3>2. QED
      BY <2>1, <2>3, <3>1, PartsAgree
  <2>4. QED
    BY <1>3, <2>2, <2>3, ValidParts
<1>4. QED
  BY <1>2, <1>3

-----------------------------------------------------------------------------
(* The findings are in order *)

\* Severities are known by their rank.
LEMMA Severities ==
    \A s, t \in DOMAIN Severity : Severity[s] \in 0 .. 4 /\ (Severity[s] = Severity[t] => s = t)
<1>1. DOMAIN Severity = {"info", "low", "medium", "high", "critical"}
  BY DEF Severity
<1>2. /\ Severity["info"] = 0 /\ Severity["low"] = 1 /\ Severity["medium"] = 2
      /\ Severity["high"] = 3 /\ Severity["critical"] = 4
  BY DEF Severity
<1>3. QED
  BY <1>1, <1>2

\* Rules whose severities are known.
Ranked(rules) == rules \in Seq(Rule) /\ \A i \in DOMAIN rules : rules[i].severity \in DOMAIN Severity

\* Sooner is a strict total order, by severity, priority, code and position.
LEMMA SoonerOrders ==
    ASSUME NEW rules, Ranked(rules),
           NEW i \in DOMAIN rules, NEW j \in DOMAIN rules, NEW k \in DOMAIN rules
    PROVE  /\ ~Sooner(rules, i, i)
           /\ i # j => Sooner(rules, i, j) \/ Sooner(rules, j, i)
           /\ Sooner(rules, i, j) /\ Sooner(rules, j, k) => Sooner(rules, i, k)
           /\ Sooner(rules, i, j) =>
                LET r == rules[i]
                    s == rules[j]
                IN /\ Severity[r.severity] >= Severity[s.severity]
                   /\ r.severity = s.severity => r.priority <= s.priority
                   /\ r.severity = s.severity /\ r.priority = s.priority => r.code <= s.code
                   /\ r.severity = s.severity /\ r.priority = s.priority /\ r.code = s.code => i < j
<1> DEFINE rank(n) == Severity[rules[n].severity]
           priority(n) == rules[n].priority
           code(n) == rules[n].code
           before(m, n) == \/ rank(m) > rank(n)
                           \/ rank(m) = rank(n) /\ priority(m) < priority(n)
                           \/ rank(m) = rank(n) /\ priority(m) = priority(n) /\ code(m) < code(n)
<1>1. \A n \in DOMAIN rules : n \in Int /\ rules[n] \in Rule /\ rules[n].severity \in DOMAIN Severity
  BY DEF Ranked
<1>2. \A n \in DOMAIN rules : n \in Int /\ rank(n) \in Int /\ priority(n) \in Int /\ code(n) \in Int
  BY <1>1, Severities DEF Rule
<1>3. \A m, n \in DOMAIN rules : rules[m].severity = rules[n].severity <=> rank(m) = rank(n)
  BY <1>1, Severities
<1>4. \A m, n \in DOMAIN rules : Before(rules[m], rules[n]) <=> before(m, n)
  BY <1>3 DEF Before
<1>5. \A m, n \in DOMAIN rules : Sooner(rules, m, n) <=> before(m, n) \/ (~before(n, m) /\ m < n)
  <2> HIDE DEF before
  <2>1. QED
    BY <1>4 DEF Sooner
<1> HIDE DEF rank, priority, code
<1>6. ~Sooner(rules, i, i)
  BY <1>2, <1>5
<1>7. i # j => Sooner(rules, i, j) \/ Sooner(rules, j, i)
  BY <1>2, <1>5
<1>8. Sooner(rules, i, j) /\ Sooner(rules, j, k) => Sooner(rules, i, k)
  BY <1>2, <1>5
<1>9. Sooner(rules, i, j) =>
        /\ rank(i) >= rank(j)
        /\ rank(i) = rank(j) => priority(i) <= priority(j)
        /\ rank(i) = rank(j) /\ priority(i) = priority(j) => code(i) <= code(j)
        /\ rank(i) = rank(j) /\ priority(i) = priority(j) /\ code(i) = code(j) => i < j
  BY <1>2, <1>5
<1>10. QED
  BY <1>3, <1>6, <1>7, <1>8, <1>9 DEF rank, priority, code

\* A rule that is sooner has a smaller place, and places count up to the number
\* of rules.
LEMMA PlaceGrows ==
    ASSUME NEW rules, Ranked(rules), NEW fired \in SUBSET DOMAIN rules
    PROVE  /\ IsFiniteSet(fired) /\ Cardinality(fired) \in Nat
           /\ \A i \in fired : Place(rules, fired, i) \in 1 .. Cardinality(fired)
           /\ \A i, j \in fired :
                 Sooner(rules, i, j) => Place(rules, fired, i) < Place(rules, fired, j)
<1> DEFINE earlier(i) == {j \in fired : Sooner(rules, j, i)}
<1>1. IsFiniteSet(fired) /\ Cardinality(fired) \in Nat
  <2>1. PICK n \in Nat : DOMAIN rules = 1 .. n
    BY DEF Ranked
  <2>2. IsFiniteSet(1 .. n)
    BY FS_Interval
  <2>3. QED
    BY <2>1, <2>2, FS_Subset, FS_CardinalityType
<1>2. \A i \in fired : Place(rules, fired, i) = Cardinality(earlier(i)) + 1
  BY DEF Place
<1>3. ASSUME NEW i \in fired
      PROVE  /\ IsFiniteSet(earlier(i)) /\ Cardinality(earlier(i)) \in Nat
             /\ Cardinality(earlier(i)) < Cardinality(fired)
  <2>1. i \in fired \ earlier(i) /\ earlier(i) \in SUBSET fired
    BY SoonerOrders
  <2> HIDE DEF earlier
  <2>2. IsFiniteSet(earlier(i)) /\ Cardinality(earlier(i)) <= Cardinality(fired)
    BY <1>1, <2>1, FS_Subset
  <2>3. Cardinality(earlier(i)) # Cardinality(fired)
    BY <1>1, <2>1, FS_Subset
  <2>4. QED
    BY <1>1, <2>2, <2>3, FS_CardinalityType
<1>4. ASSUME NEW i \in fired, NEW j \in fired, Sooner(rules, i, j)
      PROVE  Cardinality(earlier(i)) < Cardinality(earlier(j))
  <2>1. earlier(i) \subseteq earlier(j)
    BY <1>4, SoonerOrders
  <2>2. i \in earlier(j) \ earlier(i)
    BY <1>4, SoonerOrders
  <2> HIDE DEF earlier
  <2>3. earlier(i) \in SUBSET earlier(j) /\ earlier(i) # earlier(j)
    BY <2>1, <2>2
  <2>4. Cardinality(earlier(i)) <= Cardinality(earlier(j)) /\ Cardinality(earlier(i)) # Cardinality(earlier(j))
    BY <1>3, <2>3, FS_Subset
  <2>5. QED
    BY <1>3, <2>4
<1> HIDE DEF earlier
<1>5. QED
  BY <1>1, <1>2, <1>3, <1>4

\* So each place is taken by one rule: sorting loses and repeats none.
LEMMA PlaceSorts ==
    ASSUME NEW rules, Ranked(rules), NEW fired \in SUBSET DOMAIN rules
    PROVE  \E order \in [1 .. Cardinality(fired) -> fired] :
              /\ \A n \in 1 .. Cardinality(fired) :
                    order[n] = CHOOSE i \in fired : Place(rules, fired, i) = n
              /\ \A i \in fired : \E n \in 1 .. Cardinality(fired) : order[n] = i
              /\ \A m, n \in 1 .. Cardinality(fired) : m < n => Sooner(rules, order[m], order[n])
<1> DEFINE places == 1 .. Cardinality(fired)
           place == [i \in fired |-> Place(rules, fired, i)]
           order == [n \in places |-> CHOOSE i \in fired : Place(rules, fired, i) = n]
<1>1. /\ IsFiniteSet(fired) /\ Cardinality(fired) \in Nat
      /\ \A i \in fired : Place(rules, fired, i) \in places
      /\ \A i, j \in fired : Sooner(rules, i, j) => Place(rules, fired, i) < Place(rules, fired, j)
  BY PlaceGrows
<1>2. IsFiniteSet(places) /\ Cardinality(places) = Cardinality(fired)
  BY <1>1, FS_Interval
<1>3. \A i, j \in fired : i = j \/ Sooner(rules, i, j) \/ Sooner(rules, j, i)
  BY SoonerOrders
<1>4. \A i, j \in fired : Place(rules, fired, i) = Place(rules, fired, j) => i = j
  BY <1>1, <1>3
<1>5. place \in Injection(fired, places)
  BY <1>1, <1>4 DEF Injection, IsInjective
<1>6. place \in Surjection(fired, places)
  <2> HIDE DEF place, places
  <2>1. QED
    BY <1>2, <1>5, FS_Injection
<1>7. \A n \in places : \E i \in fired : Place(rules, fired, i) = n
  BY <1>6 DEF Surjection
<1>8. \A n \in places : order[n] \in fired /\ Place(rules, fired, order[n]) = n
  BY <1>7
<1>9. order \in [places -> fired]
  BY <1>8
<1>10. \A i \in fired : \E n \in places : order[n] = i
  BY <1>1, <1>4, <1>8
<1>11. ASSUME NEW m \in places, NEW n \in places, m < n PROVE Sooner(rules, order[m], order[n])
  <2> HIDE DEF order
  <2>1. order[m] # order[n] /\ ~Sooner(rules, order[n], order[m])
    BY <1>1, <1>8, <1>11
  <2>2. QED
    BY <1>3, <1>8, <2>1
<1>12. QED
  BY <1>9, <1>10, <1>11

-----------------------------------------------------------------------------
(* What the engine makes of a ruleset that was loaded *)

LEMMA LoadedAreRanked ==
    ASSUME NEW rules \in Seq(Rule), Loads(rules)
    PROVE  /\ Ranked(rules)
           /\ \A i \in DOMAIN rules : rules[i].condition \in Conditions /\ Valid(rules[i].condition, 0)
<1>1. \A i \in DOMAIN rules : rules[i] \in Rule
  OBVIOUS
<1>2. QED
  BY <1>1 DEF Ranked, Loads, Rule

\* Unless it raises, the engine matches the rules whose conditions hold.
LEMMA MatchesHold ==
    ASSUME NEW rules \in Seq(Rule), Loads(rules), NEW fs, AreFacts(fs), ~EngineRaises(rules, fs)
    PROVE  Fired(rules, fs) = {i \in DOMAIN rules : rules[i].active /\ Holds(rules[i].condition, fs)}
<1>1. ASSUME NEW i \in DOMAIN rules, rules[i].active
      PROVE  Matches(rules[i], fs) = "true" <=> Holds(rules[i].condition, fs)
  <2>1. Matches(rules[i], fs) # "raises"
    BY <1>1 DEF EngineRaises
  <2>2. Agrees(rules[i].condition, 0, fs)
    BY LoadedAreRanked, ValidAgrees
  <2>3. QED
    BY <2>1, <2>2 DEF Agrees, Matches
<1>2. QED
  BY <1>1 DEF Fired

\* It raises only over a text in which a rule looks for something else.
LEMMA RaisesForAReason ==
    ASSUME NEW rules \in Seq(Rule), Loads(rules), NEW fs, AreFacts(fs), EngineRaises(rules, fs)
    PROVE  \E i \in DOMAIN rules : \E leaf \in Leaves(rules[i].condition) :
               rules[i].active /\ LooksInText(leaf, fs)
<1>1. PICK i \in DOMAIN rules : rules[i].active /\ Matches(rules[i], fs) = "raises"
  BY DEF EngineRaises
<1>2. Agrees(rules[i].condition, 0, fs)
  BY LoadedAreRanked, ValidAgrees
<1>3. QED
  BY <1>1, <1>2 DEF Agrees, Matches

\* The findings are those of the rules that fired, in order.
LEMMA EvaluateSorts ==
    ASSUME NEW rules \in Seq(Rule), Loads(rules), NEW fs
    PROVE  \E order \in [1 .. Cardinality(Fired(rules, fs)) -> Fired(rules, fs)] :
              /\ \A i \in Fired(rules, fs) : \E n \in DOMAIN order : order[n] = i
              /\ \A m, n \in DOMAIN order : m < n => Sooner(rules, order[m], order[n])
              /\ Cardinality(Fired(rules, fs)) \in Nat
              /\ Evaluate(rules, fs) = [n \in DOMAIN order |-> FindingFor(rules[order[n]], fs)]
<1> DEFINE fired == Fired(rules, fs)
<1>1. fired \in SUBSET DOMAIN rules
  BY DEF Fired
<1>2. Ranked(rules)
  BY LoadedAreRanked
<1>3. Evaluate(rules, fs) =
        [n \in 1 .. Cardinality(fired) |-> FindingFor(rules[CHOOSE i \in fired : Place(rules, fired, i) = n], fs)]
  BY DEF Evaluate
<1> HIDE DEF fired
<1>4. PICK order \in [1 .. Cardinality(fired) -> fired] :
         /\ \A n \in 1 .. Cardinality(fired) : order[n] = CHOOSE i \in fired : Place(rules, fired, i) = n
         /\ \A i \in fired : \E n \in 1 .. Cardinality(fired) : order[n] = i
         /\ \A m, n \in 1 .. Cardinality(fired) : m < n => Sooner(rules, order[m], order[n])
  BY <1>1, <1>2, PlaceSorts
<1>5. Cardinality(fired) \in Nat
  BY <1>1, <1>2, PlaceGrows
<1>6. Evaluate(rules, fs) = [n \in DOMAIN order |-> FindingFor(rules[order[n]], fs)]
  BY <1>3, <1>4
<1>7. QED
  BY <1>4, <1>5, <1>6 DEF fired

\* The findings of a job are what the pipeline takes, and no more than there are rules.
LEMMA EvaluateFits ==
    ASSUME NEW j \in Jobs, Loads(j.rules), NEW fs \in FactsOf(j)
    PROVE  Evaluate(j.rules, fs) \in Seq(Finding) /\ Len(Evaluate(j.rules, fs)) <= Len(j.rules)
<1>1. /\ j.rules \in Seq(Rule)
      /\ \A i \in DOMAIN j.rules :
            j.rules[i].severity \in DOMAIN Severity => FindingFor(j.rules[i], fs) \in Finding
  BY JobsAssumption
<1>2. \A i \in DOMAIN j.rules : FindingFor(j.rules[i], fs) \in Finding
  BY <1>1 DEF Loads
<1>3. PICK order \in [1 .. Cardinality(Fired(j.rules, fs)) -> Fired(j.rules, fs)] :
         /\ Cardinality(Fired(j.rules, fs)) \in Nat
         /\ Evaluate(j.rules, fs) = [n \in DOMAIN order |-> FindingFor(j.rules[order[n]], fs)]
  BY <1>1, EvaluateSorts
<1>4. Evaluate(j.rules, fs) \in [1 .. Cardinality(Fired(j.rules, fs)) -> Finding]
  BY <1>2, <1>3 DEF Fired
<1>5. Cardinality(Fired(j.rules, fs)) <= Len(j.rules)
  <2>1. PICK m \in Nat : m = Len(j.rules)
    BY <1>1
  <2>2. Fired(j.rules, fs) \in SUBSET (1 .. m)
    BY <1>1, <2>1 DEF Fired
  <2>3. IsFiniteSet(1 .. m) /\ Cardinality(1 .. m) = m
    <3>1. IsFiniteSet(1 .. m) /\ Cardinality(1 .. m) = IF 1 > m THEN 0 ELSE m - 1 + 1
      BY FS_Interval
    <3>2. QED
      BY <3>1
  <2>4. QED
    BY <2>1, <2>2, <2>3, FS_Subset
<1>6. QED
  BY <1>3, <1>4, <1>5

-----------------------------------------------------------------------------
(* The metrics of an evaluation *)

\* The codes of a list of findings are at most as many.
LEMMA CodesAreFinite ==
    ASSUME NEW T, NEW fs \in Seq(T)
    PROVE  IsFiniteSet(Codes(fs)) /\ Cardinality(Codes(fs)) <= Len(fs)
<1> DEFINE f == [i \in 1 .. Len(fs) |-> fs[i].code]
<1>1. Len(fs) \in Nat /\ DOMAIN fs = 1 .. Len(fs)
  OBVIOUS
<1>2. f \in Surjection(1 .. Len(fs), Codes(fs))
  BY <1>1 DEF Surjection, Codes
<1>3. IsFiniteSet(1 .. Len(fs)) /\ Cardinality(1 .. Len(fs)) = Len(fs)
  BY <1>1, FS_Interval
<1> HIDE DEF f
<1>4. QED
  BY <1>2, <1>3, FS_Surjection

\* An accuracy of one is the exact findings.
LEMMA AccuracyIsExact ==
    ASSUME NEW produced, IsFiniteSet(produced), NEW expected, IsFiniteSet(expected)
    PROVE  /\ Accuracy(produced, expected) \in Fraction
           /\ Completeness(produced, expected) \in Fraction
           /\ Accuracy(produced, expected)[1] >= Accuracy(produced, expected)[2] <=> produced = expected
           /\ Accuracy(produced, expected)[1] <= Accuracy(produced, expected)[2]
           /\ Accuracy(produced, expected)[2] <= Cardinality(produced) + Cardinality(expected) + 1
<1> DEFINE both == produced \cap expected
           either == produced \cup expected
<1>1. IsFiniteSet(both) /\ IsFiniteSet(either)
  BY FS_Intersection, FS_Union
<1>2. /\ Cardinality(both) \in Nat /\ Cardinality(either) \in Nat
      /\ Cardinality(produced) \in Nat /\ Cardinality(expected) \in Nat
  BY <1>1, FS_CardinalityType
<1> DEFINE size == Cardinality(produced) + Cardinality(expected)
<1>3. Cardinality(either) <= size
  <2>1. Cardinality(produced \cup expected) =
           Cardinality(produced) + Cardinality(expected) - Cardinality(produced \cap expected)
    BY FS_Union, Zenon
  <2>2. QED
    BY <1>2, <2>1
<1>4. Cardinality(both) <= Cardinality(either) /\ (Cardinality(either) = Cardinality(both) => either = both)
  <2>1. both \in SUBSET either
    OBVIOUS
  <2> HIDE DEF both, either
  <2>2. QED
    BY <1>1, <2>1, FS_Subset
<1>5. (Cardinality(either) = 0 => either = {}) /\ (Cardinality(expected) = 0 => expected = {})
  BY <1>1, FS_EmptySet
<1>6. either = both <=> produced = expected
  OBVIOUS
<1>7. Completeness(produced, expected) \in Fraction
  BY <1>2, <1>5 DEF Completeness, One, Fraction
<1>8. CASE either = {}
  <2>1. Accuracy(produced, expected) = <<1, 1>> /\ produced = expected
    BY <1>8 DEF Accuracy, One
  <2>2. QED
    BY <1>2, <1>7, <2>1 DEF Fraction
<1>9. CASE either # {}
  <2>1. Accuracy(produced, expected) = <<Cardinality(both), Cardinality(either)>>
    BY <1>9 DEF Accuracy
  <2>2. Accuracy(produced, expected) \in Fraction
    BY <1>2, <1>5, <1>9, <2>1 DEF Fraction
  <2>3. Cardinality(both) >= Cardinality(either) <=> Cardinality(either) = Cardinality(both)
    BY <1>2, <1>4
  <2>4. either = both => Cardinality(either) = Cardinality(both)
    OBVIOUS
  <2> HIDE DEF both, either
  <2>5. QED
    BY <1>2, <1>4, <1>6, <1>7, <1>3, <2>1, <2>2, <2>3, <2>4
<1>10. QED
  BY <1>7, <1>8, <1>9

LEMMA HallucinationIsFraction ==
    ASSUME NEW T, NEW rs \in Seq(T)
    PROVE  /\ HallucinationRate(rs) \in Fraction
           /\ HallucinationRate(rs)[1] <= HallucinationRate(rs)[2]
           /\ HallucinationRate(rs)[2] <= Len(rs) + 1
<1> DEFINE attempted == {i \in DOMAIN rs : rs[i].grounding # "unchecked"}
           rejected == {i \in attempted : rs[i].grounding = "rejected"}
<1>1. IsFiniteSet(DOMAIN rs) /\ Cardinality(DOMAIN rs) = Len(rs) /\ Len(rs) \in Nat
  <2>1. Len(rs) \in Nat /\ DOMAIN rs = 1 .. Len(rs)
    OBVIOUS
  <2>2. QED
    BY <2>1, FS_Interval
<1>2. IsFiniteSet(attempted) /\ Cardinality(attempted) <= Len(rs)
  <2>1. attempted \in SUBSET DOMAIN rs
    OBVIOUS
  <2> HIDE DEF attempted
  <2>2. QED
    BY <1>1, <2>1, FS_Subset
<1>3. IsFiniteSet(rejected) /\ Cardinality(rejected) <= Cardinality(attempted)
  <2>1. rejected \in SUBSET attempted
    OBVIOUS
  <2> HIDE DEF rejected, attempted
  <2>2. QED
    BY <1>2, <2>1, FS_Subset
<1>4. HallucinationRate(rs) = IF attempted = {} THEN Zero ELSE <<Cardinality(rejected), Cardinality(attempted)>>
  BY DEF HallucinationRate
<1> HIDE DEF rejected, attempted
<1>5. Cardinality(attempted) \in Nat /\ Cardinality(rejected) \in Nat
      /\ (Cardinality(attempted) = 0 => attempted = {})
  BY <1>2, <1>3, FS_CardinalityType, FS_EmptySet
<1>6. QED
  BY <1>1, <1>2, <1>3, <1>4, <1>5 DEF Fraction, Zero

LEMMA Products ==
    ASSUME NEW a \in Nat, NEW b \in Nat
    PROVE  a * b \in Nat /\ (a # 0 /\ b # 0 => a * b # 0)
OBVIOUS

LEMMA SumIsFraction ==
    ASSUME NEW p \in Fraction, NEW q \in Fraction
    PROVE  Sum(p, q) \in Fraction
<1>1. p[1] \in Nat /\ p[2] \in Nat \ {0} /\ q[1] \in Nat /\ q[2] \in Nat \ {0}
  BY DEF Fraction
<1>2. p[1] * q[2] \in Nat /\ q[1] * p[2] \in Nat /\ p[2] * q[2] \in Nat \ {0}
  BY <1>1, Products
<1>3. QED
  BY <1>2 DEF Sum, Fraction

LEMMA RoundedIsFraction ==
    ASSUME NEW a \in Nat, NEW b \in Nat \ {0}
    PROVE  Rounded(<<a, b>>) \in Fraction
<1>1. 20000 * a + b \in Nat /\ 2 * b \in Nat \ {0}
  OBVIOUS
<1>2. \A x \in Nat, y \in Nat \ {0} : x \div y \in Nat
  OBVIOUS
<1>3. QED
  BY <1>1, <1>2 DEF Rounded, Fraction

Metric == {"accuracy", "completeness", "hallucination"}

\* The sums of the first results, of which Total is the last.
LEMMA TotalSums ==
    ASSUME results \in Seq(ItemResult), NEW metric \in Metric
    PROVE  \E total \in [0 .. Len(results) -> Fraction] :
              /\ total[0] = Zero
              /\ \A n \in 1 .. Len(results) : total[n] = Sum(total[n - 1], results[n][metric])
              /\ Total(metric) = total[Len(results)]
<1>1. PICK rs \in Seq(ItemResult) : rs = results
  OBVIOUS
<1> DEFINE X == 0 .. Len(rs)
           step(g, n) == IF n = 0 THEN Zero ELSE Sum(g[n - 1], rs[n][metric])
           D == [g \in [X -> Fraction] |-> [n \in X |-> step(g, n)]]
           rank == [n \in X |-> n]
<1>2. Len(rs) \in Nat /\ Zero \in Fraction
  BY DEF Zero, Fraction
<1>3. ASSUME NEW n \in X, n # 0
      PROVE  n - 1 \in X /\ rs[n][metric] \in Fraction
  <2>1. n - 1 \in X /\ n \in 1 .. Len(rs)
    BY <1>2, <1>3
  <2>2. rs[n] \in ItemResult
    BY <2>1, ElementOfSeq
  <2>3. QED
    BY <2>1, <2>2 DEF ItemResult, Metric
<1>4. ASSUME NEW g, NEW n \in X, n # 0 => g[n - 1] \in Fraction
      PROVE  step(g, n) \in Fraction
  BY <1>2, <1>3, <1>4, SumIsFraction
<1> HIDE DEF step
<1>5. D \in [[X -> Fraction] -> [X -> Fraction]]
  BY <1>3, <1>4
<1>6. ASSUME NEW g \in [X -> Fraction], NEW h \in [X -> Fraction], NEW n \in X,
             \A m \in X : rank[m] < rank[n] => g[m] = h[m]
      PROVE  D[g][n] = D[h][n]
  <2>1. n # 0 => g[n - 1] = h[n - 1]
    BY <1>2, <1>3, <1>6
  <2>2. step(g, n) = step(h, n)
    BY <2>1 DEF step
  <2>3. QED
    BY <2>2
<1>7. rank \in [X -> Nat]
  BY <1>2
<1>8. PICK f \in [X -> Fraction] : f = D[f]
  <2>1. Causal(X, Fraction, rank, D)
    BY <1>5, <1>6, <1>7 DEF Causal
  <2> HIDE DEF D, rank, X
  <2>2. QED
    BY <1>2, <2>1, FixedPoint
<1>9. f = [n \in X |-> step(f, n)]
  BY <1>8
<1> DEFINE total == CHOOSE total : total = [n \in X |-> step(total, n)]
<1>10. total = [n \in X |-> step(total, n)]
  BY <1>9
<1>11. Total(metric) = total[Len(rs)]
  BY <1>1 DEF Total, step
<1> HIDE DEF total
<1>12. X \subseteq {n \in X : total[n] \in Fraction}
  <2> DEFINE Y == {n \in X : total[n] \in Fraction}
  <2>1. SUFFICES ASSUME ~(X \subseteq Y) PROVE FALSE
    OBVIOUS
  <2>2. PICK n \in X \ Y : \A m \in X : rank[m] < rank[n] => m \in Y
    <3> HIDE DEF X, Y, rank
    <3>1. QED
      BY <1>7, <2>1, LeastMissing
  <2>3. n # 0 => total[n - 1] \in Fraction
    BY <1>2, <1>3, <2>2
  <2>4. total[n] \in Fraction
    BY <1>4, <1>10, <2>3
  <2>5. QED
    BY <2>2, <2>4
<1>13. total \in [X -> Fraction]
  BY <1>10, <1>12
<1>14. \A n \in X : total[n] = IF n = 0 THEN Zero ELSE Sum(total[n - 1], rs[n][metric])
  BY <1>10 DEF step
<1>15. total[0] = Zero /\ \A n \in 1 .. Len(rs) : total[n] = Sum(total[n - 1], rs[n][metric])
  BY <1>2, <1>14
<1>16. QED
  BY <1>1, <1>11, <1>13, <1>15

LEMMA TotalIsFraction ==
    ASSUME results \in Seq(ItemResult), NEW metric \in Metric
    PROVE  Total(metric) \in Fraction
<1>1. PICK total \in [0 .. Len(results) -> Fraction] : Total(metric) = total[Len(results)]
  BY TotalSums
<1>2. Len(results) \in 0 .. Len(results)
  BY LenProperties
<1>3. QED
  BY <1>1, <1>2

LEMMA MeanIsFraction ==
    ASSUME results \in Seq(ItemResult), NEW metric \in Metric
    PROVE  Mean(metric) \in Fraction
<1> DEFINE n == IF results = <<>> THEN 1 ELSE Len(results)
<1>1. n \in Nat \ {0}
  BY EmptySeq, LenProperties
<1>2. Total(metric) \in Fraction
  BY TotalIsFraction
<1>3. Mean(metric) = Rounded(<<Total(metric)[1], Total(metric)[2] * n>>)
  BY DEF Mean
<1> HIDE DEF n
<1>4. Total(metric)[1] \in Nat /\ Total(metric)[2] \in Nat \ {0}
  BY <1>2 DEF Fraction
<1>5. Total(metric)[2] * n \in Nat \ {0}
  BY <1>1, <1>4, Products
<1>6. QED
  BY <1>3, <1>4, <1>5, RoundedIsFraction

-----------------------------------------------------------------------------
(* The invariant *)

\* A completion that has its findings is no longer one of the jobs.
KindFits ==
    /\ job \in Jobs \/ (job.kind = "completion" /\ stage \in {"enhancing", "saved", "failed"})
    /\ stage \in {"authoring", "drafted", "answering"} => job.kind = "completion"
    /\ stage = "scored" => job.kind = "evaluation"

\* No rule is evaluated that has not been validated.
Loaded ==
    stage \in {"answering", "evaluating"} \/ (stage = "enhancing" /\ job.kind = "evaluation")
        => Loads(job.rules)

\* The engine is at the facts, and its findings are those of the item, that the
\* stage is about.
InputKnown ==
    /\ stage = "loading" => results = <<>>
    /\ stage = "evaluating" /\ job.kind = "completion" => facts = job.answers
    /\ stage \in {"evaluating", "enhancing"} /\ job.kind = "evaluation" => Len(results) < Len(job.dataset)
    /\ stage = "enhancing" /\ job.kind = "evaluation" => findings = Evaluate(job.rules, Item.facts)
    /\ stage = "scored" => Len(results) = Len(job.dataset)

\* An item has passed exactly if there is nothing wrong with it.
ResultsAreRight == \A i \in DOMAIN results : results[i].passed <=> Faultless(i)

Good ==
    /\ IInv
    /\ TypeOK
    /\ KindFits
    /\ Loaded
    /\ InputKnown
    /\ ResultsAreRight
    /\ EvaluationGateHolds

\* What a job is made of.
LEMMA JobFits ==
    ASSUME NEW j \in Jobs
    PROVE  /\ j.kind \in {"completion", "evaluation"}
           /\ j.rules \in Seq(Rule)
           /\ j.kind = "evaluation" =>
                 /\ j.dataset \in Seq([facts : FactsOf(j), expected : SUBSET Int])
                 /\ Len(j.dataset) \in Nat /\ DOMAIN j.dataset = 1 .. Len(j.dataset)
                 /\ j.dataset = <<>> <=> Len(j.dataset) = 0
                 /\ \A i \in DOMAIN j.dataset :
                       j.dataset[i].facts \in FactsOf(j) /\ IsFiniteSet(j.dataset[i].expected)
           /\ j.kind = "completion" => j.answers \in FactsOf(j)
           /\ \A fs \in FactsOf(j) : AreFacts(fs) /\ fs # NoItem
<1>1. /\ j.kind \in {"completion", "evaluation"}
      /\ j.rules \in Seq(Rule)
      /\ \A fs \in FactsOf(j) : AreFacts(fs) /\ fs # NoItem
  BY JobsAssumption
<1>2. ASSUME j.kind = "evaluation"
      PROVE  /\ j.dataset \in Seq([facts : FactsOf(j), expected : SUBSET Int])
             /\ \A i \in DOMAIN j.dataset : IsFiniteSet(j.dataset[i].expected)
  BY <1>2, JobsAssumption
<1>3. ASSUME j.kind = "evaluation"
      PROVE  /\ Len(j.dataset) \in Nat /\ DOMAIN j.dataset = 1 .. Len(j.dataset)
             /\ j.dataset = <<>> <=> Len(j.dataset) = 0
             /\ \A i \in DOMAIN j.dataset : j.dataset[i].facts \in FactsOf(j)
  <2>1. j.dataset \in Seq([facts : FactsOf(j), expected : SUBSET Int])
    BY <1>2, <1>3
  <2>2. Len(j.dataset) \in Nat /\ DOMAIN j.dataset = 1 .. Len(j.dataset)
    BY <2>1
  <2>3. j.dataset = <<>> <=> Len(j.dataset) = 0
    BY <2>1, EmptySeq
  <2>4. \A i \in DOMAIN j.dataset : j.dataset[i] \in [facts : FactsOf(j), expected : SUBSET Int]
    BY <2>1, <2>2, ElementOfSeq
  <2>5. QED
    BY <2>2, <2>3, <2>4
<1>4. j.kind = "completion" => j.answers \in FactsOf(j)
  BY DEF FactsOf
<1>5. QED
  BY <1>1, <1>2, <1>3, <1>4

\* The rules that the engine runs over its input are valid.
LEMMA InputFits ==
    ASSUME Good, stage = "evaluating"
    PROVE  /\ job \in Jobs /\ job.rules \in Seq(Rule) /\ Loads(job.rules)
           /\ Input \in FactsOf(job) /\ AreFacts(Input)
<1>1. PICK j \in Jobs : j = job
  BY DEF Good, KindFits
<1>2. Loads(j.rules)
  BY <1>1 DEF Good, Loaded
<1>3. CASE j.kind = "completion"
  <2>1. Input = j.answers
    BY <1>1, <1>3 DEF Input, Good, InputKnown
  <2>2. QED
    BY <1>1, <1>2, <1>3, <2>1, JobFits
<1>4. CASE j.kind = "evaluation"
  <2>1. Len(results) \in Nat /\ Len(results) < Len(j.dataset)
    BY <1>1, <1>4, LenProperties DEF Good, InputKnown, TypeOK
  <2>2. Len(results) + 1 \in DOMAIN j.dataset
    BY <1>4, <2>1, JobFits
  <2>3. Input = j.dataset[Len(results) + 1].facts
    BY <1>1, <1>4 DEF Input, Item
  <2>4. QED
    BY <1>1, <1>2, <1>4, <2>2, <2>3, JobFits
<1>5. QED
  BY <1>3, <1>4, JobFits

\* The gateway leaves the findings alone.
LEMMA FindingsStay == ASSUME GatewayStep PROVE findings' = findings
BY DEF GatewayStep, NoAnswer, Busy, Refused, Exhausted, Unparsed, Malformed, OddReferences, Answered,
       AskAgain, FallBack, Settle

\* The pipeline uses the gateway as it is meant to be used.
LEMMA UsesGateway == ASSUME Good, [Next]_vars PROVE [GatewayNext]_gateway
<1>1. CASE RunEngine
  <2>1. CASE EngineRaises(job.rules, Input)
    BY <1>1, <2>1 DEF RunEngine
  <2>2. CASE ~EngineRaises(job.rules, Input)
    <3>1. Begin(Evaluate(job.rules, Input), job.kind = "completion")
      BY <1>1, <2>2 DEF RunEngine
    <3>2. stage = "evaluating"
      BY <1>1 DEF RunEngine
    <3>3. Evaluate(job.rules, Input) \in Seq(Finding)
      BY <3>2, InputFits, EvaluateFits
    <3>4. (job.kind = "completion") \in BOOLEAN
      OBVIOUS
    <3>5. QED
      BY <3>1, <3>3, <3>4 DEF GatewayNext
  <2>3. QED
    BY <2>1, <2>2
<1>2. CASE Enhance
  BY <1>2 DEF Enhance, GatewayNext
<1>3. CASE UNCHANGED gateway
  BY <1>3
<1>4. QED
  BY <1>1, <1>2, <1>3
     DEF Next, CreateTemplate, PublishTemplate, CreateFromDraft, LoadRules, SaveResponses, Save, RollBack,
         ScoreItem, SaveRun, vars

-----------------------------------------------------------------------------
(* The steps keep the invariant *)

\* While an evaluation is at it, the outcomes it has stay what they are.
LEMMA ResultsStay ==
    ASSUME ResultsAreRight, UNCHANGED <<job, results>>
    PROVE  ResultsAreRight'
<1>1. \A i : Faultless(i)' <=> Faultless(i)
  BY DEF Faultless
<1>2. QED
  BY <1>1 DEF ResultsAreRight

\* A request that has not been saved says nothing of its outcome.
LEMMA NotSaved == ASSUME stage' # "saved" PROVE EvaluationGateHolds'
BY DEF EvaluationGateHolds

\* The stages before the rules are loaded.
LEMMA AuthoringKeeps ==
    ASSUME Good, IInv', CreateTemplate \/ PublishTemplate \/ CreateFromDraft
    PROVE  Good'
<1>1. /\ UNCHANGED <<job, facts, results, stored>>
      /\ \/ stage = "authoring" /\ stage' \in {"drafted", "refused"}
         \/ stage = "drafted" /\ stage' \in {"loading", "refused"}
  BY DEF CreateTemplate, PublishTemplate, CreateFromDraft, Request
<1>2. job.kind = "completion" /\ results = <<>> /\ stored = NoItem /\ facts = NoItem
  BY <1>1 DEF Good, KindFits, TypeOK
<1>3. TypeOK'
  BY <1>1, <1>2 DEF Good, IInv, TypeOK, Stage
<1>4. KindFits' /\ Loaded' /\ InputKnown'
  BY <1>1, <1>2 DEF Good, KindFits, Loaded, InputKnown
<1>5. ResultsAreRight' /\ EvaluationGateHolds'
  BY <1>1, ResultsStay, NotSaved DEF Good
<1>6. QED
  BY <1>3, <1>4, <1>5 DEF Good

\* Only rules that are valid get any further.
LEMMA LoadRulesKeeps ==
    ASSUME Good, IInv', LoadRules
    PROVE  Good'
<1>1. /\ UNCHANGED <<job, facts, results, stored>> /\ stage = "loading"
      /\ \/ stage' = "refused"
         \/ stage' = "answering" /\ Loads(job.rules) /\ job.kind = "completion"
         \/ /\ stage' \in {"scored", "evaluating"} /\ Loads(job.rules) /\ job.kind # "completion"
            /\ stage' = "scored" <=> job.dataset = <<>>
  BY DEF LoadRules, Request
<1>2. PICK j \in Jobs : j = job
  BY <1>1 DEF Good, KindFits
<1>3. results = <<>> /\ Len(results) = 0 /\ stored = NoItem /\ facts = NoItem
  BY <1>1, EmptySeq DEF Good, InputKnown, TypeOK
<1>4. j.kind \in {"completion", "evaluation"}
      /\ (j.kind = "evaluation" => Len(j.dataset) \in Nat /\ (j.dataset = <<>> <=> Len(j.dataset) = 0))
  BY JobFits
<1>5. TypeOK'
  BY <1>1, <1>3 DEF Good, IInv, TypeOK, Stage
<1>6. KindFits' /\ Loaded'
  BY <1>1, <1>2, <1>4 DEF KindFits, Loaded
<1>7. InputKnown'
  BY <1>1, <1>2, <1>3, <1>4 DEF InputKnown
<1>8. ResultsAreRight' /\ EvaluationGateHolds'
  BY <1>1, ResultsStay, NotSaved DEF Good
<1>9. QED
  BY <1>5, <1>6, <1>7, <1>8 DEF Good

\* The answers that are allowed are the facts of the completion.
LEMMA SaveResponsesKeeps ==
    ASSUME Good, IInv', SaveResponses
    PROVE  Good'
<1>1. /\ UNCHANGED <<job, results, stored>> /\ stage = "answering"
      /\ \/ stage' = "evaluating" /\ facts' = job.answers
         \/ stage' = "refused" /\ facts' = facts
  BY DEF SaveResponses, Request
<1>2. /\ job.kind = "completion" /\ results = <<>> /\ stored = NoItem /\ facts = NoItem
      /\ job \in Jobs /\ Loads(job.rules)
  BY <1>1 DEF Good, KindFits, TypeOK, Loaded
<1>3. TypeOK'
  BY <1>1, <1>2 DEF Good, IInv, TypeOK, Stage
<1>4. KindFits' /\ Loaded' /\ InputKnown'
  BY <1>1, <1>2 DEF KindFits, Loaded, InputKnown
<1>5. ResultsAreRight' /\ EvaluationGateHolds'
  BY <1>1, ResultsStay, NotSaved DEF Good
<1>6. QED
  BY <1>3, <1>4, <1>5 DEF Good

\* A completion lets go of its input; an evaluation keeps it, and its findings
\* are those of the item in hand.
LEMMA RunEngineKeeps ==
    ASSUME Good, IInv', RunEngine
    PROVE  Good'
<1>1. /\ stage = "evaluating" /\ facts' = NoItem /\ UNCHANGED <<results, stored>>
      /\ job' = IF job.kind = "completion" THEN Findings ELSE job
      /\ \/ stage' = "failed"
         \/ stage' = "enhancing" /\ findings' = Evaluate(job.rules, Input)
  BY DEF RunEngine, Begin
<1>2. job \in Jobs /\ Loads(job.rules) /\ stored = NoItem /\ job.kind \in {"completion", "evaluation"}
  BY <1>1, InputFits, JobFits DEF Good, TypeOK
<1>3. Findings.kind = "completion"
  BY DEF Findings
<1>4. CASE job.kind = "completion"
  <2>1. job' = Findings /\ job'.kind = "completion" /\ results' = <<>>
    BY <1>1, <1>3, <1>4 DEF Good, TypeOK
  <2>2. TypeOK'
    BY <1>1, <1>2, <2>1 DEF Good, IInv, TypeOK, Stage
  <2>3. KindFits' /\ Loaded' /\ InputKnown'
    BY <1>1, <2>1 DEF KindFits, Loaded, InputKnown
  <2>4. ResultsAreRight'
    BY <2>1 DEF ResultsAreRight
  <2>5. QED
    BY <1>1, <2>2, <2>3, <2>4, NotSaved DEF Good
<1>5. CASE job.kind = "evaluation"
  <2>1. job' = job /\ Len(results) < Len(job.dataset) /\ Input = Item.facts
    BY <1>1, <1>5 DEF Good, InputKnown, Input
  <2>2. TypeOK'
    BY <1>1, <1>2, <1>5, <2>1 DEF Good, IInv, TypeOK, Stage
  <2>3. KindFits' /\ Loaded'
    BY <1>1, <1>2, <1>5, <2>1 DEF KindFits, Loaded
  <2>4. InputKnown'
    BY <1>1, <1>5, <2>1 DEF InputKnown, Item
  <2>5. ResultsAreRight'
    BY <1>1, <2>1, ResultsStay DEF Good
  <2>6. QED
    BY <1>1, <2>2, <2>3, <2>4, <2>5, NotSaved DEF Good
<1>6. QED
  BY <1>2, <1>4, <1>5

LEMMA EnhanceKeeps ==
    ASSUME Good, IInv', Enhance
    PROVE  Good'
<1>1. UNCHANGED <<job, stage, facts, results, stored>> /\ stage = "enhancing" /\ findings' = findings
  BY FindingsStay DEF Enhance, Request
<1>2. TypeOK'
  BY <1>1 DEF Good, IInv, TypeOK
<1>3. KindFits' /\ Loaded' /\ InputKnown'
  BY <1>1 DEF Good, KindFits, Loaded, InputKnown, Item
<1>4. ResultsAreRight' /\ EvaluationGateHolds'
  BY <1>1, ResultsStay, NotSaved DEF Good
<1>5. QED
  BY <1>2, <1>3, <1>4 DEF Good

\* How a completion ends, or any request that fails.
LEMMA EndKeeps ==
    ASSUME Good, IInv', Save \/ RollBack
    PROVE  Good'
<1>1. /\ UNCHANGED <<job, facts, results>> /\ stage = "enhancing"
      /\ \/ /\ stage' = "saved" /\ job.kind = "completion"
            /\ stored' = [recs |-> recs, calls |-> calls]
         \/ stage' = "failed" /\ stored' = stored
  BY DEF Save, RollBack, Request
<1>2. facts = NoItem /\ stored = NoItem /\ recs \in Seq(Recommendation) /\ calls \in Seq(CallRow)
  BY <1>1 DEF Good, TypeOK, GatewayTypeOK
<1>3. stage' = "saved" => stored' \in Stored(job'.kind)
  BY <1>1, <1>2 DEF Stored
<1>4. TypeOK'
  BY <1>1, <1>2, <1>3 DEF Good, IInv, TypeOK, Stage
<1>5. KindFits' /\ Loaded' /\ InputKnown'
  BY <1>1 DEF Good, KindFits, Loaded, InputKnown
<1>6. ResultsAreRight'
  BY <1>1, ResultsStay DEF Good
<1>7. EvaluationGateHolds'
  BY <1>1 DEF EvaluationGateHolds
<1>8. QED
  BY <1>4, <1>5, <1>6, <1>7 DEF Good

\* The score of an item is about the item: it passes exactly if its findings are
\* the expected ones and no reply about them was rejected.
LEMMA ScoreIsRight ==
    ASSUME Good, stage = "enhancing", job.kind = "evaluation"
    PROVE  /\ Score \in ItemResult
           /\ Score.passed <=> /\ Codes(Evaluate(job.rules, Item.facts)) = Item.expected
                               /\ Score.hallucination[1] = 0
<1> DEFINE accuracy == Accuracy(Codes(findings), Item.expected)
           completeness == Completeness(Codes(findings), Item.expected)
           rate == HallucinationRate(recs)
<1>1. findings = Evaluate(job.rules, Item.facts)
  BY DEF Good, InputKnown
<1>2. IsFiniteSet(Item.expected)
  <2>1. PICK j \in Jobs : j = job
    BY DEF Good, KindFits
  <2>2. Len(results) \in Nat /\ Len(results) < Len(j.dataset)
    BY <2>1, LenProperties DEF Good, InputKnown, TypeOK
  <2>3. Len(results) + 1 \in DOMAIN j.dataset
    BY <2>1, <2>2, JobFits
  <2>4. QED
    BY <2>1, <2>3, JobFits DEF Item
<1>3. IsFiniteSet(Codes(findings))
  BY CodesAreFinite DEF Good, IInv, GatewayTypeOK
<1>4. /\ accuracy \in Fraction /\ completeness \in Fraction
      /\ accuracy[1] >= accuracy[2] <=> Codes(findings) = Item.expected
  BY <1>2, <1>3, AccuracyIsExact
<1>5. rate \in Fraction
  BY HallucinationIsFraction DEF Good, IInv, GatewayTypeOK
<1>6. Score = [accuracy |-> accuracy, completeness |-> completeness, hallucination |-> rate,
               passed |-> accuracy[1] >= accuracy[2] /\ rate[1] <= 0]
  BY DEF Score
<1> HIDE DEF accuracy, completeness, rate
<1>7. Score \in ItemResult
  BY <1>4, <1>5, <1>6 DEF ItemResult
<1>8. rate[1] <= 0 <=> rate[1] = 0
  BY <1>5 DEF Fraction
<1>9. Score.passed <=> Codes(findings) = Item.expected /\ Score.hallucination[1] = 0
  BY <1>4, <1>6, <1>8
<1>10. QED
  BY <1>1, <1>7, <1>9

LEMMA ScoreItemKeeps ==
    ASSUME Good, IInv', ScoreItem
    PROVE  Good'
<1>1. /\ UNCHANGED <<job, facts, stored>> /\ stage = "enhancing" /\ job.kind = "evaluation"
      /\ results' = Append(results, Score)
      /\ stage' = IF Len(results') = Len(job.dataset) THEN "scored" ELSE "evaluating"
  BY DEF ScoreItem, Request
<1>2. /\ Score \in ItemResult
      /\ Score.passed <=> /\ Codes(Evaluate(job.rules, Item.facts)) = Item.expected
                          /\ Score.hallucination[1] = 0
  BY <1>1, ScoreIsRight
<1>3. /\ job \in Jobs /\ facts = NoItem /\ stored = NoItem /\ Loads(job.rules)
      /\ results \in Seq(ItemResult) /\ Len(results) \in Nat /\ Len(results) < Len(job.dataset)
  BY <1>1, LenProperties DEF Good, KindFits, TypeOK, Loaded, InputKnown
<1>4. Len(job.dataset) \in Nat
  <2>1. PICK j \in Jobs : j = job
    BY <1>3
  <2>2. QED
    BY <1>1, <2>1, JobFits
<1>5. PICK score, n : score = Score /\ n = Len(results) + 1
  OBVIOUS
<1>6. /\ results' \in Seq(ItemResult) /\ Len(results') = n
      /\ \A i \in 1 .. Len(results) : results'[i] = results[i]
      /\ results'[n] = score
  BY <1>1, <1>2, <1>3, <1>5, AppendProperties
<1>7. TypeOK'
  BY <1>1, <1>3, <1>4, <1>5, <1>6 DEF IInv, TypeOK, Stage
<1>8. KindFits' /\ Loaded'
  BY <1>1, <1>3 DEF KindFits, Loaded
<1>9. InputKnown'
  BY <1>1, <1>3, <1>4, <1>5, <1>6 DEF InputKnown
<1>10. ResultsAreRight'
  <2>1. ASSUME NEW i \in 1 .. Len(results)
        PROVE  results'[i].passed <=> Faultless(i)'
    <3>1. results[i].passed <=> Faultless(i)
      BY <1>3, LenProperties DEF Good, ResultsAreRight
    <3>2. QED
      BY <1>1, <1>6, <3>1 DEF Faultless
  <2>2. results'[n].passed <=> Faultless(n)'
    BY <1>1, <1>2, <1>5, <1>6 DEF Faultless, Item
  <2>3. DOMAIN results' = 1 .. n
    BY <1>6, LenProperties
  <2>4. \A i \in 1 .. n : i \in 1 .. Len(results) \/ i = n
    BY <1>3, <1>5
  <2>5. \A i \in 1 .. n : results'[i].passed <=> Faultless(i)'
    BY <2>1, <2>2, <2>4
  <2>6. QED
    BY <2>3, <2>5 DEF ResultsAreRight
<1>11. EvaluationGateHolds'
  BY <1>1, NotSaved
<1>12. QED
  BY <1>7, <1>8, <1>9, <1>10, <1>11 DEF Good

LEMMA SaveRunKeeps ==
    ASSUME Good, IInv', SaveRun
    PROVE  Good'
<1>1. /\ UNCHANGED <<job, facts, results>> /\ stage = "scored" /\ stage' = "saved"
      /\ stored' = [status |-> IF \A i \in DOMAIN results : results[i].passed THEN "completed" ELSE "failed",
                    accuracy |-> Mean("accuracy"), completeness |-> Mean("completeness"),
                    hallucination |-> Mean("hallucination"), items |-> Len(results)]
  BY DEF SaveRun, Request
<1>2. /\ job \in Jobs /\ job.kind = "evaluation" /\ facts = NoItem
      /\ results \in Seq(ItemResult) /\ Len(results) \in Nat /\ Len(results) = Len(job.dataset)
  BY <1>1, LenProperties DEF Good, KindFits, TypeOK, InputKnown
<1>3. \A metric \in Metric : Mean(metric) \in Fraction
  BY <1>2, MeanIsFraction
<1>4. {"accuracy", "completeness", "hallucination"} = Metric
  BY DEF Metric
<1>5. Mean("accuracy") \in Fraction /\ Mean("completeness") \in Fraction /\ Mean("hallucination") \in Fraction
  BY <1>3, <1>4
<1>6. stored' \in Stored(job'.kind)
  BY <1>1, <1>2, <1>5 DEF Stored
<1>7. TypeOK'
  BY <1>1, <1>2, <1>6 DEF Good, IInv, TypeOK, Stage
<1>8. KindFits' /\ Loaded' /\ InputKnown'
  BY <1>1, <1>2 DEF KindFits, Loaded, InputKnown
<1>9. ResultsAreRight'
  BY <1>1, ResultsStay DEF Good
<1>10. EvaluationGateHolds'
  <2>1. DOMAIN results = DOMAIN job.dataset
    <3>1. PICK j \in Jobs : j = job
      BY <1>2
    <3>2. QED
      BY <1>2, <3>1, JobFits, LenProperties
  <2>2. stored'.status = "completed" <=> \A i \in DOMAIN job.dataset : Faultless(i)
    BY <1>1, <2>1 DEF Good, ResultsAreRight
  <2>3. \A i : Faultless(i)' <=> Faultless(i)
    BY <1>1 DEF Faultless
  <2>4. QED
    BY <1>1, <2>2, <2>3 DEF EvaluationGateHolds
<1>11. QED
  BY <1>7, <1>8, <1>9, <1>10 DEF Good

LEMMA InitIsGood == ASSUME Init PROVE Good
<1>1. /\ job \in Jobs /\ facts = NoItem /\ results = <<>> /\ stored = NoItem /\ GatewayInit
      /\ stage = IF job.kind = "completion" THEN "authoring" ELSE "loading"
  BY DEF Init
<1>2. IInv
  BY <1>1, InitGood
<1>3. results \in Seq(ItemResult) /\ DOMAIN results = {}
  BY <1>1
<1>4. TypeOK
  BY <1>1, <1>2, <1>3 DEF IInv, TypeOK, Stage
<1>5. KindFits /\ Loaded /\ InputKnown /\ ResultsAreRight /\ EvaluationGateHolds
  BY <1>1, <1>3 DEF KindFits, Loaded, InputKnown, ResultsAreRight, EvaluationGateHolds
<1>6. QED
  BY <1>2, <1>4, <1>5 DEF Good

LEMMA NextIsGood == ASSUME Good, [Next]_vars PROVE Good'
<1>1. IInv'
  BY UsesGateway, NextKeeps DEF Good
<1>2. CASE UNCHANGED vars
  <2>1. UNCHANGED <<job, stage, facts, results, stored, findings>>
    BY <1>2 DEF vars, gateway
  <2>2. TypeOK' /\ KindFits' /\ Loaded' /\ InputKnown'
    BY <1>1, <2>1 DEF Good, IInv, TypeOK, KindFits, Loaded, InputKnown, Item
  <2>3. ResultsAreRight'
    BY <2>1, ResultsStay DEF Good
  <2>4. EvaluationGateHolds'
    BY <2>1 DEF Good, EvaluationGateHolds, Faultless
  <2>5. QED
    BY <1>1, <2>2, <2>3, <2>4 DEF Good
<1>3. CASE CreateTemplate \/ PublishTemplate \/ CreateFromDraft
  BY <1>1, <1>3, AuthoringKeeps
<1>4. CASE LoadRules
  BY <1>1, <1>4, LoadRulesKeeps
<1>5. CASE SaveResponses
  BY <1>1, <1>5, SaveResponsesKeeps
<1>6. CASE RunEngine
  BY <1>1, <1>6, RunEngineKeeps
<1>7. CASE Enhance
  BY <1>1, <1>7, EnhanceKeeps
<1>8. CASE Save \/ RollBack
  BY <1>1, <1>8, EndKeeps
<1>9. CASE ScoreItem
  BY <1>1, <1>9, ScoreItemKeeps
<1>10. CASE SaveRun
  BY <1>1, <1>10, SaveRunKeeps
<1>11. QED
  BY <1>2, <1>3, <1>4, <1>5, <1>6, <1>7, <1>8, <1>9, <1>10 DEF Next

\* The invariant holds throughout.
LEMMA PipelineIsGood == Spec => []Good
<1>1. Init => Good
  BY InitIsGood
<1>2. Good /\ [Next]_vars => Good'
  BY NextIsGood
<1>3. QED
  BY <1>1, <1>2, PTL DEF Spec

-----------------------------------------------------------------------------
(* Theorems *)

\* Type correctness: a request commits recommendations and rows of llm_calls, or
\* a row of an evaluation, in its last step and not before.
THEOREM PipelineTypes == Spec => []TypeOK
<1>1. Good => TypeOK
  BY DEF Good
<1>2. QED
  BY <1>1, PipelineIsGood, PTL

\* A completion and an evaluation use the gateway as its own module has it, with
\* the findings of the engine and, one item after the other, the same provider.
THEOREM GatewayInUse == Spec => GatewaySpec
<1>1. Init => GatewayInit
  BY DEF Init
<1>2. Good /\ [Next]_vars => [GatewayNext]_gateway
  BY UsesGateway
<1>3. QED
  BY <1>1, <1>2, PipelineIsGood, PTL DEF Spec, GatewaySpec

\* So everything that is proved of the gateway holds in the pipeline.
COROLLARY VettedInUse ==
    Spec => /\ []RecommendationsAreVetted /\ []TelemetryIsOwn /\ []AsksAgainOnlyIfTransient
            /\ ImplementsAdvice
BY GatewayInUse, Vetted, Telemetry, Retries, Implements, PTL

\* An evaluation is completed exactly when the engine finds what was expected of
\* every item and no reply about its findings was rejected.
THEOREM EvaluationGate == Spec => []EvaluationGateHolds
<1>1. Good => EvaluationGateHolds
  BY DEF Good
<1>2. QED
  BY <1>1, PipelineIsGood, PTL

\* The findings are the active rules whose condition holds, read as plain logic,
\* each once and in order, whatever the rules and the answers are.
THEOREM FindingsAreRules == Spec => FindingsAreTheRules
<1> DEFINE hold == {i \in DOMAIN job.rules : job.rules[i].active /\ Holds(job.rules[i].condition, Input)}
<1>1. ASSUME Good, RunEngine, stage' = "enhancing"
      PROVE  \E order \in [1 .. Cardinality(hold) -> hold] :
                /\ \A i \in hold : \E n \in DOMAIN order : order[n] = i
                /\ Len(findings') = Cardinality(hold)
                /\ \A n \in DOMAIN order : findings'[n].code = job.rules[order[n]].code
                /\ \A m, n \in DOMAIN order : m < n =>
                      LET r == job.rules[order[m]]
                          s == job.rules[order[n]]
                      IN /\ Severity[r.severity] >= Severity[s.severity]
                         /\ r.severity = s.severity => r.priority <= s.priority
                         /\ r.severity = s.severity /\ r.priority = s.priority => r.code <= s.code
                         /\ r.severity = s.severity /\ r.priority = s.priority /\ r.code = s.code =>
                               order[m] < order[n]
  <2>1. stage = "evaluating" /\ ~EngineRaises(job.rules, Input) /\ findings' = Evaluate(job.rules, Input)
    BY <1>1 DEF RunEngine, Begin
  <2>2. PICK rules, fs : /\ rules = job.rules /\ fs = Input
                         /\ rules \in Seq(Rule) /\ Loads(rules) /\ AreFacts(fs)
    BY <1>1, <2>1, InputFits
  <2>3. Fired(rules, fs) = hold
    BY <2>1, <2>2, MatchesHold
  <2>4. PICK order \in [1 .. Cardinality(Fired(rules, fs)) -> Fired(rules, fs)] :
           /\ \A i \in Fired(rules, fs) : \E n \in DOMAIN order : order[n] = i
           /\ \A m, n \in DOMAIN order : m < n => Sooner(rules, order[m], order[n])
           /\ Cardinality(Fired(rules, fs)) \in Nat
           /\ Evaluate(rules, fs) = [n \in DOMAIN order |-> FindingFor(rules[order[n]], fs)]
    <3> HIDE DEF hold
    <3>1. rules \in Seq(Rule) /\ Loads(rules)
      BY <2>2
    <3>2. QED
      BY ONLY <3>1, EvaluateSorts
  <2>5. Len(findings') = Cardinality(hold)
    BY <2>1, <2>2, <2>3, <2>4
  <2>6. \A n \in DOMAIN order : findings'[n].code = rules[order[n]].code
    BY <2>1, <2>2, <2>4 DEF FindingFor
  <2>7. Ranked(rules) /\ Fired(rules, fs) \subseteq DOMAIN rules
    BY <2>2, LoadedAreRanked DEF Fired
  <2>8. ASSUME NEW m \in DOMAIN order, NEW n \in DOMAIN order, m < n
        PROVE  LET r == rules[order[m]]
                   s == rules[order[n]]
               IN /\ Severity[r.severity] >= Severity[s.severity]
                  /\ r.severity = s.severity => r.priority <= s.priority
                  /\ r.severity = s.severity /\ r.priority = s.priority => r.code <= s.code
                  /\ r.severity = s.severity /\ r.priority = s.priority /\ r.code = s.code =>
                        order[m] < order[n]
    <3>1. order[m] \in DOMAIN rules /\ order[n] \in DOMAIN rules /\ Sooner(rules, order[m], order[n])
      BY <2>4, <2>7, <2>8
    <3>2. QED
      BY <2>7, <3>1, SoonerOrders
  <2> HIDE DEF hold
  <2>9. QED
    BY <2>2, <2>3, <2>4, <2>5, <2>6, <2>8
<1>2. Good /\ [Next]_vars => [RunEngine /\ stage' = "enhancing" =>
         LET rules == job.rules
             true == {i \in DOMAIN rules : rules[i].active /\ Holds(rules[i].condition, Input)}
         IN
         \E order \in [1 .. Cardinality(true) -> true] :
            /\ \A i \in true : \E n \in DOMAIN order : order[n] = i
            /\ Len(findings') = Cardinality(true)
            /\ \A n \in DOMAIN order : findings'[n].code = rules[order[n]].code
            /\ \A m, n \in DOMAIN order : m < n =>
                  LET r == rules[order[m]]
                      s == rules[order[n]]
                  IN /\ Severity[r.severity] >= Severity[s.severity]
                     /\ r.severity = s.severity => r.priority <= s.priority
                     /\ r.severity = s.severity /\ r.priority = s.priority => r.code <= s.code
                     /\ r.severity = s.severity /\ r.priority = s.priority /\ r.code = s.code =>
                           order[m] < order[n]]_vars
  BY <1>1
<1>3. QED
  BY <1>2, PipelineIsGood, PTL DEF Spec, FindingsAreTheRules

\* Of all mismatches of types only one is left that is an exception: a rule that
\* looks for something else than a text in an answer that is a text.
THEOREM RaisesOnlyInTexts == Spec => EngineRaisesOnlyInTexts
<1>1. ASSUME Good, RunEngine, stage' = "failed"
      PROVE  \E i \in DOMAIN job.rules : \E leaf \in Leaves(job.rules[i].condition) :
                job.rules[i].active /\ LooksInText(leaf, Input)
  <2>1. stage = "evaluating" /\ EngineRaises(job.rules, Input)
    BY <1>1 DEF RunEngine
  <2>2. PICK rules, fs : /\ rules = job.rules /\ fs = Input
                         /\ rules \in Seq(Rule) /\ Loads(rules) /\ AreFacts(fs)
    BY <1>1, <2>1, InputFits
  <2>3. QED
    BY <2>1, <2>2, RaisesForAReason
<1>2. Good /\ [Next]_vars => [RunEngine /\ stage' = "failed" =>
         \E i \in DOMAIN job.rules : \E leaf \in Leaves(job.rules[i].condition) :
            /\ job.rules[i].active
            /\ leaf.op = "contains" /\ ~Is(leaf.value, "text")
            /\ leaf.key \in DOMAIN Input /\ Is(Input[leaf.key], "text")]_vars
  BY <1>1 DEF LooksInText
<1>3. QED
  BY <1>2, PipelineIsGood, PTL DEF Spec, EngineRaisesOnlyInTexts

-----------------------------------------------------------------------------
(* Averages, and what rounding leaves of them *)

LEMMA Division ==
    ASSUME NEW x \in Nat, NEW y \in Nat \ {0}
    PROVE  x \div y \in Nat /\ y * (x \div y) <= x /\ x < y * (x \div y) + y
OBVIOUS

LEMMA Monotone ==
    ASSUME NEW a \in Nat, NEW b \in Nat, NEW c \in Nat, a <= b
    PROVE  a * c <= b * c
OBVIOUS

\* What a sum a/b of k fractions has to do with k, when p/q is added to it: the
\* shortfall of one of them, whose denominator is at most Q, stays.
LEMMA SumAtMost ==
    ASSUME NEW Q \in Nat, NEW a \in Nat, NEW b \in Nat, NEW p \in Nat, NEW q \in Nat, NEW k \in Nat,
           a <= k * b, p <= q, q <= Q
    PROVE  /\ a * q + p * b <= (k + 1) * (b * q)
           /\ Q * a + b <= Q * (k * b) \/ p + 1 <= q =>
                 Q * (a * q + p * b) + b * q <= Q * ((k + 1) * (b * q))
<1>1. a * q <= (k * b) * q /\ p * b <= q * b
  BY Products, Monotone
<1>2. a * q + p * b <= (k + 1) * (b * q)
  BY <1>1
<1>3. CASE Q * a + b <= Q * (k * b)
  <2>1. (Q * a + b) * q <= (Q * (k * b)) * q
    <3>1. Q * a + b \in Nat /\ Q * (k * b) \in Nat
      BY Products
    <3>2. QED
      BY <1>3, <3>1, Monotone
  <2>2. p * (Q * b) <= q * (Q * b)
    BY Products, Monotone
  <2>3. QED
    BY <1>2, <2>1, <2>2
<1>4. CASE p + 1 <= q
  <2>1. a * (Q * q) <= (k * b) * (Q * q)
    BY Products, Monotone
  <2>2. (p + 1) * (Q * b) <= q * (Q * b)
    BY <1>4, Products, Monotone
  <2>3. q * b <= Q * b
    BY Monotone
  <2>4. QED
    BY <1>2, <2>1, <2>2, <2>3
<1>5. QED
  BY <1>2, <1>3, <1>4

LEMMA SumAtLeast ==
    ASSUME NEW Q \in Nat, NEW a \in Nat, NEW b \in Nat, NEW p \in Nat, NEW q \in Nat, q <= Q,
           b <= Q * a \/ 1 <= p
    PROVE  b * q <= Q * (a * q + p * b)
<1>1. Q * (a * q) \in Nat /\ Q * (p * b) \in Nat /\ Q * (a * q + p * b) = Q * (a * q) + Q * (p * b)
  BY Products
<1>2. CASE b <= Q * a
  <2>1. b * q <= (Q * a) * q
    BY <1>2, Products, Monotone
  <2>2. QED
    BY <1>1, <2>1
<1>3. CASE 1 <= p
  <2>1. 1 * (Q * b) <= p * (Q * b)
    BY <1>3, Products, Monotone
  <2>2. q * b <= Q * b
    BY Monotone
  <2>3. QED
    BY <1>1, <2>1, <2>2
<1>4. QED
  BY <1>2, <1>3

\* A fraction of n whose shortfall is not too small rounds to less than one; one
\* that is not too small itself rounds to more than zero.
RoundsWell(Q, a, b, n) ==
    /\ a = n * b => Rounded(<<a, b * n>>)[1] = 10000
    /\ a = 0 => Rounded(<<a, b * n>>)[1] = 0
    /\ Q * a + b <= Q * (n * b) => Rounded(<<a, b * n>>)[1] < 10000
    /\ b <= Q * a => Rounded(<<a, b * n>>)[1] > 0

LEMMA Rounding ==
    ASSUME NEW Q \in Nat, NEW a \in Nat, NEW b \in Nat \ {0}, NEW n \in Nat \ {0}, Q * n < 20000
    PROVE  RoundsWell(Q, a, b, n)
<1> DEFINE d == b * n
           x == 20000 * a + d
           r == x \div (2 * d)
<1>1. d \in Nat \ {0}
  BY Products
<1>2. Rounded(<<a, b * n>>)[1] = r
  BY DEF Rounded
<1> HIDE DEF d
<1>3. x \in Nat /\ 2 * d \in Nat \ {0}
  BY <1>1
<1>4. r \in Nat /\ (2 * d) * r <= x /\ x < (2 * d) * r + 2 * d
  <2> HIDE DEF x
  <2>1. QED
    BY <1>3, Division
<1> HIDE DEF r
<1>5. ASSUME a = n * b PROVE r = 10000
  <2>1. x = 20001 * d
    BY <1>5 DEF d
  <2>2. r <= 9999 => (2 * d) * r <= (2 * d) * 9999
    BY <1>1, <1>4
  <2>3. r >= 10001 => (2 * d) * r >= (2 * d) * 10001
    BY <1>1, <1>4
  <2>4. QED
    BY <1>1, <1>4, <2>1, <2>2, <2>3
<1>6. ASSUME a = 0 PROVE r = 0
  <2>1. r >= 1 => (2 * d) * r >= 2 * d
    BY <1>1, <1>4
  <2>2. QED
    BY <1>1, <1>4, <1>6, <2>1
<1>7. ASSUME Q * a + b <= Q * (n * b) PROVE r < 10000
  <2>1. Q * d = Q * (n * b) /\ Q * d \in Nat
    BY <1>1, Products DEF d
  <2>2. Q * d < 20000 * b
    <3>1. Q * d = (Q * n) * b /\ Q * n \in Nat
      BY Products DEF d
    <3>2. (Q * n + 1) * b <= 20000 * b
      BY <3>1, Monotone
    <3>3. QED
      BY <3>1, <3>2
  <2>3. Q # 0
    BY <1>7
  <2>4. 20000 * (Q * a) + Q * d < 20000 * (Q * d)
    BY <1>7, <2>1, <2>2, Products
  <2>5. 20000 * a + d < 20000 * d
    <3>1. 20000 * a + d >= 20000 * d => (20000 * a + d) * Q >= (20000 * d) * Q
      BY <1>1, Products, Monotone
    <3>2. QED
      BY <1>1, <2>4, <3>1, Products
  <2>6. r >= 10000 => (2 * d) * r >= (2 * d) * 10000
    BY <1>1, <1>4
  <2>7. QED
    BY <1>1, <1>4, <2>5, <2>6
<1>8. ASSUME b <= Q * a PROVE r > 0
  <2>1. b * n <= (Q * a) * n
    BY <1>8, Products, Monotone
  <2>2. (Q * n) * a <= 20000 * a
    BY Products, Monotone
  <2>3. d <= 20000 * a
    BY <2>1, <2>2 DEF d
  <2>4. r = 0 => x < 2 * d
    BY <1>1, <1>4
  <2>5. QED
    BY <1>1, <1>4, <2>3, <2>4
<1>9. QED
  BY <1>2, <1>5, <1>6, <1>7, <1>8 DEF RoundsWell

\* What the sum of the first k of some fractions says about each of them.
Tells(sum, f, k, Q) ==
    /\ sum[1] <= k * sum[2]
    /\ (\A i \in 1 .. k : f[i][1] = f[i][2]) => sum[1] = k * sum[2]
    /\ (\E i \in 1 .. k : f[i][1] + 1 <= f[i][2]) => Q * sum[1] + sum[2] <= Q * (k * sum[2])
    /\ (\A i \in 1 .. k : f[i][1] = 0) => sum[1] = 0
    /\ (\E i \in 1 .. k : 1 <= f[i][1]) => sum[2] <= Q * sum[1]

LEMMA SumTells ==
    ASSUME NEW Q \in Nat, NEW n \in Nat, NEW f \in [1 .. n -> Fraction], NEW k \in Nat, k + 1 <= n,
           f[k + 1][1] <= f[k + 1][2], f[k + 1][2] <= Q,
           NEW sum \in Fraction, Tells(sum, f, k, Q)
    PROVE  Tells(Sum(sum, f[k + 1]), f, k + 1, Q)
<1> DEFINE a == sum[1]
           b == sum[2]
           p == f[k + 1][1]
           q == f[k + 1][2]
<1>1. a \in Nat /\ b \in Nat /\ p \in Nat /\ q \in Nat /\ p <= q /\ q <= Q
  BY DEF Fraction
<1>2. Sum(sum, f[k + 1])[1] = a * q + p * b /\ Sum(sum, f[k + 1])[2] = b * q
  BY DEF Sum
<1>3. /\ a <= k * b
      /\ (\A i \in 1 .. k : f[i][1] = f[i][2]) => a = k * b
      /\ (\E i \in 1 .. k : f[i][1] + 1 <= f[i][2]) => Q * a + b <= Q * (k * b)
      /\ (\A i \in 1 .. k : f[i][1] = 0) => a = 0
      /\ (\E i \in 1 .. k : 1 <= f[i][1]) => b <= Q * a
  BY DEF Tells
<1>4. \A i \in 1 .. k + 1 : i \in 1 .. k \/ i = k + 1
  OBVIOUS
<1>5. 1 .. k \subseteq 1 .. k + 1 /\ k + 1 \in 1 .. k + 1
  OBVIOUS
<1> DEFINE nothingLess == \A i \in 1 .. k + 1 : f[i][1] = f[i][2]
           less == \E i \in 1 .. k + 1 : f[i][1] + 1 <= f[i][2]
           nothing == \A i \in 1 .. k + 1 : f[i][1] = 0
           something == \E i \in 1 .. k + 1 : 1 <= f[i][1]
<1>6. /\ nothingLess => a = k * b /\ p = q
      /\ less => Q * a + b <= Q * (k * b) \/ p + 1 <= q
      /\ nothing => a = 0 /\ p = 0
      /\ something => b <= Q * a \/ 1 <= p
  <2>1. nothingLess => a = k * b /\ p = q
    BY <1>3, <1>5
  <2>2. less => Q * a + b <= Q * (k * b) \/ p + 1 <= q
    BY <1>3, <1>4
  <2>3. nothing => a = 0 /\ p = 0
    BY <1>3, <1>5
  <2>4. something => b <= Q * a \/ 1 <= p
    BY <1>3, <1>4
  <2>5. QED
    BY <2>1, <2>2, <2>3, <2>4
<1>7. Tells(Sum(sum, f[k + 1]), f, k + 1, Q) <=>
         /\ a * q + p * b <= (k + 1) * (b * q)
         /\ nothingLess => a * q + p * b = (k + 1) * (b * q)
         /\ less => Q * (a * q + p * b) + b * q <= Q * ((k + 1) * (b * q))
         /\ nothing => a * q + p * b = 0
         /\ something => b * q <= Q * (a * q + p * b)
  BY <1>2 DEF Tells
<1> HIDE DEF a, b, p, q, nothingLess, less, nothing, something
<1>8. nothingLess => a * q + p * b = (k + 1) * (b * q)
  <2>1. a = k * b /\ p = q => a * q + p * b = (k + 1) * (b * q)
    BY <1>1
  <2>2. QED
    BY <1>6, <2>1
<1>9. nothing => a * q + p * b = 0
  BY <1>1, <1>6
<1>10. /\ a * q + p * b <= (k + 1) * (b * q)
       /\ less => Q * (a * q + p * b) + b * q <= Q * ((k + 1) * (b * q))
  BY <1>1, <1>3, <1>6, SumAtMost
<1>11. something => b * q <= Q * (a * q + p * b)
  BY <1>1, <1>6, SumAtLeast
<1>12. QED
  BY <1>7, <1>8, <1>9, <1>10, <1>11

\* The fractions that a mean is taken of.
Measures(metric) == [i \in 1 .. Len(results) |-> results[i][metric]]

LEMMA TotalTells ==
    ASSUME results \in Seq(ItemResult), NEW metric \in Metric, NEW Q \in Nat,
           \A i \in DOMAIN results : results[i][metric][1] <= results[i][metric][2] /\ results[i][metric][2] <= Q
    PROVE  Total(metric) \in Fraction /\ Tells(Total(metric), Measures(metric), Len(results), Q)
<1>1. PICK rs \in Seq(ItemResult) : rs = results
  OBVIOUS
<1>2. Len(rs) \in Nat /\ DOMAIN rs = 1 .. Len(rs)
  BY LenProperties
<1> DEFINE f == [i \in 1 .. Len(rs) |-> rs[i][metric]]
<1>3. f \in [1 .. Len(rs) -> Fraction]
  <2>1. ASSUME NEW i \in 1 .. Len(rs) PROVE rs[i][metric] \in Fraction
    <3>1. rs[i] \in ItemResult
      BY ElementOfSeq
    <3>2. QED
      BY <3>1 DEF ItemResult, Metric
  <2>2. QED
    BY <2>1
<1>4. \A i \in 1 .. Len(rs) : f[i][1] <= f[i][2] /\ f[i][2] <= Q
  BY <1>1, <1>2
<1>5. PICK total \in [0 .. Len(rs) -> Fraction] :
         /\ total[0] = Zero
         /\ \A n \in 1 .. Len(rs) : total[n] = Sum(total[n - 1], rs[n][metric])
         /\ Total(metric) = total[Len(rs)]
  BY <1>1, TotalSums
<1>6. \A n \in 1 .. Len(rs) : total[n] = Sum(total[n - 1], f[n])
  BY <1>5
<1> DEFINE X == 0 .. Len(rs)
           rank == [n \in X |-> n]
           Y == {n \in X : Tells(total[n], f, n, Q)}
<1>7. Measures(metric) = f
  BY <1>1 DEF Measures
<1>8. X \subseteq Y
  <2>1. SUFFICES ASSUME ~(X \subseteq Y) PROVE FALSE
    OBVIOUS
  <2>2. rank \in [X -> Nat]
    BY <1>2
  <2>3. PICK n \in X \ Y : \A m \in X : rank[m] < rank[n] => m \in Y
    <3> HIDE DEF X, Y, rank
    <3>1. QED
      BY <2>1, <2>2, LeastMissing
  <2> HIDE DEF f
  <2>4. CASE n = 0
    <3>1. total[n][1] = 0 /\ total[n][2] = 1
      BY <1>5, <2>4 DEF Zero
    <3>2. Tells(total[n], f, n, Q)
      BY <2>4, <3>1 DEF Tells
    <3>3. QED
      BY <2>3, <3>2
  <2>5. CASE n # 0
    <3>1. PICK k \in Nat : k + 1 = n /\ k = n - 1 /\ k + 1 <= Len(rs) /\ k \in X /\ n \in 1 .. Len(rs)
      <4>1. n - 1 \in Nat /\ (n - 1) + 1 = n /\ n <= Len(rs)
        BY <1>2, <2>5
      <4>2. QED
        BY <1>2, <4>1
    <3>2. Tells(total[k], f, k, Q) /\ total[k] \in Fraction
      <4>1. rank[k] = k /\ rank[n] = n /\ k < n
        BY <2>3, <3>1
      <4>2. k \in Y
        BY <2>3, <3>1, <4>1
      <4>3. total[k] \in Fraction
        BY <1>5, <3>1
      <4>4. QED
        BY <4>2, <4>3
    <3>3. f[k + 1][1] <= f[k + 1][2] /\ f[k + 1][2] <= Q
      BY <1>4, <3>1
    <3>4. Tells(Sum(total[k], f[k + 1]), f, k + 1, Q)
      BY <1>2, <1>3, <3>1, <3>2, <3>3, SumTells
    <3>5. total[n] = Sum(total[k], f[k + 1])
      BY <1>6, <3>1
    <3>6. QED
      BY <2>3, <3>1, <3>4, <3>5
  <2>6. QED
    BY <2>4, <2>5
<1>9. Len(rs) \in X
  BY <1>2
<1>10. Tells(total[Len(rs)], f, Len(rs), Q) /\ total[Len(rs)] \in Fraction
  BY <1>5, <1>8, <1>9
<1> HIDE DEF f
<1>11. QED
  BY <1>1, <1>5, <1>7, <1>10

\* No fault rounds away: the average is perfect only if all of it is.
LEMMA MeanTells ==
    ASSUME results \in Seq(ItemResult), results # <<>>, NEW metric \in Metric, NEW Q \in Nat,
           Q * Len(results) < 20000,
           \A i \in DOMAIN results : results[i][metric][1] <= results[i][metric][2] /\ results[i][metric][2] <= Q
    PROVE  /\ Mean(metric)[2] = 10000
           /\ Mean(metric)[1] = 10000 <=> \A i \in DOMAIN results : results[i][metric][1] = results[i][metric][2]
           /\ Mean(metric)[1] = 0 <=> \A i \in DOMAIN results : results[i][metric][1] = 0
<1>1. PICK n \in Nat \ {0} : n = Len(results)
  BY EmptySeq, LenProperties
<1>2. DOMAIN results = 1 .. n
  BY <1>1, LenProperties
<1>3. PICK t \in Fraction : t = Total(metric)
  <2>1. Total(metric) \in Fraction
    BY TotalIsFraction
  <2>2. QED
    BY <2>1
<1>4. PICK a \in Nat, b \in Nat \ {0} : a = t[1] /\ b = t[2]
  BY DEF Fraction
<1>5. PICK f : f = Measures(metric)
  OBVIOUS
<1>6. \A i \in 1 .. n : f[i] = results[i][metric]
  BY <1>1, <1>5 DEF Measures
<1>7. \A i \in 1 .. n : f[i][1] \in Nat /\ f[i][2] \in Nat /\ f[i][1] <= f[i][2]
  <2> SUFFICES ASSUME NEW i \in 1 .. n
               PROVE  f[i][1] \in Nat /\ f[i][2] \in Nat /\ f[i][1] <= f[i][2]
    OBVIOUS
  <2>1. results[i] \in ItemResult
    BY <1>1, ElementOfSeq
  <2>2. results[i][metric] \in Fraction
    BY <2>1 DEF ItemResult, Metric
  <2>3. f[i] = results[i][metric]
    BY <1>6
  <2>4. f[i][1] \in Nat /\ f[i][2] \in Nat
    BY <2>2, <2>3 DEF Fraction
  <2>5. f[i][1] <= f[i][2]
    BY <1>2, <2>3
  <2>6. QED
    BY <2>4, <2>5
<1>8. Tells(t, f, n, Q)
  BY <1>1, <1>3, <1>5, TotalTells
<1>9. Mean(metric) = Rounded(<<a, b * n>>)
  BY <1>1, <1>3, <1>4 DEF Mean
<1>10. /\ a = n * b => Mean(metric)[1] = 10000
       /\ a = 0 => Mean(metric)[1] = 0
       /\ Q * a + b <= Q * (n * b) => Mean(metric)[1] < 10000
       /\ b <= Q * a => Mean(metric)[1] > 0
  <2>1. Q * n < 20000
    BY <1>1
  <2>2. /\ a = n * b => Rounded(<<a, b * n>>)[1] = 10000
        /\ a = 0 => Rounded(<<a, b * n>>)[1] = 0
        /\ Q * a + b <= Q * (n * b) => Rounded(<<a, b * n>>)[1] < 10000
        /\ b <= Q * a => Rounded(<<a, b * n>>)[1] > 0
    <3>1. RoundsWell(Q, a, b, n)
      BY <2>1, Rounding
    <3>2. QED
      BY <3>1 DEF RoundsWell
  <2>3. QED
    BY <1>9, <2>2
<1>11. /\ (\A i \in 1 .. n : f[i][1] = f[i][2]) => a = n * b
       /\ (\E i \in 1 .. n : f[i][1] + 1 <= f[i][2]) => Q * a + b <= Q * (n * b)
       /\ (\A i \in 1 .. n : f[i][1] = 0) => a = 0
       /\ (\E i \in 1 .. n : 1 <= f[i][1]) => b <= Q * a
  BY <1>4, <1>8 DEF Tells
<1>12. /\ (\E i \in 1 .. n : f[i][1] # f[i][2]) => \E i \in 1 .. n : f[i][1] + 1 <= f[i][2]
       /\ (\E i \in 1 .. n : f[i][1] # 0) => \E i \in 1 .. n : 1 <= f[i][1]
  <2>1. ASSUME NEW i \in 1 .. n
        PROVE  (f[i][1] # f[i][2] => f[i][1] + 1 <= f[i][2]) /\ (f[i][1] # 0 => 1 <= f[i][1])
    BY <1>7
  <2>2. QED
    BY <2>1
<1>13. Mean(metric)[1] = 10000 <=> \A i \in 1 .. n : f[i][1] = f[i][2]
  <2>1. Mean(metric)[1] < 10000 => Mean(metric)[1] # 10000
    OBVIOUS
  <2>2. QED
    BY <1>10, <1>11, <1>12, <2>1
<1>14. Mean(metric)[1] = 0 <=> \A i \in 1 .. n : f[i][1] = 0
  BY <1>10, <1>11, <1>12
<1>15. Mean(metric)[2] = 10000
  BY <1>9 DEF Rounded
<1>16. \A i \in 1 .. n : f[i][1] = results[i][metric][1] /\ f[i][2] = results[i][metric][2]
  BY <1>6
<1> DEFINE Whole == \A i \in DOMAIN results : results[i][metric][1] = results[i][metric][2]
           Nothing == \A i \in DOMAIN results : results[i][metric][1] = 0
<1>17. (\A i \in 1 .. n : f[i][1] = f[i][2]) <=> Whole
  BY <1>2, <1>16
<1>18. (\A i \in 1 .. n : f[i][1] = 0) <=> Nothing
  BY <1>2, <1>16
<1> HIDE DEF Whole, Nothing
<1>19. Mean(metric)[1] = 10000 <=> Whole
  BY <1>13, <1>17
<1>20. Mean(metric)[1] = 0 <=> Nothing
  BY <1>14, <1>18
<1>21. QED
  BY <1>15, <1>19, <1>20 DEF Whole, Nothing

-----------------------------------------------------------------------------
(* The averages of an evaluation *)

\* More than any denominator in the scores of an item.
Size(j, i) == Len(j.rules) + Cardinality(j.dataset[i].expected) + 1

\* No average has to be rounded so far that a fault in one item is lost.
SmallDatasets ==
    \A j \in Jobs : j.kind = "evaluation" =>
        \A i \in DOMAIN j.dataset : Size(j, i) * Len(j.dataset) < 20000

\* What the scores of item i are.
Measured(i) ==
    LET accuracy == results[i].accuracy
        rate == results[i].hallucination
    IN /\ accuracy[1] = accuracy[2] <=>
             Codes(Evaluate(job.rules, job.dataset[i].facts)) = job.dataset[i].expected
       /\ accuracy[1] <= accuracy[2] /\ accuracy[2] <= Size(job, i)
       /\ rate[1] <= rate[2] /\ rate[2] <= Size(job, i)

\* The row of an evaluation has the averages of the scores of all items.
RowIsMean ==
    stage = "saved" /\ job.kind = "evaluation" =>
        /\ Len(results) = Len(job.dataset)
        /\ stored.accuracy = Mean("accuracy") /\ stored.hallucination = Mean("hallucination")

Averaged == (\A i \in DOMAIN results : Measured(i)) /\ RowIsMean

LEMMA ScoreIsMeasured ==
    ASSUME Good, stage = "enhancing", job.kind = "evaluation"
    PROVE  /\ Score.accuracy[1] = Score.accuracy[2] <=> Codes(Evaluate(job.rules, Item.facts)) = Item.expected
           /\ Score.accuracy[1] <= Score.accuracy[2]
           /\ Score.accuracy[2] <= Size(job, Len(results) + 1)
           /\ Score.hallucination[1] <= Score.hallucination[2]
           /\ Score.hallucination[2] <= Size(job, Len(results) + 1)
<1> DEFINE accuracy == Accuracy(Codes(findings), Item.expected)
           rate == HallucinationRate(recs)
<1>1. findings = Evaluate(job.rules, Item.facts)
  BY DEF Good, InputKnown
<1>2. PICK j \in Jobs : j = job
  BY DEF Good, KindFits
<1>3. Len(results) + 1 \in DOMAIN j.dataset
  <2>1. Len(results) \in Nat /\ Len(results) < Len(j.dataset)
    BY <1>2, LenProperties DEF Good, InputKnown, TypeOK
  <2>2. QED
    BY <1>2, <2>1, JobFits
<1>4. IsFiniteSet(Item.expected) /\ Item.facts \in FactsOf(j)
  BY <1>2, <1>3, JobFits DEF Item
<1>5. Len(findings) <= Len(j.rules) /\ Len(recs) <= Len(findings)
  <2>1. Loads(j.rules)
    BY <1>2 DEF Good, Loaded
  <2>2. Len(findings) <= Len(j.rules)
    BY <1>1, <1>2, <1>4, <2>1, EvaluateFits
  <2>3. QED
    BY <2>2 DEF Good, IInv, InStep
<1>6. IsFiniteSet(Codes(findings)) /\ Cardinality(Codes(findings)) <= Len(findings)
  BY CodesAreFinite DEF Good, IInv, GatewayTypeOK
<1>7. /\ accuracy \in Fraction
      /\ accuracy[1] >= accuracy[2] <=> Codes(findings) = Item.expected
      /\ accuracy[1] <= accuracy[2]
      /\ accuracy[2] <= Cardinality(Codes(findings)) + Cardinality(Item.expected) + 1
  BY <1>4, <1>6, AccuracyIsExact
<1>8. rate \in Fraction /\ rate[1] <= rate[2] /\ rate[2] <= Len(recs) + 1
  BY HallucinationIsFraction DEF Good, IInv, GatewayTypeOK
<1>9. Score.accuracy = accuracy /\ Score.hallucination = rate
  BY DEF Score
<1> HIDE DEF accuracy, rate
<1>10. /\ Len(findings) \in Nat /\ Len(recs) \in Nat /\ Len(j.rules) \in Nat
       /\ Cardinality(Codes(findings)) \in Nat /\ Cardinality(Item.expected) \in Nat
  <2>1. Len(findings) \in Nat /\ Len(recs) \in Nat
    BY LenProperties DEF Good, IInv, GatewayTypeOK
  <2>2. Len(j.rules) \in Nat
    BY JobFits, LenProperties
  <2>3. QED
    BY <1>4, <1>6, <2>1, <2>2, FS_CardinalityType
<1>11. Size(job, Len(results) + 1) = Len(j.rules) + Cardinality(Item.expected) + 1
  BY <1>2 DEF Size, Item
<1>12. accuracy[1] \in Nat /\ accuracy[2] \in Nat /\ rate[2] \in Nat
  BY <1>7, <1>8 DEF Fraction
<1>13. accuracy[2] <= Size(job, Len(results) + 1) /\ rate[2] <= Size(job, Len(results) + 1)
  <2>1. Cardinality(Codes(findings)) <= Len(j.rules) /\ Len(recs) <= Len(j.rules)
    BY <1>5, <1>6, <1>10
  <2>2. accuracy[2] <= Len(j.rules) + Cardinality(Item.expected) + 1
    BY <1>7, <1>10, <1>12, <2>1
  <2>3. rate[2] <= Len(j.rules) + Cardinality(Item.expected) + 1
    BY <1>8, <1>10, <1>12, <2>1
  <2>4. QED
    BY <1>11, <2>2, <2>3
<1>14. accuracy[1] = accuracy[2] <=> Codes(findings) = Item.expected
  BY <1>7, <1>12
<1>15. QED
  BY <1>1, <1>7, <1>8, <1>9, <1>13, <1>14

\* The scores stay what they are.
LEMMA MeasuresStay == ASSUME UNCHANGED <<job, results>> PROVE \A i : Measured(i)' <=> Measured(i)
BY DEF Measured, Size

LEMMA NextIsAveraged == ASSUME Good, Averaged, [Next]_vars PROVE Averaged'
<1>1. CASE ScoreItem
  <2>1. /\ UNCHANGED job /\ stage = "enhancing" /\ job.kind = "evaluation" /\ stage' # "saved"
        /\ results' = Append(results, Score) /\ results \in Seq(ItemResult)
    BY <1>1 DEF ScoreItem, Request, Good, TypeOK
  <2>2. Score \in ItemResult
    BY <2>1, ScoreIsRight
  <2>3. PICK score, n : score = Score /\ n = Len(results) + 1
    OBVIOUS
  <2>4. /\ Len(results) \in Nat /\ DOMAIN results = 1 .. Len(results) /\ DOMAIN results' = 1 .. n
        /\ \A i \in 1 .. Len(results) : results'[i] = results[i]
        /\ results'[n] = score
    BY <2>1, <2>2, <2>3, AppendProperties, LenProperties
  <2>5. ASSUME NEW i \in 1 .. Len(results) PROVE Measured(i)'
    <3>1. Measured(i)
      BY <2>4 DEF Averaged
    <3>2. QED
      BY <2>1, <2>4, <3>1 DEF Measured, Size
  <2>6. Measured(n)'
    <3>1. Item = job.dataset[n]
      BY <2>3 DEF Item
    <3>2. QED
      BY <2>1, <2>3, <2>4, <3>1, ScoreIsMeasured DEF Measured, Size
  <2>7. \A i \in 1 .. n : i \in 1 .. Len(results) \/ i = n
    BY <2>3, <2>4
  <2>8. \A i \in DOMAIN results' : Measured(i)'
    BY <2>4, <2>5, <2>6, <2>7
  <2>9. RowIsMean'
    BY <2>1 DEF RowIsMean
  <2>10. QED
    BY <2>8, <2>9 DEF Averaged
<1>2. CASE SaveRun
  <2>1. /\ UNCHANGED <<job, results>> /\ stage = "scored"
        /\ stored'.accuracy = Mean("accuracy") /\ stored'.hallucination = Mean("hallucination")
    BY <1>2 DEF SaveRun, Request
  <2>2. \A metric : Mean(metric)' = Mean(metric)
    BY <2>1 DEF Mean, Total
  <2>3. RowIsMean'
    BY <2>1, <2>2 DEF RowIsMean, Good, InputKnown
  <2>4. QED
    BY <2>1, <2>3, MeasuresStay DEF Averaged
<1>3. CASE RunEngine
  <2>1. results' = results /\ stage' # "saved"
    BY <1>3 DEF RunEngine
  <2>2. CASE job.kind = "completion"
    <3>1. results = <<>>
      BY <2>2 DEF Good, TypeOK
    <3>2. QED
      BY <2>1, <3>1 DEF Averaged, RowIsMean
  <2>3. CASE job.kind # "completion"
    <3>1. job' = job
      BY <1>3, <2>3 DEF RunEngine
    <3>2. QED
      BY <2>1, <3>1, MeasuresStay DEF Averaged, RowIsMean
  <2>4. QED
    BY <2>2, <2>3
<1>4. CASE CreateTemplate \/ PublishTemplate \/ CreateFromDraft \/ LoadRules \/ SaveResponses \/ Enhance \/ RollBack
  <2>1. UNCHANGED <<job, results>> /\ stage' # "saved"
    BY <1>4 DEF CreateTemplate, PublishTemplate, CreateFromDraft, LoadRules, SaveResponses, Enhance, RollBack,
                Request
  <2>2. QED
    BY <2>1, MeasuresStay DEF Averaged, RowIsMean
<1>5. CASE Save
  <2>1. UNCHANGED <<job, results>> /\ job.kind = "completion"
    BY <1>5 DEF Save, Request
  <2>2. QED
    BY <2>1, MeasuresStay DEF Averaged, RowIsMean
<1>6. CASE UNCHANGED vars
  <2>1. UNCHANGED <<job, stage, results, stored>>
    BY <1>6 DEF vars
  <2>2. RowIsMean'
    BY <2>1 DEF Averaged, RowIsMean, Mean, Total
  <2>3. QED
    BY <2>1, <2>2, MeasuresStay DEF Averaged
<1>7. QED
  BY <1>1, <1>2, <1>3, <1>4, <1>5, <1>6 DEF Next

LEMMA AveragesKnown == Spec => []Averaged
<1>1. Init => Averaged
  BY DEF Init, Averaged, RowIsMean
<1>2. Good /\ Averaged /\ [Next]_vars => Averaged'
  BY NextIsAveraged
<1>3. QED
  BY <1>1, <1>2, PipelineIsGood, PTL DEF Spec

\* The averages of an evaluation tell the same as its status, as long as its
\* dataset is so small that they are not rounded over a fault: for the three items
\* and the six rules of the repository, with room to spare.
THEOREM AveragesTell == ASSUME SmallDatasets PROVE Spec => []AveragesAgree
<1>1. ASSUME Good, Averaged, job.kind = "evaluation", stage = "saved", results # <<>>
      PROVE  (\A i \in DOMAIN job.dataset : Faultless(i)) <=>
                 stored.accuracy[1] = stored.accuracy[2] /\ stored.hallucination[1] = 0
  <2>1. PICK j \in Jobs : j = job
    BY <1>1 DEF Good, KindFits
  <2>2. PICK n \in Nat \ {0} : n = Len(results) /\ n = Len(j.dataset)
    BY <1>1, <2>1, EmptySeq, LenProperties DEF Good, TypeOK, Averaged, RowIsMean
  <2>3. DOMAIN results = 1 .. n /\ DOMAIN j.dataset = 1 .. n
    BY <1>1, <2>1, <2>2, JobFits, LenProperties DEF Good, TypeOK
  <2>4. PICK Q \in Nat : Q * n < 20000 /\ \A i \in 1 .. n : Size(j, i) <= Q
    <3>1. PICK Q : Q = 19999 \div n
      OBVIOUS
    <3>2. Q \in Nat /\ n * Q <= 19999 /\ 19999 < n * Q + n
      BY <3>1, Division
    <3>3. ASSUME NEW i \in 1 .. n PROVE Size(j, i) <= Q
      <4>1. Size(j, i) * n < 20000
        BY <1>1, <2>1, <2>2, <2>3 DEF SmallDatasets
      <4>2. Size(j, i) \in Nat
        <5>1. Len(j.rules) \in Nat
          BY JobFits, LenProperties
        <5>2. IsFiniteSet(j.dataset[i].expected)
          BY <1>1, <2>1, <2>3, JobFits
        <5>3. QED
          BY <5>1, <5>2, FS_CardinalityType DEF Size
      <4>3. Q + 1 <= Size(j, i) => (Q + 1) * n <= Size(j, i) * n
        BY <3>2, <4>2, Monotone
      <4>4. QED
        BY <3>2, <4>1, <4>2, <4>3
    <3>4. QED
      BY <3>2, <3>3
  <2>5. \A i \in 1 .. n : Measured(i)
    BY <1>1, <2>3 DEF Averaged
  <2>6. ASSUME NEW i \in 1 .. n
        PROVE  /\ results[i].accuracy[1] <= results[i].accuracy[2] /\ results[i].accuracy[2] <= Q
               /\ results[i].hallucination[1] <= results[i].hallucination[2]
               /\ results[i].hallucination[2] <= Q
    <3>1. results[i].accuracy \in Fraction /\ results[i].hallucination \in Fraction
      <4>1. results \in Seq(ItemResult) /\ i \in 1 .. Len(results)
        BY <1>1, <2>2 DEF Good, TypeOK
      <4>2. results[i] \in ItemResult
        BY <4>1, ElementOfSeq
      <4>3. QED
        BY <4>2 DEF ItemResult
    <3>2. results[i].accuracy[2] \in Nat /\ results[i].hallucination[2] \in Nat
      BY <3>1 DEF Fraction
    <3>3. Size(j, i) \in Nat
      <4>1. Len(j.rules) \in Nat
        BY JobFits, LenProperties
      <4>2. IsFiniteSet(j.dataset[i].expected)
        BY <1>1, <2>1, <2>3, JobFits
      <4>3. QED
        BY <4>1, <4>2, FS_CardinalityType DEF Size
    <3>4. QED
      BY <2>1, <2>4, <2>5, <3>2, <3>3 DEF Measured
  <2>7. /\ stored.accuracy[2] = 10000
        /\ stored.accuracy[1] = 10000 <=>
              \A i \in 1 .. n : results[i].accuracy[1] = results[i].accuracy[2]
    <3>1. PICK metric \in Metric : metric = "accuracy"
      BY DEF Metric
    <3>2. stored.accuracy = Mean(metric)
      BY <1>1, <3>1 DEF Averaged, RowIsMean
    <3>3. /\ results \in Seq(ItemResult) /\ Q * Len(results) < 20000
          /\ \A i \in DOMAIN results :
                results[i][metric][1] <= results[i][metric][2] /\ results[i][metric][2] <= Q
      BY <1>1, <2>2, <2>3, <2>4, <2>6, <3>1 DEF Good, TypeOK
    <3>4. /\ Mean(metric)[2] = 10000
          /\ Mean(metric)[1] = 10000 <=>
                \A i \in DOMAIN results : results[i][metric][1] = results[i][metric][2]
          /\ Mean(metric)[1] = 0 <=> \A i \in DOMAIN results : results[i][metric][1] = 0
      BY <1>1, <3>3, MeanTells
    <3>5. QED
      BY <2>3, <3>1, <3>2, <3>4
  <2>8. stored.hallucination[1] = 0 <=> \A i \in 1 .. n : results[i].hallucination[1] = 0
    <3>1. PICK metric \in Metric : metric = "hallucination"
      BY DEF Metric
    <3>2. stored.hallucination = Mean(metric)
      BY <1>1, <3>1 DEF Averaged, RowIsMean
    <3>3. /\ results \in Seq(ItemResult) /\ Q * Len(results) < 20000
          /\ \A i \in DOMAIN results :
                results[i][metric][1] <= results[i][metric][2] /\ results[i][metric][2] <= Q
      BY <1>1, <2>2, <2>3, <2>4, <2>6, <3>1 DEF Good, TypeOK
    <3>4. /\ Mean(metric)[2] = 10000
          /\ Mean(metric)[1] = 10000 <=>
                \A i \in DOMAIN results : results[i][metric][1] = results[i][metric][2]
          /\ Mean(metric)[1] = 0 <=> \A i \in DOMAIN results : results[i][metric][1] = 0
      BY <1>1, <3>3, MeanTells
    <3>5. QED
      BY <2>3, <3>1, <3>2, <3>4
  <2>9. \A i \in 1 .. n : Faultless(i) <=>
           results[i].accuracy[1] = results[i].accuracy[2] /\ results[i].hallucination[1] = 0
    BY <2>5 DEF Faultless, Measured
  <2>10. QED
    BY <2>1, <2>3, <2>7, <2>8, <2>9
<1>2. Good /\ Averaged => AveragesAgree
  BY <1>1 DEF AveragesAgree
<1>3. QED
  BY <1>2, PipelineIsGood, AveragesKnown, PTL
=============================================================================
