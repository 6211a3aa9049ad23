--------------------------- MODULE Scoring_proofs ----------------------------
(***************************************************************************)
(* Proofs about Scoring as a part of Services, for every profile of the    *)
(* catalog and any findings: what the rounding costs, what full marks need, *)
(* that no high-risk finding is offset, and that learning more never hurts. *)
(***************************************************************************)
EXTENDS Services, FiniteSetTheorems, WellFoundedInduction, TLAPS

-----------------------------------------------------------------------------
(* Sums over finite sets.                                                  *)

\* A set of natural numbers that is not empty has a least element.
LEMMA Least ==
  ASSUME NEW S, S \subseteq Nat, S # {}
  PROVE  \E m \in S : \A n \in S : m <= n
<1>1. IsWellFoundedOn({ss \in Nat \X Nat : ss[1] < ss[2]}, Nat)
  BY NatLessThanWellFounded DEF OpToRel
<1>. DEFINE R == {ss \in Nat \X Nat : ss[1] < ss[2]}
<1>2. \A m, n \in Nat : m < n => <<m, n>> \in R
  OBVIOUS
<1>. HIDE DEF R
<1>3. PICK m \in S : \A n \in S : ~(<<n, m>> \in R)
  BY <1>1, WFMin DEF R
<1>4. m \in Nat /\ \A n \in S : n \in Nat /\ ~(n < m)
  BY <1>2, <1>3
<1>. QED  BY <1>4

\* Sets of subsets of a finite set have a minimal element, so that a statement about
\* subsets holds of all of them if it is inherited from smaller ones.
LEMMA Smallest ==
  ASSUME NEW D, IsFiniteSet(D), NEW B, B \subseteq SUBSET D, B # {}
  PROVE  \E s \in B : \A t \in SUBSET s : t # s => t \notin B
<1>1. \A s \in SUBSET D : IsFiniteSet(s) /\ Cardinality(s) \in Nat
  BY FS_Subset, FS_CardinalityType
<1>. DEFINE S == {Cardinality(s) : s \in B}
<1>2. PICK m \in S : \A n \in S : m <= n
  <2>1. S \subseteq Nat /\ S # {}
    BY <1>1
  <2>. HIDE DEF S
  <2>. QED  BY <2>1, Least
<1>3. PICK s \in B : m = Cardinality(s)
  OBVIOUS
<1>4. ASSUME NEW t \in SUBSET s, t # s, t \in B
      PROVE  FALSE
  <2>1. Cardinality(t) < Cardinality(s)
    BY <1>1, <1>4, FS_Subset
  <2>2. Cardinality(s) <= Cardinality(t)
    BY <1>2, <1>3, <1>4
  <2>. QED  BY <1>1, <2>1, <2>2
<1>. QED  BY <1>4

\* The element that a fold takes from a set.
Pick(s) == CHOOSE x \in s : TRUE

\* f folds, from base, the elements of each of some sets.
Folds(f, op, base, sets) ==
  f = [s \in sets |-> IF s = {} THEN base ELSE op[<<Pick(s), f[s \ {Pick(s)}]>>]]

\* There is such a function for the subsets of a finite set.
LEMMA FoldsExist ==
  ASSUME NEW D, IsFiniteSet(D), NEW base \in Int, NEW op \in [D \X Int -> Int]
  PROVE  \E f \in [SUBSET D -> Int] : Folds(f, op, base, SUBSET D)
<1>. DEFINE Small(n) == {s \in SUBSET D : Cardinality(s) <= n}
            Step(f, s) == IF s = {} THEN base ELSE op[<<Pick(s), f[s \ {Pick(s)}]>>]
            Bad == {n \in Nat : ~ \E f \in [Small(n) -> Int] : Folds(f, op, base, Small(n))}
<1>f. \A s \in SUBSET D : IsFiniteSet(s) /\ Cardinality(s) \in Nat
  BY FS_Subset, FS_CardinalityType
<1>p. \A s \in SUBSET D : s # {} =>
        /\ Pick(s) \in s
        /\ s \ {Pick(s)} \in SUBSET D
        /\ Cardinality(s \ {Pick(s)}) = Cardinality(s) - 1
  BY <1>f, FS_RemoveElement DEF Pick
<1>1. 0 \notin Bad
  <2>. DEFINE f == [s \in Small(0) |-> base]
  <2>1. \A s \in Small(0) : s = {}
    BY <1>f, FS_EmptySet
  <2>2. Folds(f, op, base, Small(0))
    BY <2>1 DEF Folds
  <2>. QED  BY <2>2
<1>2. ASSUME NEW n \in Nat, n \notin Bad
      PROVE  n + 1 \notin Bad
  <2>1. PICK f \in [Small(n) -> Int] : Folds(f, op, base, Small(n))
    BY <1>2
  <2>. DEFINE h == [s \in Small(n + 1) |-> Step(f, s)]
  <2>2. \A s \in Small(n) : f[s] = Step(f, s) /\ s \in Small(n + 1)
    <3>1. \A s \in Small(n) : s \in Small(n + 1)
      BY <1>f
    <3>. HIDE DEF Small
    <3>2. \A s \in Small(n) : f[s] = Step(f, s)
      BY <2>1 DEF Folds
    <3>. QED  BY <3>1, <3>2
  <2>3. \A s \in Small(n + 1) : s # {} => s \ {Pick(s)} \in Small(n) /\ Pick(s) \in D
    BY <1>f, <1>p
  <2>. HIDE DEF Small
  <2>4. \A s \in Small(n) : h[s] = f[s]
    BY <2>2
  <2>5. ASSUME NEW s \in Small(n + 1)
        PROVE  h[s] = Step(h, s) /\ h[s] \in Int
    BY <2>3, <2>4
  <2>6. h = [s \in Small(n + 1) |-> h[s]]
    OBVIOUS
  <2>. HIDE DEF h, Step
  <2>7. h = [s \in Small(n + 1) |-> Step(h, s)] /\ h \in [Small(n + 1) -> Int]
    BY <2>5, <2>6
  <2>8. Folds(h, op, base, Small(n + 1))
    BY <2>7 DEF Folds, Step
  <2>. QED  BY <2>7, <2>8
<1>3. Bad = {}
  <2>. SUFFICES ASSUME Bad # {} PROVE FALSE
    OBVIOUS
  <2>1. PICK m \in Bad : \A n \in Bad : m <= n
    <3>1. Bad \subseteq Nat
      OBVIOUS
    <3>. HIDE DEF Bad
    <3>. QED  BY <3>1, Least
  <2>2. m \in Nat
    OBVIOUS
  <2>. HIDE DEF Bad
  <2>3. m - 1 \in Nat /\ m - 1 \notin Bad
    BY <1>1, <2>1, <2>2
  <2>4. (m - 1) + 1 \notin Bad
    BY <1>2, <2>3
  <2>. QED  BY <2>1, <2>2, <2>4
<1>4. Small(Cardinality(D)) = SUBSET D
  BY <1>f, FS_Subset
<1>5. Cardinality(D) \in Nat
  BY <1>f
<1>6. \A n \in Nat : \E f \in [Small(n) -> Int] : Folds(f, op, base, Small(n))
  BY <1>3
<1>. HIDE DEF Small
<1>. QED  BY <1>4, <1>5, <1>6

\* What can be added up.
Summable(g) == IsFiniteSet(DOMAIN g) /\ \A x \in DOMAIN g : g[x] \in Int

\* f gives the sum of g over each of some sets.
Sums(f, g, sets) ==
  f = [s \in sets |-> IF s = {} THEN 0 ELSE g[Pick(s)] + f[s \ {Pick(s)}]]

\* SumFunction is the value of such a function.
LEMMA SumIsComputed ==
  ASSUME NEW g, Summable(g)
  PROVE  \E f : Sums(f, g, SUBSET DOMAIN g) /\ SumFunction(g) = f[DOMAIN g]
<1>. DEFINE f == CHOOSE h : h = [s \in SUBSET DOMAIN g |->
       IF s = {} THEN 0 ELSE g[CHOOSE x \in s : TRUE] + h[s \ {CHOOSE x \in s : TRUE}]]
            D == DOMAIN g
            op == [t \in D \X Int |-> g[t[1]] + t[2]]
<1>1. SumFunction(g) = f[DOMAIN g]
  BY DEF SumFunction, SumFunctionOnSet, FoldFunctionOnSet, MapThenFoldSet
<1>2. \E h : Sums(h, g, SUBSET D)
  <2>1. IsFiniteSet(D) /\ op \in [D \X Int -> Int]
    BY DEF Summable
  <2>2. \A x \in D, n \in Int : op[<<x, n>>] = g[x] + n
    OBVIOUS
  <2>. HIDE DEF op
  <2>3. PICK h \in [SUBSET D -> Int] : Folds(h, op, 0, SUBSET D)
    <3>1. 0 \in Int
      OBVIOUS
    <3>. HIDE DEF D
    <3>. QED  BY <2>1, <3>1, FoldsExist
  <2>4. ASSUME NEW s \in SUBSET D, s # {}
        PROVE  op[<<Pick(s), h[s \ {Pick(s)}]>>] = g[Pick(s)] + h[s \ {Pick(s)}]
    <3>1. Pick(s) \in D /\ s \ {Pick(s)} \in SUBSET D
      BY <2>4 DEF Pick
    <3>. HIDE DEF D
    <3>. QED  BY <2>2, <3>1
  <2>5. h = [s \in SUBSET D |-> IF s = {} THEN 0 ELSE g[Pick(s)] + h[s \ {Pick(s)}]]
    BY <2>3, <2>4 DEF Folds
  <2>. QED  BY <2>5 DEF Sums
<1>3. Sums(f, g, SUBSET DOMAIN g)
  BY <1>2 DEF Sums, Pick
<1>. QED  BY <1>1, <1>3

\* f adds up the values of g: 0 for the empty set, and any element can be taken out.
Adds(f, g) ==
  /\ f[{}] = 0
  /\ \A s \in SUBSET DOMAIN g : /\ f[s] \in Int
                                /\ \A x \in s : f[s] = g[x] + f[s \ {x}]

\* In which order the elements are taken does not matter.
LEMMA SumsAdd ==
  ASSUME NEW g, Summable(g), NEW f, Sums(f, g, SUBSET DOMAIN g)
  PROVE  Adds(f, g)
<1>. USE DEF Summable
<1>. DEFINE D == DOMAIN g
            Good(s) == f[s] \in Int /\ \A x \in s : f[s] = g[x] + f[s \ {x}]
            Bad == {s \in SUBSET D : ~Good(s)}
<1>1. \A s \in SUBSET D : f[s] = IF s = {} THEN 0 ELSE g[Pick(s)] + f[s \ {Pick(s)}]
  BY DEF Sums
<1>2. f[{}] = 0
  BY <1>1
<1>3. Bad = {}
  <2>. SUFFICES ASSUME Bad # {} PROVE FALSE
    OBVIOUS
  <2>1. PICK s \in Bad : \A t \in SUBSET s : t # s => t \notin Bad
    <3>1. Bad \subseteq SUBSET D
      OBVIOUS
    <3>. HIDE DEF Bad
    <3>. QED  BY <3>1, Smallest
  <2>2. s \in SUBSET D /\ ~Good(s) /\ \A t \in SUBSET s : t # s => Good(t)
    BY <2>1
  <2>. DEFINE y == Pick(s)
  <2>3. CASE s = {}
    BY <1>2, <2>2, <2>3
  <2>4. CASE s # {}
    <3>1. y \in s /\ f[s] = g[y] + f[s \ {y}]
      BY <1>1, <2>2, <2>4 DEF Pick
    <3>. HIDE DEF y
    <3>2. f[s] \in Int
      BY <2>2, <3>1
    <3>3. ASSUME NEW x \in s, x # y
          PROVE  f[s] = g[x] + f[s \ {x}]
      <4>1. f[s \ {y}] = g[x] + f[(s \ {y}) \ {x}]
        BY <2>2, <3>1, <3>3
      <4>2. f[s \ {x}] = g[y] + f[(s \ {x}) \ {y}]
        BY <2>2, <3>1, <3>3
      <4>3. (s \ {y}) \ {x} = (s \ {x}) \ {y}
        OBVIOUS
      <4>4. g[x] \in Int /\ g[y] \in Int /\ f[s \ {x}] \in Int /\ f[s \ {y}] \in Int
        BY <2>2, <3>1
      <4>. DEFINE rest == f[(s \ {x}) \ {y}]
      <4>5. f[s \ {y}] = g[x] + rest /\ f[s \ {x}] = g[y] + rest
        BY <4>1, <4>2, <4>3
      <4>6. rest \in Int
        BY <2>2, <3>1
      <4>. HIDE DEF rest
      <4>. QED  BY <3>1, <4>4, <4>5, <4>6
    <3>4. Good(s)
      BY <3>1, <3>2, <3>3
    <3>. QED  BY <2>2, <3>4
  <2>. QED  BY <2>3, <2>4
<1>. QED  BY <1>2, <1>3 DEF Adds

\* SumFunction adds up, in whichever order.
LEMMA SumAdds ==
  ASSUME NEW g, Summable(g)
  PROVE  \E f : Adds(f, g) /\ SumFunction(g) = f[DOMAIN g]
<1>1. PICK f : Sums(f, g, SUBSET DOMAIN g) /\ SumFunction(g) = f[DOMAIN g]
  BY SumIsComputed
<1>2. Adds(f, g)
  BY <1>1, SumsAdd
<1>. QED  BY <1>1, <1>2

\* Pointwise bounds add up.
LEMMA SumBelow ==
  ASSUME NEW g, Summable(g), NEW h, Summable(h), DOMAIN h = DOMAIN g,
         \A x \in DOMAIN g : g[x] <= h[x]
  PROVE  SumFunction(g) <= SumFunction(h)
<1>. DEFINE D == DOMAIN g
<1>1. PICK f : Adds(f, g) /\ SumFunction(g) = f[D]
  BY SumAdds
<1>2. PICK k : Adds(k, h) /\ SumFunction(h) = k[D]
  BY SumAdds
<1>3. /\ f[{}] = 0
      /\ \A s \in SUBSET D : f[s] \in Int /\ \A y \in s : f[s] = g[y] + f[s \ {y}]
  BY <1>1 DEF Adds
<1>4. /\ k[{}] = 0
      /\ \A s \in SUBSET D : k[s] \in Int /\ \A y \in s : k[s] = h[y] + k[s \ {y}]
  BY <1>2 DEF Adds
<1>. DEFINE Bad == {s \in SUBSET D : ~(f[s] <= k[s])}
<1>5. Bad = {}
  <2>. SUFFICES ASSUME Bad # {} PROVE FALSE
    OBVIOUS
  <2>1. PICK s \in Bad : \A t \in SUBSET s : t # s => t \notin Bad
    <3>1. Bad \subseteq SUBSET D
      OBVIOUS
    <3>. HIDE DEF Bad
    <3>. QED  BY <3>1, Smallest DEF Summable
  <2>2. s \in SUBSET D /\ ~(f[s] <= k[s])
    BY <2>1
  <2>3. s # {}
    <3>1. f[{}] <= k[{}]
      BY <1>3, <1>4
    <3>. HIDE DEF Bad
    <3>. QED  BY <2>2, <3>1
  <2>4. PICK y \in s : TRUE
    BY <2>3
  <2>5. s \ {y} \in SUBSET D /\ s \ {y} # s /\ y \in D
    BY <2>2, <2>4
  <2>6. f[s \ {y}] <= k[s \ {y}]
    BY <2>1, <2>5
  <2>7. k[s] = h[y] + k[s \ {y}] /\ f[s] = g[y] + f[s \ {y}] /\ g[y] <= h[y]
    BY <1>3, <1>4, <2>2, <2>4, <2>5
  <2>8. f[s \ {y}] \in Int /\ k[s \ {y}] \in Int /\ g[y] \in Int /\ h[y] \in Int
    BY <1>3, <1>4, <2>5 DEF Summable
  <2>. QED  BY <2>2, <2>6, <2>7, <2>8
<1>6. f[D] <= k[D]
  BY <1>5
<1>. QED  BY <1>1, <1>2, <1>6

\* SumFunction is an integer, 0 of nothing, and the value at any place and the sum
\* of the rest.
LEMMA SumType ==
  ASSUME NEW g, Summable(g)
  PROVE  SumFunction(g) \in Int
BY SumAdds DEF Adds

\* The sum of nothing.
LEMMA SumEmpty ==
  ASSUME NEW g, DOMAIN g = {}
  PROVE  SumFunction(g) = 0
<1>1. Summable(g)
  BY FS_EmptySet DEF Summable
<1>. QED  BY <1>1, SumAdds DEF Adds

\* A function without one of its places.
Less(g, x) == [y \in DOMAIN g \ {x} |-> g[y]]

\* One value, and the sum of the others.
LEMMA SumSplit ==
  ASSUME NEW g, Summable(g), NEW x \in DOMAIN g
  PROVE  /\ Summable(Less(g, x))
         /\ SumFunction(g) = g[x] + SumFunction(Less(g, x))
<1>. DEFINE h == Less(g, x)
            E == DOMAIN g \ {x}
<1>1. /\ DOMAIN h = E /\ E \subseteq DOMAIN g /\ Summable(h)
      /\ \A y \in E : h[y] = g[y]
  BY FS_Subset DEF Less, Summable
<1>. HIDE DEF h
<1>2. PICK f : Adds(f, g) /\ SumFunction(g) = f[DOMAIN g]
  BY SumAdds
<1>3. PICK k : Adds(k, h) /\ SumFunction(h) = k[E]
  BY <1>1, SumAdds
<1>4. f[{}] = 0 /\ \A s \in SUBSET DOMAIN g : \A y \in s : f[s] = g[y] + f[s \ {y}]
  BY <1>2 DEF Adds
<1>5. k[{}] = 0 /\ \A s \in SUBSET E : \A y \in s : k[s] = h[y] + k[s \ {y}]
  BY <1>1, <1>3 DEF Adds
<1>. DEFINE Bad == {s \in SUBSET E : k[s] # f[s]}
<1>6. Bad = {}
  <2>. SUFFICES ASSUME Bad # {} PROVE FALSE
    OBVIOUS
  <2>1. PICK s \in Bad : \A t \in SUBSET s : t # s => t \notin Bad
    <3>1. Bad \subseteq SUBSET E
      OBVIOUS
    <3>. HIDE DEF Bad, E
    <3>. QED  BY <1>1, <3>1, Smallest DEF Summable
  <2>2. s \in SUBSET E /\ k[s] # f[s]
    BY <2>1
  <2>3. s # {}
    BY <1>4, <1>5, <2>2
  <2>4. PICK y \in s : TRUE
    BY <2>3
  <2>5. s \ {y} \in SUBSET E /\ s \ {y} # s
    BY <2>2, <2>4
  <2>6. k[s \ {y}] = f[s \ {y}]
    BY <2>1, <2>5
  <2>7. k[s] = h[y] + k[s \ {y}] /\ f[s] = g[y] + f[s \ {y}] /\ h[y] = g[y]
    BY <1>1, <1>4, <1>5, <2>2, <2>4, <2>5
  <2>. QED  BY <2>2, <2>6, <2>7
<1>7. k[E] = f[E] /\ f[DOMAIN g] = g[x] + f[E]
  BY <1>4, <1>6
<1>. QED  BY <1>1, <1>2, <1>3, <1>7 DEF h

-----------------------------------------------------------------------------
(* Quotients.                                                              *)

\* The quotient and what it leaves.
LEMMA DivBounds ==
  ASSUME NEW a \in Nat, NEW b \in Nat \ {0}
  PROVE  /\ a \div b \in Nat
         /\ b * (a \div b) <= a
         /\ a < b * (a \div b) + b
OBVIOUS

\* Products are monotone.
LEMMA ProductKeeps ==
  ASSUME NEW a \in Nat, NEW b \in Nat, NEW n \in Nat, a <= b
  PROVE  n * a <= n * b /\ n * a \in Nat
OBVIOUS

\* A quotient is the greatest number that fits as often.
LEMMA DivUnique ==
  ASSUME NEW a \in Nat, NEW b \in Nat \ {0}, NEW n \in Nat
  PROVE  n <= a \div b <=> b * n <= a
<1>. DEFINE q == a \div b
<1>1. q \in Nat /\ b * q <= a /\ a < b * q + b
  BY DivBounds
<1>. HIDE DEF q
<1>2. CASE n <= q
  BY <1>1, <1>2, ProductKeeps
<1>3. CASE q + 1 <= n
  <2>1. b * (q + 1) <= b * n
    BY <1>1, <1>3, ProductKeeps
  <2>2. b * (q + 1) = b * q + b
    BY <1>1
  <2>3. b * q \in Nat /\ b * n \in Nat
    BY <1>1
  <2>. QED  BY <1>1, <1>3, <2>1, <2>2, <2>3
<1>. QED  BY <1>1, <1>2, <1>3 DEF q

-----------------------------------------------------------------------------
(* The catalog.                                                            *)

\* The profiles, the rules, the verdicts, and the rows of the catalog.
ProfileNames == {"generic", "agent_framework", "mcp_server", "cli_api_tool"}
Rules == {"positive_capability_v1", "bounded_risk_v1"}
Verdicts == {"fail", "unknown", "partial", "pass", "not_applicable"}
IsCheck(c) ==
  /\ c.dimension \in Scores!Dimensions /\ c.weight \in Nat \ {0}
  /\ c.highRisk \in BOOLEAN /\ c.rule \in Rules

\* The checks of a profile besides the plain ones.
Special(p) ==
  CASE p = "generic" ->
         {Scores!Capability("automation_readiness", "contract", 4),
          Scores!Risk("boundary", 6)}
    [] p = "agent_framework" ->
         {Scores!Capability("automation_readiness", "structured_io", 5),
          Scores!Capability("automation_readiness", "state_recovery", 6),
          Scores!Risk("isolation", 8), Scores!Risk("human_gate", 8)}
    [] p = "mcp_server" ->
         {Scores!Capability("automation_readiness", "invocation", 5),
          Scores!Capability("automation_readiness", "error_handling", 5),
          Scores!Risk("filesystem_shell", 8), Scores!Risk("network_credential", 8)}
    [] p = "cli_api_tool" ->
         {Scores!Capability("automation_readiness", "structured_output", 5),
          Scores!Capability("automation_readiness", "headless_failure", 5),
          Scores!Risk("credential_scope", 8), Scores!Risk("destructive_action", 8),
          Scores!Risk("paid_side_effect", 8)}

\* The checks that every profile has, and the dimensions that are theirs alone.
PlainChecks == {"capability", "interface", "export", "traceability", "ecosystem"}
PlainDimensions == {"capability_clarity", "interface_openness", "data_portability",
                    "evidence_quality", "ecosystem_fit"}

\* A profile has the plain checks, one of them with a weight of its own, and others.
LEMMA CatalogSplit ==
  ASSUME NEW p \in ProfileNames
  PROVE  \E w \in {4, 5, 6} : Scores!Catalog[p] = Scores!Plain(w) \cup Special(p)
<1>. USE DEF Scores!Catalog, Special
<1>. HIDE DEF Scores!Plain, Scores!Capability, Scores!Risk
<1>1. CASE p = "generic"
  BY <1>1
<1>2. CASE p = "agent_framework"
  BY <1>2
<1>3. CASE p = "mcp_server"
  BY <1>3
<1>4. CASE p = "cli_api_tool"
  BY <1>4
<1>. QED BY <1>1, <1>2, <1>3, <1>4 DEF ProfileNames

\* Sets of at most five elements are finite.
LEMMA FiveAreFinite ==
  ASSUME NEW a, NEW b, NEW c, NEW d, NEW e
  PROVE  IsFiniteSet({a, b, c, d, e})
<1>1. IsFiniteSet({e}) /\ IsFiniteSet({e} \cup {d}) /\ IsFiniteSet(({e} \cup {d}) \cup {c})
    BY FS_Singleton, FS_AddElement
<1>2. IsFiniteSet(((({e} \cup {d}) \cup {c}) \cup {b}) \cup {a})
    BY <1>1, FS_AddElement
<1>3. {a, b, c, d, e} = (((({e} \cup {d}) \cup {c}) \cup {b}) \cup {a})
    OBVIOUS
<1>. QED  BY <1>2, <1>3

\* The plain checks.
LEMMA PlainRows ==
  ASSUME NEW w \in {4, 5, 6}
  PROVE  /\ \A c \in Scores!Plain(w) : IsCheck(c)
         /\ \A c \in Scores!Plain(w) :
              /\ c.check \in PlainChecks
              /\ c.dimension \in PlainDimensions
              /\ c.rule = "positive_capability_v1"
              /\ c.highRisk = FALSE
         /\ \A c, e \in Scores!Plain(w) :
              c.check = e.check \/ c.dimension = e.dimension => c = e
         /\ \A d \in PlainDimensions : \E c \in Scores!Plain(w) : c.dimension = d
         /\ IsFiniteSet(Scores!Plain(w))
<1>. DEFINE c1 == Scores!Capability("capability_clarity", "capability", 4)
            c2 == Scores!Capability("interface_openness", "interface", w)
            c3 == Scores!Capability("data_portability", "export", 4)
            c4 == Scores!Capability("evidence_quality", "traceability", 4)
            c5 == Scores!Capability("ecosystem_fit", "ecosystem", 4)
<1>1. Scores!Plain(w) = {c1, c2, c3, c4, c5}
  BY DEF Scores!Plain
<1>2. /\ \A c \in {c1, c2, c3, c4, c5} : IsCheck(c) /\ c.rule = "positive_capability_v1" /\ c.highRisk = FALSE
      /\ c1.check = "capability" /\ c1.dimension = "capability_clarity"
      /\ c2.check = "interface" /\ c2.dimension = "interface_openness"
      /\ c3.check = "export" /\ c3.dimension = "data_portability"
      /\ c4.check = "traceability" /\ c4.dimension = "evidence_quality"
      /\ c5.check = "ecosystem" /\ c5.dimension = "ecosystem_fit"
  BY DEF Scores!Capability, IsCheck, Rules, Scores!Dimensions
<1>. HIDE DEF c1, c2, c3, c4, c5
<1>3. IsFiniteSet({c1, c2, c3, c4, c5})
  BY FiveAreFinite
<1>. QED  BY <1>1, <1>2, <1>3 DEF PlainChecks, PlainDimensions

\* The checks besides them: automation and risks.
LEMMA SpecialRows ==
  ASSUME NEW p \in ProfileNames
  PROVE  /\ \A c \in Special(p) : IsCheck(c)
         /\ \A c \in Special(p) :
              /\ c.check \notin PlainChecks
              /\ c.dimension \in {"automation_readiness", "permission_risk"}
              /\ c.highRisk => c.dimension = "permission_risk"
         /\ \A c, e \in Special(p) : c.check = e.check => c = e
         /\ \A d \in {"automation_readiness", "permission_risk"} :
              \E c \in Special(p) : c.dimension = d
         /\ IsFiniteSet(Special(p))
<1>. DEFINE Automation(n, w) == Scores!Capability("automation_readiness", n, w)
<1>1. CASE p = "generic"
  <2>. DEFINE a == Automation("contract", 4)
              b == Scores!Risk("boundary", 6)
  <2>1. Special(p) = {a, b, b, b, b}
    BY <1>1 DEF Special
  <2>2. /\ IsCheck(a) /\ a.check = "contract" /\ a.dimension = "automation_readiness"
        /\ a.highRisk = FALSE
        /\ IsCheck(b) /\ b.check = "boundary" /\ b.dimension = "permission_risk"
    BY DEF Scores!Capability, Scores!Risk, IsCheck, Rules, Scores!Dimensions
  <2>. HIDE DEF a, b
  <2>3. IsFiniteSet({a, b, b, b, b})
    BY FiveAreFinite
  <2>. QED  BY <2>1, <2>2, <2>3 DEF PlainChecks
<1>2. CASE p = "agent_framework"
  <2>. DEFINE a == Automation("structured_io", 5)
              b == Automation("state_recovery", 6)
              c == Scores!Risk("isolation", 8)
              d == Scores!Risk("human_gate", 8)
  <2>1. Special(p) = {a, b, c, d, d}
    BY <1>2 DEF Special
  <2>2. /\ IsCheck(a) /\ a.check = "structured_io" /\ a.dimension = "automation_readiness"
        /\ IsCheck(b) /\ b.check = "state_recovery" /\ b.dimension = "automation_readiness"
        /\ a.highRisk = FALSE /\ b.highRisk = FALSE
        /\ IsCheck(c) /\ c.check = "isolation" /\ c.dimension = "permission_risk"
        /\ IsCheck(d) /\ d.check = "human_gate" /\ d.dimension = "permission_risk"
    BY DEF Scores!Capability, Scores!Risk, IsCheck, Rules, Scores!Dimensions
  <2>. HIDE DEF a, b, c, d
  <2>3. IsFiniteSet({a, b, c, d, d})
    BY FiveAreFinite
  <2>. QED  BY <2>1, <2>2, <2>3 DEF PlainChecks
<1>3. CASE p = "mcp_server"
  <2>. DEFINE a == Automation("invocation", 5)
              b == Automation("error_handling", 5)
              c == Scores!Risk("filesystem_shell", 8)
              d == Scores!Risk("network_credential", 8)
  <2>1. Special(p) = {a, b, c, d, d}
    BY <1>3 DEF Special
  <2>2. /\ IsCheck(a) /\ a.check = "invocation" /\ a.dimension = "automation_readiness"
        /\ IsCheck(b) /\ b.check = "error_handling" /\ b.dimension = "automation_readiness"
        /\ a.highRisk = FALSE /\ b.highRisk = FALSE
        /\ IsCheck(c) /\ c.check = "filesystem_shell" /\ c.dimension = "permission_risk"
        /\ IsCheck(d) /\ d.check = "network_credential" /\ d.dimension = "permission_risk"
    BY DEF Scores!Capability, Scores!Risk, IsCheck, Rules, Scores!Dimensions
  <2>. HIDE DEF a, b, c, d
  <2>3. IsFiniteSet({a, b, c, d, d})
    BY FiveAreFinite
  <2>. QED  BY <2>1, <2>2, <2>3 DEF PlainChecks
<1>4. CASE p = "cli_api_tool"
  <2>. DEFINE a == Automation("structured_output", 5)
              b == Automation("headless_failure", 5)
              c == Scores!Risk("credential_scope", 8)
              d == Scores!Risk("destructive_action", 8)
              e == Scores!Risk("paid_side_effect", 8)
  <2>1. Special(p) = {a, b, c, d, e}
    BY <1>4 DEF Special
  <2>2. /\ IsCheck(a) /\ a.check = "structured_output" /\ a.dimension = "automation_readiness"
        /\ IsCheck(b) /\ b.check = "headless_failure" /\ b.dimension = "automation_readiness"
        /\ a.highRisk = FALSE /\ b.highRisk = FALSE
        /\ IsCheck(c) /\ c.check = "credential_scope" /\ c.dimension = "permission_risk"
        /\ IsCheck(d) /\ d.check = "destructive_action" /\ d.dimension = "permission_risk"
        /\ IsCheck(e) /\ e.check = "paid_side_effect" /\ e.dimension = "permission_risk"
    BY DEF Scores!Capability, Scores!Risk, IsCheck, Rules, Scores!Dimensions
  <2>. HIDE DEF a, b, c, d, e
  <2>3. IsFiniteSet({a, b, c, d, e})
    BY FiveAreFinite
  <2>. QED  BY <2>1, <2>2, <2>3 DEF PlainChecks
<1>. QED BY <1>1, <1>2, <1>3, <1>4 DEF ProfileNames

\* A profile has each check once, a plain dimension has one check, and every
\* dimension has some.
LEMMA CatalogRows ==
  ASSUME NEW p \in ProfileNames
  PROVE  /\ \A c \in Scores!Catalog[p] : IsCheck(c)
         /\ IsFiniteSet(Scores!Catalog[p])
         /\ \A c, e \in Scores!Catalog[p] : c.check = e.check => c = e
         /\ \A c, e \in Scores!Catalog[p] :
              c.dimension = e.dimension /\ c.dimension \in PlainDimensions => c = e
         /\ \A c \in Scores!Catalog[p] :
              c.dimension \in PlainDimensions => c.rule = "positive_capability_v1"
         /\ \A d \in Scores!Dimensions : \E c \in Scores!Catalog[p] : c.dimension = d
<1>1. PICK w \in {4, 5, 6} : Scores!Catalog[p] = Scores!Plain(w) \cup Special(p)
  BY CatalogSplit
<1>2. \A c \in Special(p) : c.dimension \notin PlainDimensions
  BY SpecialRows DEF PlainDimensions
<1>3. Scores!Dimensions = PlainDimensions \cup {"automation_readiness", "permission_risk"}
  BY DEF PlainDimensions, Scores!Dimensions
<1>4. IsFiniteSet(Scores!Catalog[p])
  <2>1. IsFiniteSet(Scores!Plain(w)) /\ IsFiniteSet(Special(p))
    BY PlainRows, SpecialRows
  <2>. QED  BY <1>1, <2>1, FS_Union
<1>5. /\ \A c \in Scores!Catalog[p] : IsCheck(c)
      /\ \A c \in Scores!Catalog[p] :
           c.dimension \in PlainDimensions => c.rule = "positive_capability_v1"
  BY <1>1, <1>2, PlainRows, SpecialRows
<1>6. \A c, e \in Scores!Catalog[p] : c.check = e.check => c = e
  <2>1. /\ \A c \in Scores!Plain(w) : c.check \in PlainChecks
        /\ \A c, e \in Scores!Plain(w) : c.check = e.check => c = e
    BY PlainRows
  <2>2. /\ \A c \in Special(p) : c.check \notin PlainChecks
        /\ \A c, e \in Special(p) : c.check = e.check => c = e
    BY SpecialRows
  <2>. QED  BY <1>1, <2>1, <2>2
<1>7. \A c, e \in Scores!Catalog[p] :
        c.dimension = e.dimension /\ c.dimension \in PlainDimensions => c = e
  BY <1>1, <1>2, PlainRows
<1>8. \A d \in Scores!Dimensions : \E c \in Scores!Catalog[p] : c.dimension = d
  <2>. HIDE DEF PlainDimensions
  <2>. QED  BY <1>1, <1>3, PlainRows, SpecialRows
<1>. QED  BY <1>4, <1>5, <1>6, <1>7, <1>8

\* Sums are linear.
LEMMA SumLinear ==
  ASSUME NEW g, Summable(g), NEW h, Summable(h), DOMAIN h = DOMAIN g, NEW n \in Int,
         NEW l, l = [x \in DOMAIN g |-> n * g[x] + h[x]]
  PROVE  /\ Summable(l)
         /\ SumFunction(l) = n * SumFunction(g) + SumFunction(h)
<1>. DEFINE D == DOMAIN g
<1>1. DOMAIN l = D /\ \A x \in D : l[x] = n * g[x] + h[x]
  OBVIOUS
<1>2. \A x \in D : g[x] \in Int /\ h[x] \in Int
  BY DEF Summable
<1>3. Summable(l)
  BY <1>1, <1>2 DEF Summable
<1>4. PICK f : Adds(f, g) /\ SumFunction(g) = f[D]
  BY SumAdds
<1>5. PICK k : Adds(k, h) /\ SumFunction(h) = k[D]
  BY SumAdds
<1>6. PICK m : Adds(m, l) /\ SumFunction(l) = m[D]
  BY <1>1, <1>3, SumAdds
<1>7. /\ f[{}] = 0
      /\ \A s \in SUBSET D : f[s] \in Int /\ \A y \in s : f[s] = g[y] + f[s \ {y}]
  BY <1>4 DEF Adds
<1>8. /\ k[{}] = 0
      /\ \A s \in SUBSET D : k[s] \in Int /\ \A y \in s : k[s] = h[y] + k[s \ {y}]
  BY <1>5 DEF Adds
<1>9. /\ m[{}] = 0
      /\ \A s \in SUBSET D : m[s] \in Int /\ \A y \in s : m[s] = l[y] + m[s \ {y}]
  BY <1>1, <1>6 DEF Adds
<1>. DEFINE Bad == {s \in SUBSET D : m[s] # n * f[s] + k[s]}
<1>10. Bad = {}
  <2>. SUFFICES ASSUME Bad # {} PROVE FALSE
    OBVIOUS
  <2>1. PICK s \in Bad : \A t \in SUBSET s : t # s => t \notin Bad
    <3>1. Bad \subseteq SUBSET D
      OBVIOUS
    <3>. HIDE DEF Bad
    <3>. QED  BY <3>1, Smallest DEF Summable
  <2>2. s \in SUBSET D /\ m[s] # n * f[s] + k[s]
    BY <2>1
  <2>3. s # {}
    <3>1. m[{}] = n * f[{}] + k[{}]
      BY <1>7, <1>8, <1>9
    <3>. HIDE DEF Bad
    <3>. QED  BY <2>2, <3>1
  <2>4. PICK y \in s : TRUE
    BY <2>3
  <2>5. s \ {y} \in SUBSET D /\ s \ {y} # s /\ y \in D
    BY <2>2, <2>4
  <2>6. m[s \ {y}] = n * f[s \ {y}] + k[s \ {y}]
    BY <2>1, <2>5
  <2>7. /\ m[s] = l[y] + m[s \ {y}]
        /\ f[s] = g[y] + f[s \ {y}]
        /\ k[s] = h[y] + k[s \ {y}]
    BY <1>7, <1>8, <1>9, <2>2, <2>4
  <2>8. f[s \ {y}] \in Int /\ k[s \ {y}] \in Int /\ g[y] \in Int /\ h[y] \in Int
    BY <1>2, <1>7, <1>8, <2>5
  <2>9. n * f[s] = n * g[y] + n * f[s \ {y}]
    <3>. DEFINE a == g[y]
                b == f[s \ {y}]
    <3>1. a \in Int /\ b \in Int /\ f[s] = a + b
      BY <2>7, <2>8
    <3>. HIDE DEF a, b
    <3>2. n * (a + b) = n * a + n * b
      BY <3>1
    <3>. QED  BY <3>1, <3>2 DEF a, b
  <2>10. l[y] = n * g[y] + h[y] /\ n * g[y] \in Int /\ n * f[s \ {y}] \in Int
    BY <1>1, <2>5, <2>8
  <2>. HIDE DEF Bad
  <2>. QED  BY <2>2, <2>6, <2>7, <2>8, <2>9, <2>10
<1>11. m[D] = n * f[D] + k[D]
  BY <1>10
<1>. QED  BY <1>3, <1>4, <1>5, <1>6, <1>11

\* The sum that Scoring takes.
LEMMA ScoresSum ==
  ASSUME NEW g
  PROVE  Scores!SumFunction(g) = SumFunction(g)
BY DEF Scores!SumFunction, Scores!SumFunctionOnSet, Scores!FoldFunctionOnSet,
       Scores!MapThenFoldSet, SumFunction, SumFunctionOnSet, FoldFunctionOnSet,
       MapThenFoldSet

-----------------------------------------------------------------------------
(* The score of a dimension.                                               *)

\* f has a verdict on every check of profile p.
Judged(p, f) == \A c \in Scores!Catalog[p] : f[c.check] \in Verdicts

\* The verdicts that count.
Counts == Verdicts \ {"not_applicable"}

\* Every rule gives 4 points for a pass alone, and none for a failure or for nothing known;
\* a capability gives half of them otherwise.
LEMMA PointsOfVerdict ==
  ASSUME NEW c, IsCheck(c), NEW v \in Counts
  PROVE  /\ Scores!Points[c.rule][v] \in 0 .. 4
         /\ Scores!Points[c.rule][v] = 4 <=> v = "pass"
         /\ v \in {"fail", "unknown"} => Scores!Points[c.rule][v] = 0
         /\ c.rule = "positive_capability_v1" => Scores!Points[c.rule][v] \in {0, 2, 4}
BY DEF IsCheck, Rules, Counts, Verdicts, Scores!Points

\* What is added up for a dimension.
Weights(p, f, d) == [c \in Scores!Applicable(p, f, d) |-> c.weight]
Earned(p, f, d) ==
  [c \in Scores!Applicable(p, f, d) |-> c.weight * Scores!Points[c.rule][f[c.check]]]

\* The weights and points of the checks that apply to a dimension.
LEMMA DimensionParts ==
  ASSUME NEW p \in ProfileNames, NEW f, Judged(p, f), NEW d \in Scores!Dimensions
  PROVE  /\ DOMAIN Weights(p, f, d) = Scores!Applicable(p, f, d)
         /\ DOMAIN Earned(p, f, d) = Scores!Applicable(p, f, d)
         /\ Summable(Weights(p, f, d)) /\ Summable(Earned(p, f, d))
         /\ Scores!ApplicableWeight(p, f, d) = SumFunction(Weights(p, f, d))
         /\ Scores!EarnedPoints(p, f, d) = SumFunction(Earned(p, f, d))
         /\ \A c \in Scores!Applicable(p, f, d) :
              /\ IsCheck(c) /\ c \in Scores!Catalog[p] /\ c.dimension = d
              /\ f[c.check] \in Counts
              /\ Weights(p, f, d)[c] = c.weight /\ c.weight \in Nat \ {0}
              /\ Earned(p, f, d)[c] = c.weight * Scores!Points[c.rule][f[c.check]]
              /\ Earned(p, f, d)[c] \in 0 .. 4 * c.weight
              /\ Earned(p, f, d)[c] = 4 * c.weight <=> f[c.check] = "pass"
              /\ f[c.check] \in {"fail", "unknown"} => Earned(p, f, d)[c] = 0
<1>1. /\ DOMAIN Weights(p, f, d) = Scores!Applicable(p, f, d)
      /\ DOMAIN Earned(p, f, d) = Scores!Applicable(p, f, d)
  BY DEF Weights, Earned
<1>2. IsFiniteSet(Scores!Applicable(p, f, d))
  <2>1. Scores!Applicable(p, f, d) \subseteq Scores!Catalog[p]
    BY DEF Scores!Applicable
  <2>2. IsFiniteSet(Scores!Catalog[p])
    BY CatalogRows
  <2>. QED  BY <2>1, <2>2, FS_Subset
<1>3. /\ Scores!ApplicableWeight(p, f, d) = SumFunction(Weights(p, f, d))
      /\ Scores!EarnedPoints(p, f, d) = SumFunction(Earned(p, f, d))
  BY ScoresSum DEF Scores!ApplicableWeight, Scores!EarnedPoints, Weights, Earned
<1>4. ASSUME NEW c \in Scores!Applicable(p, f, d)
      PROVE  /\ IsCheck(c) /\ c \in Scores!Catalog[p] /\ c.dimension = d
             /\ f[c.check] \in Counts
             /\ Weights(p, f, d)[c] = c.weight /\ c.weight \in Nat \ {0}
             /\ Earned(p, f, d)[c] = c.weight * Scores!Points[c.rule][f[c.check]]
             /\ Earned(p, f, d)[c] \in 0 .. 4 * c.weight
             /\ Earned(p, f, d)[c] = 4 * c.weight <=> f[c.check] = "pass"
             /\ f[c.check] \in {"fail", "unknown"} => Earned(p, f, d)[c] = 0
  <2>1. c \in Scores!Catalog[p] /\ c.dimension = d /\ f[c.check] \in Counts
    BY DEF Scores!Applicable, Judged, Counts
  <2>2. IsCheck(c)
    BY <2>1, CatalogRows
  <2>3. /\ Weights(p, f, d)[c] = c.weight
        /\ Earned(p, f, d)[c] = c.weight * Scores!Points[c.rule][f[c.check]]
    BY DEF Weights, Earned
  <2>. DEFINE w == c.weight
              n == Scores!Points[c.rule][f[c.check]]
  <2>4. /\ n \in 0 .. 4
        /\ n = 4 <=> f[c.check] = "pass"
        /\ f[c.check] \in {"fail", "unknown"} => n = 0
    BY <2>1, <2>2, PointsOfVerdict
  <2>5. w \in Nat \ {0}
    BY <2>2 DEF IsCheck
  <2>. HIDE DEF w, n
  <2>6. w * n \in 0 .. 4 * w /\ (w * n = 4 * w <=> n = 4) /\ (n = 0 => w * n = 0)
    <3>1. n = 0 \/ n = 1 \/ n = 2 \/ n = 3 \/ n = 4
      BY <2>4
    <3>2. w * 0 = 0 /\ w * 1 = w /\ w * 2 = 2 * w /\ w * 3 = 3 * w /\ w * 4 = 4 * w
      BY <2>5
    <3>. QED  BY <2>5, <3>1, <3>2
  <2>7. Earned(p, f, d)[c] = w * n
    BY <2>3 DEF w, n
  <2>8. /\ Earned(p, f, d)[c] \in 0 .. 4 * w
        /\ Earned(p, f, d)[c] = 4 * w <=> f[c.check] = "pass"
        /\ f[c.check] \in {"fail", "unknown"} => Earned(p, f, d)[c] = 0
    BY <2>4, <2>6, <2>7
  <2>. QED  BY <2>1, <2>2, <2>3, <2>5, <2>8 DEF w
<1>5. Summable(Weights(p, f, d)) /\ Summable(Earned(p, f, d))
  BY <1>1, <1>2, <1>4 DEF Summable
<1>. HIDE DEF Weights, Earned
<1>. QED  BY <1>1, <1>3, <1>4, <1>5

\* The sum of nothing but zeros.
LEMMA SumZero ==
  ASSUME NEW D, IsFiniteSet(D), NEW z, z = [x \in D |-> 0]
  PROVE  Summable(z) /\ SumFunction(z) = 0
<1>1. Summable(z) /\ DOMAIN z = D
  BY DEF Summable
<1>2. z = [x \in DOMAIN z |-> 1 * z[x] + z[x]]
  BY <1>1
<1>3. SumFunction(z) = 1 * SumFunction(z) + SumFunction(z)
  BY <1>1, <1>2, SumLinear
<1>4. SumFunction(z) \in Int
  BY <1>1, SumType
<1>5. SumFunction(z) = 0
  <2>. DEFINE s == SumFunction(z)
  <2>1. s \in Int /\ s = 1 * s + s
    BY <1>3, <1>4
  <2>. HIDE DEF s
  <2>2. s = 0
    BY <2>1
  <2>. QED  BY <2>2 DEF s
<1>. QED  BY <1>1, <1>5

\* A multiple of a sum.
LEMMA SumScale ==
  ASSUME NEW g, Summable(g), NEW n \in Int, NEW l, l = [x \in DOMAIN g |-> n * g[x]]
  PROVE  Summable(l) /\ SumFunction(l) = n * SumFunction(g)
<1>. DEFINE z == [x \in DOMAIN g |-> 0]
<1>1. Summable(z) /\ SumFunction(z) = 0 /\ DOMAIN z = DOMAIN g
  BY SumZero DEF Summable
<1>2. l = [x \in DOMAIN g |-> n * g[x] + z[x]]
  BY DEF Summable
<1>. HIDE DEF z
<1>3. Summable(l) /\ SumFunction(l) = n * SumFunction(g) + SumFunction(z)
  BY <1>1, <1>2, SumLinear
<1>. QED  BY <1>1, <1>3, SumType

\* A bound that is strict at one place is strict for the sum.
LEMMA SumStrictlyBelow ==
  ASSUME NEW g, Summable(g), NEW h, Summable(h), DOMAIN h = DOMAIN g,
         \A x \in DOMAIN g : g[x] <= h[x],
         NEW y \in DOMAIN g, g[y] < h[y]
  PROVE  SumFunction(g) < SumFunction(h)
<1>1. /\ Summable(Less(g, y)) /\ SumFunction(g) = g[y] + SumFunction(Less(g, y))
      /\ Summable(Less(h, y)) /\ SumFunction(h) = h[y] + SumFunction(Less(h, y))
  BY SumSplit
<1>2. SumFunction(Less(g, y)) <= SumFunction(Less(h, y))
  <2>1. /\ DOMAIN Less(g, y) = DOMAIN g \ {y} /\ DOMAIN Less(h, y) = DOMAIN Less(g, y)
        /\ \A x \in DOMAIN g \ {y} : Less(g, y)[x] = g[x] /\ Less(h, y)[x] = h[x]
    BY DEF Less
  <2>2. \A x \in DOMAIN Less(g, y) : Less(g, y)[x] <= Less(h, y)[x]
    BY <2>1
  <2>. QED  BY <1>1, <2>1, <2>2, SumBelow
<1>3. /\ SumFunction(Less(g, y)) \in Int /\ SumFunction(Less(h, y)) \in Int
      /\ g[y] \in Int /\ h[y] \in Int
  BY <1>1, SumType DEF Summable
<1>. QED  BY <1>1, <1>2, <1>3

\* What a dimension can earn.
LEMMA DimensionBounds ==
  ASSUME NEW p \in ProfileNames, NEW f, Judged(p, f), NEW d \in Scores!Dimensions,
         NEW E, E = Scores!EarnedPoints(p, f, d),
         NEW W, W = Scores!ApplicableWeight(p, f, d)
  PROVE  /\ E \in Nat /\ W \in Nat /\ E <= 4 * W
         /\ W = 0 <=> Scores!Applicable(p, f, d) = {}
         /\ E = 4 * W <=> \A c \in Scores!Applicable(p, f, d) : f[c.check] = "pass"
<1>. DEFINE A == Scores!Applicable(p, f, d)
            w == Weights(p, f, d)
            e == Earned(p, f, d)
            z == [c \in A |-> 0]
            q == [c \in A |-> 4 * w[c]]
<1>1. /\ DOMAIN w = A /\ DOMAIN e = A /\ Summable(w) /\ Summable(e)
      /\ W = SumFunction(w) /\ E = SumFunction(e)
      /\ \A c \in A : /\ w[c] \in Nat \ {0} /\ e[c] \in 0 .. 4 * w[c]
                      /\ e[c] = 4 * w[c] <=> f[c.check] = "pass"
  BY DimensionParts
<1>. HIDE DEF A, w, e
<1>2. Summable(z) /\ SumFunction(z) = 0 /\ DOMAIN z = A /\ \A c \in A : z[c] = 0
  BY <1>1, SumZero DEF Summable
<1>3. Summable(q) /\ SumFunction(q) = 4 * W /\ DOMAIN q = A /\ \A c \in A : q[c] = 4 * w[c]
  BY <1>1, SumScale
<1>. HIDE DEF z, q
<1>4. E \in Int /\ W \in Int
  BY <1>1, SumType
<1>5. 0 <= E /\ 0 <= W /\ E <= 4 * W
  <2>1. \A c \in A : z[c] <= e[c] /\ z[c] <= w[c] /\ e[c] <= q[c]
    BY <1>1, <1>2, <1>3
  <2>. QED  BY <1>1, <1>2, <1>3, <2>1, SumBelow
<1>6. A = {} => W = 0
  BY <1>1, SumEmpty
<1>7. ASSUME NEW c \in A
      PROVE  W > 0
  <2>1. z[c] < w[c] /\ \A x \in A : z[x] <= w[x]
    BY <1>1, <1>2
  <2>2. SumFunction(z) < SumFunction(w)
    BY <1>1, <1>2, <2>1, SumStrictlyBelow
  <2>. QED  BY <1>1, <1>2, <1>4, <2>2
<1>8. ASSUME NEW c \in A, f[c.check] # "pass"
      PROVE  E < 4 * W
  <2>1. e[c] < q[c] /\ \A x \in A : e[x] <= q[x]
    BY <1>1, <1>3, <1>8
  <2>2. SumFunction(e) < SumFunction(q)
    BY <1>1, <1>3, <2>1, SumStrictlyBelow
  <2>. QED  BY <1>1, <1>3, <2>2
<1>9. ASSUME \A c \in A : f[c.check] = "pass"
      PROVE  4 * W <= E
  <2>1. \A c \in A : q[c] <= e[c]
    BY <1>1, <1>3, <1>9
  <2>. QED  BY <1>1, <1>3, <2>1, SumBelow
<1>10. W = 0 <=> A = {}
  BY <1>6, <1>7
<1>11. E = 4 * W <=> \A c \in A : f[c.check] = "pass"
  BY <1>4, <1>5, <1>8, <1>9
<1>. QED  BY <1>4, <1>5, <1>10, <1>11 DEF A

\* A score is at least n if what is earned is n fifths of the full marks.
LEMMA ScoreIsQuotient ==
  ASSUME NEW p \in ProfileNames, NEW f, Judged(p, f), NEW d \in Scores!Dimensions,
         NEW E, E = Scores!EarnedPoints(p, f, d),
         NEW W, W = Scores!ApplicableWeight(p, f, d)
  PROVE  /\ Scores!DimensionScore(p, f, d) \in 0 .. 5
         /\ W = 0 => Scores!DimensionScore(p, f, d) = 0
         /\ W # 0 => \A n \in Nat : n <= Scores!DimensionScore(p, f, d) <=> 4 * W * n <= 5 * E
<1>1. E \in Nat /\ W \in Nat /\ E <= 4 * W
  BY DimensionBounds
<1>2. CASE W = 0
  BY <1>2 DEF Scores!DimensionScore
<1>3. CASE W # 0
  <2>. DEFINE s == Scores!DimensionScore(p, f, d)
              a == 5 * E
              b == 4 * W
  <2>1. s = a \div b /\ a \in Nat /\ b \in Nat \ {0}
    BY <1>1, <1>3 DEF Scores!DimensionScore
  <2>2. s \in Nat /\ \A n \in Nat : n <= s <=> b * n <= a
    <3>. HIDE DEF s, a, b
    <3>. QED  BY <2>1, DivBounds, DivUnique
  <2>3. ~(6 <= s)
    BY <1>1, <1>3, <2>2
  <2>4. s \in 0 .. 5
    <3>. HIDE DEF s
    <3>. QED  BY <2>2, <2>3
  <2>. QED  BY <1>3, <2>2, <2>4
<1>. QED  BY <1>2, <1>3

-----------------------------------------------------------------------------
(* Full marks.                                                             *)

\* The findings of a dimension.
DimensionResults(p, f, d) == {f[c.check] : c \in {x \in Scores!Catalog[p] : x.dimension = d}}

\* A dimension scores 5 exactly when what applies of it, and something does,
\* passed.
LEMMA FullMarks ==
  ASSUME NEW p \in ProfileNames, NEW f, Judged(p, f), NEW d \in Scores!Dimensions,
         NEW R, R = DimensionResults(p, f, d)
  PROVE  Scores!DimensionScore(p, f, d) = 5
           <=> "pass" \in R /\ R \subseteq {"pass", "not_applicable"}
<1>. DEFINE A == Scores!Applicable(p, f, d)
            E == Scores!EarnedPoints(p, f, d)
            W == Scores!ApplicableWeight(p, f, d)
            s == Scores!DimensionScore(p, f, d)
<1>1. /\ E \in Nat /\ W \in Nat /\ E <= 4 * W
      /\ W = 0 <=> A = {}
      /\ E = 4 * W <=> \A c \in A : f[c.check] = "pass"
  BY DimensionBounds
<1>2. /\ s \in 0 .. 5
      /\ W = 0 => s = 0
      /\ W # 0 => \A n \in Nat : n <= s <=> 4 * W * n <= 5 * E
  BY ScoreIsQuotient
<1>3. A = {c \in Scores!Catalog[p] : c.dimension = d /\ f[c.check] # "not_applicable"}
  BY DEF Scores!Applicable
<1>. HIDE DEF A, E, W, s
<1>4. s = 5 <=> W # 0 /\ E = 4 * W
  <2>1. CASE W = 0
    BY <1>2, <2>1
  <2>2. CASE W # 0
    <3>1. 5 <= s <=> 4 * W * 5 <= 5 * E
      BY <1>2, <2>2
    <3>2. 4 * W * 5 <= 5 * E <=> E = 4 * W
      BY <1>1
    <3>. QED  BY <1>2, <2>2, <3>1, <3>2
  <2>. QED  BY <2>1, <2>2
<1>5. A # {} /\ (\A c \in A : f[c.check] = "pass")
        <=> "pass" \in R /\ R \subseteq {"pass", "not_applicable"}
  BY <1>3 DEF DimensionResults
<1>. QED  BY <1>1, <1>4, <1>5 DEF s

-----------------------------------------------------------------------------
(* The total and the rating.                                               *)

\* There are seven dimensions.
LEMMA DimensionsAreFinite == IsFiniteSet(Scores!Dimensions)
<1>. DEFINE a == "capability_clarity"
            b == "interface_openness"
            c == "automation_readiness"
            d == "data_portability"
            e == "permission_risk"
            g == "evidence_quality"
            h == "ecosystem_fit"
<1>1. IsFiniteSet({a, b, c, d, e}) /\ IsFiniteSet({e, e, e, g, h})
  BY FiveAreFinite
<1>2. Scores!Dimensions = {a, b, c, d, e} \cup {e, e, e, g, h}
  BY DEF Scores!Dimensions
<1>. QED  BY <1>1, <1>2, FS_Union

\* What is added up for the total.
DimensionScores(p, f) == [d \in Scores!Dimensions |-> Scores!DimensionScore(p, f, d)]

\* The total is computed from the sum of the scores.
LEMMA TotalParts ==
  ASSUME NEW p \in ProfileNames, NEW f, Judged(p, f)
  PROVE  /\ Summable(DimensionScores(p, f))
         /\ DOMAIN DimensionScores(p, f) = Scores!Dimensions
         /\ SumFunction(DimensionScores(p, f)) \in Nat
         /\ Scores!TotalScore(p, f) = (SumFunction(DimensionScores(p, f)) * 20) \div 7
         /\ Scores!TotalScore(p, f) \in Nat
<1>. DEFINE g == DimensionScores(p, f)
            z == [d \in Scores!Dimensions |-> 0]
<1>1. DOMAIN g = Scores!Dimensions
      /\ \A d \in Scores!Dimensions : g[d] = Scores!DimensionScore(p, f, d)
  BY DEF DimensionScores
<1>2. \A d \in Scores!Dimensions : g[d] \in 0 .. 5
  BY <1>1, ScoreIsQuotient
<1>3. Summable(g)
  BY <1>1, <1>2, DimensionsAreFinite DEF Summable
<1>4. Summable(z) /\ SumFunction(z) = 0
  BY DimensionsAreFinite, SumZero
<1>5. DOMAIN z = Scores!Dimensions /\ \A d \in Scores!Dimensions : z[d] <= g[d]
  BY <1>2
<1>6. Scores!TotalScore(p, f) = (SumFunction(g) * 20) \div 7
  BY ScoresSum DEF Scores!TotalScore, DimensionScores
<1>. HIDE DEF g, z
<1>7. 0 <= SumFunction(g)
  BY <1>1, <1>3, <1>4, <1>5, SumBelow
<1>8. SumFunction(g) \in Nat
  BY <1>3, <1>7, SumType
<1>9. (SumFunction(g) * 20) \div 7 \in Nat
  <2>. DEFINE a == SumFunction(g) * 20
  <2>1. a \in Nat
    BY <1>8
  <2>. HIDE DEF a
  <2>2. a \div 7 \in Nat
    BY <2>1
  <2>. QED  BY <2>2 DEF a
<1>. QED  BY <1>1, <1>3, <1>6, <1>8, <1>9 DEF g

\* The band of a total.
LEMMA BandIs ==
  ASSUME NEW t \in Nat
  PROVE  /\ Scores!Band(t) \in 1 .. 5
         /\ \A i \in 1 .. 5 : i <= Scores!Band(t) <=> 20 * (i - 1) <= t
<1>. DEFINE T == Scores!Thresholds
            S == {i \in DOMAIN T : T[i] <= t}
<1>1. DOMAIN T = 1 .. 5 /\ \A i \in 1 .. 5 : T[i] = 20 * (i - 1)
  <2>1. DOMAIN T = 1 .. 5 /\ T[1] = 0 /\ T[2] = 20 /\ T[3] = 40 /\ T[4] = 60 /\ T[5] = 80
    BY DEF Scores!Thresholds
  <2>. HIDE DEF T
  <2>. QED  BY <2>1
<1>2. Scores!Band(t) = CHOOSE x \in S : \A y \in S : x >= y
  BY DEF Scores!Band, Scores!Max
<1>. HIDE DEF T
<1>3. \A i \in 1 .. 5 : i \in S <=> 20 * (i - 1) <= t
  BY <1>1
<1>4. S \subseteq 1 .. 5 /\ 1 \in S
  BY <1>1
<1>. DEFINE b == CHOOSE x \in S : \A y \in S : x >= y
<1>. HIDE DEF S
<1>5. \E x \in S : \A y \in S : x >= y
  <2>1. CASE 5 \in S
    BY <1>4, <2>1
  <2>2. CASE 5 \notin S /\ 4 \in S
    BY <1>4, <2>2
  <2>3. CASE 5 \notin S /\ 4 \notin S /\ 3 \in S
    BY <1>4, <2>3
  <2>4. CASE 5 \notin S /\ 4 \notin S /\ 3 \notin S /\ 2 \in S
    BY <1>4, <2>4
  <2>5. CASE 5 \notin S /\ 4 \notin S /\ 3 \notin S /\ 2 \notin S
    BY <1>4, <2>5
  <2>. QED  BY <2>1, <2>2, <2>3, <2>4, <2>5
<1>6. b \in S /\ \A y \in S : b >= y
  BY <1>5
<1>. HIDE DEF b
<1>7. b \in 1 .. 5 /\ \A i \in 1 .. 5 : i <= b <=> 20 * (i - 1) <= t
  BY <1>3, <1>4, <1>6
<1>. QED  BY <1>2, <1>7 DEF b

\* The least of some ratings.
LEMMA LeastIs ==
  ASSUME NEW S, S \subseteq 1 .. 5, S # {}
  PROVE  Scores!Min(S) \in S /\ \A y \in S : Scores!Min(S) <= y
<1>1. \E x \in S : \A y \in S : x <= y
  <2>1. S \subseteq Nat
    OBVIOUS
  <2>. QED  BY <2>1, Least
<1>. QED  BY <1>1 DEF Scores!Min

\* The cap is at most n exactly when 5 is or the cap of a high-risk finding is.
LEMMA RiskCapIs ==
  ASSUME NEW p \in ProfileNames, NEW f, Judged(p, f)
  PROVE  /\ Scores!RiskCap(p, f) \in 1 .. 5
         /\ \A c \in Scores!Catalog[p] :
              c.highRisk => /\ f[c.check] = "fail" => Scores!RiskCap(p, f) = 1
                            /\ f[c.check] = "unknown" => Scores!RiskCap(p, f) <= 2
                            /\ f[c.check] = "partial" => Scores!RiskCap(p, f) <= 3
         /\ \/ Scores!RiskCap(p, f) = 5
            \/ \E c \in Scores!Catalog[p] :
                 /\ c.highRisk /\ f[c.check] \in {"fail", "unknown", "partial"}
                 /\ Scores!RiskCap(p, f) = Scores!HighRiskCap[f[c.check]]
<1>. DEFINE K == Scores!HighRiskCap
            H == {c \in {x \in Scores!Catalog[p] : x.highRisk /\ f[x.check] \in DOMAIN K} : TRUE}
            S == {5} \cup {K[f[c.check]] :
                   c \in {x \in Scores!Catalog[p] : x.highRisk /\ f[x.check] \in DOMAIN K}}
            m == Scores!RiskCap(p, f)
<1>1. /\ DOMAIN K = {"fail", "unknown", "partial"}
      /\ K["fail"] = 1 /\ K["unknown"] = 2 /\ K["partial"] = 3
  BY DEF Scores!HighRiskCap
<1>2. m = Scores!Min(S)
  BY DEF Scores!RiskCap
<1>. HIDE DEF K, m
<1>3. S \subseteq 1 .. 5 /\ 5 \in S
  BY <1>1
<1>4. m \in S /\ \A y \in S : m <= y
  <2>. HIDE DEF S
  <2>. QED  BY <1>2, <1>3, LeastIs
<1>5. ASSUME NEW c \in Scores!Catalog[p], c.highRisk, f[c.check] \in DOMAIN K
      PROVE  K[f[c.check]] \in S
  BY <1>5
<1>6. ASSUME NEW c \in Scores!Catalog[p], c.highRisk
      PROVE  /\ f[c.check] = "fail" => m = 1
             /\ f[c.check] = "unknown" => m <= 2
             /\ f[c.check] = "partial" => m <= 3
  <2>1. f[c.check] \in DOMAIN K => m <= K[f[c.check]]
    BY <1>4, <1>5, <1>6
  <2>2. m \in 1 .. 5
    BY <1>3, <1>4
  <2>. QED  BY <1>1, <2>1, <2>2
<1>7. \/ m = 5
      \/ \E c \in Scores!Catalog[p] :
           c.highRisk /\ f[c.check] \in {"fail", "unknown", "partial"} /\ m = K[f[c.check]]
  BY <1>1, <1>4
<1>. QED  BY <1>3, <1>4, <1>6, <1>7 DEF m, K

\* The rating is the band or the cap, whichever is lower.
LEMMA RankIs ==
  ASSUME NEW p \in ProfileNames, NEW f, Judged(p, f)
  PROVE  /\ Scores!RatingRank(p, f) \in 1 .. 5
         /\ \A n \in Nat : n <= Scores!RatingRank(p, f)
              <=> n <= Scores!Band(Scores!TotalScore(p, f)) /\ n <= Scores!RiskCap(p, f)
<1>. DEFINE a == Scores!Band(Scores!TotalScore(p, f))
            b == Scores!RiskCap(p, f)
            r == Scores!RatingRank(p, f)
<1>1. a \in 1 .. 5 /\ b \in 1 .. 5
  BY TotalParts, BandIs, RiskCapIs
<1>2. r = Scores!Min({a, b})
  BY DEF Scores!RatingRank
<1>. HIDE DEF a, b, r
<1>3. r \in {a, b} /\ \A y \in {a, b} : r <= y
  <2>1. {a, b} \subseteq 1 .. 5 /\ {a, b} # {}
    BY <1>1
  <2>. QED  BY <1>2, <2>1, LeastIs
<1>4. r \in 1 .. 5 /\ \A n \in Nat : n <= r <=> n <= a /\ n <= b
  BY <1>1, <1>3
<1>. QED  BY <1>4 DEF a, b, r

\* A high-risk finding is not offset.
LEMMA NotOffset ==
  ASSUME profile \in ProfileNames, Judged(profile, findings)
  PROVE  Scores!HighRiskIsNotOffset
<1>. DEFINE p == profile
            f == findings
            of == {f[c.check] : c \in {x \in Scores!Catalog[p] : x.highRisk}}
            r == Scores!RatingRank(p, f)
            m == Scores!RiskCap(p, f)
            t == Scores!TotalScore(p, f)
<1>1. /\ m \in 1 .. 5
      /\ \A c \in Scores!Catalog[p] :
           c.highRisk => /\ f[c.check] = "fail" => m = 1
                         /\ f[c.check] = "unknown" => m <= 2
                         /\ f[c.check] = "partial" => m <= 3
  BY RiskCapIs
<1>2. /\ r \in 1 .. 5
      /\ \A n \in Nat : n <= r <=> n <= Scores!Band(t) /\ n <= m
  BY RankIs
<1>3. Scores!Band(t) \in 1 .. 5 /\ (2 <= Scores!Band(t) <=> 20 <= t) /\ t \in Nat
  <2>1. t \in Nat
    BY TotalParts
  <2>. HIDE DEF t
  <2>2. 2 <= Scores!Band(t) <=> 20 * (2 - 1) <= t
    BY <2>1, BandIs
  <2>. QED  BY <2>1, <2>2, BandIs
<1>4. \A v \in of : v \in Verdicts
  BY DEF Judged
<1>5. Scores!Ratings[1] = "not_recommended"
  BY DEF Scores!Ratings
<1>6. \A v \in of : \E c \in Scores!Catalog[p] : c.highRisk /\ f[c.check] = v
  OBVIOUS
<1>. HIDE DEF r, m, t, of
<1>7. "fail" \in of => r = 1
  <2>1. "fail" \in of => m = 1
    BY <1>1, <1>6
  <2>2. 2 <= r => 2 <= m
    BY <1>2
  <2>. QED  BY <1>2, <2>1, <2>2
<1>8. "unknown" \in of => r <= 2
  <2>1. "unknown" \in of => m <= 2
    BY <1>1, <1>6
  <2>2. 3 <= r => 3 <= m
    BY <1>2
  <2>. QED  BY <1>1, <1>2, <2>1, <2>2
<1>9. r > 3 => of \subseteq {"pass", "not_applicable"}
  <2>1. r > 3 => m > 3
    <3>1. 4 <= r => 4 <= m
      BY <1>2
    <3>. QED  BY <1>1, <1>2, <3>1
  <2>2. \A v \in of : m > 3 => v \notin {"fail", "unknown", "partial"}
    BY <1>1, <1>6
  <2>. QED  BY <1>4, <2>1, <2>2 DEF Verdicts
<1>10. t < 20 => r = 1
  <2>1. 2 <= r => 2 <= Scores!Band(t)
    BY <1>2
  <2>. QED  BY <1>2, <1>3, <2>1
<1>. QED  BY <1>5, <1>7, <1>8, <1>9, <1>10 DEF Scores!HighRiskIsNotOffset, r, t, of

-----------------------------------------------------------------------------
(* A better finding.                                                       *)

\* g is f with a better finding of check b.
Improved(p, f, g, b) ==
  /\ b \in Scores!Catalog[p]
  /\ g[b.check] \in Scores!Better[f[b.check]]
  /\ \A c \in Scores!Catalog[p] \ {b} : g[c.check] = f[c.check]

\* What can follow a verdict.
LEMMA BetterIs ==
  ASSUME NEW v \in Verdicts, NEW w \in Scores!Better[v]
  PROVE  /\ v # "not_applicable" /\ v # "pass" /\ w # "fail"
         /\ w = "unknown" => v = "fail"
         /\ w = "partial" => v = "unknown"
         /\ w = "pass" => v = "partial"
         /\ w = "not_applicable" => v = "unknown"
         /\ w \in Verdicts
BY DEF Verdicts, Scores!Better

\* A better verdict that counts earns no less.
LEMMA BetterEarns ==
  ASSUME NEW c, IsCheck(c), NEW v \in Counts, NEW w \in Scores!Better[v],
         w # "not_applicable"
  PROVE  Scores!Points[c.rule][v] <= Scores!Points[c.rule][w]
BY DEF IsCheck, Rules, Counts, Verdicts, Scores!Points, Scores!Better

\* More points on the same weight.
LEMMA ScoreOfMore ==
  ASSUME NEW p \in ProfileNames, NEW f, Judged(p, f), NEW g, Judged(p, g),
         NEW d \in Scores!Dimensions,
         Scores!EarnedPoints(p, f, d) <= Scores!EarnedPoints(p, g, d),
         Scores!ApplicableWeight(p, g, d) <= Scores!ApplicableWeight(p, f, d)
  PROVE  Scores!DimensionScore(p, f, d) <= Scores!DimensionScore(p, g, d)
<1>. DEFINE E == Scores!EarnedPoints(p, f, d)
            W == Scores!ApplicableWeight(p, f, d)
            s == Scores!DimensionScore(p, f, d)
            G == Scores!EarnedPoints(p, g, d)
            V == Scores!ApplicableWeight(p, g, d)
            r == Scores!DimensionScore(p, g, d)
<1>1. E \in Nat /\ W \in Nat /\ G \in Nat /\ V \in Nat /\ G <= 4 * V
  BY DimensionBounds
<1>2. /\ s \in 0 .. 5
      /\ W = 0 => s = 0
      /\ W # 0 => \A n \in Nat : n <= s <=> 4 * W * n <= 5 * E
  BY ScoreIsQuotient
<1>3. /\ r \in 0 .. 5
      /\ V # 0 => \A n \in Nat : n <= r <=> 4 * V * n <= 5 * G
  BY ScoreIsQuotient
<1>4. E <= G /\ V <= W
  OBVIOUS
<1>. HIDE DEF E, W, s, G, V, r
<1>5. ASSUME W = 0 PROVE s <= r
  BY <1>2, <1>3, <1>5
<1>6. ASSUME W # 0, V = 0 PROVE s <= r
  <2>1. E = 0
    BY <1>1, <1>4, <1>6
  <2>2. ~(1 <= s)
    BY <1>1, <1>2, <1>6, <2>1
  <2>. QED  BY <1>2, <1>3, <2>2
<1>7. ASSUME W # 0, V # 0 PROVE s <= r
  <2>1. 4 * W * s <= 5 * E
    BY <1>2, <1>7
  <2>2. s * V <= s * W
    BY <1>1, <1>2, <1>4, ProductKeeps
  <2>3. 4 * V * s <= 4 * W * s /\ 4 * V * s \in Nat /\ 4 * W * s \in Nat
    <3>1. 4 * V * s = 4 * (s * V) /\ 4 * W * s = 4 * (s * W)
      BY <1>1, <1>2
    <3>2. s * V \in Nat /\ s * W \in Nat
      BY <1>1, <1>2
    <3>. QED  BY <2>2, <3>1, <3>2
  <2>4. 4 * V * s <= 5 * G
    BY <1>1, <1>4, <2>1, <2>3
  <2>. QED  BY <1>2, <1>3, <1>7, <2>4
<1>. QED  BY <1>5, <1>6, <1>7 DEF s, r

\* No dimension drops.
LEMMA NoDimensionDrops ==
  ASSUME NEW p \in ProfileNames, NEW f, Judged(p, f), NEW g, Judged(p, g), NEW b,
         Improved(p, f, g, b), NEW d \in Scores!Dimensions
  PROVE  Scores!DimensionScore(p, f, d) <= Scores!DimensionScore(p, g, d)
<1>. DEFINE A == Scores!Applicable(p, f, d)
            B == Scores!Applicable(p, g, d)
<1>1. /\ DOMAIN Weights(p, f, d) = A /\ DOMAIN Earned(p, f, d) = A
      /\ Summable(Weights(p, f, d)) /\ Summable(Earned(p, f, d))
      /\ Scores!ApplicableWeight(p, f, d) = SumFunction(Weights(p, f, d))
      /\ Scores!EarnedPoints(p, f, d) = SumFunction(Earned(p, f, d))
      /\ \A c \in A :
           /\ IsCheck(c) /\ c \in Scores!Catalog[p] /\ c.dimension = d
           /\ f[c.check] \in Counts
           /\ Weights(p, f, d)[c] = c.weight /\ c.weight \in Nat \ {0}
           /\ Earned(p, f, d)[c] = c.weight * Scores!Points[c.rule][f[c.check]]
           /\ f[c.check] \in {"fail", "unknown"} => Earned(p, f, d)[c] = 0
  BY DimensionParts
<1>2. /\ DOMAIN Weights(p, g, d) = B /\ DOMAIN Earned(p, g, d) = B
      /\ Summable(Weights(p, g, d)) /\ Summable(Earned(p, g, d))
      /\ Scores!ApplicableWeight(p, g, d) = SumFunction(Weights(p, g, d))
      /\ Scores!EarnedPoints(p, g, d) = SumFunction(Earned(p, g, d))
      /\ \A c \in B :
           /\ g[c.check] \in Counts
           /\ Earned(p, g, d)[c] = c.weight * Scores!Points[c.rule][g[c.check]]
  BY DimensionParts
<1>3. /\ A = {c \in Scores!Catalog[p] : c.dimension = d /\ f[c.check] # "not_applicable"}
      /\ B = {c \in Scores!Catalog[p] : c.dimension = d /\ g[c.check] # "not_applicable"}
  BY DEF Scores!Applicable
<1>4. /\ b \in Scores!Catalog[p] /\ g[b.check] \in Scores!Better[f[b.check]]
      /\ \A c \in Scores!Catalog[p] \ {b} : g[c.check] = f[c.check]
  BY DEF Improved
<1>5. /\ f[b.check] \in Counts /\ f[b.check] # "not_applicable"
      /\ g[b.check] = "not_applicable" => f[b.check] = "unknown"
  <2>1. f[b.check] \in Verdicts
    BY <1>4 DEF Judged
  <2>. QED  BY <1>4, <2>1, BetterIs DEF Counts
<1>. HIDE DEF A, B
<1>6. CASE b.dimension # d \/ g[b.check] # "not_applicable"
  <2>1. A = B
    BY <1>3, <1>4, <1>5, <1>6
  <2>2. Weights(p, f, d) = Weights(p, g, d)
    BY <2>1 DEF Weights, A, B
  <2>3. \A c \in A : Earned(p, f, d)[c] <= Earned(p, g, d)[c]
    <3>. SUFFICES ASSUME NEW c \in A
                  PROVE  Earned(p, f, d)[c] <= Earned(p, g, d)[c]
      OBVIOUS
    <3>. DEFINE m == Scores!Points[c.rule][f[c.check]]
                n == Scores!Points[c.rule][g[c.check]]
                w == c.weight
    <3>1. /\ Earned(p, f, d)[c] = w * m /\ Earned(p, g, d)[c] = w * n
          /\ w \in Nat
      BY <1>1, <1>2, <2>1
    <3>2. IsCheck(c) /\ f[c.check] \in Counts /\ g[c.check] \in Counts
      BY <1>1, <1>2, <2>1
    <3>3. m \in 0 .. 4 /\ n \in 0 .. 4
      BY <3>2, PointsOfVerdict
    <3>4. m <= n
      <4>1. CASE c = b
        <5>1. g[c.check] \in Scores!Better[f[c.check]] /\ g[c.check] # "not_applicable"
          BY <1>3, <1>4, <2>1, <4>1
        <5>. QED  BY <3>2, <5>1, BetterEarns
      <4>2. CASE c # b
        BY <1>1, <1>4, <3>3, <4>2
      <4>. QED  BY <4>1, <4>2
    <3>. HIDE DEF m, n, w
    <3>. QED  BY <3>1, <3>3, <3>4, ProductKeeps
  <2>4. SumFunction(Earned(p, f, d)) <= SumFunction(Earned(p, g, d))
    BY <1>1, <1>2, <2>1, <2>3, SumBelow
  <2>5. SumFunction(Weights(p, g, d)) <= SumFunction(Weights(p, f, d))
    BY <1>1, <2>2, SumType
  <2>. QED  BY <1>1, <1>2, <2>4, <2>5, ScoreOfMore
<1>7. CASE b.dimension = d /\ g[b.check] = "not_applicable"
  <2>1. b \in A /\ B = A \ {b}
    BY <1>3, <1>4, <1>5, <1>7
  <2>2. Weights(p, g, d) = Less(Weights(p, f, d), b)
    BY <1>1, <2>1 DEF Less, Weights, A, B
  <2>3. Earned(p, g, d) = Less(Earned(p, f, d), b)
    <3>1. \A c \in A \ {b} : g[c.check] = f[c.check]
      BY <1>1, <1>4
    <3>2. Earned(p, g, d) = [c \in A \ {b} |-> Earned(p, f, d)[c]]
      <4>1. Earned(p, g, d) = [c \in B |-> c.weight * Scores!Points[c.rule][g[c.check]]]
        BY DEF Earned, B
      <4>. QED  BY <1>1, <2>1, <3>1, <4>1
    <3>. QED  BY <1>1, <3>2 DEF Less
  <2>4. Earned(p, f, d)[b] = 0 /\ Weights(p, f, d)[b] \in Nat
    BY <1>1, <1>5, <1>7, <2>1
  <2>5. /\ SumFunction(Weights(p, f, d)) = Weights(p, f, d)[b] + SumFunction(Weights(p, g, d))
        /\ SumFunction(Earned(p, f, d)) = 0 + SumFunction(Earned(p, g, d))
    BY <1>1, <2>1, <2>2, <2>3, <2>4, SumSplit
  <2>6. /\ SumFunction(Weights(p, g, d)) \in Int /\ SumFunction(Earned(p, g, d)) \in Int
    BY <1>2, SumType
  <2>7. /\ SumFunction(Weights(p, g, d)) <= SumFunction(Weights(p, f, d))
        /\ SumFunction(Earned(p, f, d)) <= SumFunction(Earned(p, g, d))
    BY <2>4, <2>5, <2>6
  <2>. QED  BY <1>1, <1>2, <2>7, ScoreOfMore
<1>. QED  BY <1>6, <1>7

\* A higher total is in no lower band.
LEMMA BandRises ==
  ASSUME NEW t \in Nat, NEW u \in Nat, t <= u
  PROVE  Scores!Band(t) <= Scores!Band(u)
<1>1. Scores!Band(t) \in 1 .. 5 /\ Scores!Band(u) \in 1 .. 5
  BY BandIs
<1>2. \A i \in 1 .. 5 : i <= Scores!Band(t) => i <= Scores!Band(u)
  <2>1. \A i \in 1 .. 5 : /\ i <= Scores!Band(t) <=> 20 * (i - 1) <= t
                          /\ i <= Scores!Band(u) <=> 20 * (i - 1) <= u
    BY BandIs
  <2>. QED  BY <2>1
<1>. QED  BY <1>1, <1>2

\* When no dimension drops, the total does not.
LEMMA TotalRises ==
  ASSUME NEW p \in ProfileNames, NEW f, Judged(p, f), NEW g, Judged(p, g),
         \A d \in Scores!Dimensions :
           Scores!DimensionScore(p, f, d) <= Scores!DimensionScore(p, g, d)
  PROVE  Scores!TotalScore(p, f) <= Scores!TotalScore(p, g)
<1>. DEFINE a == SumFunction(DimensionScores(p, f))
            b == SumFunction(DimensionScores(p, g))
<1>1. /\ a \in Nat /\ Scores!TotalScore(p, f) = (a * 20) \div 7
      /\ b \in Nat /\ Scores!TotalScore(p, g) = (b * 20) \div 7
  BY TotalParts
<1>2. a <= b
  <2>1. \A d \in Scores!Dimensions : DimensionScores(p, f)[d] <= DimensionScores(p, g)[d]
    BY DEF DimensionScores
  <2>. QED  BY <2>1, TotalParts, SumBelow
<1>. HIDE DEF a, b
<1>3. (a * 20) \div 7 <= (b * 20) \div 7
  BY <1>1, <1>2
<1>. QED  BY <1>1, <1>3

\* A better finding does not lower the cap.
LEMMA CapRises ==
  ASSUME NEW p \in ProfileNames, NEW f, Judged(p, f), NEW g, Judged(p, g), NEW b,
         Improved(p, f, g, b)
  PROVE  Scores!RiskCap(p, f) <= Scores!RiskCap(p, g)
<1>. DEFINE m == Scores!RiskCap(p, f)
            n == Scores!RiskCap(p, g)
<1>1. /\ m \in 1 .. 5
      /\ \A c \in Scores!Catalog[p] :
           c.highRisk => /\ f[c.check] = "fail" => m = 1
                         /\ f[c.check] = "unknown" => m <= 2
                         /\ f[c.check] = "partial" => m <= 3
  BY RiskCapIs
<1>2. /\ n \in 1 .. 5
      /\ \/ n = 5
         \/ \E c \in Scores!Catalog[p] :
              /\ c.highRisk /\ g[c.check] \in {"fail", "unknown", "partial"}
              /\ n = Scores!HighRiskCap[g[c.check]]
  BY RiskCapIs
<1>3. /\ b \in Scores!Catalog[p] /\ g[b.check] \in Scores!Better[f[b.check]]
      /\ \A c \in Scores!Catalog[p] \ {b} : g[c.check] = f[c.check]
      /\ f[b.check] \in Verdicts
  BY DEF Improved, Judged
<1>4. /\ g[b.check] # "fail"
      /\ g[b.check] = "unknown" => f[b.check] = "fail"
      /\ g[b.check] = "partial" => f[b.check] = "unknown"
  BY <1>3, BetterIs
<1>5. /\ Scores!HighRiskCap["fail"] = 1 /\ Scores!HighRiskCap["unknown"] = 2
      /\ Scores!HighRiskCap["partial"] = 3
  BY DEF Scores!HighRiskCap
<1>. HIDE DEF m, n
<1>6. ASSUME NEW c \in Scores!Catalog[p], c.highRisk,
             g[c.check] \in {"fail", "unknown", "partial"},
             n = Scores!HighRiskCap[g[c.check]]
      PROVE  m <= n
  <2>1. CASE c = b
    BY <1>1, <1>4, <1>5, <1>6, <2>1
  <2>2. CASE c # b
    <3>1. g[c.check] = f[c.check]
      BY <1>3, <2>2
    <3>. QED  BY <1>1, <1>5, <1>6, <3>1
  <2>. QED  BY <2>1, <2>2
<1>. QED  BY <1>1, <1>2, <1>6 DEF m, n

\* A better finding of one check lowers nothing.
LEMMA BetterNeverDrops ==
  ASSUME profile \in ProfileNames, Judged(profile, findings), Judged(profile, findings'),
         NEW b, Improved(profile, findings, findings', b)
  PROVE  Scores!NothingDrops
<1>. DEFINE p == profile
            f == findings
            g == findings'
<1>1. \A d \in Scores!Dimensions :
        /\ Scores!DimensionScore(p, f, d) <= Scores!DimensionScore(p, g, d)
        /\ Scores!DimensionScore(p, f, d) \in 0 .. 5 /\ Scores!DimensionScore(p, g, d) \in 0 .. 5
  BY NoDimensionDrops, ScoreIsQuotient
<1>2. Scores!TotalScore(p, f) <= Scores!TotalScore(p, g)
  BY <1>1, TotalRises
<1>3. Scores!TotalScore(p, f) \in Nat /\ Scores!TotalScore(p, g) \in Nat
  BY TotalParts
<1>4. Scores!RatingRank(p, f) <= Scores!RatingRank(p, g)
  <2>. DEFINE x == Scores!Band(Scores!TotalScore(p, f))
              y == Scores!Band(Scores!TotalScore(p, g))
              m == Scores!RiskCap(p, f)
              n == Scores!RiskCap(p, g)
              r == Scores!RatingRank(p, f)
              s == Scores!RatingRank(p, g)
  <2>1. x <= y /\ x \in 1 .. 5 /\ y \in 1 .. 5
    BY <1>2, <1>3, BandRises, BandIs
  <2>2. m <= n /\ m \in 1 .. 5 /\ n \in 1 .. 5
    BY CapRises, RiskCapIs
  <2>3. r \in 1 .. 5 /\ (r <= r <=> r <= x /\ r <= m)
    BY RankIs
  <2>4. s \in 1 .. 5 /\ \A i \in Nat : i <= s <=> i <= y /\ i <= n
    BY RankIs
  <2>. HIDE DEF x, y, m, n, r, s
  <2>5. r <= s
    BY <2>1, <2>2, <2>3, <2>4
  <2>. QED  BY <2>5 DEF r, s
<1>5. \A a, c \in Int : a <= c <=> c >= a
  OBVIOUS
<1>6. Scores!RatingRank(p, f) \in 1 .. 5 /\ Scores!RatingRank(p, g) \in 1 .. 5
  BY RankIs
<1>. QED  BY <1>1, <1>2, <1>3, <1>4, <1>5, <1>6 DEF Scores!NothingDrops

-----------------------------------------------------------------------------
(* Rounding.                                                               *)

\* f gives the product of each of some sets.
Products(f, sets) ==
  f = [s \in sets |-> IF s = {} THEN 1 ELSE Pick(s) * f[s \ {Pick(s)}]]

\* A product is a positive multiple of each of its factors.
LEMMA ProductIsMultiple ==
  ASSUME NEW S, IsFiniteSet(S), S \subseteq Nat \ {0}
  PROVE  /\ Scores!ProductSet(S) \in Nat \ {0}
         /\ \A x \in S : \E n \in Nat : Scores!ProductSet(S) = x * n
<1>. DEFINE f == CHOOSE h : h = [s \in SUBSET S |->
       IF s = {} THEN 1 ELSE (CHOOSE x \in s : TRUE) * h[s \ {CHOOSE x \in s : TRUE}]]
            op == [t \in S \X Int |-> t[1] * t[2]]
<1>1. Scores!ProductSet(S) = f[S]
  BY DEF Scores!ProductSet, Scores!FoldSet, Scores!MapThenFoldSet
<1>2. \E h : Products(h, SUBSET S)
  <2>1. op \in [S \X Int -> Int]
    <3>1. \A x \in S, n \in Int : x * n \in Int
      OBVIOUS
    <3>. QED  BY <3>1
  <2>2. \A x \in S, n \in Int : op[<<x, n>>] = x * n
    OBVIOUS
  <2>. HIDE DEF op
  <2>3. PICK h \in [SUBSET S -> Int] : Folds(h, op, 1, SUBSET S)
    <3>1. 1 \in Int
      OBVIOUS
    <3>. QED  BY <2>1, <3>1, FoldsExist
  <2>4. ASSUME NEW s \in SUBSET S, s # {}
        PROVE  op[<<Pick(s), h[s \ {Pick(s)}]>>] = Pick(s) * h[s \ {Pick(s)}]
    <3>1. Pick(s) \in S /\ s \ {Pick(s)} \in SUBSET S
      BY <2>4 DEF Pick
    <3>. QED  BY <2>2, <3>1
  <2>5. h = [s \in SUBSET S |-> IF s = {} THEN 1 ELSE Pick(s) * h[s \ {Pick(s)}]]
    BY <2>3, <2>4 DEF Folds
  <2>. QED  BY <2>5 DEF Products
<1>3. Products(f, SUBSET S)
  BY <1>2 DEF Products, Pick
<1>. HIDE DEF f, op
<1>4. \A s \in SUBSET S : f[s] = IF s = {} THEN 1 ELSE Pick(s) * f[s \ {Pick(s)}]
  BY <1>3 DEF Products
<1>. DEFINE Good(s) == f[s] \in Nat \ {0} /\ \A x \in s : \E n \in Nat : f[s] = x * n
            Bad == {s \in SUBSET S : ~Good(s)}
<1>5. Bad = {}
  <2>. SUFFICES ASSUME Bad # {} PROVE FALSE
    OBVIOUS
  <2>1. PICK s \in Bad : \A t \in SUBSET s : t # s => t \notin Bad
    <3>1. Bad \subseteq SUBSET S
      OBVIOUS
    <3>. HIDE DEF Bad
    <3>. QED  BY <3>1, Smallest
  <2>2. s \in SUBSET S /\ ~Good(s) /\ \A t \in SUBSET s : t # s => Good(t)
    BY <2>1
  <2>3. s # {}
    <3>1. f[{}] = 1
      BY <1>4
    <3>2. Good({})
      BY <3>1
    <3>. HIDE DEF Good
    <3>. QED  BY <2>2, <3>2
  <2>. DEFINE y == Pick(s)
              r == f[s \ {y}]
  <2>4. y \in s /\ y \in Nat \ {0} /\ f[s] = y * r
    BY <1>4, <2>2, <2>3 DEF Pick
  <2>. HIDE DEF y
  <2>5. r \in Nat \ {0} /\ \A x \in s \ {y} : \E n \in Nat : r = x * n
    BY <2>2, <2>4
  <2>. HIDE DEF r
  <2>6. f[s] \in Nat \ {0}
    <3>1. y * r \in Nat /\ y * r # 0
      BY <2>4, <2>5
    <3>. QED  BY <2>4, <3>1
  <2>7. ASSUME NEW x \in s
        PROVE  \E n \in Nat : f[s] = x * n
    <3>1. CASE x = y
      BY <2>4, <2>5, <3>1
    <3>2. CASE x # y
      <4>1. PICK n \in Nat : r = x * n
        BY <2>5, <3>2
      <4>2. x \in Nat
        BY <2>2
      <4>3. y * (x * n) = x * (y * n) /\ y * n \in Nat
        BY <2>4, <4>1, <4>2
      <4>4. f[s] = x * (y * n)
        BY <2>4, <4>1, <4>3
      <4>. QED  BY <4>3, <4>4
    <3>. QED  BY <3>1, <3>2
  <2>. QED  BY <2>2, <2>6, <2>7
<1>6. Good(S)
  <2>. HIDE DEF Good
  <2>. QED  BY <1>5
<1>. QED  BY <1>1, <1>6

\* Multiples: a positive factor cancels.
LEMMA FactorCancels ==
  ASSUME NEW c \in Nat \ {0}, NEW a \in Int, NEW b \in Int
  PROVE  /\ c * a <= c * b <=> a <= b
         /\ c * a \in Int /\ c * b \in Int
<1>1. CASE a <= b
  <2>1. PICK n \in Nat : b = a + n
    <3>1. b - a \in Nat /\ b = a + (b - a)
      BY <1>1
    <3>. QED  BY <3>1
  <2>2. c * b = c * a + c * n /\ c * n \in Nat /\ c * a \in Int
    BY <2>1
  <2>. QED  BY <1>1, <2>2
<1>2. CASE b + 1 <= a
  <2>1. PICK n \in Nat : a = b + 1 + n
    <3>1. a - b - 1 \in Nat /\ a = b + 1 + (a - b - 1)
      BY <1>2
    <3>. QED  BY <3>1
  <2>2. c * a = c * b + c + c * n /\ c * n \in Nat /\ c * b \in Int /\ c * a \in Int
    BY <2>1
  <2>. QED  BY <1>2, <2>2
<1>. QED  BY <1>1, <1>2

\* A multiple of w is w times its quotient.
LEMMA MultipleIs ==
  ASSUME NEW c \in Nat \ {0}, NEW w \in Nat \ {0}, NEW n \in Nat, c = w * n
  PROVE  c \div w \in Nat /\ w * (c \div w) = c
<1>1. c \div w \in Nat /\ w * (c \div w) <= c
  BY DivBounds
<1>2. n <= c \div w
  BY DivUnique
<1>3. w * n <= w * (c \div w)
  BY <1>1, <1>2, ProductKeeps
<1>. DEFINE q == c \div w
<1>4. w * q \in Nat
  BY <1>1
<1>. HIDE DEF q
<1>. QED  BY <1>1, <1>3, <1>4 DEF q

\* What a plain dimension earns is a whole, a half or nothing of its marks.
LEMMA PlainEarns ==
  ASSUME NEW p \in ProfileNames, NEW f, Judged(p, f), NEW d \in PlainDimensions,
         NEW E, E = Scores!EarnedPoints(p, f, d),
         NEW W, W = Scores!ApplicableWeight(p, f, d)
  PROVE  E = 0 \/ E = 2 * W \/ E = 4 * W
<1>. DEFINE A == Scores!Applicable(p, f, d)
            w == Weights(p, f, d)
            e == Earned(p, f, d)
<1>1. d \in Scores!Dimensions
  BY DEF PlainDimensions, Scores!Dimensions
<1>2. /\ DOMAIN w = A /\ DOMAIN e = A /\ Summable(w) /\ Summable(e)
      /\ W = SumFunction(w) /\ E = SumFunction(e)
      /\ \A c \in A :
           /\ IsCheck(c) /\ c \in Scores!Catalog[p] /\ c.dimension = d
           /\ f[c.check] \in Counts
           /\ w[c] = c.weight /\ c.weight \in Nat \ {0}
           /\ e[c] = c.weight * Scores!Points[c.rule][f[c.check]]
  BY <1>1, DimensionParts
<1>. HIDE DEF A, w, e
<1>3. CASE A = {}
  BY <1>2, <1>3, SumEmpty
<1>4. CASE A # {}
  <2>1. PICK c \in A : TRUE
    BY <1>4
  <2>2. A = {c}
    BY <1>2, CatalogRows
  <2>3. c.rule = "positive_capability_v1"
    BY <1>2, CatalogRows
  <2>4. /\ W = w[c] + SumFunction(Less(w, c))
        /\ E = e[c] + SumFunction(Less(e, c))
    BY <1>2, SumSplit
  <2>5. SumFunction(Less(w, c)) = 0 /\ SumFunction(Less(e, c)) = 0
    <3>1. DOMAIN Less(w, c) = {} /\ DOMAIN Less(e, c) = {}
      BY <1>2, <2>2 DEF Less
    <3>. QED  BY <3>1, SumEmpty
  <2>. DEFINE k == c.weight
              n == Scores!Points[c.rule][f[c.check]]
  <2>6. n \in {0, 2, 4}
    BY <1>2, <2>3, PointsOfVerdict
  <2>7. k \in Nat /\ W = k + 0 /\ E = k * n + 0
    BY <1>2, <2>4, <2>5
  <2>. HIDE DEF k, n
  <2>8. k * 0 = 0 /\ k * 2 = 2 * k /\ k * 4 = 4 * k
    BY <2>7
  <2>. QED  BY <2>6, <2>7, <2>8
<1>. QED  BY <1>3, <1>4

\* How far a dimension can be from its score, in fractions of which c makes one.
Loss(c) == [d \in Scores!Dimensions |-> IF d \in PlainDimensions THEN 2 * c ELSE 4 * c]

\* A score is at most what its dimension earned, and short of it by less than that.
LEMMA ScoreIsNear ==
  ASSUME NEW p \in ProfileNames, NEW f, Judged(p, f), NEW d \in Scores!Dimensions,
         NEW w, w = Scores!Max({1, Scores!ApplicableWeight(p, f, d)}),
         NEW q \in Nat, NEW c \in Nat \ {0}, c = w * q,
         NEW x, x = 5 * Scores!EarnedPoints(p, f, d) * q,
         NEW s, s = Scores!DimensionScore(p, f, d)
  PROVE  /\ x \in Nat /\ 4 * c * s \in Nat
         /\ 4 * c * s <= x /\ x <= 4 * c * s + Loss(c)[d]
<1>. DEFINE E == Scores!EarnedPoints(p, f, d)
            W == Scores!ApplicableWeight(p, f, d)
            m == Loss(c)[d]
<1>1. /\ E \in Nat /\ W \in Nat /\ E <= 4 * W
  BY DimensionBounds
<1>2. /\ s \in 0 .. 5
      /\ W = 0 => s = 0
      /\ W # 0 => \A n \in Nat : n <= s <=> 4 * W * n <= 5 * E
  BY ScoreIsQuotient
<1>3. d \in PlainDimensions => E = 0 \/ E = 2 * W \/ E = 4 * W
  BY PlainEarns
<1>4. m \in {2 * c, 4 * c} /\ (d \notin PlainDimensions => m = 4 * c)
  BY DEF Loss
<1>5. w = IF W = 0 THEN 1 ELSE W
  <2>1. w \in {1, W} /\ w >= 1 /\ w >= W
    <3>1. \E y \in {1, W} : \A z \in {1, W} : y >= z
      BY <1>1
    <3>. HIDE DEF W
    <3>. QED  BY <3>1 DEF Scores!Max, W
  <2>. QED  BY <1>1, <2>1
<1>6. x = 5 * E * q
  OBVIOUS
<1>. HIDE DEF E, W, m
<1>7. x \in Nat /\ 4 * c * s \in Nat
  BY <1>1, <1>2, <1>6
<1>8. CASE W = 0
  <2>1. E = 0 /\ s = 0 /\ m \in Nat
    BY <1>1, <1>2, <1>4, <1>8
  <2>2. x = 0 /\ 4 * c * s = 0
    BY <1>6, <2>1
  <2>. QED  BY <2>1, <2>2 DEF m
<1>9. CASE W # 0
  <2>1. c = W * q /\ q # 0
    BY <1>1, <1>5, <1>9
  <2>2. q \in Nat \ {0}
    BY <2>1
  <2>3. /\ x = q * (5 * E)
        /\ 4 * c * s = q * (4 * W * s)
        /\ 4 * c * s + 4 * c = q * (4 * W * s + 4 * W)
        /\ 4 * c * s + 2 * c = q * (4 * W * s + 2 * W)
    <3>. DEFINE v == 4 * W * s
    <3>1. v \in Int /\ q * v = 4 * (W * q) * s
      BY <1>1, <1>2
    <3>. HIDE DEF v
    <3>2. /\ q * (5 * E) = 5 * E * q
          /\ q * (v + 4 * W) = q * v + 4 * (W * q)
          /\ q * (v + 2 * W) = q * v + 2 * (W * q)
      BY <1>1, <3>1
    <3>. QED  BY <1>6, <2>1, <3>1, <3>2 DEF v
  <2>4. /\ 4 * W * s <= 5 * E
        /\ 5 * E <= 4 * W * s + 4 * W
        /\ 4 * W * s \in Int
    <3>1. ~(4 * W * (s + 1) <= 5 * E)
      BY <1>2, <1>9
    <3>2. 4 * W * (s + 1) = 4 * W * s + 4 * W /\ 4 * W * s \in Int
      BY <1>1, <1>2
    <3>3. 4 * W * s <= 5 * E
      BY <1>2, <1>9
    <3>. QED  BY <1>1, <3>1, <3>2, <3>3
  <2>5. d \in PlainDimensions => 5 * E <= 4 * W * s + 2 * W
    <3>1. CASE E = 0
      <4>1. 4 * W * s \in Nat
        BY <1>1, <1>2
      <4>. QED  BY <1>1, <3>1, <4>1
    <3>2. CASE E = 2 * W
      <4>1. 4 * W * 2 <= 5 * E
        BY <1>1, <3>2
      <4>2. 2 <= s
        BY <1>2, <1>9, <4>1
      <4>3. W * 2 <= W * s /\ W * s \in Nat
        BY <1>1, <1>2, <4>2, ProductKeeps
      <4>4. 4 * W * s = 4 * (W * s)
        BY <1>1, <1>2
      <4>. QED  BY <1>1, <3>2, <4>3, <4>4
    <3>3. CASE E = 4 * W
      <4>1. 4 * W * 5 <= 5 * E
        BY <1>1, <3>3
      <4>2. 5 <= s
        BY <1>2, <1>9, <4>1
      <4>3. s = 5
        BY <1>2, <4>2
      <4>. QED  BY <1>1, <3>3, <4>3
    <3>. QED  BY <1>3, <3>1, <3>2, <3>3
  <2>6. 4 * c * s <= x
    BY <1>1, <2>2, <2>3, <2>4, FactorCancels
  <2>7. x <= 4 * c * s + 4 * c
    <3>1. 4 * W * s + 4 * W \in Int /\ 5 * E \in Int
      BY <1>1, <2>4
    <3>. QED  BY <2>2, <2>3, <2>4, <3>1, FactorCancels
  <2>8. d \in PlainDimensions => x <= 4 * c * s + 2 * c
    <3>1. 4 * W * s + 2 * W \in Int /\ 5 * E \in Int
      BY <1>1, <2>4
    <3>. QED  BY <2>2, <2>3, <2>5, <3>1, FactorCancels
  <2>9. x <= 4 * c * s + m
    BY <1>4, <1>7, <2>7, <2>8
  <2>. QED  BY <1>7, <2>6, <2>9 DEF m
<1>. QED  BY <1>8, <1>9

\* A sum over the seven dimensions.
LEMMA SumOfSeven ==
  ASSUME NEW g, Summable(g), DOMAIN g = Scores!Dimensions
  PROVE  SumFunction(g)
           = g["capability_clarity"] + g["interface_openness"] + g["automation_readiness"]
             + g["data_portability"] + g["permission_risk"] + g["evidence_quality"]
             + g["ecosystem_fit"]
<1>. DEFINE d1 == "capability_clarity"
            d2 == "interface_openness"
            d3 == "automation_readiness"
            d4 == "data_portability"
            d5 == "permission_risk"
            d6 == "evidence_quality"
            d7 == "ecosystem_fit"
            g1 == Less(g, d1)
            g2 == Less(g1, d2)
            g3 == Less(g2, d3)
            g4 == Less(g3, d4)
            g5 == Less(g4, d5)
            g6 == Less(g5, d6)
            g7 == Less(g6, d7)
<1>1. /\ DOMAIN g = {d1, d2, d3, d4, d5, d6, d7}
      /\ DOMAIN g1 = {d2, d3, d4, d5, d6, d7} /\ \A d \in DOMAIN g1 : g1[d] = g[d]
      /\ DOMAIN g2 = {d3, d4, d5, d6, d7} /\ \A d \in DOMAIN g2 : g2[d] = g1[d]
      /\ DOMAIN g3 = {d4, d5, d6, d7} /\ \A d \in DOMAIN g3 : g3[d] = g2[d]
      /\ DOMAIN g4 = {d5, d6, d7} /\ \A d \in DOMAIN g4 : g4[d] = g3[d]
      /\ DOMAIN g5 = {d6, d7} /\ \A d \in DOMAIN g5 : g5[d] = g4[d]
      /\ DOMAIN g6 = {d7} /\ \A d \in DOMAIN g6 : g6[d] = g5[d]
      /\ DOMAIN g7 = {}
  <2>1. ASSUME NEW h, NEW x
        PROVE  /\ DOMAIN Less(h, x) = DOMAIN h \ {x}
               /\ \A d \in DOMAIN Less(h, x) : Less(h, x)[d] = h[d]
    BY DEF Less
  <2>2. DOMAIN g = {d1, d2, d3, d4, d5, d6, d7}
    BY DEF Scores!Dimensions
  <2>3. {d1, d2, d3, d4, d5, d6, d7} \ {d1} = {d2, d3, d4, d5, d6, d7}
    OBVIOUS
  <2>4. {d2, d3, d4, d5, d6, d7} \ {d2} = {d3, d4, d5, d6, d7}
    OBVIOUS
  <2>5. {d3, d4, d5, d6, d7} \ {d3} = {d4, d5, d6, d7}
    OBVIOUS
  <2>6. {d4, d5, d6, d7} \ {d4} = {d5, d6, d7}
    OBVIOUS
  <2>7. {d5, d6, d7} \ {d5} = {d6, d7}
    OBVIOUS
  <2>8. {d6, d7} \ {d6} = {d7} /\ {d7} \ {d7} = {}
    OBVIOUS
  <2>. HIDE DEF d1, d2, d3, d4, d5, d6, d7
  <2>. HIDE DEF g1, g2, g3, g4, g5, g6, g7
  <2>9. DOMAIN g1 = {d2, d3, d4, d5, d6, d7} /\ \A d \in DOMAIN g1 : g1[d] = g[d]
    BY <2>1, <2>2, <2>3 DEF g1
  <2>10. DOMAIN g2 = {d3, d4, d5, d6, d7} /\ \A d \in DOMAIN g2 : g2[d] = g1[d]
    BY <2>1, <2>9, <2>4 DEF g2
  <2>11. DOMAIN g3 = {d4, d5, d6, d7} /\ \A d \in DOMAIN g3 : g3[d] = g2[d]
    BY <2>1, <2>10, <2>5 DEF g3
  <2>12. DOMAIN g4 = {d5, d6, d7} /\ \A d \in DOMAIN g4 : g4[d] = g3[d]
    BY <2>1, <2>11, <2>6 DEF g4
  <2>13. DOMAIN g5 = {d6, d7} /\ \A d \in DOMAIN g5 : g5[d] = g4[d]
    BY <2>1, <2>12, <2>7 DEF g5
  <2>14. DOMAIN g6 = {d7} /\ \A d \in DOMAIN g6 : g6[d] = g5[d]
    BY ZenonT(30), <2>1, <2>13, <2>8 DEF g6
  <2>15. DOMAIN g7 = {} /\ \A d \in DOMAIN g7 : g7[d] = g6[d]
    BY ZenonT(30), <2>1, <2>14, <2>8 DEF g7
  <2>. QED  BY <2>2, <2>9, <2>10, <2>11, <2>12, <2>13, <2>14, <2>15
<1>. HIDE DEF g1, g2, g3, g4, g5, g6, g7, d1, d2, d3, d4, d5, d6, d7
<1>2. Summable(g1) /\ SumFunction(g) = g[d1] + SumFunction(g1)
  BY <1>1, SumSplit DEF g1
<1>3. Summable(g2) /\ SumFunction(g1) = g1[d2] + SumFunction(g2)
  BY <1>1, <1>2, SumSplit DEF g2
<1>4. Summable(g3) /\ SumFunction(g2) = g2[d3] + SumFunction(g3)
  BY <1>1, <1>3, SumSplit DEF g3
<1>5. Summable(g4) /\ SumFunction(g3) = g3[d4] + SumFunction(g4)
  BY <1>1, <1>4, SumSplit DEF g4
<1>6. Summable(g5) /\ SumFunction(g4) = g4[d5] + SumFunction(g5)
  BY <1>1, <1>5, SumSplit DEF g5
<1>7. Summable(g6) /\ SumFunction(g5) = g5[d6] + SumFunction(g6)
  BY <1>1, <1>6, SumSplit DEF g6
<1>8. SumFunction(g6) = g6[d7] + SumFunction(g7) /\ SumFunction(g7) = 0
  BY <1>1, <1>7, SumSplit, SumEmpty DEF g7
<1>9. /\ g1[d2] = g[d2] /\ g2[d3] = g[d3] /\ g3[d4] = g[d4] /\ g4[d5] = g[d5]
      /\ g5[d6] = g[d6] /\ g6[d7] = g[d7]
  BY <1>1
<1>10. /\ g[d1] \in Int /\ g[d2] \in Int /\ g[d3] \in Int /\ g[d4] \in Int
       /\ g[d5] \in Int /\ g[d6] \in Int /\ g[d7] \in Int
  BY <1>1 DEF Summable
<1>11. SumFunction(g) = g[d1] + g[d2] + g[d3] + g[d4] + g[d5] + g[d6] + g[d7]
  BY <1>2, <1>3, <1>4, <1>5, <1>6, <1>7, <1>8, <1>9, <1>10
<1>. QED  BY <1>11 DEF d1, d2, d3, d4, d5, d6, d7

\* Five halves and two wholes are what the dimensions lose at most.
LEMMA SumOfLoss ==
  ASSUME NEW c \in Nat
  PROVE  /\ Summable(Loss(c)) /\ DOMAIN Loss(c) = Scores!Dimensions
         /\ SumFunction(Loss(c)) = 18 * c
<1>1. DOMAIN Loss(c) = Scores!Dimensions
      /\ \A d \in Scores!Dimensions :
           /\ d \in PlainDimensions => Loss(c)[d] = 2 * c
           /\ d \notin PlainDimensions => Loss(c)[d] = 4 * c
  BY DEF Loss
<1>2. \A d \in Scores!Dimensions : Loss(c)[d] \in Int
  BY <1>1
<1>3. Summable(Loss(c))
  BY <1>1, <1>2, DimensionsAreFinite DEF Summable
<1>4. /\ Loss(c)["capability_clarity"] = 2 * c /\ Loss(c)["interface_openness"] = 2 * c
      /\ Loss(c)["automation_readiness"] = 4 * c /\ Loss(c)["data_portability"] = 2 * c
      /\ Loss(c)["permission_risk"] = 4 * c /\ Loss(c)["evidence_quality"] = 2 * c
      /\ Loss(c)["ecosystem_fit"] = 2 * c
  BY <1>1 DEF PlainDimensions, Scores!Dimensions
<1>5. SumFunction(Loss(c)) = 2*c + 2*c + 4*c + 2*c + 4*c + 2*c + 2*c
  BY <1>1, <1>3, <1>4, SumOfSeven
<1>. QED  BY <1>1, <1>3, <1>5

\* The two averages: c of a fraction makes one, X is the exact sum in quarters of
\* such fractions and T the sum of the scores.
LEMMA AveragesAreNear ==
  ASSUME NEW c \in Nat \ {0}, NEW X \in Nat, NEW T \in Nat,
         4 * c * T <= X, X <= 4 * c * T + 18 * c
  PROVE  /\ (X * 20) \div (28 * c) \in Nat
         /\ (T * 20) \div 7 <= (X * 20) \div (28 * c)
         /\ (X * 20) \div (28 * c) < (T * 20) \div 7 + 15
<1>. DEFINE n == (T * 20) \div 7
            a == X * 20
            b == 28 * c
            s == a \div b
            k == 4 * c
<1>1. n \in Nat /\ 7 * n <= 20 * T /\ 20 * T < 7 * n + 7
  <2>1. T * 20 \in Nat /\ T * 20 = 20 * T
    OBVIOUS
  <2>. QED  BY <2>1, DivBounds
<1>2. a \in Nat /\ b \in Nat \ {0} /\ k \in Nat \ {0}
  OBVIOUS
<1>. HIDE DEF n
<1>3. s \in Nat /\ \A i \in Nat : i <= s <=> b * i <= a
  <2>. HIDE DEF a, b
  <2>. QED  BY <1>2, DivBounds, DivUnique
<1>4. /\ 20 * (k * T) <= a
      /\ 5 * a <= 100 * (k * T) + 450 * k
      /\ k * T \in Nat
  <2>1. k * T = 4 * c * T /\ k * T \in Nat
    OBVIOUS
  <2>2. 18 * c * 4 = 18 * k
    OBVIOUS
  <2>3. a = 20 * X /\ 4 * X <= 4 * (k * T) + 18 * k /\ k * T <= X
    BY <2>1, <2>2
  <2>. HIDE DEF k, a
  <2>. QED  BY <1>2, <2>1, <2>3
<1>5. \A i \in Nat : b * i = k * (7 * i)
  OBVIOUS
<1>6. 20 * (k * T) = k * (20 * T)
  OBVIOUS
<1>7. n <= s
  <2>1. k * (7 * n) <= k * (20 * T) /\ k * (7 * n) \in Int
    BY <1>1, <1>2, FactorCancels
  <2>2. b * n <= a
    <3>. HIDE DEF a, b, k, s
    <3>. QED  BY <1>1, <1>2, <1>4, <1>5, <1>6, <2>1
  <2>. QED  BY <1>1, <1>3, <2>2
<1>8. s < n + 15
  <2>. SUFFICES ASSUME n + 15 <= s PROVE FALSE
    <3>. HIDE DEF s
    <3>. QED  BY <1>1, <1>3
  <2>1. b * (n + 15) <= a
    <3>1. n + 15 \in Nat
      BY <1>1
    <3>. QED  BY <1>3, <3>1
  <2>2. k * (7 * (n + 15)) <= a /\ k * (7 * (n + 15)) \in Int
    <3>. HIDE DEF k, a, b, s
    <3>. QED  BY <1>1, <1>2, <1>5, <2>1
  <2>3. 5 * (k * (7 * (n + 15))) = k * (35 * n + 525)
    <3>. HIDE DEF k
    <3>. QED  BY <1>1, <1>2
  <2>4. 100 * (k * T) + 450 * k = k * (100 * T + 450)
    <3>. HIDE DEF k
    <3>. QED  BY <1>2
  <2>5. k * (35 * n + 525) <= k * (100 * T + 450)
    <3>. DEFINE u == k * (7 * (n + 15))
    <3>. HIDE DEF k, a, u
    <3>1. 5 * u <= 5 * a
      BY <1>2, <2>2 DEF u
    <3>. QED  BY <1>2, <1>4, <2>2, <2>3, <2>4, <3>1 DEF u
  <2>6. 35 * n + 525 <= 100 * T + 450
    <3>1. 35 * n + 525 \in Int /\ 100 * T + 450 \in Int
      BY <1>1
    <3>. HIDE DEF k
    <3>. QED  BY <1>2, <2>5, <3>1, FactorCancels
  <2>. QED  BY <1>1, <2>6
<1>. QED  BY <1>3, <1>7, <1>8 DEF n

\* Less than 15 points further is at most one rating further.
LEMMA OneBandAtMost ==
  ASSUME NEW t \in Nat, NEW s \in Nat, s < t + 15
  PROVE  Scores!Band(s) <= Scores!Band(t) + 1
<1>. DEFINE a == Scores!Band(t)
            b == Scores!Band(s)
<1>1. /\ a \in 1 .. 5 /\ b \in 1 .. 5
      /\ \A i \in 1 .. 5 : /\ i <= a <=> 20 * (i - 1) <= t
                           /\ i <= b <=> 20 * (i - 1) <= s
  BY BandIs
<1>. HIDE DEF a, b
<1>2. CASE a = 5
  BY <1>1, <1>2 DEF a, b
<1>3. CASE a < 5
  <2>1. a + 1 \in 1 .. 5 /\ ~(20 * ((a + 1) - 1) <= t)
    BY <1>1, <1>3
  <2>2. CASE a = 4
    BY <1>1, <2>2 DEF a, b
  <2>3. CASE a < 4
    <3>1. a + 2 \in 1 .. 5
      BY <1>1, <2>3
    <3>2. (a + 2 <= b) <=> 20 * ((a + 2) - 1) <= s
      BY <1>1, <3>1
    <3>3. b <= a + 1
      BY <1>1, <2>1, <3>2
    <3>. QED  BY <3>3 DEF a, b
  <2>. QED  BY <1>1, <1>3, <2>2, <2>3
<1>. QED  BY <1>1, <1>2, <1>3

\* The rounding costs at most one rating.
LEMMA OneBand ==
  ASSUME profile \in ProfileNames, Judged(profile, findings)
  PROVE  Scores!FlooringCostsOneBand
<1>. DEFINE p == profile
            f == findings
            D == Scores!Dimensions
            weight == [d \in D |-> Scores!Max({1, Scores!ApplicableWeight(p, f, d)})]
            c == Scores!ProductSet({weight[d] : d \in D})
            xs == [d \in D |-> 5 * Scores!EarnedPoints(p, f, d) * (c \div weight[d])]
            g == DimensionScores(p, f)
            X == SumFunction(xs)
            T == SumFunction(g)
            t == Scores!TotalScore(p, f)
            s == (X * 20) \div (28 * c)
            low == [d \in D |-> 4 * c * g[d]]
            high == [d \in D |-> 4 * c * g[d] + Loss(c)[d]]
<1>1. \A d \in D : weight[d] \in Nat \ {0}
  <2>. SUFFICES ASSUME NEW d \in D PROVE weight[d] \in Nat \ {0}
    OBVIOUS
  <2>. DEFINE W == Scores!ApplicableWeight(p, f, d)
  <2>1. W \in Nat
    BY DimensionBounds
  <2>2. weight[d] = Scores!Max({1, W})
    OBVIOUS
  <2>. HIDE DEF W, weight
  <2>3. \E y \in {1, W} : \A z \in {1, W} : y >= z
    BY <2>1
  <2>4. weight[d] \in {1, W} /\ weight[d] >= 1
    BY <2>2, <2>3 DEF Scores!Max
  <2>. QED  BY <2>1, <2>4
<1>2. /\ c \in Nat \ {0}
      /\ \A d \in D : \E n \in Nat : c = weight[d] * n
  <2>. DEFINE S == {weight[d] : d \in D}
  <2>1. IsFiniteSet(S)
    <3>1. weight \in Surjection(D, S)
      BY DEF Surjection
    <3>. HIDE DEF weight, S
    <3>. QED  BY <3>1, DimensionsAreFinite, FS_Surjection
  <2>2. S \subseteq Nat \ {0} /\ \A d \in D : weight[d] \in S
    BY <1>1
  <2>. HIDE DEF weight, S
  <2>3. Scores!ProductSet(S) \in Nat \ {0}
        /\ \A x \in S : \E n \in Nat : Scores!ProductSet(S) = x * n
    BY <2>1, <2>2, ProductIsMultiple
  <2>. QED  BY <2>2, <2>3 DEF S
<1>3. /\ Summable(g) /\ DOMAIN g = D /\ T \in Nat
      /\ t = (T * 20) \div 7 /\ t \in Nat
      /\ \A d \in D : g[d] = Scores!DimensionScore(p, f, d)
  BY TotalParts DEF DimensionScores
<1>4. /\ Summable(Loss(c)) /\ DOMAIN Loss(c) = D /\ SumFunction(Loss(c)) = 18 * c
  BY <1>2, SumOfLoss
<1>5. ASSUME NEW d \in D
      PROVE  /\ xs[d] \in Nat /\ 4 * c * g[d] \in Nat
             /\ 4 * c * g[d] <= xs[d] /\ xs[d] <= 4 * c * g[d] + Loss(c)[d]
  <2>. DEFINE w == weight[d]
              q == c \div w
  <2>1. PICK n \in Nat : c = w * n
    BY <1>2
  <2>2. w \in Nat \ {0}
    BY <1>1
  <2>3. q \in Nat /\ c = w * q
    <3>. HIDE DEF w, c
    <3>. QED  BY <1>2, <2>1, <2>2, MultipleIs
  <2>4. /\ w = Scores!Max({1, Scores!ApplicableWeight(p, f, d)})
        /\ xs[d] = 5 * Scores!EarnedPoints(p, f, d) * q
        /\ g[d] = Scores!DimensionScore(p, f, d)
    BY <1>3
  <2>. HIDE DEF w, c, xs, g, q
  <2>. QED  BY <1>2, <2>3, <2>4, ScoreIsNear
<1>. HIDE DEF c, g, weight
<1>6. Summable(xs) /\ DOMAIN xs = D
  <2>1. DOMAIN xs = D
    OBVIOUS
  <2>. HIDE DEF xs
  <2>. QED  BY <1>5, <2>1, DimensionsAreFinite DEF Summable
<1>7. Summable(low) /\ SumFunction(low) = 4 * c * T /\ DOMAIN low = D
      /\ \A d \in D : low[d] = 4 * c * g[d]
  <2>1. low = [d \in DOMAIN g |-> (4 * c) * g[d]]
    BY <1>3
  <2>2. 4 * c \in Int
    BY <1>2
  <2>3. Summable(low) /\ SumFunction(low) = (4 * c) * T
    <3>. HIDE DEF low
    <3>. QED  BY <1>3, <2>1, <2>2, SumScale
  <2>. QED  BY <2>3
<1>8. Summable(high) /\ SumFunction(high) = 4 * c * T + 18 * c /\ DOMAIN high = D
      /\ \A d \in D : high[d] = 4 * c * g[d] + Loss(c)[d]
  <2>1. high = [d \in DOMAIN g |-> (4 * c) * g[d] + Loss(c)[d]]
    BY <1>3
  <2>2. 4 * c \in Int
    BY <1>2
  <2>3. Summable(high) /\ SumFunction(high) = (4 * c) * T + 18 * c
    <3>. HIDE DEF high
    <3>. QED  BY <1>3, <1>4, <2>1, <2>2, SumLinear
  <2>. QED  BY <2>3
<1>. HIDE DEF xs, low, high
<1>9. 4 * c * T <= X
  <2>1. SumFunction(low) <= SumFunction(xs)
    BY <1>5, <1>6, <1>7, SumBelow
  <2>. QED  BY <1>7, <2>1
<1>10. X <= 4 * c * T + 18 * c
  <2>1. SumFunction(xs) <= SumFunction(high)
    BY <1>5, <1>6, <1>8, SumBelow
  <2>. QED  BY <1>8, <2>1
<1>11. X \in Nat
  <2>1. X \in Int /\ 4 * c * T \in Nat
    BY <1>2, <1>3, <1>6, SumType
  <2>. QED  BY <1>9, <2>1
<1>. HIDE DEF X, T
<1>12. s \in Nat /\ t <= s /\ s < t + 15
  BY <1>2, <1>3, <1>9, <1>10, <1>11, AveragesAreNear
<1>13. Scores!Band(s) <= Scores!Band(t) + 1
  <2>. HIDE DEF s, t
  <2>. QED  BY <1>3, <1>12, OneBandAtMost
<1>. QED  BY <1>12, <1>13, ScoresSum DEF Scores!FlooringCostsOneBand, c, weight, X, xs

-----------------------------------------------------------------------------
(* The theorems.                                                           *)

\* What TypeOK says of the findings.
LEMMA FindingsAreJudged ==
  ASSUME Scores!TypeOK
  PROVE  profile \in ProfileNames /\ Judged(profile, findings)
<1>1. profile \in ProfileNames
  BY ServicesAssumption DEF Scores!TypeOK, ServicesAssumption, ProfileNames
<1>2. \A c \in Scores!Catalog[profile] : findings[c.check] \in Verdicts
  BY DEF Scores!TypeOK, Scores!Checks, Scores!Finding, Verdicts
<1>. QED  BY <1>1, <1>2 DEF Judged

\* The first findings.
LEMMA FirstFindings ==
  Scores!Init => Scores!TypeOK
<1>. SUFFICES ASSUME Scores!Init PROVE Scores!TypeOK
  OBVIOUS
<1>1. /\ profile \in Profiles
      /\ findings = [c \in Scores!Checks(profile) |-> "fail"]
  BY DEF Scores!Init
<1>2. \A c : "fail" \in Scores!Finding(c)
  BY DEF Scores!Finding
<1>. QED  BY <1>1, <1>2 DEF Scores!TypeOK

\* A step improves the finding of one check of the catalog.
LEMMA StepImproves ==
  ASSUME Scores!TypeOK, Scores!Next
  PROVE  /\ Scores!TypeOK' /\ profile' = profile
         /\ \E b : Improved(profile, findings, findings', b)
<1>1. PICK check \in Scores!Checks(profile) : Scores!Improve(check)
  BY DEF Scores!Next
<1>2. PICK better \in Scores!Better[findings[check]] \cap Scores!Finding(check) :
        findings' = [findings EXCEPT ![check] = better]
  BY <1>1 DEF Scores!Improve
<1>3. profile' = profile
  BY <1>1 DEF Scores!Improve
<1>. DEFINE K == Scores!Checks(profile)
<1>4. /\ profile \in Profiles /\ DOMAIN findings = K
      /\ \A c \in K : findings[c] \in Scores!Finding(c)
  BY DEF Scores!TypeOK
<1>. HIDE DEF K
<1>5. /\ DOMAIN findings' = K
      /\ \A c \in K : findings'[c] = IF c = check THEN better ELSE findings[c]
  BY <1>2, <1>4
<1>6. Scores!TypeOK'
  <2>1. \A c \in K : findings'[c] \in Scores!Finding(c)
    BY <1>2, <1>4, <1>5
  <2>2. Scores!Checks(profile)' = K
    BY <1>3 DEF K, Scores!Checks
  <2>. QED  BY <1>3, <1>4, <1>5, <2>1, <2>2 DEF Scores!TypeOK, Scores!Finding
<1>7. PICK b \in Scores!Catalog[profile] : b.check = check
  BY <1>1 DEF Scores!Checks
<1>8. \A c \in Scores!Catalog[profile] : c.check \in K /\ (c # b => c.check # check)
  <2>1. profile \in ProfileNames
    BY FindingsAreJudged
  <2>. QED  BY <1>7, <2>1, CatalogRows DEF K, Scores!Checks
<1>9. Improved(profile, findings, findings', b)
  <2>1. findings'[check] \in Scores!Better[findings[check]]
    BY <1>2, <1>5, <1>7, <1>8
  <2>2. \A c \in Scores!Catalog[profile] \ {b} : findings'[c.check] = findings[c.check]
    BY <1>5, <1>8
  <2>. QED  BY <1>7, <2>1, <2>2 DEF Improved
<1>. QED  BY <1>3, <1>6, <1>9

\* While the scores run, their findings have their types.
ScoresInv == part = "scores" => Scores!TypeOK

\* The types are an invariant of the part.
LEMMA ScoresPart ==
  SpecPart => []ScoresInv
<1>1. InitPart => ScoresInv
  BY FirstFindings DEF InitPart, ScoresInv
<1>2. ScoresInv /\ UNCHANGED <<part, scoresVars>> => ScoresInv'
  BY DEF ScoresInv, scoresVars, Scores!TypeOK, Scores!Checks, Scores!Finding
<1>3. ScoresInv /\ NextPart => ScoresInv'
  <2>. SUFFICES ASSUME ScoresInv, NextPart PROVE ScoresInv'
    OBVIOUS
  <2>1. CASE part = "scores" /\ Scores!Next
    BY <2>1, StepImproves DEF ScoresInv
  <2>2. CASE UNCHANGED <<part, scoresVars>>
    BY <1>2, <2>2
  <2>. QED  BY <2>1, <2>2 DEF NextPart
<1>4. ScoresInv /\ UNCHANGED <<part, vars, frozenVars, migratedVars, scoresVars, urlsVars>>
        => ScoresInv'
  BY <1>2
<1>. QED  BY <1>1, <1>3, <1>4, PTL DEF SpecPart

\* Scores are sound, in every profile and for any findings and exclusions: the rounding
\* costs at most one rating, full marks are earned, and no high-risk finding is offset.
THEOREM ScoresOfServices ==
  SpecPart => []ScoresAreSound
<1>1. ScoresInv => ScoresAreSound
  <2>. SUFFICES ASSUME Scores!TypeOK
                PROVE  /\ Scores!FlooringCostsOneBand
                       /\ Scores!FullMarksAreEarned
                       /\ Scores!HighRiskIsNotOffset
    BY DEF ScoresInv, ScoresAreSound
  <2>1. profile \in ProfileNames /\ Judged(profile, findings)
    BY FindingsAreJudged
  <2>2. Scores!FullMarksAreEarned
    <3>1. ASSUME NEW d \in Scores!Dimensions, NEW R, R = DimensionResults(profile, findings, d)
          PROVE  Scores!DimensionScore(profile, findings, d) = 5
                   <=> "pass" \in R /\ R \subseteq {"pass", "not_applicable"}
      BY <2>1, <3>1, FullMarks
    <3>. QED  BY <3>1 DEF Scores!FullMarksAreEarned, DimensionResults
  <2>. QED  BY <2>1, <2>2, OneBand, NotOffset
<1>. QED  BY <1>1, ScoresPart, PTL

\* A better finding, or an approved exclusion of a check nothing is known about, lowers
\* no dimension, not the total and not the rating.
THEOREM BetterFindingsNeverHurt ==
  SpecPart => BetterNeverHurts
<1>1. ScoresInv /\ [NextPart]_<<part, vars, frozenVars, migratedVars, scoresVars, urlsVars>>
        => [part = "scores" => Scores!NothingDrops]_scoresVars
  <2>. SUFFICES ASSUME ScoresInv, NextPart, part = "scores", ~UNCHANGED scoresVars
                PROVE  Scores!NothingDrops
    BY DEF scoresVars
  <2>1. Scores!Next /\ Scores!TypeOK
    BY DEF NextPart, ScoresInv
  <2>2. /\ Scores!TypeOK' /\ profile' = profile
        /\ \E b : Improved(profile, findings, findings', b)
    BY <2>1, StepImproves
  <2>3. Judged(profile, findings')
    <3>1. \A c \in Scores!Catalog[profile] : findings'[c.check] \in Verdicts
      BY <2>2 DEF Scores!TypeOK, Scores!Checks, Scores!Finding, Verdicts
    <3>. QED  BY <3>1 DEF Judged
  <2>4. profile \in ProfileNames /\ Judged(profile, findings)
    BY <2>1, FindingsAreJudged
  <2>. QED  BY <2>2, <2>3, <2>4, BetterNeverDrops
<1>. QED  BY <1>1, ScoresPart, PTL DEF SpecPart, BetterNeverHurts

==============================================================================
