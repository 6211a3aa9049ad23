------------------------- MODULE ToolRegistry_proofs -------------------------
(***************************************************************************)
(* Proofs about ToolRegistry, for any number of requests, identifiers and  *)
(* names.                                                                  *)
(***************************************************************************)
EXTENDS ToolRegistry, FiniteSetTheorems, FunctionTheorems, TLAPS

-----------------------------------------------------------------------------
(* The inductive invariant.                                                *)

\* The row of a tool, and the identifiers tool_external_ids gives to it.
ToolRow == [names: SUBSET Names, identifiers: Seq(Keys)]
OwnKeys(id) == {row.key : row \in {x \in externals : x.tool = id}}

\* The JSON column of a tool lists its rows of tool_external_ids, each once.
ColumnAgrees(id) ==
  LET list == tools[id].identifiers
  IN  /\ Range(list) = OwnKeys(id)
      /\ \A i, j \in DOMAIN list : list[i] = list[j] => i = j
      /\ id \in Range(list)

RegistryInv ==
  /\ DOMAIN tools = Keys
  /\ \A id \in Keys : Exists(id) => tools[id] \in ToolRow
  /\ externals \subseteq [key: Keys, tool: Keys]
  /\ IsFiniteSet(externals)
  /\ \A row, other \in externals : row.key = other.key => row = other
  /\ \A row \in externals : Exists(row.tool)
  /\ \A id \in Keys : Exists(id) => ColumnAgrees(id)

\* The history has what the whole registry would answer now.
SeenInv ==
  \A r \in Requests :
    Resolving(request[r]) => AtomicAnswer(request[r].intake) \in atomic[r]

\* Identifiers that were read from tools are still theirs.
OwnedBy(keys, ids) ==
  \A key \in keys : \E row \in externals : row.key = key /\ row.tool \in ids

\* All of the identifiers are the tool's, and no other's.
SoleOwner(id, keys) == \A key \in keys : Owners({key}) = {id}

\* What a resolution has read is still so: the matched tools own identifiers of the
\* intake, and the identifiers read from a tool are its own.  A resolution that
\* matched no tool began when some of today's names were known, and would have been
\* answered from these.
LoadKnows(r, l) ==
  /\ l.matched \subseteq Owners(l.intake.keys)
  /\ l.loaded \subseteq l.matched
  /\ OwnedBy(l.owned, l.loaded)
  /\ l.matched = {} => \E named \in SUBSET Called(l.intake.name) :
                         Decide(l.intake, {}, {}, named) \in atomic[r]

ResolvedKnows(r, l) ==
  /\ l.answer.reason \in {"existing_identifier_match", "new_strong_identifier"} =>
       l.answer \in atomic[r]
  /\ l.answer.reason = "existing_identifier_match" =>
       \A key \in l.intake.keys : Owners({key}) = {l.answer.tool}
  /\ l.answer.reason = "conflicting_existing_identifiers" =>
       Cardinality(Owners(l.intake.keys)) > 1

\* What request r knows when it holds l.
Knows(r, l) ==
  /\ l.at \in {"check", "insert"} => Exists(l.tool)
  /\ l.at = "load" => LoadKnows(r, l)
  /\ l.at = "resolved" => ResolvedKnows(r, l)

RequestInv == \A r \in Requests : Knows(r, request[r])

IInv ==
  /\ RegistryInv
  /\ request \in [Requests -> Local]
  /\ atomic \in [Requests -> SUBSET Resolution]
  /\ SeenInv
  /\ RequestInv

-----------------------------------------------------------------------------
(* The decision.                                                           *)

\* A finite set that is neither empty nor of several elements has one.
LEMMA OneElement ==
  ASSUME NEW S, IsFiniteSet(S), S # {}, ~(Cardinality(S) > 1)
  PROVE  \E x : S = {x}
<1>1. Cardinality(S) \in Nat
  BY FS_CardinalityType
<1>2. Cardinality(S) # 0
  BY FS_EmptySet
<1>3. Cardinality(S) = 1
  BY <1>1, <1>2
<1>. QED  BY <1>3, FS_Singleton

\* The reason is one of the nine.
LEMMA ReasonType ==
  ASSUME NEW intake, NEW matched, NEW owned, NEW named
  PROVE  Reason(intake, matched, owned, named) \in Reasons
BY DEF Reason, Reasons

\* The decision is a resolution.
LEMMA DecideType ==
  ASSUME NEW intake \in Intake, NEW matched \in SUBSET Keys, NEW owned,
         NEW named \in SUBSET Keys
  PROVE  Decide(intake, matched, owned, named) \in Resolution
<1>. DEFINE reason == Reason(intake, matched, owned, named)
<1>1. reason \in Reasons
  BY ReasonType
<1>2. reason = "existing_identifier_match" => matched # {}
  BY DEF Reason
<1>3. reason = "new_strong_identifier" => intake.keys # {}
  BY DEF Reason
<1>4. intake.keys \subseteq Keys
  BY DEF Intake
<1>5. reason = "existing_identifier_match" => (CHOOSE id \in matched : TRUE) \in Keys
  BY <1>2
<1>6. reason = "new_strong_identifier" => (CHOOSE k \in intake.keys : TRUE) \in Keys
  BY <1>3, <1>4
<1>. QED  BY <1>1, <1>5, <1>6 DEF Decide, Resolution

\* When a tool is to be used, it is the one that matched, and it owns every
\* identifier of the intake.
LEMMA DecideExisting ==
  ASSUME NEW intake \in Intake, NEW matched, IsFiniteSet(matched), NEW owned, NEW named,
         Decide(intake, matched, owned, named).reason = "existing_identifier_match"
  PROVE  /\ matched = {Decide(intake, matched, owned, named).tool}
         /\ intake.keys \subseteq owned
         /\ ~intake.invalid
<1>1. Reason(intake, matched, owned, named) = "existing_identifier_match"
  BY DEF Decide
<1>2. /\ ~intake.invalid
      /\ ~(Cardinality(matched) > 1)
      /\ matched # {}
      /\ intake.keys \subseteq owned
  BY <1>1 DEF Reason
<1>3. PICK x : matched = {x}
  BY <1>2, OneElement
<1>4. (CHOOSE id \in matched : TRUE) = x
  BY <1>3
<1>5. Decide(intake, matched, owned, named).tool = x
  BY <1>1, <1>4 DEF Decide
<1>. QED  BY <1>2, <1>3, <1>5

\* The same tool is named however many more identifiers it owns.
LEMMA DecideSame ==
  ASSUME NEW intake \in Intake, NEW matched, IsFiniteSet(matched), NEW named,
         NEW owned, NEW other, intake.keys \subseteq other,
         Decide(intake, matched, owned, named).reason = "existing_identifier_match"
  PROVE  Decide(intake, matched, other, named) = Decide(intake, matched, owned, named)
<1>1. Reason(intake, matched, owned, named) = "existing_identifier_match"
  BY DEF Decide
<1>2. Reason(intake, matched, other, named) = "existing_identifier_match"
  BY <1>1 DEF Reason
<1>. QED  BY <1>1, <1>2 DEF Decide

\* A tool is to be created only when nothing matched, by identifier or by name.
LEMMA DecideNew ==
  ASSUME NEW intake, NEW matched, NEW owned, NEW named,
         Decide(intake, matched, owned, named).reason = "new_strong_identifier"
  PROVE  matched = {} /\ named = {}
BY DEF Decide, Reason

\* Which identifiers the matched tools own is no matter when there are none.
LEMMA DecideUnmatched ==
  ASSUME NEW intake, NEW owned, NEW other, NEW named
  PROVE  Decide(intake, {}, owned, named) = Decide(intake, {}, other, named)
BY DEF Decide, Reason

\* A conflict is between several tools.
LEMMA DecideConflict ==
  ASSUME NEW intake, NEW matched, NEW owned, NEW named,
         Decide(intake, matched, owned, named).reason = "conflicting_existing_identifiers"
  PROVE  Cardinality(matched) > 1
BY DEF Decide, Reason

-----------------------------------------------------------------------------
(* The registry.                                                           *)

\* The tools of finitely many rows are finitely many.
LEMMA FewTools ==
  ASSUME NEW R, IsFiniteSet(R), NEW keys
  PROVE  IsFiniteSet({row.tool : row \in {r \in R : r.key \in keys}})
<1>. DEFINE rows == {row \in R : row.key \in keys}
            f == [row \in rows |-> row.tool]
<1>1. IsFiniteSet(rows)
  BY FS_Subset
<1>2. f \in Surjection(rows, {row.tool : row \in rows})
  BY DEF Surjection
<1>. QED  BY <1>1, <1>2, FS_Surjection

\* The owners of identifiers are ids of tools, and finitely many.
LEMMA OwnersType ==
  ASSUME RegistryInv, NEW keys
  PROVE  Owners(keys) \in SUBSET Keys /\ IsFiniteSet(Owners(keys))
<1>1. IsFiniteSet(Owners(keys))
  BY FewTools DEF RegistryInv, Owners
<1>2. Owners(keys) \in SUBSET Keys
  BY DEF Owners, RegistryInv
<1>. QED  BY <1>1, <1>2

\* What no step undoes: rows of tool_external_ids stay, and so do tools, with the
\* names they have.
RegistryGrows ==
  /\ externals \subseteq externals'
  /\ \A id \in Keys : Exists(id) => Exists(id)' /\ tools'[id].names = tools[id].names

\* Owners stay owners, and tools go on to be called what they are called.
LEMMA GrowsKeeps ==
  ASSUME RegistryGrows, NEW keys, NEW name
  PROVE  /\ Owners(keys) \subseteq Owners(keys)'
         /\ Called(name) \subseteq Called(name)'
<1>1. Owners(keys) \subseteq Owners(keys)'
  BY DEF RegistryGrows, Owners
<1>2. Called(name) \subseteq Called(name)'
  BY DEF RegistryGrows, Called
<1>. QED  BY <1>1, <1>2

-----------------------------------------------------------------------------
(* Requests.                                                               *)

\* What a request holds at each of its steps.
LEMMA LocalType ==
  ASSUME NEW l \in Local
  PROVE  /\ l.at \in {"check", "insert"} =>
              l \in [at: {"check", "insert"}, tool: Keys, key: Keys]
         /\ l.at = "match" => l \in [at: {"match"}, intake: Intake]
         /\ l.at = "load" => l \in [at: {"load"}, intake: Intake, matched: SUBSET Keys,
                                    loaded: SUBSET Keys, owned: SUBSET Keys]
         /\ l.at = "resolved" => l \in [at: {"resolved"}, intake: Intake,
                                        answer: Resolution]
BY DEF Local

\* The step of one request leaves the others where they are.
LEMMA GotoType ==
  ASSUME request \in [Requests -> Local], NEW r \in Requests, NEW l \in Local,
         Goto(r, l)
  PROVE  /\ request' \in [Requests -> Local]
         /\ request'[r] = l
         /\ \A q \in Requests \ {r} : request'[q] = request[q]
BY DEF Goto

\* What the history of a request gains in a step.
LEMMA ObserveSeen ==
  ASSUME Observe, NEW r \in Requests, atomic \in [Requests -> SUBSET Resolution]
  PROVE  /\ atomic[r] \subseteq atomic'[r]
         /\ Resolving(request[r])' => AtomicAnswer(request[r].intake)' \in atomic'[r]
BY DEF Observe

\* The history holds resolutions.
LEMMA ObserveType ==
  ASSUME Observe, atomic \in [Requests -> SUBSET Resolution],
         request' \in [Requests -> Local], RegistryInv'
  PROVE  atomic' \in [Requests -> SUBSET Resolution]
<1>1. SUFFICES ASSUME NEW r \in Requests, Resolving(request[r])'
               PROVE  AtomicAnswer(request[r].intake)' \in Resolution
  BY DEF Observe
<1>2. PICK intake \in Intake : request'[r].intake = intake
  <2>1. request'[r] \in Local /\ request'[r].at \in {"match", "load"}
    BY <1>1 DEF Resolving
  <2>. QED  BY <2>1, LocalType
<1>3. Owners(intake.keys)' \in SUBSET Keys
  BY DEF Owners, RegistryInv
<1>4. Called(intake.name)' \in SUBSET Keys
  BY DEF Called
<1>5. AtomicAnswer(intake)' \in Resolution
  BY <1>3, <1>4, DecideType DEF AtomicAnswer
<1>6. AtomicAnswer(request[r].intake)' = AtomicAnswer(intake)'
  BY <1>2 DEF AtomicAnswer
<1>. QED  BY <1>5, <1>6

\* A step that keeps the registry and only adds to it takes from a request that
\* does not move nothing of what it knows.
LEMMA OthersKnow ==
  ASSUME RegistryInv, RegistryInv', RegistryGrows, NEW q \in Requests,
         request[q] \in Local, request'[q] = request[q], Knows(q, request[q]),
         atomic[q] \subseteq atomic'[q]
  PROVE  Knows(q, request[q])'
<1>. PICK l \in Local : l = request[q]
  OBVIOUS
<1>1. ASSUME l.at \in {"check", "insert"}
      PROVE  Exists(l.tool)'
  BY <1>1, LocalType DEF Knows, RegistryGrows
<1>2. ASSUME l.at = "load"
      PROVE  LoadKnows(q, l)'
  <2>1. LoadKnows(q, l)
    BY <1>2 DEF Knows
  <2>2. /\ Owners(l.intake.keys) \subseteq Owners(l.intake.keys)'
        /\ Called(l.intake.name) \subseteq Called(l.intake.name)'
    BY GrowsKeeps
  <2>3. OwnedBy(l.owned, l.loaded)'
    BY <2>1 DEF LoadKnows, RegistryGrows, OwnedBy
  <2>4. l.matched = {} => \E named \in SUBSET Called(l.intake.name)' :
                            Decide(l.intake, {}, {}, named) \in atomic'[q]
    BY <2>1, <2>2 DEF LoadKnows
  <2>. QED  BY <2>1, <2>2, <2>3, <2>4 DEF LoadKnows
<1>3. ASSUME l.at = "resolved"
      PROVE  ResolvedKnows(q, l)'
  <2>1. ResolvedKnows(q, l)
    BY <1>3 DEF Knows
  <2>2. ASSUME l.answer.reason = "existing_identifier_match", NEW key \in l.intake.keys
        PROVE  Owners({key})' = {l.answer.tool}
    <3>1. Owners({key}) = {l.answer.tool}
      BY <2>1, <2>2 DEF ResolvedKnows
    <3>2. Owners({key}) \subseteq Owners({key})'
      BY GrowsKeeps
    <3>3. \A s, t \in Owners({key})' : s = t
      BY DEF Owners, RegistryInv
    <3>. QED  BY <3>1, <3>2, <3>3
  <2>3. ASSUME l.answer.reason = "conflicting_existing_identifiers"
        PROVE  Cardinality(Owners(l.intake.keys))' > 1
    <3>1. Cardinality(Owners(l.intake.keys)) > 1
      BY <2>1, <2>3 DEF ResolvedKnows
    <3>2. Owners(l.intake.keys) \subseteq Owners(l.intake.keys)'
      BY GrowsKeeps
    <3>3. IsFiniteSet(Owners(l.intake.keys)')
      BY FewTools DEF RegistryInv, Owners
    <3>4. Cardinality(Owners(l.intake.keys)) <= Cardinality(Owners(l.intake.keys)')
      BY <3>2, <3>3, FS_Subset
    <3>5. /\ Cardinality(Owners(l.intake.keys)) \in Nat
          /\ Cardinality(Owners(l.intake.keys)') \in Nat
      BY <3>3, OwnersType, FS_CardinalityType
    <3>. QED  BY <3>1, <3>4, <3>5
  <2>4. l.answer.reason \in {"existing_identifier_match", "new_strong_identifier"} =>
          l.answer \in atomic'[q]
    BY <2>1 DEF ResolvedKnows
  <2>. QED  BY <2>2, <2>3, <2>4 DEF ResolvedKnows
<1>4. Knows(q, l)'
  BY <1>1, <1>2, <1>3 DEF Knows
<1>5. l = request'[q]
  OBVIOUS
<1>. QED  BY <1>4, <1>5 DEF Knows, LoadKnows, ResolvedKnows

\* A step of request r keeps the invariant when it keeps the registry, only adds to
\* it, moves r alone, and r then knows what it should.
LEMMA StepPreserves ==
  ASSUME IInv, NEW r \in Requests, Observe, RegistryInv', RegistryGrows,
         request' \in [Requests -> Local],
         \A q \in Requests \ {r} : request'[q] = request[q],
         Knows(r, request[r])'
  PROVE  IInv'
<1>1. atomic' \in [Requests -> SUBSET Resolution]
  BY ObserveType DEF IInv
<1>2. SeenInv'
  BY ObserveSeen DEF IInv, SeenInv
<1>3. RequestInv'
  <2>1. SUFFICES ASSUME NEW q \in Requests \ {r}
                 PROVE  Knows(q, request[q])'
    BY DEF RequestInv
  <2>2. atomic[q] \subseteq atomic'[q]
    BY ObserveSeen DEF IInv
  <2>3. Knows(q, request[q]) /\ request[q] \in Local /\ request'[q] = request[q]
    BY DEF IInv, RequestInv
  <2>. QED  BY <2>2, <2>3, OthersKnow DEF IInv
<1>. QED  BY <1>1, <1>2, <1>3 DEF IInv

\* A step that leaves the registry alone.
LEMMA ReadKeeps ==
  ASSUME RegistryInv, UNCHANGED <<tools, externals>>
  PROVE  /\ RegistryInv'
         /\ RegistryGrows
         /\ \A keys : Owners(keys)' = Owners(keys)
         /\ \A name : Called(name)' = Called(name)
<1>1. RegistryInv'
  BY DEF RegistryInv, Exists, ColumnAgrees, OwnKeys, Range
<1>. QED  BY <1>1 DEF RegistryGrows, Exists, Owners, Called

-----------------------------------------------------------------------------
(* Lists of identifiers.                                                   *)

\* What a sequence holds.
LEMMA SequenceType ==
  ASSUME NEW S, NEW s \in Seq(S)
  PROVE  /\ Len(s) \in Nat
         /\ DOMAIN s = 1 .. Len(s)
         /\ \A i \in DOMAIN s : s[i] \in S
         /\ Range(s) \subseteq S
BY DEF Range

\* The lists a tool is created with hold its id.
LEMMA ListedType ==
  ASSUME NEW id \in Keys, NEW list \in Listed(id)
  PROVE  list \in Seq(Keys) /\ id \in Range(list)
<1>1. CASE list = <<id>>
  <2>1. list \in Seq(Keys) /\ DOMAIN list = {1} /\ list[1] = id
    BY <1>1
  <2>. QED  BY <2>1 DEF Range
<1>2. ASSUME NEW other \in Keys \ {id}, list = <<other, id>>
      PROVE  list \in Seq(Keys) /\ id \in Range(list)
  <2>1. list \in Seq(Keys) /\ 2 \in DOMAIN list /\ list[2] = id
    BY <1>2
  <2>. QED  BY <2>1 DEF Range
<1>3. ASSUME NEW other \in Keys \ {id}, list = <<id, other, other>>
      PROVE  list \in Seq(Keys) /\ id \in Range(list)
  <2>1. list \in Seq(Keys) /\ 1 \in DOMAIN list /\ list[1] = id
    BY <1>3
  <2>. QED  BY <2>1 DEF Range
<1>. QED  BY <1>1, <1>2, <1>3 DEF Listed

\* A list with one more identifier, one it did not hold.
LEMMA AppendNew ==
  ASSUME NEW list \in Seq(Keys), NEW key \in Keys, key \notin Range(list),
         \A i, j \in DOMAIN list : list[i] = list[j] => i = j
  PROVE  LET longer == Append(list, key)
         IN  /\ longer \in Seq(Keys)
             /\ Range(longer) = Range(list) \cup {key}
             /\ \A i, j \in DOMAIN longer : longer[i] = longer[j] => i = j
<1>. DEFINE longer == Append(list, key)
            n == Len(list)
<1>1. /\ longer \in Seq(Keys)
      /\ n \in Nat
      /\ DOMAIN list = 1 .. n
      /\ DOMAIN longer = 1 .. n + 1
      /\ longer[n + 1] = key
      /\ \A i \in 1 .. n : longer[i] = list[i]
  OBVIOUS
<1>2. \A i \in 1 .. n + 1 : i \in 1 .. n \/ i = n + 1
  BY <1>1
<1>3. \A i \in 1 .. n : list[i] \in Range(list)
  BY <1>1 DEF Range
<1>4. 1 .. n \subseteq 1 .. n + 1 /\ n + 1 \in 1 .. n + 1
  BY <1>1
<1>. HIDE DEF longer, n
<1>5. Range(longer) = Range(list) \cup {key}
  BY <1>1, <1>2, <1>4 DEF Range
<1>6. \A i, j \in DOMAIN longer : longer[i] = longer[j] => i = j
  BY <1>1, <1>2, <1>3
<1>. QED  BY <1>1, <1>5, <1>6 DEF longer

\* The rows of a list of identifiers are finitely many.
LEMMA FewRows ==
  ASSUME NEW list \in Seq(Keys), NEW id
  PROVE  IsFiniteSet({[key |-> k, tool |-> id] : k \in Range(list)})
<1>. DEFINE rows == {[key |-> k, tool |-> id] : k \in Range(list)}
            f == [i \in 1 .. Len(list) |-> [key |-> list[i], tool |-> id]]
<1>1. IsFiniteSet(1 .. Len(list))
  BY SequenceType, FS_Interval
<1>2. f \in Surjection(1 .. Len(list), rows)
  <2>1. DOMAIN list = 1 .. Len(list)
    BY SequenceType
  <2>2. \A i \in 1 .. Len(list) : list[i] \in Range(list)
    BY <2>1 DEF Range
  <2>3. \A row \in rows : \E i \in 1 .. Len(list) : row = [key |-> list[i], tool |-> id]
    BY <2>1 DEF Range
  <2>. QED  BY <2>2, <2>3 DEF Surjection
<1>. QED  BY <1>1, <1>2, FS_Surjection

-----------------------------------------------------------------------------
(* Steps that change the registry.                                         *)

\* The creation of a tool keeps the registry.
LEMMA CreateKeepsRegistry ==
  ASSUME RegistryInv, NEW r \in Requests, NEW id \in Keys, NEW list \in Listed(id),
         NEW names \in SUBSET Names, CreateTool(r, id, list, names)
  PROVE  RegistryInv' /\ RegistryGrows
<1>. DEFINE new == [names |-> names, identifiers |-> list]
            rows == {[key |-> k, tool |-> id] : k \in Range(list)}
<1>1. /\ ~Exists(id)
      /\ \A i \in DOMAIN list : \A row \in externals : row.key # list[i]
      /\ \A i, j \in DOMAIN list : list[i] = list[j] => i = j
      /\ tools' = [tools EXCEPT ![id] = new]
      /\ externals' = externals \cup rows
  BY DEF CreateTool, KeysFree
<1>2. list \in Seq(Keys) /\ id \in Range(list) /\ Range(list) \subseteq Keys
  BY ListedType, SequenceType
<1>3. new \in ToolRow /\ new # None
  BY <1>2, RegistryAssumption DEF ToolRow
<1>4. \A k \in Range(list) : \A row \in externals : row.key # k
  BY <1>1 DEF Range
<1>5. /\ DOMAIN tools' = Keys
      /\ tools'[id] = new
      /\ \A other \in Keys \ {id} : tools'[other] = tools[other]
  BY <1>1 DEF RegistryInv
<1>6. Exists(id)' /\ \A other \in Keys \ {id} : Exists(other)' <=> Exists(other)
  BY <1>3, <1>5 DEF Exists
<1>7. /\ \A row \in rows : row.key \in Range(list) /\ row.tool = id
      /\ rows \subseteq [key: Keys, tool: Keys]
      /\ \A row, other \in rows : row.key = other.key => row = other
      /\ \A k \in Range(list) : \E row \in rows : row.key = k
  <2>1. \A row \in rows : \E k \in Range(list) : row = [key |-> k, tool |-> id]
    OBVIOUS
  <2>2. \A row \in rows : row.key \in Range(list) /\ row.tool = id
    BY <2>1
  <2>3. rows \subseteq [key: Keys, tool: Keys]
    BY <1>2, <2>1
  <2>4. \A row, other \in rows : row.key = other.key => row = other
    BY <2>1
  <2>5. \A k \in Range(list) : [key |-> k, tool |-> id] \in rows
    OBVIOUS
  <2>6. \A k \in Range(list) : \E row \in rows : row.key = k
    BY <2>5
  <2>. QED  BY <2>2, <2>3, <2>4, <2>6
<1>8. IsFiniteSet(externals')
  <2>1. IsFiniteSet(rows)
    BY <1>2, FewRows
  <2>. HIDE DEF rows
  <2>. QED  BY <1>1, <2>1, FS_Union DEF RegistryInv
<1>. HIDE DEF new, rows
<1>9. \A row \in externals : row.tool \in Keys \ {id}
  BY <1>1 DEF RegistryInv, Exists
<1>10. OwnKeys(id)' = Range(list)
  BY <1>1, <1>7, <1>9 DEF OwnKeys
<1>11. \A other \in Keys \ {id} : OwnKeys(other)' = OwnKeys(other)
  BY <1>1, <1>7 DEF OwnKeys
<1>12. ColumnAgrees(id)'
  BY <1>1, <1>2, <1>5, <1>10 DEF ColumnAgrees, new
<1>13. ASSUME NEW other \in Keys \ {id}, Exists(other)'
       PROVE  ColumnAgrees(other)'
  <2>1. ColumnAgrees(other)
    BY <1>6, <1>13 DEF RegistryInv
  <2>. QED  BY <2>1, <1>5, <1>11 DEF ColumnAgrees
<1>14. \A row \in externals' : Exists(row.tool)'
  BY <1>1, <1>6, <1>7, <1>9 DEF RegistryInv
<1>15. \A row, other \in externals' : row.key = other.key => row = other
  BY <1>1, <1>4, <1>7 DEF RegistryInv
<1>16. externals' \subseteq [key: Keys, tool: Keys]
  BY <1>1, <1>7 DEF RegistryInv
<1>17. \A other \in Keys : Exists(other)' => tools'[other] \in ToolRow
  BY <1>3, <1>5, <1>6 DEF RegistryInv
<1>18. RegistryInv'
  BY <1>5, <1>8, <1>12, <1>13, <1>14, <1>15, <1>16, <1>17 DEF RegistryInv
<1>19. RegistryGrows
  BY <1>1, <1>5, <1>6 DEF RegistryGrows
<1>. QED  BY <1>18, <1>19

\* So does the insert of an identifier, by the primary key alone: the check of the
\* owners before it is not needed.
LEMMA InsertKeepsRegistry ==
  ASSUME RegistryInv, NEW id \in Keys, NEW key \in Keys, Exists(id),
         Owners({key}) = {},
         externals' = externals \cup {[key |-> key, tool |-> id]},
         tools' = [tools EXCEPT ![id].identifiers = Append(@, key)]
  PROVE  RegistryInv' /\ RegistryGrows
<1>. DEFINE row == [key |-> key, tool |-> id]
<1>1. \A other \in externals : other.key # key
  BY DEF Owners
<1>2. tools[id] \in ToolRow /\ ColumnAgrees(id)
  BY DEF RegistryInv
<1>3. PICK list \in Seq(Keys) : list = tools[id].identifiers
  BY <1>2 DEF ToolRow
<1>4. /\ Range(list) = OwnKeys(id)
      /\ \A i, j \in DOMAIN list : list[i] = list[j] => i = j
      /\ id \in Range(list)
  BY <1>2, <1>3 DEF ColumnAgrees
<1>5. key \notin Range(list)
  BY <1>1, <1>4 DEF OwnKeys
<1>6. PICK longer \in Seq(Keys) : longer = Append(list, key)
  <2>1. Append(list, key) \in Seq(Keys)
    OBVIOUS
  <2>. QED  BY <2>1
<1>7. /\ Range(longer) = Range(list) \cup {key}
      /\ \A i, j \in DOMAIN longer : longer[i] = longer[j] => i = j
  BY <1>4, <1>5, <1>6, AppendNew
<1>8. /\ DOMAIN tools' = Keys
      /\ \A other \in Keys \ {id} : tools'[other] = tools[other]
      /\ tools'[id] = [tools[id] EXCEPT !.identifiers = longer]
  BY <1>3, <1>6 DEF RegistryInv
<1>9. /\ tools'[id] \in ToolRow
      /\ tools'[id].identifiers = longer
      /\ tools'[id].names = tools[id].names
  BY <1>2, <1>8 DEF ToolRow
<1>10. Exists(id)' /\ \A other \in Keys \ {id} : Exists(other)' <=> Exists(other)
  BY <1>8, <1>9, RegistryAssumption DEF Exists, ToolRow
<1>11. OwnKeys(id)' = OwnKeys(id) \cup {key}
  <2>1. /\ row \in externals' /\ row.key = key /\ row.tool = id
        /\ \A other \in externals' : other \in externals \/ other = row
        /\ externals \subseteq externals'
    OBVIOUS
  <2>. HIDE DEF row
  <2>. QED  BY <2>1 DEF OwnKeys
<1>12. \A other \in Keys \ {id} : OwnKeys(other)' = OwnKeys(other)
  BY DEF OwnKeys
<1>13. ColumnAgrees(id)'
  BY ZenonT(30), <1>4, <1>7, <1>9, <1>11 DEF ColumnAgrees
<1>14. ASSUME NEW other \in Keys \ {id}, Exists(other)'
       PROVE  ColumnAgrees(other)'
  <2>1. ColumnAgrees(other)
    BY <1>10, <1>14 DEF RegistryInv
  <2>. QED  BY <2>1, <1>8, <1>12 DEF ColumnAgrees
<1>15. IsFiniteSet(externals')
  BY FS_AddElement DEF RegistryInv
<1>16. \A other \in externals' : other.tool \in Keys /\ Exists(other.tool)'
  BY <1>10 DEF RegistryInv
<1>17. \A one, other \in externals' : one.key = other.key => one = other
  BY <1>1 DEF RegistryInv
<1>18. externals' \subseteq [key: Keys, tool: Keys]
  BY DEF RegistryInv
<1>19. \A other \in Keys : Exists(other)' => tools'[other] \in ToolRow
  BY <1>8, <1>9, <1>10 DEF RegistryInv
<1>20. RegistryInv'
  BY <1>8, <1>13, <1>14, <1>15, <1>16, <1>17, <1>18, <1>19 DEF RegistryInv
<1>21. RegistryGrows
  BY <1>8, <1>9, <1>10 DEF RegistryGrows
<1>. QED  BY <1>20, <1>21

-----------------------------------------------------------------------------
(* One lemma for each operation.                                           *)

\* An answer ends a request.
LEMMA FinishStep ==
  ASSUME IInv, NEW r \in Requests, Observe, RegistryInv', RegistryGrows,
         NEW answer \in Outcome, Finish(r, answer)
  PROVE  IInv'
<1>. DEFINE l == [at |-> "done", answer |-> answer]
<1>1. l \in Local /\ l.at = "done"
  BY DEF Local
<1>2. Goto(r, l)
  BY DEF Finish
<1>. HIDE DEF l
<1>3. /\ request' \in [Requests -> Local]
      /\ request'[r] = l
      /\ \A q \in Requests \ {r} : request'[q] = request[q]
  BY <1>1, <1>2, GotoType DEF IInv
<1>4. Knows(r, request[r])'
  BY <1>1, <1>3 DEF Knows
<1>. QED  BY <1>3, <1>4, StepPreserves

\* A read that leaves the request at another step, knowing what it should.
LEMMA ReadStep ==
  ASSUME IInv, NEW r \in Requests, Observe, UNCHANGED <<tools, externals>>,
         NEW l \in Local, Goto(r, l), Knows(r, l)'
  PROVE  IInv'
<1>1. RegistryInv' /\ RegistryGrows
  BY ReadKeeps DEF IInv
<1>2. /\ request' \in [Requests -> Local]
      /\ request'[r] = l
      /\ \A q \in Requests \ {r} : request'[q] = request[q]
  BY GotoType DEF IInv
<1>3. Knows(r, request[r])'
  BY <1>2 DEF Knows, LoadKnows, ResolvedKnows
<1>. QED  BY <1>1, <1>2, <1>3, StepPreserves

\* A creation adds a tool and its rows, and ends the request.
LEMMA CreateToolStep ==
  ASSUME IInv, NEW r \in Requests, Observe, NEW id \in Keys, NEW list \in Listed(id),
         NEW names \in SUBSET Names, CreateTool(r, id, list, names)
  PROVE  IInv'
<1>1. RegistryInv' /\ RegistryGrows
  BY CreateKeepsRegistry DEF IInv
<1>2. PICK answer \in Outcome : answer = [kind |-> "created", tool |-> id]
  BY DEF Outcome
<1>3. Finish(r, answer)
  BY <1>2 DEF CreateTool
<1>. QED  BY <1>1, <1>3, FinishStep

\* A refused creation ends the request.
LEMMA RefuseCreateStep ==
  ASSUME IInv, NEW r \in Requests, Observe, NEW id \in Keys, NEW list,
         RefuseCreate(r, id, list)
  PROVE  IInv'
<1>1. RegistryInv' /\ RegistryGrows
  BY ReadKeeps DEF IInv, RefuseCreate
<1>2. PICK answer \in Outcome : answer = [kind |-> "exists", tool |-> id]
  BY DEF Outcome
<1>3. Finish(r, answer)
  BY <1>2 DEF RefuseCreate
<1>. QED  BY <1>1, <1>3, FinishStep

\* An addition starts from a tool that exists, and will.
LEMMA BeginAddStep ==
  ASSUME IInv, NEW r \in Requests, Observe, NEW id \in Keys, NEW key \in Keys,
         BeginAdd(r, id, key)
  PROVE  IInv'
<1>1. PICK l \in Local : l = [at |-> "check", tool |-> id, key |-> key]
  BY DEF Local
<1>2. Knows(r, l)'
  BY <1>1 DEF Knows, BeginAdd, Exists
<1>3. Goto(r, l)
  BY <1>1 DEF BeginAdd
<1>. QED  BY <1>2, <1>3, ReadStep DEF BeginAdd

\* The owner check answers, or goes on to the insert.
LEMMA CheckOwnerStep ==
  ASSUME IInv, NEW r \in Requests, Observe, CheckOwner(r)
  PROVE  IInv'
<1>1. PICK add \in Local : add = request[r]
  BY DEF IInv
<1>2. /\ add \in [at: {"check", "insert"}, tool: Keys, key: Keys]
      /\ add.at = "check"
      /\ Exists(add.tool)
  BY <1>1, LocalType DEF CheckOwner, At, IInv, RequestInv, Knows
<1>. DEFINE others == Owners({add.key}) \ {add.tool}
<1>3. UNCHANGED <<tools, externals>>
  BY DEF CheckOwner
<1>4. CASE others # {}
  <2>1. PICK owner \in others :
               Finish(r, [kind |-> "claimed", key |-> add.key, by |-> owner])
    BY <1>1, <1>4 DEF CheckOwner
  <2>2. owner \in Keys
    BY OwnersType DEF IInv
  <2>3. [kind |-> "claimed", key |-> add.key, by |-> owner] \in Outcome
    BY <1>2, <2>2 DEF Outcome
  <2>4. RegistryInv' /\ RegistryGrows
    BY <1>3, ReadKeeps DEF IInv
  <2>. QED  BY <2>1, <2>3, <2>4, FinishStep
<1>5. CASE others = {}
  <2>1. Goto(r, [add EXCEPT !.at = "insert"])
    BY <1>1, <1>5 DEF CheckOwner
  <2>2. PICK l : l = [add EXCEPT !.at = "insert"]
    OBVIOUS
  <2>3. /\ l \in [at: {"check", "insert"}, tool: Keys, key: Keys]
        /\ l.at = "insert"
        /\ l.tool = add.tool
    BY <1>2, <2>2
  <2>4. l \in Local
    BY <2>3 DEF Local
  <2>5. Knows(r, l)'
    BY <1>2, <1>3, <2>3 DEF Knows, Exists
  <2>. QED  BY <1>3, <2>1, <2>2, <2>4, <2>5, ReadStep
<1>. QED  BY <1>4, <1>5

\* The insert adds its row, or ends as a claim, whatever was committed since the check.
LEMMA InsertIdentifierStep ==
  ASSUME IInv, NEW r \in Requests, Observe, InsertIdentifier(r)
  PROVE  IInv'
<1>1. PICK add \in Local : add = request[r]
  BY DEF IInv
<1>2. /\ add \in [at: {"check", "insert"}, tool: Keys, key: Keys]
      /\ add.at = "insert"
      /\ Exists(add.tool)
  BY <1>1, LocalType DEF InsertIdentifier, At, IInv, RequestInv, Knows
<1>3. CASE Owners({add.key}) # {}
  <2>1. [kind |-> "claimed", key |-> add.key, by |-> add.tool] \in Outcome
    BY <1>2 DEF Outcome
  <2>2. /\ Finish(r, [kind |-> "claimed", key |-> add.key, by |-> add.tool])
        /\ UNCHANGED <<tools, externals>>
    BY <1>1, <1>3 DEF InsertIdentifier
  <2>3. RegistryInv' /\ RegistryGrows
    BY <2>2, ReadKeeps DEF IInv
  <2>. QED  BY <2>1, <2>2, <2>3, FinishStep
<1>4. CASE Owners({add.key}) = {}
  <2>1. /\ externals' = externals \cup {[key |-> add.key, tool |-> add.tool]}
        /\ tools' = [tools EXCEPT ![add.tool].identifiers = Append(@, add.key)]
        /\ Finish(r, [kind |-> "added", tool |-> add.tool])
    BY <1>1, <1>4 DEF InsertIdentifier
  <2>2. add.tool \in Keys /\ add.key \in Keys
    BY <1>2
  <2>3. [kind |-> "added", tool |-> add.tool] \in Outcome
    BY <2>2 DEF Outcome
  <2>4. RegistryInv' /\ RegistryGrows
    BY <1>2, <1>4, <2>1, <2>2, InsertKeepsRegistry DEF IInv
  <2>. QED  BY <2>1, <2>3, <2>4, FinishStep
<1>. QED  BY <1>3, <1>4

\* A resolution begins knowing nothing.
LEMMA BeginResolveStep ==
  ASSUME IInv, NEW r \in Requests, Observe, NEW intake \in Intake,
         BeginResolve(r, intake)
  PROVE  IInv'
<1>1. PICK l \in Local : l = [at |-> "match", intake |-> intake]
  BY DEF Local
<1>2. Knows(r, l)'
  BY <1>1 DEF Knows
<1>3. Goto(r, l)
  BY <1>1 DEF BeginResolve
<1>. QED  BY <1>2, <1>3, ReadStep DEF BeginResolve

\* The first query of a resolution finds the owners there are; if there are none, the
\* names of the moment would have decided.
LEMMA MatchIdentifiersStep ==
  ASSUME IInv, NEW r \in Requests, Observe, MatchIdentifiers(r)
  PROVE  IInv'
<1>1. PICK intake \in Intake : intake = request[r].intake
  <2>1. request[r] \in Local /\ request[r].at = "match"
    BY DEF IInv, MatchIdentifiers, At
  <2>. QED  BY <2>1, LocalType
<1>2. PICK matched \in SUBSET Keys : matched = Owners(intake.keys)
  BY OwnersType DEF IInv
<1>3. PICK named \in SUBSET Keys : named = Called(intake.name)
  BY DEF Called
<1>4. PICK l \in Local : l = [at |-> "load", intake |-> intake, matched |-> matched,
                              loaded |-> {}, owned |-> {}]
  BY DEF Local
<1>5. Goto(r, l) /\ UNCHANGED <<tools, externals>>
  BY <1>1, <1>2, <1>4 DEF MatchIdentifiers
<1>6. /\ Owners(intake.keys)' = matched
      /\ Called(intake.name)' = named
  BY <1>2, <1>3, <1>5, ReadKeeps DEF IInv
<1>7. matched = {} => Decide(intake, {}, {}, named) \in atomic'[r]
  <2>1. request'[r] = l
    BY <1>5, GotoType DEF IInv
  <2>2. Resolving(request[r])'
    BY <1>4, <2>1 DEF Resolving
  <2>3. AtomicAnswer(request[r].intake)' \in atomic'[r]
    BY <2>2, ObserveSeen DEF IInv
  <2>4. AtomicAnswer(intake)' \in atomic'[r]
    BY <1>4, <2>1, <2>3 DEF AtomicAnswer
  <2>5. AtomicAnswer(intake)' =
          Decide(intake, matched, (UNION {Range(tools[id].identifiers) : id \in matched})',
                 named)
    BY <1>6 DEF AtomicAnswer
  <2>. QED  BY <2>4, <2>5, DecideUnmatched
<1>8. Knows(r, l)'
  BY <1>4, <1>6, <1>7 DEF Knows, LoadKnows, OwnedBy
<1>. QED  BY <1>5, <1>8, ReadStep

\* Each further query adds the identifiers of one matched tool.
LEMMA LoadMatchedStep ==
  ASSUME IInv, NEW r \in Requests, Observe, LoadMatched(r)
  PROVE  IInv'
<1>1. PICK found \in Local : found = request[r]
  BY DEF IInv
<1>2. /\ found \in [at: {"load"}, intake: Intake, matched: SUBSET Keys,
                    loaded: SUBSET Keys, owned: SUBSET Keys]
      /\ LoadKnows(r, found)
  BY <1>1, LocalType DEF LoadMatched, At, IInv, RequestInv, Knows
<1>3. PICK id \in found.matched \ found.loaded :
             Goto(r, [found EXCEPT !.loaded = @ \cup {id},
                                   !.owned = @ \cup Range(tools[id].identifiers)])
  BY <1>1 DEF LoadMatched
<1>4. UNCHANGED <<tools, externals>>
  BY DEF LoadMatched
<1>5. id \in Keys /\ Exists(id)
  BY <1>2 DEF IInv, RegistryInv, LoadKnows, Owners
<1>6. PICK keys \in SUBSET Keys : keys = Range(tools[id].identifiers)
  <2>1. tools[id] \in ToolRow
    BY <1>5 DEF IInv, RegistryInv
  <2>2. Range(tools[id].identifiers) \subseteq Keys
    BY <2>1, SequenceType DEF ToolRow
  <2>. QED  BY <2>2
<1>7. \A key \in keys : \E row \in externals : row.key = key /\ row.tool = id
  BY <1>5, <1>6 DEF IInv, RegistryInv, ColumnAgrees, OwnKeys
<1>8. PICK l : l = [found EXCEPT !.loaded = @ \cup {id}, !.owned = @ \cup keys]
  OBVIOUS
<1>9. /\ l \in [at: {"load"}, intake: Intake, matched: SUBSET Keys,
                loaded: SUBSET Keys, owned: SUBSET Keys]
      /\ l.intake = found.intake
      /\ l.matched = found.matched
      /\ l.loaded = found.loaded \cup {id}
      /\ l.owned = found.owned \cup keys
  BY <1>2, <1>5, <1>8
<1>10. l \in Local
  BY <1>9 DEF Local
<1>11. LoadKnows(r, l)'
  <2>1. /\ Owners(l.intake.keys)' = Owners(l.intake.keys)
        /\ Called(l.intake.name)' = Called(l.intake.name)
    BY <1>4, ReadKeeps DEF IInv
  <2>2. OwnedBy(l.owned, l.loaded)'
    BY <1>2, <1>4, <1>7, <1>9 DEF LoadKnows, OwnedBy
  <2>3. l.matched # {}
    BY <1>3, <1>9
  <2>4. l.matched \subseteq Owners(l.intake.keys) /\ l.loaded \subseteq l.matched
    BY <1>2, <1>3, <1>9 DEF LoadKnows
  <2>. QED  BY <2>1, <2>2, <2>3, <2>4 DEF LoadKnows
<1>12. Knows(r, l)'
  BY <1>9, <1>11 DEF Knows
<1>. QED  BY <1>3, <1>4, <1>6, <1>8, <1>10, <1>12, ReadStep

\* What a resolution that matched one tool with every identifier answers is what the
\* whole registry answers now, and stays so.
LEMMA ExistingIsNow ==
  ASSUME IInv, NEW intake \in Intake, NEW matched \in SUBSET Keys, NEW owned, NEW named,
         matched \subseteq Owners(intake.keys), named = Called(intake.name),
         OwnedBy(owned, matched),
         Decide(intake, matched, owned, named).reason = "existing_identifier_match"
  PROVE  /\ Decide(intake, matched, owned, named) = AtomicAnswer(intake)
         /\ SoleOwner(Decide(intake, matched, owned, named).tool, intake.keys)
<1>1. IsFiniteSet(matched)
  BY OwnersType, FS_Subset DEF IInv
<1>2. PICK tool : tool = Decide(intake, matched, owned, named).tool
  OBVIOUS
<1>3. matched = {tool} /\ intake.keys \subseteq owned
  BY <1>1, <1>2, DecideExisting
<1>4. \A key \in intake.keys : Owners({key}) = {tool}
  <2>1. SUFFICES ASSUME NEW key \in intake.keys
                 PROVE  Owners({key}) = {tool}
    OBVIOUS
  <2>2. PICK row \in externals : row.key = key /\ row.tool = tool
    BY <1>3 DEF OwnedBy
  <2>. QED  BY <2>2 DEF IInv, RegistryInv, Owners
<1>5. Owners(intake.keys) = {tool}
  <2>1. \A owner \in Owners(intake.keys) : \E key \in intake.keys : owner \in Owners({key})
    BY DEF Owners
  <2>. QED  BY <1>3, <1>4, <2>1
<1>6. Exists(tool) /\ tool \in Keys
  BY <1>3, <1>5 DEF IInv, RegistryInv, Owners
<1>7. intake.keys \subseteq Range(tools[tool].identifiers)
  <2>1. Range(tools[tool].identifiers) = OwnKeys(tool)
    BY <1>6 DEF IInv, RegistryInv, ColumnAgrees
  <2>2. intake.keys \subseteq OwnKeys(tool)
    BY <1>3 DEF OwnKeys, OwnedBy
  <2>. QED  BY <2>1, <2>2
<1>. DEFINE other == UNION {Range(tools[id].identifiers) : id \in matched}
<1>8. intake.keys \subseteq other
  BY <1>3, <1>7
<1>9. AtomicAnswer(intake) = Decide(intake, matched, other, named)
  BY <1>3, <1>5 DEF AtomicAnswer
<1>. HIDE DEF other
<1>10. Decide(intake, matched, other, named) = Decide(intake, matched, owned, named)
  BY <1>1, <1>8, DecideSame
<1>. QED  BY <1>2, <1>4, <1>9, <1>10 DEF SoleOwner

\* The query of the names, and the answer.
LEMMA MatchNamesStep ==
  ASSUME IInv, NEW r \in Requests, Observe, MatchNames(r)
  PROVE  IInv'
<1>1. PICK found \in Local : found = request[r]
  BY DEF IInv
<1>2. /\ found \in [at: {"load"}, intake: Intake, matched: SUBSET Keys,
                    loaded: SUBSET Keys, owned: SUBSET Keys]
      /\ LoadKnows(r, found)
      /\ found.loaded = found.matched
  BY <1>1, LocalType DEF MatchNames, At, IInv, RequestInv, Knows
<1>3. PICK intake \in Intake, matched \in SUBSET Keys, owned \in SUBSET Keys :
             intake = found.intake /\ matched = found.matched /\ owned = found.owned
  BY <1>2
<1>4. PICK named \in SUBSET Keys : named = Called(intake.name)
  BY DEF Called
<1>5. PICK answer \in Resolution : answer = Decide(intake, matched, owned, named)
  BY DecideType
<1>6. PICK l \in Local : l = [at |-> "resolved", intake |-> intake, answer |-> answer]
  BY DEF Local
<1>7. Goto(r, l) /\ UNCHANGED <<tools, externals>>
  BY <1>1, <1>3, <1>4, <1>5, <1>6 DEF MatchNames
<1>8. \A keys : Owners(keys)' = Owners(keys)
  BY <1>7, ReadKeeps DEF IInv
<1>9. /\ matched \subseteq Owners(intake.keys)
      /\ OwnedBy(owned, matched)
      /\ matched = {} => \E some \in SUBSET named :
                           Decide(intake, {}, {}, some) \in atomic[r]
  BY <1>2, <1>3, <1>4 DEF LoadKnows
<1>10. atomic[r] \subseteq atomic'[r]
  BY ObserveSeen DEF IInv
<1>11. ASSUME answer.reason = "existing_identifier_match"
       PROVE  /\ answer \in atomic[r]
              /\ \A key \in intake.keys : Owners({key}) = {answer.tool}
  <2>1. /\ answer = AtomicAnswer(intake)
        /\ \A key \in intake.keys : Owners({key}) = {answer.tool}
    <3>1. Decide(intake, matched, owned, named).reason = "existing_identifier_match"
      BY <1>5, <1>11
    <3>2. /\ Decide(intake, matched, owned, named) = AtomicAnswer(intake)
          /\ SoleOwner(Decide(intake, matched, owned, named).tool, intake.keys)
      BY <1>4, <1>9, <3>1, ExistingIsNow
    <3>. QED  BY <1>5, <3>2 DEF SoleOwner
  <2>2. AtomicAnswer(intake) \in atomic[r]
    BY <1>1, <1>2, <1>3 DEF IInv, SeenInv, Resolving
  <2>. QED  BY <2>1, <2>2
<1>12. ASSUME answer.reason = "new_strong_identifier"
       PROVE  answer \in atomic[r]
  <2>1. matched = {} /\ named = {}
    BY <1>5, <1>12, DecideNew
  <2>2. Decide(intake, {}, {}, {}) \in atomic[r]
    BY <1>9, <2>1
  <2>3. answer = Decide(intake, {}, {}, {})
    BY <1>5, <2>1, DecideUnmatched
  <2>. QED  BY <2>2, <2>3
<1>13. ASSUME answer.reason = "conflicting_existing_identifiers"
       PROVE  Cardinality(Owners(intake.keys)) > 1
  <2>1. Cardinality(matched) > 1
    BY <1>5, <1>13, DecideConflict
  <2>2. IsFiniteSet(Owners(intake.keys))
    BY OwnersType DEF IInv
  <2>3. Cardinality(matched) <= Cardinality(Owners(intake.keys))
    BY <1>9, <2>2, FS_Subset
  <2>4. Cardinality(matched) \in Nat /\ Cardinality(Owners(intake.keys)) \in Nat
    BY <1>9, <2>2, FS_Subset, FS_CardinalityType
  <2>. QED  BY <2>1, <2>3, <2>4
<1>14. ResolvedKnows(r, l)'
  BY <1>6, <1>8, <1>10, <1>11, <1>12, <1>13 DEF ResolvedKnows
<1>15. Knows(r, l)'
  BY <1>6, <1>14 DEF Knows
<1>. QED  BY <1>7, <1>15, ReadStep

-----------------------------------------------------------------------------
(* The theorems.                                                           *)

\* The initial registry is empty.
LEMMA InitEstablishes ==
  Init => IInv
<1>. SUFFICES ASSUME Init PROVE IInv
  OBVIOUS
<1>1. RegistryInv
  BY FS_EmptySet DEF Init, RegistryInv, Exists
<1>2. request \in [Requests -> Local]
  BY DEF Init, Local
<1>3. SeenInv /\ RequestInv
  BY DEF Init, SeenInv, RequestInv, Resolving, Knows
<1>4. atomic \in [Requests -> SUBSET Resolution]
  BY DEF Init
<1>. QED  BY <1>1, <1>2, <1>3, <1>4 DEF IInv

\* Steps that change nothing keep it.
LEMMA StutterKeeps ==
  IInv /\ UNCHANGED vars => IInv'
<1>. SUFFICES ASSUME IInv, UNCHANGED vars PROVE IInv'
  OBVIOUS
<1>1. RegistryInv' /\ RegistryGrows
  BY ReadKeeps DEF vars, IInv
<1>2. SeenInv'
  BY ZenonT(30) DEF vars, IInv, SeenInv, Resolving, AtomicAnswer, Owners, Called, Exists
<1>3. RequestInv'
  <2>1. SUFFICES ASSUME NEW q \in Requests
                 PROVE  Knows(q, request[q])'
    BY DEF RequestInv
  <2>2. request[q] \in Local /\ Knows(q, request[q])
    BY DEF IInv, RequestInv
  <2>3. request'[q] = request[q] /\ atomic'[q] = atomic[q]
    BY DEF vars
  <2>. QED  BY <1>1, <2>2, <2>3, OthersKnow DEF IInv
<1>. QED  BY <1>1, <1>2, <1>3 DEF vars, IInv

\* The registry, the requests and the history stay what they should be, whatever
\* creations, additions and resolutions overlap.
THEOREM InductiveInvariant ==
  Spec => []IInv
<1>1. ASSUME IInv, Next
      PROVE  IInv'
  <2>. PICK r \in Requests : Step(r) /\ Observe
    BY <1>1 DEF Next
  <2>1. CASE \E id \in Keys : \E list \in Listed(id) : \E names \in SUBSET Names \ {{}} :
               CreateTool(r, id, list, names)
    BY <1>1, <2>1, CreateToolStep
  <2>2. CASE \E id \in Keys : \E list \in Listed(id) : RefuseCreate(r, id, list)
    BY <1>1, <2>2, RefuseCreateStep
  <2>3. CASE \E id, key \in Keys : BeginAdd(r, id, key)
    BY <1>1, <2>3, BeginAddStep
  <2>4. CASE CheckOwner(r)
    BY <1>1, <2>4, CheckOwnerStep
  <2>5. CASE InsertIdentifier(r)
    BY <1>1, <2>5, InsertIdentifierStep
  <2>6. CASE \E intake \in Intake : BeginResolve(r, intake)
    BY <1>1, <2>6, BeginResolveStep
  <2>7. CASE MatchIdentifiers(r)
    BY <1>1, <2>7, MatchIdentifiersStep
  <2>8. CASE LoadMatched(r)
    BY <1>1, <2>8, LoadMatchedStep
  <2>9. CASE MatchNames(r)
    BY <1>1, <2>9, MatchNamesStep
  <2>. QED  BY <2>1, <2>2, <2>3, <2>4, <2>5, <2>6, <2>7, <2>8, <2>9 DEF Step
<1>. QED  BY <1>1, InitEstablishes, StutterKeeps, PTL DEF Spec

\* Every variable keeps its type.
THEOREM TypeCorrect ==
  Spec => []TypeOK
<1>1. IInv => TypeOK
  <2>. SUFFICES ASSUME IInv PROVE TypeOK
    OBVIOUS
  <2>1. ASSUME NEW id \in Keys, Exists(id)
        PROVE  tools[id].names \subseteq Names /\ Range(tools[id].identifiers) \subseteq Keys
    <3>1. tools[id] \in ToolRow
      BY <2>1 DEF IInv, RegistryInv
    <3>. QED  BY <3>1, SequenceType DEF ToolRow
  <2>. QED  BY <2>1 DEF IInv, RegistryInv, TypeOK
<1>. QED  BY <1>1, InductiveInvariant, PTL

\* An identifier belongs to one tool, and the JSON column of a tool and its rows of
\* tool_external_ids agree: the primary key decides the races that the reads before
\* a write leave open.
THEOREM IdentifiersHaveOneOwner ==
  Spec => []OwnersAgree
<1>1. IInv => OwnersAgree
  <2>. SUFFICES ASSUME IInv PROVE OwnersAgree
    OBVIOUS
  <2>1. ASSUME NEW id \in Keys, Exists(id)
        PROVE  /\ Range(tools[id].identifiers) = OwnKeys(id)
               /\ Cardinality(Range(tools[id].identifiers)) = Len(tools[id].identifiers)
               /\ id \in Range(tools[id].identifiers)
    <3>1. tools[id] \in ToolRow /\ ColumnAgrees(id)
      BY <2>1 DEF IInv, RegistryInv
    <3>2. PICK list \in Seq(Keys) : list = tools[id].identifiers
      BY <3>1 DEF ToolRow
    <3>3. \A i, j \in DOMAIN list : list[i] = list[j] => i = j
      BY <3>1, <3>2 DEF ColumnAgrees
    <3>4. list \in Injection(1 .. Len(list), Keys)
      BY <3>3, SequenceType DEF Injection, IsInjective
    <3>5. list \in Bijection(1 .. Len(list), Range(list))
      BY <3>4, Fun_InjMeansBijImage
    <3>6. Cardinality(Range(list)) = Len(list)
      BY <3>5, FS_CountingElements, SequenceType DEF ExistsBijection
    <3>. QED  BY <3>1, <3>2, <3>6 DEF ColumnAgrees
  <2>. QED  BY <2>1 DEF IInv, RegistryInv, OwnersAgree, OwnKeys
<1>. QED  BY <1>1, InductiveInvariant, PTL

\* A resolution that needs no review, put together from several queries with commits
\* in between, answers what one look at the whole registry would have answered at
\* some moment of it.
THEOREM ResolutionsAreAtomic ==
  Spec => []ConfidentAnswersAreSnapshots
<1>1. IInv => ConfidentAnswersAreSnapshots
  BY DEF IInv, RequestInv, Knows, ResolvedKnows, ConfidentAnswersAreSnapshots,
         Reasoned, Resolved, At
<1>. QED  BY <1>1, InductiveInvariant, PTL

\* A tool that was resolved goes on to own every identifier of the intake, alone, and
\* a conflict that was told goes on to be one.  A proposal to create a tool may go
\* stale and is not meant.
THEOREM ResolutionsStand ==
  Spec => []AnswersStand
<1>1. IInv => AnswersStand
  BY DEF IInv, RequestInv, Knows, ResolvedKnows, AnswersStand, Reasoned, Resolved, At
<1>. QED  BY <1>1, InductiveInvariant, PTL

=============================================================================
