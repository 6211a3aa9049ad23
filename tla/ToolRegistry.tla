---------------------------- MODULE ToolRegistry ----------------------------
(***************************************************************************)
(* Tools, the identifiers they own, and the requests that create a tool,   *)
(* add an identifier to one, or resolve an intake to a tool.  A write is a *)
(* transaction; the reads before it and those of a resolution are queries  *)
(* of their own, and other requests commit between them.  Tools and        *)
(* identifiers are never removed, and names never change.                  *)
(*                                                                         *)
(* Abstracted: an identifier is its key namespace:value, already in        *)
(* canonical form (UrlIdentity says which URLs are); aliases are further   *)
(* names of a tool; timestamps and the tool's type are left out.           *)
(***************************************************************************)
EXTENDS Naturals, Sequences, FiniteSets, Functions

CONSTANTS
  Requests,   \* requests, each made once
  Keys,       \* identifiers in canonical form, and so also ids of tools
  Names,      \* names and aliases, without case
  None

ASSUME RegistryAssumption ==
  None \notin Keys /\ None \notin [names: SUBSET Names, identifiers: Seq(Keys)]

VARIABLES
  tools,      \* for each id, the row of tools: its names and the JSON column
  externals,  \* rows of tool_external_ids
  request,    \* where each request is, what it holds and its answer
  atomic      \* history: for each resolution under way or answered, the answers
              \* it would have had at the moments since it began

vars == <<tools, externals, request, atomic>>

-----------------------------------------------------------------------------
Exists(id) == tools[id] # None
Owners(keys) == {row.tool : row \in {r \in externals : r.key \in keys}}
Called(name) == {id \in Keys : Exists(id) /\ name \in tools[id].names}

Intake == [keys: SUBSET Keys, invalid: BOOLEAN, name: Names]

\* The reasons of a resolution; with the first two it names a tool, to use
\* (resolved) or to create (create_candidate), with the others it needs review.
Reasons == {"existing_identifier_match", "new_strong_identifier",
            "name_only", "name_match_only", "invalid_or_ambiguous_url",
            "multiple_strong_identifiers", "conflicting_existing_identifiers",
            "possible_fork_or_source_migration",
            "additional_identifier_requires_review"}
Resolution == [reason: Reasons, candidates: SUBSET Keys, tool: Keys \cup {None}]
Outcome == [kind: {"created", "exists", "added"}, tool: Keys]
             \cup [kind: {"claimed"}, key: Keys, by: Keys]

At(r, step) == request[r].at = step
Goto(r, local) == request' = [request EXCEPT ![r] = local]
Finish(r, answer) == Goto(r, [at |-> "done", answer |-> answer])

-----------------------------------------------------------------------------
(* create_tool.                                                            *)

\* Lists of identifiers that validate_create_tool lets through for a tool: its
\* id occurs once; another identifier may be repeated.
Listed(id) ==
  {<<id>>} \cup {<<other, id>> : other \in Keys \ {id}}
           \cup {<<id, other, other>> : other \in Keys \ {id}}

\* Mutant: INSERT OR IGNORE of the identifiers.
KeysIgnored(id, list) == ~Exists(id)

\* The primary keys of tools and tool_external_ids allow the insert.
KeysFree(id, list) ==
  /\ ~Exists(id)
  /\ \A i \in DOMAIN list :
       /\ \A row \in externals : row.key # list[i]
       /\ \A j \in DOMAIN list : list[i] = list[j] => i = j

\* Repository::create_tool: one transaction.
CreateTool(r, id, list, names) ==
  /\ At(r, "new")
  /\ KeysFree(id, list)
  /\ tools' = [tools EXCEPT ![id] = [names |-> names, identifiers |-> list]]
  /\ externals' = externals \cup {[key |-> k, tool |-> id] : k \in Range(list)}
  /\ Finish(r, [kind |-> "created", tool |-> id])

\* ToolAlreadyExists: the tool, or one of the identifiers, is there already.
RefuseCreate(r, id, list) ==
  /\ At(r, "new")
  /\ ~KeysFree(id, list)
  /\ Finish(r, [kind |-> "exists", tool |-> id])
  /\ UNCHANGED <<tools, externals>>

-----------------------------------------------------------------------------
(* add_identifier.                                                         *)

\* get_tool, and the validation of the identifier.
BeginAdd(r, id, key) ==
  /\ At(r, "new")
  /\ Exists(id)
  /\ Goto(r, [at |-> "check", tool |-> id, key |-> key])
  /\ UNCHANGED <<tools, externals>>

\* Mutant: the refusal names all owners.
CheckOwners(r) ==
  /\ At(r, "check")
  /\ LET add    == request[r]
         others == Owners({add.key}) \ {add.tool}
     IN  IF others # {}
         THEN Finish(r, [kind |-> "claimed", key |-> add.key, by |-> others])
         ELSE Goto(r, [add EXCEPT !.at = "insert"])
  /\ UNCHANGED <<tools, externals>>

\* find_tools_by_identifiers: another tool owns the identifier, or none does.
CheckOwner(r) ==
  /\ At(r, "check")
  /\ LET add    == request[r]
         others == Owners({add.key}) \ {add.tool}
     IN  IF others # {}
         THEN \E owner \in others :
                Finish(r, [kind |-> "claimed", key |-> add.key, by |-> owner])
         ELSE Goto(r, [add EXCEPT !.at = "insert"])
  /\ UNCHANGED <<tools, externals>>

\* add_external_id: the row and the JSON column in one transaction.  A refusal of
\* the insert is reported as a claim by the tool of the request.
InsertIdentifier(r) ==
  /\ At(r, "insert")
  /\ LET add == request[r]
     IN  IF Owners({add.key}) # {}
         THEN /\ Finish(r, [kind |-> "claimed", key |-> add.key, by |-> add.tool])
              /\ UNCHANGED <<tools, externals>>
         ELSE /\ externals' = externals \cup {[key |-> add.key, tool |-> add.tool]}
              /\ tools' = [tools EXCEPT ![add.tool].identifiers = Append(@, add.key)]
              /\ Finish(r, [kind |-> "added", tool |-> add.tool])

-----------------------------------------------------------------------------
(* resolve_tool.                                                           *)

\* Mutant: one tool among the owners is enough.
ReasonPartial(intake, matched, owned, named) ==
  IF Cardinality(matched) = 1 THEN "existing_identifier_match"
  ELSE IF matched # {} THEN "conflicting_existing_identifiers"
  ELSE IF Cardinality(intake.keys) = 1 THEN "new_strong_identifier"
  ELSE "name_only"

\* The decision tree, on the tools that matched by identifier, the identifiers
\* those own, and the tools that matched by name.
Reason(intake, matched, owned, named) ==
  IF intake.invalid THEN "invalid_or_ambiguous_url"
  ELSE IF Cardinality(matched) > 1 THEN "conflicting_existing_identifiers"
  ELSE IF matched # {} /\ ~(intake.keys \subseteq owned)
       THEN "additional_identifier_requires_review"
  ELSE IF matched # {} THEN "existing_identifier_match"
  ELSE IF intake.keys = {} THEN IF named = {} THEN "name_only" ELSE "name_match_only"
  ELSE IF Cardinality(intake.keys) > 1 THEN "multiple_strong_identifiers"
  ELSE IF named # {} THEN "possible_fork_or_source_migration"
  ELSE "new_strong_identifier"

\* The resolution: the matched tool, the proposed one or none.
Decide(intake, matched, owned, named) ==
  LET reason == Reason(intake, matched, owned, named)
  IN  [reason     |-> reason,
       candidates |-> matched \cup named,
       tool       |-> CASE reason = "existing_identifier_match" -> CHOOSE id \in matched : TRUE
                        [] reason = "new_strong_identifier" -> CHOOSE k \in intake.keys : TRUE
                        [] OTHER -> None]

BeginResolve(r, intake) ==
  /\ At(r, "new")
  /\ Goto(r, [at |-> "match", intake |-> intake])
  /\ UNCHANGED <<tools, externals>>

\* find_tools_by_identifiers: the SELECT of the owners.
MatchIdentifiers(r) ==
  /\ At(r, "match")
  /\ LET matched == Owners(request[r].intake.keys)
     IN  Goto(r, [at |-> "load", intake |-> request[r].intake, matched |-> matched,
                  loaded |-> {}, owned |-> {}])
  /\ UNCHANGED <<tools, externals>>

\* find_tools_by_identifiers: get_tool of each owner, a query each.
LoadMatched(r) ==
  /\ At(r, "load")
  /\ \E id \in request[r].matched \ request[r].loaded :
       Goto(r, [request[r] EXCEPT
                  !.loaded = @ \cup {id},
                  !.owned = @ \cup Range(tools[id].identifiers)])
  /\ UNCHANGED <<tools, externals>>

\* Mutant: the names are not asked for when an identifier matched.
MatchNamesIfNeeded(r) ==
  /\ At(r, "load")
  /\ request[r].loaded = request[r].matched
  /\ LET found == request[r]
         named == IF found.matched = {} THEN Called(found.intake.name) ELSE {}
     IN  Goto(r, [at |-> "resolved", intake |-> found.intake,
                  answer |-> Decide(found.intake, found.matched, found.owned, named)])
  /\ UNCHANGED <<tools, externals>>

\* find_tools_by_name, and the decision.
MatchNames(r) ==
  /\ At(r, "load")
  /\ request[r].loaded = request[r].matched
  /\ Goto(r, [at |-> "resolved", intake |-> request[r].intake,
              answer |-> Decide(request[r].intake, request[r].matched, request[r].owned,
                                Called(request[r].intake.name))])
  /\ UNCHANGED <<tools, externals>>

-----------------------------------------------------------------------------
Init ==
  /\ tools = [id \in Keys |-> None]
  /\ externals = {}
  /\ request = [r \in Requests |-> [at |-> "new"]]
  /\ atomic = [r \in Requests |-> {}]

Step(r) ==
  \/ \E id \in Keys : \E list \in Listed(id) :
       \/ \E names \in SUBSET Names \ {{}} : CreateTool(r, id, list, names)
       \/ RefuseCreate(r, id, list)
  \/ \E id, key \in Keys : BeginAdd(r, id, key)
  \/ CheckOwner(r) \/ InsertIdentifier(r)
  \/ \E intake \in Intake : BeginResolve(r, intake)
  \/ MatchIdentifiers(r) \/ LoadMatched(r) \/ MatchNames(r)

\* What one query of the whole registry would answer.
AtomicAnswer(intake) ==
  LET matched == Owners(intake.keys)
  IN  Decide(intake, matched, UNION {Range(tools[id].identifiers) : id \in matched},
             Called(intake.name))

Resolving(local) == local.at \in {"match", "load"}

\* History: each resolution sees the registry at every moment it lasts.
Observe ==
  atomic' = [r \in Requests |->
               IF Resolving(request[r])' THEN atomic[r] \cup {AtomicAnswer(request[r].intake)'}
               ELSE atomic[r]]

Next == \E r \in Requests : Step(r) /\ Observe

Spec == Init /\ [][Next]_vars

-----------------------------------------------------------------------------
(* Correctness.                                                            *)

Local ==
  [at: {"new"}]
    \cup [at: {"check", "insert"}, tool: Keys, key: Keys]
    \cup [at: {"match"}, intake: Intake]
    \cup [at: {"load"}, intake: Intake, matched: SUBSET Keys, loaded: SUBSET Keys,
          owned: SUBSET Keys]
    \cup [at: {"resolved"}, intake: Intake, answer: Resolution]
    \cup [at: {"done"}, answer: Outcome]

\* Every variable has its type.
TypeOK ==
  /\ DOMAIN tools = Keys
  /\ \A id \in Keys : Exists(id) =>
       /\ tools[id].names \subseteq Names
       /\ Range(tools[id].identifiers) \subseteq Keys
  /\ externals \subseteq [key: Keys, tool: Keys]
  /\ request \in [Requests -> Local]
  /\ atomic \in [Requests -> SUBSET Resolution]

\* An identifier belongs to one tool, whatever creations and additions race for it
\* (the owner check of add_identifier is read before the insert, and create_tool
\* has none); and the two places that hold the identifiers of a tool agree: its
\* JSON column lists the rows it owns, each once, with its own id among them, and
\* no row belongs to a tool that does not exist.
OwnersAgree ==
  /\ \A row, other \in externals : row.key = other.key => row = other
  /\ \A row \in externals : Exists(row.tool)
  /\ \A id \in Keys : Exists(id) =>
       LET list == tools[id].identifiers
       IN  /\ Range(list) = {row.key : row \in {x \in externals : x.tool = id}}
           /\ Cardinality(Range(list)) = Len(list)
           /\ id \in Range(list)

Resolved(r) == At(r, "resolved")
Reasoned(r, reason) == Resolved(r) /\ request[r].answer.reason = reason

\* An answer that needs no review is what one look at the whole registry would
\* have answered at some moment of the request, candidates included, although it
\* was put together from several queries with commits in between.
ConfidentAnswersAreSnapshots ==
  \A r \in Requests :
    Reasoned(r, "existing_identifier_match") \/ Reasoned(r, "new_strong_identifier")
      => request[r].answer \in atomic[r]

\* A tool that was resolved stays right: all identifiers of the intake belong to it,
\* from the answer on; and a conflict is one for ever.  A proposal to create a tool
\* (new_strong_identifier) is not covered: another request may create the tool.
AnswersStand ==
  \A r \in Requests :
    /\ Reasoned(r, "existing_identifier_match") =>
         \A key \in request[r].intake.keys : Owners({key}) = {request[r].answer.tool}
    /\ Reasoned(r, "conflicting_existing_identifiers") =>
         Cardinality(Owners(request[r].intake.keys)) > 1

=============================================================================
