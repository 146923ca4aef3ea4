---------------------------- MODULE EvidenceChain ----------------------------
(* From queries to cited evidence: HybridRetrievalService recalls, fuses,     *)
(* reranks and selects; a chain that asks several queries merges their        *)
(* bundles; a model writes from the numbered evidence; what it cites is       *)
(* checked, repaired once and resolved to chunks.  The chains are QAWorkflow  *)
(* and the three planning workers.                                            *)
(*                                                                            *)
(* A chunk stands for its catalogue record and its document in the index.     *)
(* Search results, reranker replies and drafts are any that can come back.    *)
EXTENDS Integers, SequencesExt, PlanningArtifacts, RequestContext, Selections

CONSTANTS Chunks,         \* records [id, text, size, tenant, near]; tenant Public if public
          Public,
          SearchTopK,     \* bm25_top_k and vector_top_k
          RankConstant,   \* rrf_k
          FinalTopK, TokenBudget,
          Queries,        \* queries of a worker
          Failed          \* what a search or a reranker that raises gives

EvidenceAssumption ==
    /\ \A c, d \in Chunks : c.id = d.id => c = d
    /\ \A c \in Chunks : c.id \in Nat /\ c.size \in Nat \ {0} /\ c.near \in BOOLEAN
    /\ {SearchTopK, RankConstant, FinalTopK, TokenBudget, Queries} \subseteq Nat \ {0}

VARIABLES chain,      \* who asks; never changes
          scope,      \* Public or Tenant; never changes
          mode,       \* RetrievalMode; never changes
          phase,
          bundle,     \* the last search: candidates and selected evidence
          evidence,   \* numbered evidence collected so far
          asked,      \* queries made
          draft,      \* the model's last output
          refs,       \* chunks the result cites
          flags       \* what the planning runtime will see of the artifact

evidenceVars == <<chain, scope, mode, phase, bundle, evidence, asked, draft, refs, flags>>
requestVars == <<chain, scope, mode>>

NoBundle == [candidates |-> <<>>, selected |-> <<>>]
NoDraft == [cites |-> {}, flaw |-> "none", says |-> {}]

(* Retrieval. *)

\* The catalogue's records decide which sources are searched, and the index looks at its
\* documents again; requests that name sources or devices are left out.
RecordAllowed(c) == c.tenant = Public \/ (scope # Public /\ c.tenant = scope)
FilterAllows(c) == IF scope = Public THEN c.tenant = Public ELSE c.tenant \in {Public, scope}
Allowed(c) == RecordAllowed(c) /\ FilterAllows(c)
Rankings == {r \in SeqOf({c \in Chunks : Allowed(c)}, SearchTopK) : IsInjective(r)}

Candidate(c, bm25, dense) ==
    [chunk |-> c, bm25 |-> bm25, near |-> dense /\ c.near, rerank |-> "none"]
CandidatesOf(r, origin) ==
    [i \in DOMAIN r |-> Candidate(r[i], origin = "bm25", origin = "dense")]

\* reciprocal_rank_fusion: a sum of 1 / (k + rank), ties by id.
RankWeight(r, c) ==
    IF c \in ToSet(r) THEN 1000000 \div (RankConstant + CHOOSE i \in DOMAIN r : r[i] = c) ELSE 0
Fused(bm25, dense) ==
    LET Score(c) == RankWeight(bm25, c) + RankWeight(dense, c)
        Before(c, d) == Score(c) > Score(d) \/ (Score(c) = Score(d) /\ c.id < d.id)
        found == ToSet(bm25) \cup ToSet(dense)
        line == Sorted(found, {p \in found \X found : Before(p[1], p[2])})
    IN [i \in DOMAIN line |->
            Candidate(line[i], line[i] \in ToSet(bm25), line[i] \in ToSet(dense))]

\* _recall: hybrid search survives the failure of one side.
Recalled(bm25, dense) ==
    LET Found(r) == IF r = Failed THEN <<>> ELSE r
    IN CASE mode = "bm25" -> CandidatesOf(bm25, "bm25")
         [] mode = "dense" -> CandidatesOf(dense, "dense")
         [] mode = "hybrid" -> Fused(Found(bm25), Found(dense))
RecallFails(bm25, dense) ==
    \/ bm25 = Failed /\ mode # "dense" /\ (mode = "hybrid" => dense = Failed)
    \/ dense = Failed /\ mode = "dense"

\* What a reranker may answer: positions out of range or repeated, and too few of them.
RerankReplies ==
    { <<>>, <<[at |-> 2, score |-> "pass"], [at |-> 2, score |-> "fail"]>>,
      <<[at |-> 9, score |-> "pass"], [at |-> 1, score |-> "fail"], [at |-> 3, score |-> "pass"]>>,
      <<[at |-> 2, score |-> "pass"], [at |-> 1, score |-> "pass"]>> }

\* _apply_rerank: the first valid mention of each candidate, then those not mentioned.
Reranked(candidates, reply) ==
    LET First(i) == /\ reply[i].at \in DOMAIN candidates
                    /\ \A j \in 1 .. i - 1 : reply[j].at # reply[i].at
        mentions == Only([i \in DOMAIN reply |-> i], {i \in DOMAIN reply : First(i)})
        named == [i \in DOMAIN mentions |-> reply[mentions[i]].at]
        others == Only([i \in DOMAIN candidates |-> i], DOMAIN candidates \ ToSet(named))
    IN [i \in DOMAIN named |->
            [candidates[named[i]] EXCEPT !.rerank = reply[mentions[i]].score]]
       \o [i \in DOMAIN others |-> candidates[others[i]]]

\* EvidenceSelector._passes_relevance
Relevant(candidate) ==
    IF candidate.rerank # "none" THEN candidate.rerank = "pass"
    ELSE candidate.bm25 \/ candidate.near

Used(evid) == SumOf([i \in DOMAIN evid |-> evid[i].chunk.size])
Texts(evid) == {item.chunk.text : item \in ToSet(evid)}

\* Chunks are told apart by their identifier, not by their text.
MutantSameTextTwice(evid, candidate) ==
    /\ Len(evid) < FinalTopK
    /\ Relevant(candidate)
    /\ Used(evid) + candidate.chunk.size <= TokenBudget

Fits(evid, candidate) ==
    /\ Len(evid) < FinalTopK
    /\ candidate.chunk.text \notin Texts(evid)
    /\ Relevant(candidate)
    /\ Used(evid) + candidate.chunk.size <= TokenBudget

\* EvidenceSelector.select
Selected(evid, candidate) ==
    IF Fits(evid, candidate)
    THEN Append(evid, [number |-> Len(evid) + 1, chunk |-> candidate.chunk]) ELSE evid
Select(candidates) ==
    LET evid[i \in 0 .. Len(candidates)] ==
            IF i = 0 THEN <<>> ELSE Selected(evid[i - 1], candidates[i])
    IN evid[Len(candidates)]

(* Merging and citing. *)

\* The bundles of the queries keep their own numbers.
MutantNumbersKept(evid) == evid

\* _reindex: every chunk once, numbered anew.
Reindexed(evid) ==
    LET New(i) == \A j \in 1 .. i - 1 : evid[j].chunk # evid[i].chunk
        kept == Only([i \in DOMAIN evid |-> i], {i \in DOMAIN evid : New(i)})
    IN [i \in DOMAIN kept |-> [number |-> i, chunk |-> evid[kept[i]].chunk]]

Numbers == {item.number : item \in ToSet(evidence)}

\* evidence_by_id: of two items with one number the last stays.
ById(number) ==
    LET Latest(i) == \A j \in DOMAIN evidence : evidence[j].number = number => j <= i
    IN evidence[CHOOSE i \in DOMAIN evidence : evidence[i].number = number /\ Latest(i)].chunk

(* What a model may answer: the numbers it cites, a flaw that is not in the numbers, and
   what it says that the planning runtime will read. *)

Statements ==
    CASE chain = "qa" -> {}
      [] chain = "diagnosis" -> {"confident", "revised"}
      [] chain = "impact_safety" -> {"high risk", "low risk", "constraints"}
      [] chain = "resource_planning" -> {"available", "conflicts", "alternatives"}
Flaws ==
    CASE chain = "qa" -> {"none"}
      [] chain = "impact_safety" -> {"none", "malformed", "unsupported", "lower than its risks"}
      [] OTHER -> {"none", "malformed", "unsupported"}
\* An item of a list cites something, or it is unsupported.
Listed == {"constraints", "conflicts", "alternatives"}
Outputs ==
    {output \in [cites : SUBSET (0 .. Len(evidence) + 1), flaw : Flaws, says : SUBSET Statements] :
        /\ output.flaw = "none" /\ output.says \cap Listed # {} => output.cites # {}
        /\ ~({"high risk", "low risk"} \subseteq output.says)}

(* The checks: _parse_and_validate of each generator, and validate_citations. *)

DiagnosisSound(output) == output.flaw = "none" /\ output.cites \subseteq Numbers
ImpactSound(output) == output.flaw = "none" /\ output.cites \subseteq Numbers
ResourceSound(output) ==
    /\ output.flaw = "none" /\ output.cites \subseteq Numbers
    /\ output.says # {}
AnswerSound(output) == output.cites # {} /\ output.cites \subseteq Numbers
Sound(output) ==
    CASE chain = "qa" -> AnswerSound(output)
      [] chain = "diagnosis" -> DiagnosisSound(output)
      [] chain = "impact_safety" -> ImpactSound(output)
      [] chain = "resource_planning" -> ResourceSound(output)

(* _validate_result: each worker checks its generator's result once more. *)

DiagnosisValid(output) == output.flaw # "unsupported" /\ output.cites \subseteq Numbers
ImpactValid(output) ==
    /\ output.flaw \notin {"unsupported", "lower than its risks"}
    /\ output.cites \subseteq Numbers
ResourceValid(output) ==
    /\ output.flaw # "unsupported" /\ output.cites \subseteq Numbers
    /\ output.says \cap {"available", "conflicts", "alternatives"} # {}
ResultValid(output) ==
    CASE chain = "qa" -> TRUE
      [] chain = "diagnosis" -> DiagnosisValid(output)
      [] chain = "impact_safety" -> ImpactValid(output)
      [] chain = "resource_planning" -> ResourceValid(output)

\* The result a worker writes itself when it has no evidence says and cites nothing.
DiagnosisFlags(output) ==
    {flag \in {"refused", "signal"} :
        IF flag = "refused" THEN output.cites = {} /\ "confident" \notin output.says
        ELSE "revised" \in output.says}
ImpactFlags(output) ==
    IF output.says \cap {"high risk", "low risk"} = {} THEN {"refused"}
    ELSE IF "high risk" \in output.says /\ "constraints" \notin output.says THEN {"unacknowledged"}
    ELSE {}

ResourceFlags(output) ==
    IF "available" \in output.says THEN {}
    ELSE IF "alternatives" \in output.says THEN {"signal"} ELSE {"signal", "refused"}
FlagsOf(output) ==
    CASE chain = "qa" -> {}
      [] chain = "diagnosis" -> DiagnosisFlags(output)
      [] chain = "impact_safety" -> ImpactFlags(output)
      [] chain = "resource_planning" -> ResourceFlags(output)

(* The chains. *)

EvidenceInit ==
    /\ chain \in {"qa"} \cup Roles
    /\ scope \in {Public, Tenant}
    /\ mode \in IF chain = "qa" THEN {"bm25", "dense", "hybrid"} ELSE {"hybrid"}
    /\ phase = "retrieve"
    /\ bundle = NoBundle /\ evidence = <<>> /\ asked = 0
    /\ draft = NoDraft /\ refs = {} /\ flags = {}

Searches == IF chain = "qa" THEN 1 ELSE Queries

\* retrieve; a reranker that is off or fails leaves the candidates as they are.
Retrieve ==
    /\ phase = "retrieve" /\ asked < Searches
    /\ asked' = asked + 1
    /\ \E bm25, dense \in Rankings \cup {Failed}, reply \in RerankReplies \cup {Failed} :
        LET recalled == Recalled(bm25, dense)
            candidates == IF reply = Failed THEN recalled ELSE Reranked(recalled, reply)
        IN IF RecallFails(bm25, dense)
           THEN phase' = "raised" /\ UNCHANGED bundle
           ELSE /\ bundle' = [candidates |-> candidates, selected |-> Select(candidates)]
                /\ phase' = "collect"
    /\ UNCHANGED <<requestVars, evidence, draft, refs, flags>>

\* The gateway refuses the call, its provider fails, or the bundle is too long for it.
SearchFails ==
    /\ phase = "retrieve" /\ asked < Searches
    /\ asked' = asked + 1 /\ phase' = "raised"
    /\ UNCHANGED <<requestVars, bundle, evidence, draft, refs, flags>>

\* A worker collects the bundles of its queries, and puts new numbers on them in the end.
Collected == evidence \o bundle.selected

Collect ==
    /\ phase = "collect" /\ asked < Searches
    /\ evidence' = Collected /\ phase' = "retrieve"
    /\ bundle' = NoBundle
    /\ UNCHANGED <<requestVars, asked, draft, refs, flags>>

Assemble ==
    /\ phase = "collect" /\ asked = Searches /\ Collected # <<>>
    /\ evidence' = IF chain = "qa" THEN Collected ELSE Reindexed(Collected)
    /\ phase' = "generate"
    /\ bundle' = NoBundle
    /\ UNCHANGED <<requestVars, asked, draft, refs, flags>>

\* Nothing found: no model is asked.
Abstain ==
    /\ phase = "collect" /\ asked = Searches /\ Collected = <<>>
    /\ phase' = "refused" /\ flags' = FlagsOf(NoDraft)
    /\ bundle' = NoBundle
    /\ UNCHANGED <<requestVars, evidence, asked, draft, refs>>

\* What a draft's flaw does: the impact generator's message for an item without support
\* reads an attribute that only mandatory checks have, and raises.
AfterDraft(output) ==
    IF Sound(output) THEN {"cite"}
    ELSE IF chain = "impact_safety" /\ output.flaw = "unsupported" THEN {"raised", "repair"}
    ELSE {"repair"}

Generate ==
    /\ phase = "generate"
    /\ \E output \in Outputs :
        /\ phase' \in AfterDraft(output)
        /\ draft' = IF Sound(output) THEN output ELSE NoDraft
    /\ UNCHANGED <<requestVars, bundle, evidence, asked, refs, flags>>

\* One more answer of the model, with the error in the prompt.
Repair ==
    /\ phase = "repair"
    /\ \/ phase' = "cite" /\ draft' \in {output \in Outputs : Sound(output)}
       \/ phase' = "raised" /\ draft' = NoDraft
    /\ UNCHANGED <<requestVars, bundle, evidence, asked, refs, flags>>

Cite ==
    /\ phase = "cite" /\ ResultValid(draft)
    /\ refs' = {ById(number) : number \in draft.cites}
    /\ flags' = FlagsOf(draft)
    /\ phase' = "answered"
    /\ UNCHANGED <<requestVars, bundle, evidence, asked, draft>>

EvidenceNext ==
    \/ Retrieve \/ SearchFails \/ Collect \/ Assemble \/ Abstain
    \/ Generate \/ Repair \/ Cite
EvidenceSpec == EvidenceInit /\ [][EvidenceNext]_evidenceVars

(* Properties *)

\* Whatever the searches and the reranker return, a bundle holds only relevant evidence, no
\* text twice, within both limits, and leaves nothing out that would still fit.
EvidenceIsWellChosen ==
    LET chosen == {item.chunk : item \in ToSet(bundle.selected)}
        Of(c) == CHOOSE x \in ToSet(bundle.candidates) : x.chunk = c
    IN /\ \A c \in chosen : Relevant(Of(c))
       /\ \A c, d \in chosen : c.text = d.text => c = d
       /\ Cardinality(chosen) = Len(bundle.selected)
       /\ Len(bundle.selected) <= FinalTopK /\ Used(bundle.selected) <= TokenBudget
       /\ \A x \in ToSet(bundle.candidates) : x.chunk \notin chosen => ~Fits(bundle.selected, x)

\* A number the model may cite was printed in its prompt for one chunk only, and the
\* result names exactly the chunks printed under the numbers it cites; an answer to a
\* question names at least one.
CitationsAreFaithful ==
    phase = "answered" =>
        /\ \A number \in draft.cites :
            \E c \in refs : {item.chunk : item \in {x \in ToSet(evidence) : x.number = number}} = {c}
        /\ \A c \in refs :
               \E item \in ToSet(evidence) : item.chunk = c /\ item.number \in draft.cites
        /\ chain = "qa" => refs # {}
=============================================================================
