------------------------------ MODULE Retrieval -----------------------------
(* One query of a set (rag/sqlite/retriever.go): the checks of the store, the  *)
(* plan for reranking, the BM25 candidates, and the ways back to them.  BM25   *)
(* ranks chunks in the order of their ids, the vectors in the reverse order:   *)
(* any two different orders tell the rankings apart.                           *)
EXTENDS ResourceSets, Integers

CONSTANTS Off, TopK, NoStore

(* An answer: the chunks by id, how they were ranked, and what was degraded.   *)
Answer(ids, by, codes) == [ids |-> ids, by |-> by, codes |-> codes]

Hits(store, name) ==
  {i \in DOMAIN store.chunks : store.chunks[i].set = name /\ store.chunks[i].hit}

AtMost(k, s) == SubSeq(s, 1, IF k < Len(s) THEN k ELSE Len(s))
Bm25(store, name, limit) ==
  AtMost(limit, Among([i \in DOMAIN store.chunks |-> i], Hits(store, name)))

(* validateStore *)
Refusal(store, name) ==
  IF store = NoStore THEN "store unavailable"
  ELSE IF name \notin store.rows THEN "not indexed"
  ELSE "none"

HasVectors(store, name) ==
  \E i \in DOMAIN store.vecs : store.chunks[i].set = name

(* Mutant: any vectors will do. *)
PlanAnyModel(store, name, embed) ==
  IF embed \in {Off, "missing-key", "embedder-init"} THEN embed
  ELSE IF store.model = Off \/ ~HasVectors(store, name) THEN "no-vectors"
  ELSE "ready"

(* planRerank: embed is what the job's configuration gives it, a model or the  *)
(* reason why there is none.                                                   *)
Plan(store, name, embed) ==
  IF embed \in {Off, "missing-key", "embedder-init"} THEN embed
  ELSE IF store.model = Off \/ ~HasVectors(store, name) THEN "no-vectors"
  ELSE IF store.model # embed THEN "model-mismatch"
  ELSE "ready"

(* degradeRerank: the BM25 order, and the reason by name. *)
Degraded(ids, code) == Answer(AtMost(TopK, ids), "bm25", {code})

(* rerank with the vectors of the candidates, which must all be there. *)
HasVector(store, i) == i \in DOMAIN store.vecs /\ store.vecs[i].model = store.model

Rerank(store, ids, called) ==
  IF ids = <<>> THEN Answer(ids, Off, {})
  ELSE IF ~called THEN Degraded(ids, "embed-call-failed")
  ELSE IF \E i \in ToSet(ids) : ~HasVector(store, i)
  THEN Degraded(ids, "corrupt-vector")
  ELSE Answer(AtMost(TopK, Reverse(ids)), store.model, {})

(* Retrieve, for a set of mode retrieval; called says whether the provider     *)
(* embeds the query.                                                           *)
Retrieve(store, name, terms, embed, called) ==
  IF ~terms THEN Answer(<<>>, Off, {})
  ELSE IF Refusal(store, name) # "none" THEN Answer(<<>>, Off, {Refusal(store, name)})
  ELSE LET plan == Plan(store, name, embed) IN
       IF plan = "ready" THEN Rerank(store, Bm25(store, name, 4 * TopK), called)
       ELSE IF plan = Off THEN Answer(Bm25(store, name, TopK), "bm25", {})
       ELSE Degraded(Bm25(store, name, TopK), plan)
=============================================================================
