---------------------------- MODULE LaneMaterial ----------------------------
(* What reaches the prompt of a lane (lane/compose.go, prompt/budget.go): the  *)
(* sets its declaration selects are queried or loaded one after another, while *)
(* rebuilds replace the store, and sections go until the estimate is within    *)
(* the model's budget.  The review reads the declarations without overlay.     *)
EXTENDS ResourceIndex

CONSTANTS
  TopK, Jobs,        \* what lanes ask for, and with which embedding
  Base, Size, Limits \* estimates of the resource-free prompt and of sections; budgets

(* What a job's configuration gives for the query's embedding; models are told *)
(* from the reasons why there is none, and from BM25.                          *)
Embedding == Model \cup {Off, "missing-key", "embedder-init"}
Words == {"bm25", "missing-key", "embedder-init", "no-vectors", "model-mismatch", "ready"}

ASSUME JobAssumption ==
  /\ TopK \in Nat
  /\ Off \notin Model \cup Words /\ Model \cap Words = {}
  /\ \A j \in Jobs : /\ j.selectors \in Seq(SetName) /\ j.tags \subseteq Tag
                      /\ j.embed \in Embedding /\ j.terms \in BOOLEAN

R == INSTANCE Retrieval WITH Off <- Off, TopK <- TopK, NoStore <- NoStore

(* A budget of 0 is none; fail says that normative sections must not go. *)
Unlimited == [budget |-> 0, fail |-> FALSE]

VARIABLE lane
vars == <<indexVars, lane>>

Init ==
  /\ InitIndex
  /\ lane = [pc |-> "idle"]

(* A job's registry, embedding configuration and terms are settled before      *)
(* Compose begins.  A registry that cannot be loaded is empty.                 *)
Start ==
  /\ lane.pc = "idle"
  /\ \E job \in Jobs :
       LET known == IF LoadFails(decl, FALSE) THEN <<>> ELSE Load(decl, FALSE)
       IN  lane' = [pc |-> "collect", embed |-> job.embed, terms |-> job.terms,
                    todo |-> Resolve(known, job.selectors, job.tags),
                    named |-> {<<n, "unknown selector", <<>>>> :
                                n \in Unknown(known, job.selectors, job.tags)},
                    full |-> <<>>, docs |-> <<>>, chunks |-> <<>>, gone |-> {},
                    limit |-> Unlimited, owed |-> {}, due |-> {}, ranked |-> {}]
  /\ UNCHANGED indexVars

(* The chunks themselves: ids mean nothing to another store. *)
Chunks(ids) == [i \in DOMAIN ids |-> store.chunks[ids[i]]]

OfSet(name) == {i \in DOMAIN store.chunks : store.chunks[i].set = name}

(* What the store holds of a set, and what of it answers the query. *)
Held(name) ==
  IF store = NoStore THEN [set |-> name, all |-> 0, hits |-> 0]
  ELSE [set |-> name, all |-> Cardinality(OfSet(name)), hits |-> Cardinality(R!Hits(store, name))]

(* One query: owed and ranked keep what the set had for it, and who ranked it. *)
Queried(set, called) ==
  LET a == R!Retrieve(store, set.name, lane.terms, lane.embed, called)
  IN  [lane EXCEPT !.todo = Tail(@), !.chunks = @ \o Chunks(a.ids),
         !.named = @ \cup {<<set.name, c, <<>>>> : c \in a.codes},
         !.owed = @ \cup {Held(set.name)},
         !.ranked = @ \cup {[set |-> set.name, by |-> a.by]}]

(* collectResources, one set: a full set is left for the loader.               *)
Collect ==
  /\ lane.pc = "collect" /\ lane.todo # <<>>
  /\ LET set == Head(lane.todo) IN
     IF set.mode = "full"
     THEN lane' = [lane EXCEPT !.todo = Tail(@), !.full = Append(@, set)]
     ELSE \E called \in BOOLEAN : lane' = Queried(set, called)
  /\ UNCHANGED indexVars

-----------------------------------------------------------------------------
(* fullSetFiles: files named in the declaration, then those of its directories. *)
Regular(f) == tree[f] \notin {"none", "special"}

FullFiles(set) ==
  Among(set.paths, {f \in File : Regular(f)}) \o Walk(tree, set.paths)

FullNamed(set) ==
  {<<set.name, "unavailable", p>> :
      p \in WalkSkips(tree, set.paths) \cup {f \in ToSet(set.paths) \cap File : ~Regular(f)}}

(* Everything a full set declares, but what its patterns leave out. *)
Declared(set) ==
  {f \in File : \/ f \in ToSet(set.paths)
                \/ f[1] \in ToSet(set.paths) /\ tree[f] \notin {"hidden", "none"}}

(* The sections of a normative set, one for each of its files. *)
FullDocs(set) ==
  LET fs == FullFiles(set) IN [j \in DOMAIN fs |-> [set |-> set.name, file |-> fs[j]]]

(* What LoadFull leaves: a file that cannot be read is named and left out.  The *)
(* budget and the policy are looked at from here on.                            *)
Loaded(docs, limit) ==
  LET locked == {d \in ToSet(docs) : tree[d.file] = "locked"}
  IN  [lane EXCEPT !.pc = "fit", !.limit = limit,
         !.docs = Among(docs, ToSet(docs) \ locked),
         !.due = UNION {{s.name} \X Declared(s) : s \in ToSet(lane.full)},
         !.named = @ \cup (UNION {FullNamed(s) : s \in ToSet(lane.full)})
                     \cup {<<d.set, "unavailable", d.file>> : d \in locked}]

LoadFull ==
  /\ lane.pc = "collect" /\ lane.todo = <<>>
  /\ \E limit \in Limits :
       lane' = Loaded(FlattenSeq([i \in DOMAIN lane.full |-> FullDocs(lane.full[i])]), limit)
  /\ UNCHANGED indexVars

-----------------------------------------------------------------------------
Cost == Base + Size.full * Len(lane.docs) + Size.retrieval * Len(lane.chunks)
Over == lane.limit.budget > 0 /\ Cost > lane.limit.budget

(* Mutant: an eviction is not reported. *)
EvictUnreported(field, mode) ==
  /\ lane[field] # <<>>
  /\ lane' = [lane EXCEPT ![field] = Front(@)]

(* The tail section of the mode leaves the composition, and is reported. *)
Evict(field, mode) ==
  /\ lane[field] # <<>>
  /\ lane' = [lane EXCEPT ![field] = Front(@),
                !.gone = @ \cup {[mode |-> mode, cost |-> Cost]},
                !.named = @ \cup {<<Last(lane[field]).set, "evicted", <<>>>>}]

(* Mutant: retrieval sections are evicted only when no document is left. *)
EvictFullFirst ==
  \/ Evict("docs", "full")
  \/ lane.docs = <<>> /\ Evict("chunks", "retrieval")

EvictNext ==
  \/ Evict("chunks", "retrieval")
  \/ lane.chunks = <<>> /\ Evict("docs", "full")

EvictSection ==
  /\ lane.pc = "fit" /\ Over
  /\ EvictNext
  /\ UNCHANGED indexVars

NormativeGone == \E g \in lane.gone : g.mode = "full"

(* A prompt is composed, or rejected: it is too long without any resource, or  *)
(* the operator wants no review without the normative sections.                *)
Finish ==
  /\ lane.pc = "fit" /\ (Over => lane.docs = <<>> /\ lane.chunks = <<>>)
  /\ lane' = [lane EXCEPT !.pc = IF Over \/ (NormativeGone /\ lane.limit.fail)
                                 THEN "failed" ELSE "composed"]
  /\ UNCHANGED indexVars

Next ==
  \/ NextIndex /\ UNCHANGED lane
  \/ Edit /\ UNCHANGED lane
  \/ Start \/ Collect \/ LoadFull \/ EvictSection \/ Finish

Spec == Init /\ [][Next]_vars

-----------------------------------------------------------------------------
Sought == lane.pc \notin {"idle"}
Named(set) == \E n \in lane.named : n[1] = set
Sent(set) == {i \in DOMAIN lane.chunks : lane.chunks[i].set = set}
AtLeast(k, n) == IF k < n THEN k ELSE n

(* Nothing the lane asked for is lost without a word: of every set queried the *)
(* prompt has as many chunks as answered the query, up to TopK, or something   *)
(* about the set is named; of every normative set it has each declared file,   *)
(* or that file or an eviction is named (Compose, Retrieve, LoadFull).         *)
NothingLostSilently ==
  Sought =>
    /\ \A o \in lane.owed :
         Named(o.set) \/ ~lane.terms \/ Cardinality(Sent(o.set)) >= AtLeast(TopK, o.hits)
    /\ \A d \in lane.due :
         \/ [set |-> d[1], file |-> d[2]] \in ToSet(lane.docs)
         \/ <<d[1], "unavailable", d[2]>> \in lane.named
         \/ <<d[1], "evicted", <<>>>> \in lane.named

(* Vectors rank only if they are of the model that embedded the query; a way   *)
(* back to BM25 is named; and no store that a rebuild has published ever lacks *)
(* the vector of a candidate (planRerank, candidateVectors, embedChunks).      *)
RankingIsHonest ==
  Sought =>
    /\ \A r \in lane.ranked :
         /\ r.by \in Model => r.by = lane.embed
         /\ r.by = "bm25" /\ lane.embed # Off => Named(r.set)
    /\ \A n \in lane.named : n[2] # "corrupt-vector"

(* A normative section goes only after every retrieval section, nothing goes   *)
(* while the estimate is within the budget, and what is sent is within it and  *)
(* complete if the policy says so (ComposeWithBudget).                         *)
NormativeLast ==
  Sought =>
    /\ NormativeGone => lane.chunks = <<>>
    /\ \A g \in lane.gone : g.cost > lane.limit.budget
    /\ lane.pc = "composed" => ~Over /\ (lane.limit.fail => ~NormativeGone)

-----------------------------------------------------------------------------
(* The inductive invariant behind NormativeLast: nothing is evicted before     *)
(* everything is collected, and a composition has the fields of a started one. *)
Fields == {"pc", "embed", "terms", "todo", "named", "full", "docs", "chunks", "gone",
           "limit", "owed", "due", "ranked"}

EvictionInv ==
  Sought =>
    /\ lane.pc \in {"collect", "fit", "failed", "composed"}
    /\ DOMAIN lane = Fields
    /\ lane.pc = "collect" => lane.gone = {}
    /\ NormativeLast

(* And behind the others: what the fields hold.                                *)
FieldType ==
  /\ lane.embed \in Embedding /\ lane.terms \in BOOLEAN
  /\ lane.todo \in Seq(Declaration) /\ lane.full \in Seq(Declaration)
  /\ lane.docs \in Seq([set : SetName, file : File]) /\ lane.chunks \in Seq(Chunk)
  /\ \A o \in lane.owed : o.hits \in Nat

MaterialInv ==
  /\ IndexInv /\ EvictionInv /\ NothingLostSilently /\ RankingIsHonest
  /\ Sought => FieldType
=============================================================================
