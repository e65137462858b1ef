---------------------------- MODULE ResourceIndex ---------------------------
(* What a rebuild puts into the store (rag/sqlite/indexer.go, ragcmd): the     *)
(* declared sets are walked one after another, the chunks are embedded in      *)
(* batches, and all of it is committed and published at once or not at all.    *)
(* How it is published is the subject of IndexBuild.                           *)
EXTENDS ResourceSets, FiniteSets

CONSTANTS
  Trees, Registries,   \* what the repository may hold: files and declarations
  Model, Off,          \* embedding models, and none
  Indexed,             \* the models whose API numbers the vectors it answers
  BatchSize, MaxRetries, MaxBuilds, MaxEdits, NoStore

ASSUME IndexAssumption ==
  /\ BatchSize \in Nat \ {0} /\ Indexed \subseteq Model
  /\ MaxRetries \in Nat /\ MaxBuilds \in Nat /\ MaxEdits \in Nat
  /\ Trees \subseteq [File -> Kind]
  /\ \A r \in Registries, f \in {"canonical", "overlay"} : r[f] = NoFile \/ r[f] \in Seq(Declaration)

(* A chunk: its set and file, its place in the file, and whether it is about   *)
(* the diff.                                                                   *)
Chunk == [set : SetName, file : File, part : Nat, hit : BOOLEAN]

VARIABLES tree, decl, build, store, edits
indexVars == <<tree, decl, build, store, edits>>

Idle(n) == [pc |-> "idle", count |-> n, sets |-> <<>>, model |-> Off, rows |-> {},
            docs |-> {}, chunks |-> <<>>, total |-> 0, vecs |-> <<>>, tries |-> 0, stamp |-> Off]

InitIndex ==
  /\ tree \in Trees /\ decl \in Registries
  /\ build = Idle(0) /\ store = NoStore /\ edits = 0

(* Somebody changes the files or the declarations. *)
Edit ==
  /\ edits < MaxEdits /\ edits' = edits + 1
  /\ \/ tree' \in Trees /\ UNCHANGED decl
     \/ decl' \in Registries /\ UNCHANGED tree
  /\ UNCHANGED <<build, store>>

-----------------------------------------------------------------------------
(* What the transaction holds; the manifest's model is stamped last. *)
Contents == [rows |-> build.rows, docs |-> build.docs, chunks |-> build.chunks,
             total |-> build.total, vecs |-> build.vecs, model |-> build.stamp]

(* A failed build rolls its transaction back and leaves the store alone. *)
Failed == build' = Idle(build.count) /\ UNCHANGED store

(* The index command loads the declarations with the system's overlay. *)
Begin ==
  /\ build.pc = "idle" /\ build.count < MaxBuilds
  /\ ~LoadFails(decl, TRUE) /\ Load(decl, TRUE) # <<>>
  /\ \E m \in Model \cup {Off} :
       build' = [Idle(build.count + 1) EXCEPT !.pc = "walk", !.sets = Load(decl, TRUE), !.model = m]
  /\ UNCHANGED <<tree, decl, store, edits>>

(* chunksFor: a set of mode full has documents but no chunks. *)
Cut(set, files) ==
  IF set.mode = "full" THEN <<>>
  ELSE FlattenSeq([i \in DOMAIN files |->
         [n \in 1..Parts[tree[files[i]]] |->
            [set |-> set.name, file |-> files[i], part |-> n, hit |-> tree[files[i]] # "other"]]])

(* indexSet: a file that cannot be read, or two of the same relative path,     *)
(* fail the build.                                                             *)
IndexSet ==
  /\ build.pc = "walk" /\ build.sets # <<>>
  /\ LET set == Head(build.sets)
         files == Walk(tree, set.paths)
     IN  IF Collide(files) \/ \E f \in ToSet(files) : tree[f] = "locked"
         THEN Failed
         ELSE /\ build' = [build EXCEPT
                   !.sets = Tail(@), !.rows = @ \cup {set.name},
                   !.docs = @ \cup ({set.name} \X ToSet(files)),
                   !.chunks = @ \o Cut(set, files), !.total = @ + Len(Cut(set, files))]
              /\ UNCHANGED store
  /\ UNCHANGED <<tree, decl, edits>>

(* buildStore refuses an empty store. *)
Walked ==
  /\ build.pc = "walk" /\ build.sets = <<>>
  /\ IF build.docs = {} THEN Failed
     ELSE build' = [build EXCEPT !.pc = IF build.model = Off THEN "commit" ELSE "embed"] /\ UNCHANGED store
  /\ UNCHANGED <<tree, decl, edits>>

Batch == LET left == Len(build.chunks) - Len(build.vecs) IN IF left < BatchSize THEN left ELSE BatchSize

(* What the API answers to a batch is a list of vectors, each of the text it    *)
(* is numbered with; numbers may be out of order, missing, repeated or wrong.  *)
Numberings == UNION {[1..n -> 0..BatchSize] : n \in 0..BatchSize}

(* Vectors in the order they come. *)
InOrder(numbers) == numbers

(* A vector belongs to the text of its number. *)
ByNumber(numbers) == [n \in DOMAIN numbers |-> CHOOSE m \in ToSet(numbers) : m = n]

(* Embed of OpenAI: one vector for each text.  Gemini numbers nothing, and its  *)
(* Embed counts only.                                                          *)
Complete(numbers) == Len(numbers) = Batch /\ ToSet(numbers) = 1..Batch
Placed(numbers) == IF build.model \in Indexed THEN ByNumber(numbers) ELSE InOrder(numbers)

(* The vectors of a batch are stored, and it is the next one's turn. *)
Stored(numbers) ==
  build' = [build EXCEPT !.tries = 0,
              !.vecs = @ \o [n \in DOMAIN numbers |->
                              [model |-> build.model, text |-> Len(build.vecs) + Placed(numbers)[n]]]]

(* Any answer may come but a Gemini one in another order.  A rate limit is      *)
(* waited for, MaxRetries times; every other error, and a vector of a wrong    *)
(* dimension or that is no vector of numbers, ends the build.                  *)
EmbedBatch ==
  /\ build.pc = "embed" /\ Len(build.vecs) < Len(build.chunks)
  /\ \/ \E numbers \in Numberings :
          IF Complete(numbers)
          THEN /\ build.model \in Indexed \/ \A n \in DOMAIN numbers : numbers[n] = n
               /\ Stored(numbers) /\ UNCHANGED store
          ELSE Failed
     \/ build.tries < MaxRetries /\ build' = [build EXCEPT !.tries = @ + 1] /\ UNCHANGED store
     \/ Failed
  /\ UNCHANGED <<tree, decl, edits>>

(* The manifest names the model, and every chunk must have its vector. *)
Embedded ==
  /\ build.pc = "embed" /\ Len(build.vecs) >= Len(build.chunks)
  /\ build' = [build EXCEPT !.pc = "commit", !.stamp = build.model]
  /\ UNCHANGED <<tree, decl, store, edits>>

Publish ==
  /\ build.pc = "commit"
  /\ store' = Contents
  /\ build' = Idle(build.count)
  /\ UNCHANGED <<tree, decl, edits>>

(* The context ends, or the process: at any point of a build. *)
Interrupt == build.pc # "idle" /\ Failed /\ UNCHANGED <<tree, decl, edits>>

NextIndex == Begin \/ IndexSet \/ Walked \/ EmbedBatch \/ Embedded \/ Publish \/ Interrupt

-----------------------------------------------------------------------------
(* checkStore, of --check: there is a store, with as many chunks as its       *)
(* manifest says.                                                              *)
CheckPasses == store # NoStore /\ store.total = Len(store.chunks)

(* A published store is whole: it holds documents, chunks of its documents     *)
(* only and of sets it lists, and for every chunk the vector of its own text   *)
(* by the model its manifest names, or no vector at all, whatever batch failed *)
(* or was limited, answered out of order or interrupted; and --check passes    *)
(* (embedChunks, Embed, validateStoredEmbeddings, buildStore, checkStore).     *)
StoreIsWhole ==
  store # NoStore =>
    /\ CheckPasses /\ store.docs # {}
    /\ \A i \in DOMAIN store.chunks :
         LET c == store.chunks[i] IN c.set \in store.rows /\ <<c.set, c.file>> \in store.docs
    /\ IF store.model = Off THEN store.vecs = <<>>
       ELSE store.vecs = [i \in DOMAIN store.chunks |-> [model |-> store.model, text |-> i]]

-----------------------------------------------------------------------------
(* The inductive invariant behind it: what the transaction holds is whole as   *)
(* far as the build has come.                                                  *)
Slices(docs) == {c \in Chunk : <<c.set, c.file>> \in docs}
Vectors(model, n) == [i \in 1..n |-> [model |-> model, text |-> i]]

BuildType ==
  build \in [pc : {"idle", "walk", "embed", "commit"}, count : Nat, sets : Seq(Declaration),
             model : Model \cup {Off}, rows : SUBSET SetName, docs : SUBSET (SetName \X File),
             chunks : Seq(Chunk), total : Nat, vecs : Seq([model : Model \cup {Off}, text : Nat]),
             tries : Nat, stamp : Model \cup {Off}]

BuildInv ==
  /\ BuildType
  /\ build.docs \subseteq build.rows \X File
  /\ build.chunks \in Seq(Slices(build.docs)) /\ build.total = Len(build.chunks)
  /\ build.vecs = Vectors(build.model, Len(build.vecs))
  /\ build.pc \in {"walk", "embed"} => build.stamp = Off
  /\ build.pc = "walk" => build.vecs = <<>>
  /\ build.pc \in {"embed", "commit"} => build.docs # {}
  /\ build.pc = "embed" => build.model # Off /\ Len(build.vecs) <= Len(build.chunks)
  /\ build.pc = "commit" =>
       /\ build.stamp = build.model
       /\ Len(build.vecs) = IF build.model = Off THEN 0 ELSE Len(build.chunks)

StoreInv ==
  /\ StoreIsWhole
  /\ store # NoStore => store.chunks \in Seq(Chunk) /\ store.model \in Model \cup {Off}

IndexInv == tree \in Trees /\ decl \in Registries /\ BuildInv /\ StoreInv
=============================================================================
