------------------------- MODULE LaneMaterialProofs -------------------------
(* Proofs about the store a rebuild publishes and about what a lane takes from *)
(* it, for any files, declarations, answers of the embedding API, estimates    *)
(* and budgets.                                                                *)
EXTENDS LaneMaterial, NaturalLemmas, SequenceTheorems, TLAPS

(* What the walker finds in the roots, which are directories or are passed over. *)
LEMMA EntriesOf ==
  ASSUME NEW t \in [File -> Kind], NEW d \in Dir, NEW kinds
  PROVE  /\ Entries(t, d, kinds) \in Seq(File)
         /\ ToSet(Entries(t, d, kinds)) = {f \in File : f[1] = d /\ t[f] \in kinds}
<1> DEFINE p == [n \in Name |-> IF t[<<d, n>>] \in kinds THEN <<<<d, n>>>> ELSE <<>>]
<1>1. \A n \in 1..MaxName : /\ <<d, n>> \in File /\ p[n] \in Seq(File)
                            /\ \A x : x \in ToSet(p[n]) <=> x = <<d, n>> /\ t[x] \in kinds
  <2> TAKE n \in 1..MaxName
  <2>1. <<d, n>> \in File
    BY DEF File, Name
  <2> DEFINE f == <<d, n>>
  <2>2. p[n] = IF t[f] \in kinds THEN <<f>> ELSE <<>>
    BY DEF Name
  <2> HIDE DEF p, f
  <2>3. ToSet(<<f>>) = {f} /\ ToSet(<<>>) = {} /\ <<f>> \in Seq(File) /\ <<>> \in Seq(File)
    BY <2>1 DEF ToSet, f
  <2>4. p[n] \in Seq(File) /\ \A x : x \in ToSet(p[n]) <=> x = f /\ t[x] \in kinds
    BY <2>2, <2>3
  <2> QED BY <2>1, <2>4 DEF f
<1>2. p \in [1..MaxName -> Seq(File)] /\ MaxName \in Nat
  <2>1. p = [n \in 1..MaxName |-> p[n]]
    BY DEF Name
  <2> HIDE DEF p
  <2> QED BY <1>1, <2>1, NameAssumption
<1>3. Entries(t, d, kinds) = FlattenSeq(p)
  BY DEF Entries
<1> HIDE DEF p
<1>4. /\ FlattenSeq(p) \in Seq(File)
      /\ \A x : x \in ToSet(FlattenSeq(p)) <=> \E n \in 1..MaxName : x \in ToSet(p[n])
  BY <1>2, Flat
<1>5. \A x : x \in ToSet(FlattenSeq(p)) <=> \E n \in 1..MaxName : x = <<d, n>> /\ t[x] \in kinds
  BY <1>1, <1>4
<1>6. \A x \in File : x = <<x[1], x[2]>> /\ x[1] \in Dir /\ x[2] \in 1..MaxName
  BY DEF File, Name
<1>7. \A x : x \in ToSet(FlattenSeq(p)) <=> x \in File /\ x[1] = d /\ t[x] \in kinds
  BY <1>1, <1>5, <1>6
<1> QED BY <1>3, <1>4, <1>7

LEMMA WalkOf ==
  ASSUME NEW t \in [File -> Kind], NEW paths \in Seq(Path)
  PROVE  /\ Walk(t, paths) \in Seq(File)
         /\ ToSet(Walk(t, paths)) = {f \in File : f[1] \in ToSet(paths) /\ t[f] \in Listed}
<1> DEFINE n == Len(paths)
           p == [i \in DOMAIN paths |-> IF paths[i] \in Dir THEN Entries(t, paths[i], Listed) ELSE <<>>]
<1>1. n \in Nat /\ DOMAIN paths = 1..n
  OBVIOUS
<1>2. \A i \in 1..n : /\ p[i] \in Seq(File)
                      /\ \A x : x \in ToSet(p[i]) <=> x \in File /\ x[1] = paths[i] /\ t[x] \in Listed
  <2> TAKE i \in 1..n
  <2>1. p[i] = IF paths[i] \in Dir THEN Entries(t, paths[i], Listed) ELSE <<>>
    BY <1>1
  <2>2. ToSet(<<>>) = {} /\ <<>> \in Seq(File) /\ \A x \in File : x[1] \in Dir
    BY DEF ToSet, File
  <2> HIDE DEF p
  <2> QED BY <2>1, <2>2, EntriesOf
<1>3. p \in [1..n -> Seq(File)]
  <2>1. p = [i \in 1..n |-> p[i]]
    BY <1>1
  <2> HIDE DEF p
  <2> QED BY <1>2, <2>1
<1>4. Walk(t, paths) = FlattenSeq(p)
  BY DEF Walk
<1>5. \A x : x \in ToSet(paths) <=> \E i \in 1..n : x = paths[i]
  BY <1>1 DEF ToSet
<1> HIDE DEF p, n
<1>6. /\ FlattenSeq(p) \in Seq(File)
      /\ \A x : x \in ToSet(FlattenSeq(p)) <=> \E i \in 1..n : x \in ToSet(p[i])
  BY <1>1, <1>3, Flat
<1>7. \A x : x \in ToSet(FlattenSeq(p)) <=> x \in File /\ x[1] \in ToSet(paths) /\ t[x] \in Listed
  BY <1>2, <1>5, <1>6
<1> QED BY <1>4, <1>6, <1>7

(* What the declarations load to, with or without the overlay.                 *)
LEMMA InsideOf ==
  ASSUME NEW sets \in Seq(Declaration)
  PROVE  Inside(sets) \in Seq(Declaration)
<1> DEFINE n == Len(sets)
<1>1. n \in Nat /\ DOMAIN sets = 1..n /\ \A i \in 1..n : sets[i] \in Declaration
  OBVIOUS
<1>2. ASSUME NEW s \in Declaration
      PROVE  [s EXCEPT !.paths = Among(@, Path \ {Outside})] \in Declaration
  <2>1. Among(s.paths, Path \ {Outside}) \in Seq(Path)
    BY AmongKeeps DEF Declaration
  <2> QED BY <2>1 DEF Declaration
<1> HIDE DEF n
<1>3. Inside(sets) = [i \in 1..n |-> [sets[i] EXCEPT !.paths = Among(@, Path \ {Outside})]]
  BY <1>1 DEF Inside
<1>4. Inside(sets) \in [1..n -> Declaration]
  BY <1>1, <1>2, <1>3
<1> QED BY <1>1, <1>4

LEMMA MergeOf ==
  ASSUME NEW canonical \in Seq(Declaration), NEW overlay \in Seq(Declaration)
  PROVE  Merge(canonical, overlay) \in Seq(Declaration)
<1> DEFINE n == Len(canonical)
           S == {s \in ToSet(overlay) : s.name \notin {u.name : u \in ToSet(canonical)}}
           own(i) == OfName(overlay, canonical[i].name)
           front == [i \in DOMAIN canonical |-> IF own(i) = <<>> THEN canonical[i] ELSE own(i)[1]]
<1>1. n \in Nat /\ DOMAIN canonical = 1..n /\ \A i \in 1..n : canonical[i] \in Declaration
  OBVIOUS
<1>2. \A i \in 1..n : own(i) \in Seq(Declaration)
  BY AmongKeeps DEF OfName
<1>3. \A i \in 1..n : front[i] \in Declaration
  <2> TAKE i \in 1..n
  <2>1. front[i] = IF own(i) = <<>> THEN canonical[i] ELSE own(i)[1]
    BY <1>1
  <2>2. own(i) \in Seq(Declaration)
    BY <1>2
  <2> DEFINE o == own(i)
  <2>3. o # <<>> => o[1] \in Declaration
    <3> HIDE DEF o
    <3>1. o \in Seq(Declaration)
      BY <2>2 DEF o
    <3> QED BY <3>1
  <2> HIDE DEF front
  <2> QED BY <1>1, <2>1, <2>3
<1>4. front \in Seq(Declaration)
  <2>1. front = [i \in 1..n |-> front[i]]
    BY <1>1
  <2> HIDE DEF front
  <2> QED BY <1>1, <1>3, <2>1
<1>5. Among(overlay, S) \in Seq(Declaration)
  <2> HIDE DEF S
  <2> QED BY AmongKeeps
<1>6. Merge(canonical, overlay) = front \o Among(overlay, S)
  BY DEF Merge
<1> HIDE DEF front, S
<1> QED BY <1>4, <1>5, <1>6

LEMMA LoadOf ==
  ASSUME NEW r \in Registries, NEW withOverlay \in BOOLEAN
  PROVE  Load(r, withOverlay) \in Seq(Declaration)
<1>1. /\ r.canonical = NoFile \/ r.canonical \in Seq(Declaration)
      /\ r.overlay = NoFile \/ r.overlay \in Seq(Declaration)
  BY IndexAssumption
<1> QED BY <1>1, InsideOf, MergeOf DEF Load, Overlaid

(* A sequence over a set is one over any larger set.                           *)
LEMMA WiderSeq == ASSUME NEW X, NEW Y, X \subseteq Y, NEW s \in Seq(X) PROVE s \in Seq(Y)
OBVIOUS

(* The chunks of a file are about it. *)
LEMMA CutOf ==
  ASSUME tree \in [File -> Kind], NEW set \in Declaration, NEW files \in Seq(File),
         \A f \in ToSet(files) : tree[f] \in DOMAIN Parts
  PROVE  Cut(set, files) \in Seq(Slices({set.name} \X ToSet(files)))
<1> DEFINE S == Slices({set.name} \X ToSet(files))
           n == Len(files)
           slice(i, k) == [set |-> set.name, file |-> files[i], part |-> k, hit |-> tree[files[i]] # "other"]
           p == [i \in DOMAIN files |-> [k \in 1..Parts[tree[files[i]]] |-> slice(i, k)]]
<1>1. n \in Nat /\ DOMAIN files = 1..n /\ \A i \in 1..n : files[i] \in File /\ files[i] \in ToSet(files)
  BY DEF ToSet
<1>2. set.name \in SetName /\ \A k \in DOMAIN Parts : Parts[k] \in Nat
  BY DEF Declaration, Parts
<1>3. \A i \in 1..n, k \in Nat : slice(i, k) \in S
  <2> TAKE i \in 1..n, k \in Nat
  <2>1. slice(i, k) \in Chunk
    BY <1>1, <1>2 DEF Chunk
  <2>2. <<slice(i, k).set, slice(i, k).file>> \in {set.name} \X ToSet(files)
    BY <1>1
  <2> QED BY <2>1, <2>2 DEF Slices
<1> HIDE DEF S, slice
<1>4. \A i \in 1..n : p[i] \in Seq(S)
  <2> TAKE i \in 1..n
  <2> DEFINE m == Parts[tree[files[i]]]
  <2>1. m \in Nat
    BY <1>1, <1>2
  <2>2. p[i] = [k \in 1..m |-> slice(i, k)]
    BY <1>1
  <2> HIDE DEF m, p
  <2>3. p[i] \in [1..m -> S]
    BY <1>3, <2>1, <2>2
  <2> QED BY <2>1, <2>3
<1>5. p \in [1..n -> Seq(S)]
  <2>1. p = [i \in 1..n |-> p[i]]
    BY <1>1
  <2> HIDE DEF p
  <2> QED BY <1>4, <2>1
<1>6. Cut(set, files) = IF set.mode = "full" THEN <<>> ELSE FlattenSeq(p)
  BY DEF Cut, slice
<1> HIDE DEF p, n
<1>7. FlattenSeq(p) \in Seq(S) /\ <<>> \in Seq(S)
  BY <1>1, <1>5, Flat
<1> QED BY <1>6, <1>7 DEF S

(* No build is under way. *)
LEMMA IdleWhole ==
  ASSUME NEW c \in Nat
  PROVE  /\ Idle(c) \in [pc : {"idle", "walk", "embed", "commit"}, count : Nat, sets : Seq(Declaration),
                         model : Model \cup {Off}, rows : SUBSET SetName, docs : SUBSET (SetName \X File),
                         chunks : Seq(Chunk), total : Nat, vecs : Seq([model : Model \cup {Off}, text : Nat]),
                         tries : Nat, stamp : Model \cup {Off}]
         /\ Idle(c).pc = "idle" /\ Idle(c).docs = {} /\ Idle(c).chunks = <<>> /\ Idle(c).total = 0
         /\ Idle(c).vecs = <<>> /\ Idle(c).model = Off /\ Idle(c).stamp = Off
BY DEF Idle

LEMMA FailedKeeps == ASSUME BuildInv, Failed PROVE BuildInv'
<1>1. build.count \in Nat /\ build' = Idle(build.count)
  BY DEF BuildInv, BuildType, Failed
<1>2. /\ build'.pc = "idle" /\ build'.docs = {} /\ build'.chunks = <<>> /\ build'.total = 0
      /\ build'.vecs = <<>> /\ BuildType'
  BY <1>1, IdleWhole DEF BuildType
<1>3. Vectors(build'.model, 0) = <<>> /\ Len(<<>>) = 0
  BY DEF Vectors
<1> QED BY <1>2, <1>3 DEF BuildInv

LEMMA BeginKeeps == ASSUME IndexInv, Begin PROVE BuildInv'
<1>1. build.count \in Nat /\ Load(decl, TRUE) \in Seq(Declaration)
  BY LoadOf DEF IndexInv, BuildInv, BuildType
<1>2. PICK m \in Model \cup {Off} :
        build' = [Idle(build.count + 1) EXCEPT !.pc = "walk", !.sets = Load(decl, TRUE), !.model = m]
  BY DEF Begin
<1>3. /\ build'.pc = "walk" /\ build'.docs = {} /\ build'.chunks = <<>> /\ build'.total = 0
      /\ build'.vecs = <<>> /\ build'.stamp = Off /\ BuildType'
  <2>1. build.count + 1 \in Nat
    BY <1>1
  <2> DEFINE c == build.count + 1
  <2> HIDE DEF c
  <2> QED BY <1>1, <1>2, <2>1, IdleWhole DEF BuildType, c
<1>4. Vectors(build'.model, 0) = <<>> /\ Len(<<>>) = 0
  BY DEF Vectors
<1> QED BY <1>3, <1>4 DEF BuildInv

LEMMA IndexSetKeeps == ASSUME IndexInv, IndexSet PROVE BuildInv'
<1> DEFINE set == Head(build.sets)
           files == Walk(tree, set.paths)
           cut == Cut(set, files)
           more == {set.name} \X ToSet(files)
<1>1. /\ build.pc = "walk" /\ build.sets \in Seq(Declaration) /\ build.sets # <<>>
      /\ BuildInv /\ BuildType /\ tree \in [File -> Kind]
  BY IndexAssumption DEF IndexInv, BuildInv, BuildType, IndexSet
<1>2. /\ set \in Declaration /\ Tail(build.sets) \in Seq(Declaration)
      /\ set.name \in SetName /\ set.paths \in Seq(Path)
  <2>1. \A q \in Seq(Declaration) : q # <<>> => Head(q) \in Declaration /\ Tail(q) \in Seq(Declaration)
    BY HeadTailProperties
  <2>2. \A d \in Declaration : d.name \in SetName /\ d.paths \in Seq(Path)
    BY DEF Declaration
  <2> QED BY <1>1, <2>1, <2>2
<1>3. CASE Collide(files) \/ \E f \in ToSet(files) : tree[f] = "locked"
  <2>1. Failed
    BY <1>3 DEF IndexSet
  <2> QED BY <1>1, <2>1, FailedKeeps
<1>4. CASE ~(Collide(files) \/ \E f \in ToSet(files) : tree[f] = "locked")
  <2>1. build' = [build EXCEPT
                   !.sets = Tail(@), !.rows = @ \cup {set.name}, !.docs = @ \cup more,
                   !.chunks = @ \o cut, !.total = @ + Len(cut)]
    BY <1>4 DEF IndexSet
  <2>2. files \in Seq(File) /\ ToSet(files) = {f \in File : f[1] \in ToSet(set.paths) /\ tree[f] \in Listed}
    BY <1>1, <1>2, WalkOf
  <2>3. \A f \in ToSet(files) : f \in File /\ tree[f] \in DOMAIN Parts
    BY <1>4, <2>2 DEF Listed
  <2> HIDE DEF set, files
  <2>4. cut \in Seq(Slices(more))
    BY <1>1, <1>2, <2>2, <2>3, CutOf
  <2>5. more \subseteq SetName \X File /\ more \subseteq {set.name} \X File
    BY <1>2, <2>3
  <2> HIDE DEF cut, more
  <2>6. /\ Slices(build.docs) \subseteq Slices(build.docs \cup more)
        /\ Slices(more) \subseteq Slices(build.docs \cup more) /\ Slices(build.docs \cup more) \subseteq Chunk
    BY DEF Slices
  <2>7. build.chunks \in Seq(Slices(build.docs \cup more)) /\ cut \in Seq(Slices(build.docs \cup more))
    <3>1. build.chunks \in Seq(Slices(build.docs))
      BY <1>1 DEF BuildInv
    <3> QED BY <2>4, <2>6, <3>1, WiderSeq
  <2> DEFINE all == build.chunks \o cut
             D == Slices(build.docs \cup more)
  <2>8. all \in Seq(D) /\ all \in Seq(Chunk) /\ Len(all) = Len(build.chunks) + Len(cut) /\ Len(cut) \in Nat
    <3>1. build.chunks \in Seq(D) /\ cut \in Seq(D) /\ D \subseteq Chunk
      BY <2>6, <2>7
    <3> HIDE DEF D
    <3>2. all \in Seq(D) /\ Len(all) = Len(build.chunks) + Len(cut) /\ Len(cut) \in Nat
      BY <3>1
    <3> HIDE DEF all
    <3> QED BY <3>1, <3>2, WiderSeq
  <2> HIDE DEF all
  <2>9. /\ build'.pc = "walk" /\ build'.sets = Tail(build.sets) /\ build'.rows = build.rows \cup {set.name}
        /\ build'.docs = build.docs \cup more /\ build'.chunks = all /\ build'.total = build.total + Len(cut)
        /\ build'.vecs = build.vecs /\ build'.model = build.model /\ build'.stamp = build.stamp
    BY <1>1, <2>1 DEF BuildType, all
  <2>10. BuildType'
    <3>1. /\ Tail(build.sets) \in Seq(Declaration) /\ build.rows \cup {set.name} \in SUBSET SetName
          /\ build.docs \cup more \in SUBSET (SetName \X File) /\ all \in Seq(Chunk)
          /\ build.total + Len(cut) \in Nat
      BY <1>1, <1>2, <2>5, <2>8 DEF BuildType, set
    <3>2. build' = [build EXCEPT !.sets = Tail(build.sets), !.rows = build.rows \cup {set.name},
                      !.docs = build.docs \cup more, !.chunks = all, !.total = build.total + Len(cut)]
      BY <2>1 DEF all
    <3> QED BY <1>1, <3>1, <3>2 DEF BuildType
  <2>11. build'.docs \subseteq build'.rows \X File
    BY <1>1, <2>5, <2>9 DEF BuildInv
  <2> QED BY <1>1, <2>8, <2>9, <2>10, <2>11 DEF BuildInv
<1> QED BY <1>3, <1>4

LEMMA WalkedKeeps == ASSUME BuildInv, Walked PROVE BuildInv'
<1>1. CASE build.docs = {}
  <2>1. Failed
    BY <1>1 DEF Walked
  <2> QED BY <2>1, FailedKeeps
<1>2. CASE build.docs # {}
  <2>1. build' = [build EXCEPT !.pc = IF build.model = Off THEN "commit" ELSE "embed"] /\ build.pc = "walk"
    BY <1>2 DEF Walked
  <2>2. /\ build'.pc = IF build.model = Off THEN "commit" ELSE "embed"
        /\ build'.docs = build.docs /\ build'.rows = build.rows /\ build'.chunks = build.chunks
        /\ build'.total = build.total /\ build'.vecs = build.vecs /\ build'.model = build.model
        /\ build'.stamp = build.stamp /\ BuildType'
    BY <2>1 DEF BuildInv, BuildType
  <2>3. Len(build.vecs) = 0 /\ Len(build.chunks) \in Nat
    BY <2>1 DEF BuildInv, BuildType
  <2> QED BY <1>2, <2>1, <2>2, <2>3 DEF BuildInv
<1> QED BY <1>1, <1>2

LEMMA EmbeddedKeeps == ASSUME BuildInv, Embedded PROVE BuildInv'
<1>1. build' = [build EXCEPT !.pc = "commit", !.stamp = build.model] /\ build.pc = "embed"
      /\ Len(build.vecs) >= Len(build.chunks)
  BY DEF Embedded
<1>2. /\ build'.pc = "commit" /\ build'.stamp = build.model
      /\ build'.docs = build.docs /\ build'.rows = build.rows /\ build'.chunks = build.chunks
      /\ build'.total = build.total /\ build'.vecs = build.vecs /\ build'.model = build.model /\ BuildType'
  BY <1>1 DEF BuildInv, BuildType
<1>3. Len(build.vecs) = Len(build.chunks)
  <2>1. Len(build.vecs) \in Nat /\ Len(build.chunks) \in Nat
    BY DEF BuildInv, BuildType
  <2> QED BY <1>1, <2>1 DEF BuildInv
<1> QED BY <1>1, <1>2, <1>3 DEF BuildInv

(* The vectors of a complete answer are those of the next texts, in order. *)
LEMMA BatchPlaced ==
  ASSUME NEW numbers \in Numberings, Complete(numbers),
         build.model \in Indexed \/ \A n \in DOMAIN numbers : numbers[n] = n
  PROVE  /\ Batch \in Nat /\ DOMAIN numbers = 1..Batch
         /\ \A n \in 1..Batch : Placed(numbers)[n] = n
<1>1. PICK n \in 0..BatchSize : numbers \in [1..n -> 0..BatchSize]
  BY DEF Numberings
<1>2. n \in Nat /\ DOMAIN numbers = 1..n /\ Len(numbers) = n
  BY <1>1, IndexAssumption
<1>3. Batch = n /\ ToSet(numbers) = 1..n
  BY <1>2 DEF Complete
<1>4. ASSUME NEW k \in 1..n PROVE Placed(numbers)[k] = k
  <2>1. CASE build.model \in Indexed
    <3>1. (CHOOSE m \in ToSet(numbers) : m = k) = k
      BY <1>3
    <3> QED BY <1>2, <2>1, <3>1 DEF Placed, ByNumber
  <2>2. CASE build.model \notin Indexed
    BY <1>2, <2>2 DEF Placed, InOrder
  <2> QED BY <2>1, <2>2
<1> QED BY <1>2, <1>3, <1>4

LEMMA StoredKeeps ==
  ASSUME BuildInv, build.pc = "embed", NEW numbers \in Numberings, Complete(numbers), Stored(numbers),
         build.model \in Indexed \/ \A n \in DOMAIN numbers : numbers[n] = n
  PROVE  BuildInv'
<1> DEFINE n == Batch
           l == Len(build.vecs)
           V == [model : Model \cup {Off}, text : Nat]
           new == [k \in DOMAIN numbers |-> [model |-> build.model, text |-> l + Placed(numbers)[k]]]
           vecs == build.vecs \o new
<1>1. n \in Nat /\ DOMAIN numbers = 1..n /\ \A k \in 1..n : Placed(numbers)[k] = k
  BY BatchPlaced
<1>2. /\ l \in Nat /\ build.vecs \in Seq(V) /\ build.model \in Model \cup {Off}
      /\ Len(build.chunks) \in Nat /\ l <= Len(build.chunks)
  BY DEF BuildInv, BuildType
<1>3. l + n <= Len(build.chunks)
  <2>1. Batch = IF Len(build.chunks) - l < BatchSize THEN Len(build.chunks) - l ELSE BatchSize
    BY DEF Batch
  <2>2. BatchSize \in Nat
    BY IndexAssumption
  <2> HIDE DEF l
  <2> QED BY <1>2, <2>1, <2>2
<1>4. build' = [build EXCEPT !.tries = 0, !.vecs = vecs]
  BY DEF Stored
<1> HIDE DEF n
<1>5. \A k \in 1..n : new[k] = [model |-> build.model, text |-> l + k]
  BY <1>1
<1>6. new \in [1..n -> V]
  <2>1. \A k \in 1..n : [model |-> build.model, text |-> l + k] \in V
    BY <1>2
  <2>2. new = [k \in 1..n |-> new[k]]
    BY <1>1
  <2> HIDE DEF new, V
  <2> QED BY <1>5, <2>1, <2>2
<1> HIDE DEF new, V, l
<1>7. new \in Seq(V) /\ Len(new) = n
  BY <1>1, <1>6
<1>8. /\ vecs \in Seq(V) /\ Len(vecs) = l + n
      /\ \A i \in 1..(l + n) : vecs[i] = IF i <= l THEN build.vecs[i] ELSE new[i - l]
  <2>1. build.vecs \in Seq(V) /\ new \in Seq(V)
    BY <1>2, <1>7
  <2>2. /\ vecs \in Seq(V) /\ Len(vecs) = Len(build.vecs) + Len(new)
        /\ \A i \in 1..(Len(build.vecs) + Len(new)) :
             vecs[i] = IF i <= Len(build.vecs) THEN build.vecs[i] ELSE new[i - Len(build.vecs)]
    BY <2>1, ConcatProperties
  <2> QED BY <1>7, <2>2 DEF l
<1>9. \A i \in 1..l : build.vecs[i] = [model |-> build.model, text |-> i]
  <2>1. build.vecs = [i \in 1..l |-> [model |-> build.model, text |-> i]]
    BY DEF BuildInv, Vectors, l
  <2> QED BY <2>1
<1>10. vecs = Vectors(build.model, l + n)
  <2>1. \A i \in 1..(l + n) : vecs[i] = [model |-> build.model, text |-> i]
    <3> TAKE i \in 1..(l + n)
    <3>1. CASE i <= l
      BY <1>2, <1>8, <1>9, <3>1
    <3>2. CASE ~(i <= l)
      <4>1. i - l \in 1..n /\ l + (i - l) = i
        BY <1>1, <1>2, <3>2
      <4> QED BY <1>5, <1>8, <3>2, <4>1
    <3> QED BY <3>1, <3>2
  <2>2. vecs = [i \in 1..(l + n) |-> vecs[i]]
    BY <1>8
  <2> HIDE DEF vecs
  <2> QED BY <2>1, <2>2 DEF Vectors
<1> HIDE DEF vecs
<1>11. /\ build'.pc = "embed" /\ build'.docs = build.docs /\ build'.rows = build.rows
       /\ build'.chunks = build.chunks /\ build'.total = build.total /\ build'.vecs = vecs
       /\ build'.model = build.model /\ build'.stamp = build.stamp /\ BuildType'
  BY <1>4, <1>8 DEF BuildInv, BuildType, V
<1> QED BY <1>3, <1>8, <1>10, <1>11 DEF BuildInv

LEMMA EmbedBatchKeeps == ASSUME BuildInv, EmbedBatch PROVE BuildInv'
<1>1. CASE Failed
  BY <1>1, FailedKeeps
<1>2. ASSUME NEW numbers \in Numberings, Complete(numbers), Stored(numbers),
             build.model \in Indexed \/ \A n \in DOMAIN numbers : numbers[n] = n
      PROVE  BuildInv'
  <2>1. build.pc = "embed"
    BY DEF EmbedBatch
  <2> QED BY <1>2, <2>1, StoredKeeps
<1>3. CASE build' = [build EXCEPT !.tries = @ + 1]
  <2>1. /\ build'.pc = build.pc /\ build'.docs = build.docs /\ build'.rows = build.rows
        /\ build'.chunks = build.chunks /\ build'.total = build.total /\ build'.vecs = build.vecs
        /\ build'.model = build.model /\ build'.stamp = build.stamp /\ BuildType'
    <3>1. BuildType /\ build.tries + 1 \in Nat
      BY DEF BuildInv, BuildType
    <3>2. build' = [build EXCEPT !.tries = build.tries + 1]
      BY <1>3, <3>1 DEF BuildType
    <3> QED BY <3>1, <3>2 DEF BuildType
  <2> QED BY <2>1 DEF BuildInv
<1> QED BY <1>1, <1>2, <1>3 DEF EmbedBatch

(* What is published is whole, and the next build starts with nothing. *)
LEMMA PublishKeeps == ASSUME BuildInv, Publish PROVE BuildInv' /\ StoreInv'
<1>1. /\ build.pc = "commit" /\ build' = Idle(build.count) /\ build.count \in Nat
      /\ store' = [rows |-> build.rows, docs |-> build.docs, chunks |-> build.chunks,
                   total |-> build.total, vecs |-> build.vecs, model |-> build.stamp]
  BY DEF Publish, Contents, BuildInv, BuildType
<1>2. /\ store'.rows = build.rows /\ store'.docs = build.docs /\ store'.chunks = build.chunks
      /\ store'.total = build.total /\ store'.vecs = build.vecs /\ store'.model = build.stamp
  BY <1>1
<1>3. BuildInv'
  <2>1. /\ build'.pc = "idle" /\ build'.docs = {} /\ build'.chunks = <<>> /\ build'.total = 0
        /\ build'.vecs = <<>> /\ BuildType'
    BY <1>1, IdleWhole DEF BuildType
  <2>2. Vectors(build'.model, 0) = <<>> /\ Len(<<>>) = 0
    BY DEF Vectors
  <2> QED BY <2>1, <2>2 DEF BuildInv
<1>4. /\ build.chunks \in Seq(Chunk) /\ build.stamp \in Model \cup {Off} /\ build.stamp = build.model
      /\ build.docs # {} /\ build.total = Len(build.chunks)
  BY <1>1 DEF BuildInv, BuildType
<1>5. ASSUME NEW i \in DOMAIN build.chunks
      PROVE  build.chunks[i].set \in build.rows /\ <<build.chunks[i].set, build.chunks[i].file>> \in build.docs
  <2>1. build.chunks[i] \in Slices(build.docs)
    BY <1>5 DEF BuildInv
  <2>2. <<build.chunks[i].set, build.chunks[i].file>> \in build.docs
    BY <2>1 DEF Slices
  <2> QED BY <2>2 DEF BuildInv
<1>6. IF build.model = Off THEN build.vecs = <<>>
      ELSE build.vecs = [i \in DOMAIN build.chunks |-> [model |-> build.model, text |-> i]]
  <2>1. DOMAIN build.chunks = 1..Len(build.chunks)
    BY <1>4
  <2>2. CASE build.model = Off
    BY <1>1, <2>2 DEF BuildInv, BuildType
  <2>3. CASE build.model # Off
    BY <1>1, <2>1, <2>3 DEF BuildInv, Vectors
  <2> QED BY <2>2, <2>3
<1>7. StoreIsWhole'
  BY <1>2, <1>4, <1>5, <1>6 DEF StoreIsWhole, CheckPasses
<1> QED BY <1>2, <1>3, <1>4, <1>7 DEF StoreInv

LEMMA NextIndexKeeps == ASSUME IndexInv, NextIndex PROVE IndexInv'
<1>1. tree' \in Trees /\ decl' \in Registries
  BY DEF IndexInv, NextIndex, Begin, IndexSet, Walked, EmbedBatch, Embedded, Publish, Interrupt
<1>2. CASE Publish
  BY <1>1, <1>2, PublishKeeps DEF IndexInv
<1>3. CASE Begin \/ IndexSet \/ Walked \/ EmbedBatch \/ Embedded \/ Interrupt
  <2>1. BuildInv'
    BY <1>3, BeginKeeps, IndexSetKeeps, WalkedKeeps, EmbedBatchKeeps, EmbeddedKeeps, FailedKeeps
    DEF IndexInv, Interrupt
  <2>2. store' = store
    BY <1>3 DEF Begin, IndexSet, Walked, EmbedBatch, Embedded, Interrupt, Failed
  <2> QED BY <1>1, <2>1, <2>2 DEF IndexInv, StoreInv, StoreIsWhole, CheckPasses
<1> QED BY <1>2, <1>3 DEF NextIndex

LEMMA IndexKeeps == IndexInv /\ [Next]_vars => IndexInv'
<1> SUFFICES ASSUME IndexInv, [Next]_vars PROVE IndexInv'
  OBVIOUS
<1>1. CASE NextIndex
  BY <1>1, NextIndexKeeps
<1>2. CASE Edit
  BY <1>2 DEF Edit, IndexInv, BuildInv, BuildType, StoreInv, StoreIsWhole, CheckPasses
<1>3. CASE UNCHANGED indexVars
  BY <1>3 DEF indexVars, IndexInv, BuildInv, BuildType, StoreInv, StoreIsWhole, CheckPasses
<1>4. Start \/ Collect \/ LoadFull \/ EvictSection \/ Finish => UNCHANGED indexVars
  BY DEF Start, Collect, LoadFull, EvictSection, Finish
<1> QED BY <1>1, <1>2, <1>3, <1>4 DEF Next, vars

LEMMA InitWhole == Init => IndexInv
<1> SUFFICES ASSUME Init PROVE IndexInv
  OBVIOUS
<1>1. /\ tree \in Trees /\ decl \in Registries /\ store = NoStore /\ build = Idle(0)
  BY DEF Init, InitIndex
<1>2. Vectors(Off, 0) = <<>> /\ Len(<<>>) = 0 /\ 0 \in Nat
  BY DEF Vectors
<1>3. BuildType
  BY <1>1, <1>2, IdleWhole DEF BuildType
<1>4. BuildInv
  <2>1. /\ build.pc = "idle" /\ build.docs = {} /\ build.chunks = <<>> /\ build.total = 0
        /\ build.vecs = <<>> /\ build.model = Off
    BY <1>1, <1>2, IdleWhole
  <2> QED BY <1>2, <1>3, <2>1 DEF BuildInv
<1> QED BY <1>1, <1>4 DEF IndexInv, StoreInv, StoreIsWhole

(* Whatever answers the embedding API gives, whatever is declared and however  *)
(* the files change under the build: a store it publishes is whole             *)
(* (embedChunks, Embed, buildStore).                                           *)
THEOREM StoreWhole == Spec => []StoreIsWhole
<1>1. IndexInv => StoreIsWhole
  BY DEF IndexInv, StoreInv
<1> QED BY InitWhole, IndexKeeps, <1>1, PTL DEF Spec

-----------------------------------------------------------------------------
LEMMA InitEviction == Init => EvictionInv
BY DEF Init, EvictionInv, Sought

(* A step of the lane from one stage to the next, which evicts nothing. *)
LEMMA StartKeeps == ASSUME Start PROVE EvictionInv'
<1>1. PICK job \in Jobs :
       LET known == IF LoadFails(decl, FALSE) THEN <<>> ELSE Load(decl, FALSE)
       IN  lane' = [pc |-> "collect", embed |-> job.embed, terms |-> job.terms,
                    todo |-> Resolve(known, job.selectors, job.tags),
                    named |-> {<<n, "unknown selector", <<>>>> :
                                n \in Unknown(known, job.selectors, job.tags)},
                    full |-> <<>>, docs |-> <<>>, chunks |-> <<>>, gone |-> {},
                    limit |-> Unlimited, owed |-> {}, due |-> {}, ranked |-> {}]
  BY DEF Start
<1>2. DOMAIN lane' = Fields
  BY <1>1 DEF Fields
<1>3. lane'.pc = "collect" /\ lane'.gone = {}
  BY <1>1
<1> QED BY <1>2, <1>3 DEF EvictionInv, NormativeLast, NormativeGone

LEMMA CollectKeeps == ASSUME EvictionInv, Collect PROVE EvictionInv'
<1>1. lane.pc = "collect" /\ DOMAIN lane = Fields /\ lane.gone = {}
  BY DEF Collect, EvictionInv, Sought
<1>2. DOMAIN lane' = DOMAIN lane /\ lane'.pc = lane.pc /\ lane'.gone = lane.gone
  <2> DEFINE set == Head(lane.todo)
  <2>1. CASE set.mode = "full"
    <3>1. lane' = [lane EXCEPT !.todo = Tail(@), !.full = Append(@, set)]
      BY <2>1 DEF Collect
    <3> QED BY <1>1, <3>1 DEF Fields
  <2>2. CASE set.mode # "full"
    <3>1. PICK called \in BOOLEAN : lane' = Queried(set, called)
      BY <2>2 DEF Collect
    <3> HIDE DEF set
    <3> QED BY <1>1, <3>1 DEF Queried, Fields
  <2> QED BY <2>1, <2>2
<1> QED BY <1>1, <1>2 DEF EvictionInv, NormativeLast, NormativeGone

LEMMA LoadKeeps == ASSUME EvictionInv, LoadFull PROVE EvictionInv'
<1>1. lane.pc = "collect" /\ DOMAIN lane = Fields /\ lane.gone = {}
  BY DEF LoadFull, EvictionInv, Sought
<1>2. DOMAIN lane' = DOMAIN lane /\ lane'.pc = "fit" /\ lane'.gone = lane.gone
  <2>1. \E limit \in Limits : \E docs, due, named :
           lane' = [lane EXCEPT !.pc = "fit", !.limit = limit, !.docs = docs, !.due = due, !.named = named]
    BY DEF LoadFull, Loaded
  <2> QED BY <1>1, <2>1 DEF Fields
<1> QED BY <1>1, <1>2 DEF EvictionInv, NormativeLast, NormativeGone

(* An eviction: only beyond the budget, and a document only when no chunk is   *)
(* left.                                                                       *)
LEMMA EvictKeeps == ASSUME EvictionInv, EvictSection PROVE EvictionInv'
<1>1. /\ lane.pc = "fit" /\ DOMAIN lane = Fields /\ NormativeLast /\ Sought
      /\ Cost > lane.limit.budget
  BY DEF EvictSection, EvictionInv, Sought, Over
<1>2. CASE Evict("chunks", "retrieval")
  <2>1. /\ DOMAIN lane' = Fields /\ lane'.pc = "fit" /\ lane'.limit = lane.limit
        /\ lane'.gone = lane.gone \cup {[mode |-> "retrieval", cost |-> Cost]}
        /\ lane.chunks # <<>>
    BY <1>1, <1>2 DEF Evict, Fields
  <2>2. ~NormativeGone
    BY <1>1, <2>1 DEF NormativeLast
  <2>3. ~NormativeGone'
    BY <2>1, <2>2 DEF NormativeGone
  <2>4. \A g \in lane'.gone : g.cost > lane'.limit.budget
    BY <1>1, <2>1 DEF NormativeLast
  <2> QED BY <2>1, <2>3, <2>4 DEF EvictionInv, NormativeLast
<1>3. CASE lane.chunks = <<>> /\ Evict("docs", "full")
  <2>1. /\ DOMAIN lane' = Fields /\ lane'.pc = "fit" /\ lane'.limit = lane.limit
        /\ lane'.gone = lane.gone \cup {[mode |-> "full", cost |-> Cost]}
        /\ lane'.chunks = <<>>
    BY <1>1, <1>3 DEF Evict, Fields
  <2>2. \A g \in lane'.gone : g.cost > lane'.limit.budget
    BY <1>1, <2>1 DEF NormativeLast
  <2> QED BY <2>1, <2>2 DEF EvictionInv, NormativeLast
<1> QED BY <1>2, <1>3 DEF EvictSection, EvictNext

LEMMA FinishKeeps == ASSUME EvictionInv, Finish PROVE EvictionInv'
<1>1. lane.pc = "fit" /\ DOMAIN lane = Fields /\ NormativeLast /\ Sought
  BY DEF Finish, EvictionInv, Sought
<1>2. lane' = [lane EXCEPT !.pc = IF Over \/ (NormativeGone /\ lane.limit.fail)
                                  THEN "failed" ELSE "composed"]
  BY DEF Finish
<1>3. /\ DOMAIN lane' = Fields /\ lane'.pc \in {"failed", "composed"}
      /\ lane'.pc = "composed" => ~Over /\ (lane.limit.fail => ~NormativeGone)
      /\ lane'.chunks = lane.chunks /\ lane'.docs = lane.docs /\ lane'.gone = lane.gone
      /\ lane'.limit = lane.limit
  BY <1>1, <1>2 DEF Fields
<1>4. (Over' <=> Over) /\ (NormativeGone' <=> NormativeGone)
  BY <1>3 DEF Over, Cost, NormativeGone
<1> QED BY <1>1, <1>3, <1>4 DEF EvictionInv, NormativeLast, Sought

LEMMA StepEviction == EvictionInv /\ [Next]_vars => EvictionInv'
<1> SUFFICES ASSUME EvictionInv, [Next]_vars PROVE EvictionInv'
  OBVIOUS
<1>1. CASE UNCHANGED lane
  BY <1>1 DEF EvictionInv, Sought, NormativeLast, NormativeGone, Over, Cost
<1>2. CASE Start \/ Collect \/ LoadFull \/ EvictSection \/ Finish
  BY <1>2, StartKeeps, CollectKeeps, LoadKeeps, EvictKeeps, FinishKeeps
<1> QED BY <1>1, <1>2 DEF Next, vars

(* Whatever the estimates and the budget: normative sections go last, nothing  *)
(* goes without need, and what is sent is within the budget and complete if    *)
(* the policy says so (ComposeWithBudget).                                     *)
THEOREM NormativeKept == Spec => []NormativeLast
<1>1. EvictionInv => NormativeLast
  BY DEF EvictionInv, NormativeLast
<1>2. EvictionInv /\ [Next]_vars => EvictionInv'
  BY StepEviction
<1> QED BY InitEviction, <1>1, <1>2, PTL DEF Spec

-----------------------------------------------------------------------------
(* The ids below a number, one after another: as many as there are. *)
LEMMA IdsOf ==
  ASSUME NEW n \in Nat, NEW S \in SUBSET (1..n)
  PROVE  /\ Among([i \in 1..n |-> i], S) \in Seq(S)
         /\ Len(Among([i \in 1..n |-> i], S)) = Cardinality(S)
<1> DEFINE id == [i \in 1..n |-> i]
           p == [i \in DOMAIN id |-> IF id[i] \in S THEN <<id[i]>> ELSE <<>>]
           Below(k) == S \cap (1..k)
           Good(k, t) == Len(t) = Cardinality(Below(k))
           P == {q \in Nat \X Seq(S) : Good(q[1], q[2])}
<1>1. \A i \in 1..n : p[i] = IF i \in S THEN <<i>> ELSE <<>>
  OBVIOUS
<1>2. Among(id, S) = FlattenSeq(p)
  BY DEF Among
<1>3. p \in [1..n -> Seq(S)]
  <2>1. p = [i \in 1..n |-> p[i]]
    OBVIOUS
  <2> HIDE DEF p
  <2>2. \A i \in 1..n : p[i] \in Seq(S)
    <3> TAKE i \in 1..n
    <3>1. CASE i \in S
      <4>1. <<i>> \in Seq(S)
        BY <3>1
      <4> QED BY <1>1, <3>1, <4>1
    <3>2. CASE i \notin S
      <4>1. p[i] = <<>>
        BY <1>1, <3>2
      <4> QED BY <4>1
    <3> QED BY <3>1, <3>2
  <2> QED BY <2>1, <2>2
<1> HIDE DEF id, p
<1>4. \A k \in Nat, t \in Seq(S) : <<k, t>> \in P <=> Good(k, t)
  <2> HIDE DEF Good
  <2> QED OBVIOUS
<1>5. <<0, <<>>>> \in P
  <2>1. Below(0) = {} /\ Cardinality({}) = 0 /\ Len(<<>>) = 0 /\ <<>> \in Seq(S)
    BY FS_EmptySet
  <2>2. Good(0, <<>>)
    BY <2>1
  <2> HIDE DEF P, Good
  <2> QED BY <1>4, <2>1, <2>2
<1>6. ASSUME NEW k \in Nat, NEW t \in Seq(S), k < n, <<k, t>> \in P PROVE <<k + 1, t \o p[k + 1]>> \in P
  <2>1. Good(k, t)
    <3> HIDE DEF P, Good
    <3> QED BY <1>4, <1>6
  <2>2. k + 1 \in 1..n /\ k + 1 \in Nat
    BY <1>6
  <2>3. IsFiniteSet(Below(k)) /\ Cardinality(Below(k)) \in Nat
    <3>1. IsFiniteSet(1..k)
      BY FS_Interval
    <3> QED BY <3>1, FS_Subset, FS_CardinalityType
  <2>4. t \o p[k + 1] \in Seq(S) /\ Good(k + 1, t \o p[k + 1])
    <3>1. CASE k + 1 \in S
      <4>1. p[k + 1] = <<k + 1>> /\ Len(<<k + 1>>) = 1 /\ <<k + 1>> \in Seq(S)
        <5>1. \A x \in S : <<x>> \in Seq(S) /\ Len(<<x>>) = 1
          OBVIOUS
        <5> QED BY <1>1, <2>2, <3>1, <5>1
      <4>2. Below(k + 1) = Below(k) \cup {k + 1} /\ k + 1 \notin Below(k)
        BY <3>1
      <4>3. Cardinality(Below(k + 1)) = Cardinality(Below(k)) + 1
        BY <2>3, <4>2, FS_AddElement
      <4> HIDE DEF Below
      <4>4. t \o <<k + 1>> \in Seq(S) /\ Len(t \o <<k + 1>>) = Len(t) + 1
        BY <4>1
      <4> QED BY <2>1, <4>1, <4>3, <4>4
    <3>2. CASE k + 1 \notin S
      <4>1. p[k + 1] = <<>> /\ t \o <<>> = t
        BY <1>1, <2>2, <3>2, ConcatEmptySeq
      <4>2. Below(k + 1) = Below(k)
        BY <3>2
      <4> HIDE DEF Below
      <4> QED BY <2>1, <4>1, <4>2
    <3> QED BY <3>1, <3>2
  <2> HIDE DEF P, Good
  <2> QED BY <1>4, <2>2, <2>4
<1>7. <<n, FlattenSeq(p)>> \in P
  <2>1. P \in SUBSET (Nat \X Seq(S))
    OBVIOUS
  <2> HIDE DEF P
  <2> QED BY <1>3, <1>5, <1>6, <2>1, FlatInduction
<1>8. FlattenSeq(p) \in Seq(S) /\ Len(FlattenSeq(p)) = Cardinality(S)
  <2>1. Below(n) = S
    OBVIOUS
  <2>2. FlattenSeq(p) \in Seq(S)
    BY <1>7
  <2>3. Good(n, FlattenSeq(p))
    <3> HIDE DEF P, Good
    <3> QED BY <1>4, <1>7, <2>2
  <2> QED BY <2>1, <2>2, <2>3
<1> QED BY <1>2, <1>8 DEF id

(* The first k of a sequence. *)
LEMMA AtMostOf ==
  ASSUME NEW X, NEW s \in Seq(X), NEW k \in Nat
  PROVE  R!AtMost(k, s) \in Seq(X) /\ Len(R!AtMost(k, s)) = AtLeast(k, Len(s))
<1> DEFINE m == AtLeast(k, Len(s))
<1>1. Len(s) \in Nat /\ m \in 0..Len(s) /\ R!AtMost(k, s) = SubSeq(s, 1, m)
  BY DEF R!AtMost, AtLeast
<1> HIDE DEF m
<1>2. \A i \in 1..m : i \in 1..Len(s) /\ s[i] \in X
  BY <1>1
<1>3. 1 \in 1..(Len(s) + 1) /\ m \in 0..Len(s)
  BY <1>1
<1>4. SubSeq(s, 1, m) \in Seq(X) /\ Len(SubSeq(s, 1, m)) = IF 1 <= m THEN m - 1 + 1 ELSE 0
  BY <1>1, <1>2, SubSeqProperties
<1> QED BY <1>1, <1>4 DEF m

LEMMA CandidatesOf ==
  ASSUME StoreInv, store # NoStore, NEW name, NEW k \in Nat
  PROVE  /\ R!Hits(store, name) \in SUBSET (DOMAIN store.chunks)
         /\ IsFiniteSet(R!Hits(store, name)) /\ Cardinality(R!Hits(store, name)) \in Nat
         /\ R!Bm25(store, name, k) \in Seq(R!Hits(store, name))
         /\ Len(R!Bm25(store, name, k)) = AtLeast(k, Cardinality(R!Hits(store, name)))
<1> DEFINE n == Len(store.chunks)
           S == R!Hits(store, name)
<1>1. n \in Nat /\ DOMAIN store.chunks = 1..n
  BY DEF StoreInv
<1>2. S \in SUBSET (1..n)
  BY <1>1 DEF R!Hits
<1>3. R!Bm25(store, name, k) = R!AtMost(k, Among([i \in 1..n |-> i], S))
  BY <1>1 DEF R!Bm25, R!Among, Among, R!FlattenSeq, FlattenSeq
<1> HIDE DEF S, n
<1>4. IsFiniteSet(S) /\ Cardinality(S) \in Nat
  <2>1. IsFiniteSet(1..n)
    BY <1>1, FS_Interval
  <2> QED BY <1>2, <2>1, FS_Subset, FS_CardinalityType
<1>5. Among([i \in 1..n |-> i], S) \in Seq(S) /\ Len(Among([i \in 1..n |-> i], S)) = Cardinality(S)
  BY <1>1, <1>2, IdsOf
<1>6. R!AtMost(k, Among([i \in 1..n |-> i], S)) \in Seq(S)
      /\ Len(R!AtMost(k, Among([i \in 1..n |-> i], S))) = AtLeast(k, Cardinality(S))
  BY <1>5, AtMostOf
<1> QED BY <1>1, <1>2, <1>3, <1>4, <1>6 DEF S, n

(* What a query of a set answers: chunks of the set, ranked by vectors of the  *)
(* model that embedded the query or, with a reason unless none was asked for,  *)
(* by BM25; and all it owes unless something is named.                         *)
Sound(a, name, terms, embed) ==
  /\ a.ids = <<>> \/ (store # NoStore /\ a.ids \in Seq(R!Hits(store, name)))
  /\ a.by \in Model => a.by = embed
  /\ a.by = "bm25" /\ embed # Off => a.codes # {}
  /\ "corrupt-vector" \notin a.codes
  /\ \/ a.codes # {} \/ ~terms
     \/ store # NoStore /\ Len(a.ids) = AtLeast(TopK, Cardinality(R!Hits(store, name)))

LEMMA AnswerOf ==
  ASSUME StoreInv, NEW name, NEW embed \in Embedding, NEW terms \in BOOLEAN, NEW called \in BOOLEAN
  PROVE  Sound(R!Retrieve(store, name, terms, embed, called), name, terms, embed)
<1> DEFINE a == R!Retrieve(store, name, terms, embed, called)
           S == R!Hits(store, name)
           plan == R!Plan(store, name, embed)
           Owed(b) == b.codes # {} \/ Len(b.ids) = AtLeast(TopK, Cardinality(S))
           Fine(b) == /\ b.ids \in Seq(S)
                      /\ b.by \in Model => b.by = embed
                      /\ b.by = "bm25" /\ embed # Off => b.codes # {}
                      /\ "corrupt-vector" \notin b.codes
                      /\ Owed(b)
<1> SUFFICES Sound(a, name, terms, embed)
  OBVIOUS
<1> USE DEF Sound
<1>1. TopK \in Nat /\ 4 * TopK \in Nat
  BY JobAssumption
<1>2. Off \notin Model /\ Off \notin Words /\ \A w \in Words : w \notin Model
  BY JobAssumption
<1>3. CASE ~terms
  <2>1. a.ids = <<>> /\ a.by = Off /\ a.codes = {}
    BY <1>3 DEF R!Retrieve, R!Answer
  <2>2. Off # "bm25"
    BY <1>2 DEF Words
  <2> QED BY <1>2, <1>3, <2>1, <2>2
<1>4. CASE terms /\ R!Refusal(store, name) # "none"
  <2>1. a.ids = <<>> /\ a.by = Off /\ a.codes = {R!Refusal(store, name)}
    BY <1>4 DEF R!Retrieve, R!Answer
  <2>2. R!Refusal(store, name) # "corrupt-vector"
    BY DEF R!Refusal
  <2> QED BY <1>2, <2>1, <2>2 DEF Words
<1>5. CASE terms /\ R!Refusal(store, name) = "none"
  <2>1. store # NoStore
    BY <1>5 DEF R!Refusal
  <2>2. /\ S \in SUBSET (DOMAIN store.chunks) /\ Cardinality(S) \in Nat
        /\ R!Bm25(store, name, TopK) \in Seq(S)
        /\ Len(R!Bm25(store, name, TopK)) = AtLeast(TopK, Cardinality(S))
        /\ R!Bm25(store, name, 4 * TopK) \in Seq(S)
        /\ Len(R!Bm25(store, name, 4 * TopK)) = AtLeast(4 * TopK, Cardinality(S))
    BY <1>1, <2>1, CandidatesOf
  <2>3. a = IF plan = "ready" THEN R!Rerank(store, R!Bm25(store, name, 4 * TopK), called)
            ELSE IF plan = Off THEN R!Answer(R!Bm25(store, name, TopK), "bm25", {})
            ELSE R!Degraded(R!Bm25(store, name, TopK), plan)
    BY <1>5 DEF R!Retrieve
  <2>4. /\ plan = Off => embed = Off
        /\ plan # Off => plan # "corrupt-vector"
        /\ plan = "ready" => store.model = embed /\ store.model # Off
    <3>1. CASE embed \in {Off, "missing-key", "embedder-init"}
      <4>1. plan = embed
        BY <3>1 DEF R!Plan
      <4>2. embed # "ready" /\ (embed = Off \/ embed # "corrupt-vector")
        BY <1>2, <3>1 DEF Words
      <4> QED BY <3>1, <4>1, <4>2
    <3>2. CASE embed \notin {Off, "missing-key", "embedder-init"}
      <4>1. plan = IF store.model = Off \/ ~R!HasVectors(store, name) THEN "no-vectors"
                   ELSE IF store.model # embed THEN "model-mismatch" ELSE "ready"
        BY <3>2 DEF R!Plan
      <4>2. Off # "no-vectors" /\ Off # "model-mismatch" /\ Off # "ready"
        BY <1>2 DEF Words
      <4> HIDE DEF plan
      <4> QED BY <4>1, <4>2
    <3> QED BY <3>1, <3>2
  <2>5. \A ids \in Seq(S) : \A code : code # "corrupt-vector" => Fine(R!Degraded(ids, code))
    <3> TAKE ids \in Seq(S)
    <3> TAKE code
    <3> HAVE code # "corrupt-vector"
    <3>1. /\ R!Degraded(ids, code).ids = R!AtMost(TopK, ids)
          /\ R!Degraded(ids, code).by = "bm25" /\ R!Degraded(ids, code).codes = {code}
      BY DEF R!Degraded, R!Answer
    <3>2. R!AtMost(TopK, ids) \in Seq(S)
      BY <1>1, AtMostOf
    <3>3. "bm25" \notin Model
      BY <1>2 DEF Words
    <3> QED BY <3>1, <3>2, <3>3
  <2>6. CASE plan = "ready"
    <3> DEFINE ids == R!Bm25(store, name, 4 * TopK)
    <3>1. a = R!Rerank(store, ids, called) /\ ids \in Seq(S) /\ Len(ids) = AtLeast(4 * TopK, Cardinality(S))
      BY <2>2, <2>3, <2>6
    <3> HIDE DEF ids
    <3>2. \A i \in S : R!HasVector(store, i)
      <4>1. store.vecs = [i \in DOMAIN store.chunks |-> [model |-> store.model, text |-> i]]
        BY <2>1, <2>4, <2>6 DEF StoreInv, StoreIsWhole
      <4> QED BY <2>2, <4>1 DEF R!HasVector
    <3>3. \A i \in R!ToSet(ids) : R!HasVector(store, i)
      <4>1. \A i \in DOMAIN ids : ids[i] \in S
        BY <3>1
      <4> QED BY <3>2, <4>1 DEF R!ToSet
    <3>4. CASE ids = <<>>
      <4>1. a.ids = <<>> /\ a.by = Off /\ a.codes = {}
        BY <3>1, <3>4 DEF R!Rerank, R!Answer
      <4>2. AtLeast(TopK, Cardinality(S)) = 0 /\ Len(<<>>) = 0
        BY <1>1, <2>2, <3>1, <3>4 DEF AtLeast
      <4>3. Off # "bm25"
        BY <1>2 DEF Words
      <4>4. Fine(a)
        BY <1>2, <4>1, <4>2, <4>3
      <4> QED BY <2>1, <4>4
    <3>5. CASE ids # <<>> /\ ~called
      <4>1. a = R!Degraded(ids, "embed-call-failed")
        BY <3>1, <3>5 DEF R!Rerank
      <4>2. Fine(a)
        BY <2>5, <3>1, <4>1
      <4> QED BY <2>1, <4>2
    <3>6. CASE ids # <<>> /\ called
      <4>1. a = R!Answer(R!AtMost(TopK, R!Reverse(ids)), store.model, {})
        BY <3>1, <3>3, <3>6 DEF R!Rerank
      <4>2. a.ids = R!AtMost(TopK, R!Reverse(ids)) /\ a.by = store.model /\ a.codes = {}
        BY <4>1 DEF R!Answer
      <4>3. R!Reverse(ids) \in Seq(S) /\ Len(R!Reverse(ids)) = Len(ids)
        <5> DEFINE n == Len(ids)
                   r == [i \in 1..n |-> ids[(n - i) + 1]]
        <5>1. n \in Nat /\ \A i \in 1..n : ids[i] \in S
          BY <3>1
        <5>2. R!Reverse(ids) = r
          BY DEF R!Reverse
        <5> HIDE DEF n
        <5>3. \A i \in 1..n : (n - i) + 1 \in 1..n
          BY <5>1
        <5>4. r \in [1..n -> S]
          BY <5>1, <5>3
        <5> HIDE DEF r
        <5>5. r \in Seq(S) /\ Len(r) = n
          BY <5>1, <5>4
        <5> QED BY <5>2, <5>5 DEF n
      <4>4. a.ids \in Seq(S) /\ Len(a.ids) = AtLeast(TopK, Len(ids))
        BY <1>1, <4>2, <4>3, AtMostOf
      <4>5. AtLeast(TopK, AtLeast(4 * TopK, Cardinality(S))) = AtLeast(TopK, Cardinality(S))
        BY <1>1, <2>2 DEF AtLeast
      <4>6. store.model # "bm25"
        BY <1>2, <2>1, <2>4, <2>6 DEF StoreInv, Words
      <4>7. Fine(a)
        BY <2>4, <2>6, <3>1, <4>2, <4>4, <4>5, <4>6
      <4> QED BY <2>1, <4>7
    <3> QED BY <3>4, <3>5, <3>6
  <2>7. CASE plan # "ready" /\ plan = Off
    <3>1. /\ a.ids = R!Bm25(store, name, TopK) /\ a.by = "bm25" /\ a.codes = {}
      BY <2>3, <2>7 DEF R!Answer
    <3>2. "bm25" \notin Model
      BY <1>2 DEF Words
    <3>3. Fine(a)
      BY <2>2, <2>4, <2>7, <3>1, <3>2
    <3> QED BY <2>1, <3>3
  <2>8. CASE plan # "ready" /\ plan # Off
    <3>1. Fine(a)
      BY <2>2, <2>3, <2>4, <2>5, <2>8
    <3> QED BY <2>1, <3>1
  <2> QED BY <2>6, <2>7, <2>8
<1> QED BY <1>3, <1>4, <1>5

LEMMA ResolveOf ==
  ASSUME NEW sets \in Seq(Declaration), NEW selectors \in Seq(SetName), NEW tags
  PROVE  Resolve(sets, selectors, tags) \in Seq(Declaration)
<1> DEFINE n == Len(selectors)
           p == [i \in DOMAIN selectors |-> OfName(sets, selectors[i])]
           S == {s \in ToSet(sets) : s.name \in ToSet(selectors) \/ s.tags \cap tags # {}}
<1>1. n \in Nat /\ DOMAIN selectors = 1..n
  OBVIOUS
<1>2. p \in [1..n -> Seq(Declaration)]
  <2>1. \A i \in 1..n : OfName(sets, selectors[i]) \in Seq(Declaration)
    BY AmongKeeps DEF OfName
  <2> QED BY <1>1, <2>1
<1>3. FlattenSeq(p) \in Seq(Declaration)
  <2> HIDE DEF p, n
  <2> QED BY <1>1, <1>2, Flat
<1>4. Among(sets, S) \in Seq(Declaration)
  <2> HIDE DEF S
  <2> QED BY AmongKeeps
<1>5. Resolve(sets, selectors, tags) = IF tags = {} THEN FlattenSeq(p) ELSE Among(sets, S)
  BY DEF Resolve
<1> HIDE DEF p, S
<1> QED BY <1>3, <1>4, <1>5

(* The parts of the invariant that the lane's own steps may disturb. *)
LEMMA StartKeepsFields == ASSUME IndexInv, Start PROVE FieldType' /\ NothingLostSilently' /\ RankingIsHonest'
<1> DEFINE known == IF LoadFails(decl, FALSE) THEN <<>> ELSE Load(decl, FALSE)
<1>1. PICK job \in Jobs :
        lane' = [pc |-> "collect", embed |-> job.embed, terms |-> job.terms,
                    todo |-> Resolve(known, job.selectors, job.tags),
                    named |-> {<<n, "unknown selector", <<>>>> :
                                n \in Unknown(known, job.selectors, job.tags)},
                    full |-> <<>>, docs |-> <<>>, chunks |-> <<>>, gone |-> {},
                    limit |-> Unlimited, owed |-> {}, due |-> {}, ranked |-> {}]
  BY DEF Start
<1>2. job.embed \in Embedding /\ job.terms \in BOOLEAN /\ job.selectors \in Seq(SetName)
  BY JobAssumption
<1>3. known \in Seq(Declaration)
  <2>1. Load(decl, FALSE) \in Seq(Declaration)
    BY LoadOf DEF IndexInv
  <2>2. <<>> \in Seq(Declaration)
    OBVIOUS
  <2>3. known = <<>> \/ known = Load(decl, FALSE)
    OBVIOUS
  <2> HIDE DEF known
  <2> QED BY <2>1, <2>2, <2>3, Zenon
<1> HIDE DEF known
<1>4. Resolve(known, job.selectors, job.tags) \in Seq(Declaration)
  BY <1>2, <1>3, ResolveOf
<1>5. /\ lane'.embed = job.embed /\ lane'.terms = job.terms
      /\ lane'.todo = Resolve(known, job.selectors, job.tags)
      /\ lane'.full = <<>> /\ lane'.docs = <<>> /\ lane'.chunks = <<>>
      /\ lane'.owed = {} /\ lane'.due = {} /\ lane'.ranked = {}
      /\ lane'.named = {<<n, "unknown selector", <<>>>> : n \in Unknown(known, job.selectors, job.tags)}
  BY <1>1
<1>6. FieldType'
  <2>1. <<>> \in Seq(Declaration) /\ <<>> \in Seq(Chunk) /\ <<>> \in Seq([set : SetName, file : File])
    OBVIOUS
  <2> QED BY <1>2, <1>4, <1>5, <2>1 DEF FieldType
<1>7. \A n \in lane'.named : n[2] # "corrupt-vector"
  <2> TAKE n \in lane'.named
  <2>1. PICK x : n = <<x, "unknown selector", <<>>>>
    BY <1>5
  <2> QED BY <2>1
<1> QED BY <1>5, <1>6, <1>7 DEF NothingLostSilently, RankingIsHonest

(* Chunks of the set reach the prompt, as many as the answer has. *)
Places(s, set) == {i \in DOMAIN s : s[i].set = set}

LEMMA SentGrows ==
  ASSUME NEW cs \in Seq(Chunk), NEW more \in Seq(Chunk), NEW set
  PROVE  /\ cs \o more \in Seq(Chunk)
         /\ Cardinality(Places(cs, set)) \in Nat /\ Cardinality(Places(cs \o more, set)) \in Nat
         /\ Cardinality(Places(cs, set)) <= Cardinality(Places(cs \o more, set))
         /\ (\A i \in DOMAIN more : more[i].set = set) => Cardinality(Places(cs \o more, set)) >= Len(more)
<1> DEFINE Of(s) == Places(s, set)
           all == cs \o more
           m == Len(cs)
           n == Len(more)
<1>1. /\ all \in Seq(Chunk) /\ m \in Nat /\ n \in Nat /\ Len(all) = m + n
      /\ DOMAIN cs = 1..m /\ DOMAIN more = 1..n /\ DOMAIN all = 1..(m + n)
      /\ \A i \in 1..(m + n) : all[i] = IF i <= m THEN cs[i] ELSE more[i - m]
  OBVIOUS
<1> HIDE DEF all, m, n
<1>2. IsFiniteSet(Of(cs)) /\ IsFiniteSet(Of(all)) /\ Cardinality(Of(cs)) \in Nat /\ Cardinality(Of(all)) \in Nat
  <2>1. IsFiniteSet(1..m) /\ IsFiniteSet(1..(m + n))
    <3>1. m \in Int /\ m + n \in Int /\ 1 \in Int
      BY <1>1
    <3> QED BY <3>1, FS_Interval
  <2>2. Of(cs) \subseteq 1..m /\ Of(all) \subseteq 1..(m + n)
    BY <1>1 DEF Places
  <2> HIDE DEF Of
  <2> QED BY <2>1, <2>2, FS_Subset, FS_CardinalityType
<1>3. Cardinality(Of(cs)) <= Cardinality(Of(all))
  <2>1. Of(cs) \subseteq Of(all)
    BY <1>1 DEF Places
  <2> HIDE DEF Of
  <2> QED BY <1>2, <2>1, FS_Subset
<1>4. ASSUME \A i \in DOMAIN more : more[i].set = set PROVE Cardinality(Of(all)) >= n
  <2>1. (m + 1)..(m + n) \subseteq Of(all)
    <3> SUFFICES ASSUME NEW i \in (m + 1)..(m + n) PROVE i \in Of(all)
      OBVIOUS
    <3>1. i \in 1..(m + n) /\ ~(i <= m) /\ i - m \in 1..n
      BY <1>1
    <3>2. all[i].set = set
      BY <1>1, <1>4, <3>1
    <3> QED BY <1>1, <3>1, <3>2 DEF Places
  <2>2. Cardinality((m + 1)..(m + n)) = n
    <3>1. m + 1 \in Int /\ m + n \in Int /\ (m + 1 > m + n => n = 0) /\ (m + n) - (m + 1) + 1 = n
      BY <1>1
    <3> QED BY <1>1, <3>1, FS_Interval
  <2> HIDE DEF Of
  <2>3. Cardinality((m + 1)..(m + n)) <= Cardinality(Of(all))
    BY <1>2, <2>1, FS_Subset
  <2> QED BY <1>1, <1>2, <2>2, <2>3
<1> QED BY <1>1, <1>2, <1>3, <1>4 DEF all, n

LEMMA CollectKeepsFields == ASSUME MaterialInv, Collect PROVE FieldType' /\ NothingLostSilently' /\ RankingIsHonest'
<1>0. PICK set : set = Head(lane.todo)
  OBVIOUS
<1>1. /\ lane.pc = "collect" /\ Sought /\ DOMAIN lane = Fields /\ FieldType /\ lane.todo # <<>> /\ StoreInv
  BY DEF Collect, MaterialInv, EvictionInv, IndexInv, Sought
<1>2. set \in Declaration /\ Tail(lane.todo) \in Seq(Declaration)
  <2>1. \A q \in Seq(Declaration) : q # <<>> => Head(q) \in Declaration /\ Tail(q) \in Seq(Declaration)
    BY HeadTailProperties
  <2> QED BY <1>0, <1>1, <2>1 DEF FieldType
<1>3. CASE set.mode = "full"
  <2>1. lane' = [lane EXCEPT !.todo = Tail(@), !.full = Append(@, set)]
    BY <1>0, <1>3 DEF Collect
  <2>2. Append(lane.full, set) \in Seq(Declaration)
    BY <1>1, <1>2 DEF FieldType
  <2>3. /\ lane'.pc = lane.pc /\ lane'.embed = lane.embed /\ lane'.terms = lane.terms
        /\ lane'.todo = Tail(lane.todo) /\ lane'.full = Append(lane.full, set)
        /\ lane'.docs = lane.docs /\ lane'.chunks = lane.chunks /\ lane'.named = lane.named
        /\ lane'.owed = lane.owed /\ lane'.due = lane.due /\ lane'.ranked = lane.ranked
    BY <1>1, <2>1 DEF Fields
  <2>4. FieldType'
    BY <1>1, <1>2, <2>2, <2>3 DEF FieldType
  <2> QED BY <1>1, <2>3, <2>4 DEF MaterialInv, NothingLostSilently, RankingIsHonest, Sought, Named, Sent
<1>4. CASE set.mode # "full"
  <2>1. PICK called \in BOOLEAN : lane' = Queried(set, called)
    BY <1>0, <1>4 DEF Collect
  <2> DEFINE a == R!Retrieve(store, set.name, lane.terms, lane.embed, called)
             S == R!Hits(store, set.name)
             more == Chunks(a.ids)
             new == {<<set.name, c, <<>>>> : c \in a.codes}
  <2>0. PICK held : held = Held(set.name)
    OBVIOUS
  <2>2. /\ lane'.pc = lane.pc /\ lane'.embed = lane.embed /\ lane'.terms = lane.terms
        /\ lane'.todo = Tail(lane.todo) /\ lane'.full = lane.full /\ lane'.docs = lane.docs
        /\ lane'.chunks = lane.chunks \o more /\ lane'.named = lane.named \cup new
        /\ lane'.owed = lane.owed \cup {held} /\ lane'.due = lane.due
        /\ lane'.ranked = lane.ranked \cup {[set |-> set.name, by |-> a.by]}
    BY <1>1, <2>0, <2>1 DEF Queried, Fields
  <2>3. /\ a.ids = <<>> \/ (store # NoStore /\ a.ids \in Seq(S))
        /\ a.by \in Model => a.by = lane.embed
        /\ a.by = "bm25" /\ lane.embed # Off => a.codes # {}
        /\ "corrupt-vector" \notin a.codes
        /\ \/ a.codes # {} \/ ~lane.terms
           \/ store # NoStore /\ Len(a.ids) = AtLeast(TopK, Cardinality(S))
    <3>1. lane.embed \in Embedding /\ lane.terms \in BOOLEAN
      BY <1>1 DEF FieldType
    <3>2. Sound(a, set.name, lane.terms, lane.embed)
      BY <1>1, <3>1, AnswerOf
    <3> HIDE DEF a
    <3> QED BY <3>2 DEF Sound
  <2> HIDE DEF a
  <2>4. /\ held.set = set.name /\ held.hits \in Nat
        /\ store # NoStore => held.hits = Cardinality(S)
    <3>1. store # NoStore => Cardinality(S) \in Nat
      BY <1>1, CandidatesOf, JobAssumption
    <3> QED BY <2>0, <3>1 DEF Held
  <2>5. /\ more \in Seq(Chunk) /\ Len(more) = Len(a.ids)
        /\ \A i \in DOMAIN more : more[i].set = set.name
    <3>1. CASE a.ids = <<>>
      <4>1. more = <<>>
        BY <3>1 DEF Chunks
      <4> HIDE DEF more
      <4> QED BY <3>1, <4>1
    <3>2. CASE store # NoStore /\ a.ids \in Seq(S)
      <4> DEFINE n == Len(a.ids)
      <4>1. n \in Nat /\ DOMAIN a.ids = 1..n /\ \A i \in 1..n : a.ids[i] \in S
        BY <3>2
      <4>2. \A i \in S : store.chunks[i] \in Chunk /\ store.chunks[i].set = set.name
        BY <1>1, <3>2 DEF R!Hits, StoreInv
      <4> HIDE DEF n, S
      <4>3. more = [i \in 1..n |-> store.chunks[a.ids[i]]]
        BY <4>1 DEF Chunks
      <4> HIDE DEF more
      <4>4. more \in [1..n -> Chunk]
        BY <4>1, <4>2, <4>3
      <4>5. more \in Seq(Chunk) /\ Len(more) = n /\ DOMAIN more = 1..n
        BY <4>1, <4>4
      <4> QED BY <4>1, <4>2, <4>3, <4>5 DEF n
    <3> QED BY <2>3, <3>1, <3>2
  <2> HIDE DEF more, S
  <2>6. lane.chunks \in Seq(Chunk)
    BY <1>1 DEF FieldType
  <2>7. FieldType'
    <3>1. lane.chunks \o more \in Seq(Chunk)
      BY <2>5, <2>6, SentGrows
    <3> QED BY <1>1, <1>2, <2>2, <2>4, <3>1 DEF FieldType
  <2>8. \A s : Named(s) => Named(s)'
    BY <2>2 DEF Named
  <2>9. a.codes # {} => Named(set.name)'
    <3> SUFFICES ASSUME a.codes # {} PROVE Named(set.name)'
      OBVIOUS
    <3>1. PICK c \in a.codes : TRUE
      OBVIOUS
    <3>2. <<set.name, c, <<>>>> \in lane'.named
      BY <2>2
    <3>3. <<set.name, c, <<>>>>[1] = set.name
      OBVIOUS
    <3> QED BY <3>2, <3>3 DEF Named
  <2>a. ASSUME NEW s
        PROVE  /\ Cardinality(Sent(s)) \in Nat /\ Cardinality(Sent(s)') \in Nat
               /\ Cardinality(Sent(s)) <= Cardinality(Sent(s)')
               /\ s = set.name => Cardinality(Sent(s)') >= Len(more)
    <3>1. Sent(s) = Places(lane.chunks, s) /\ Sent(s)' = Places(lane'.chunks, s)
      BY DEF Sent, Places
    <3>2. Sent(s)' = Places(lane.chunks \o more, s)
      BY <2>2, <3>1, Zenon
    <3> QED BY <2>5, <2>6, <3>1, <3>2, SentGrows
  <2>10. NothingLostSilently'
    <3>1. ASSUME NEW o \in lane.owed
          PROVE  Named(o.set)' \/ ~lane'.terms \/ Cardinality(Sent(o.set)') >= AtLeast(TopK, o.hits)
      <4>1. Named(o.set) \/ ~lane.terms \/ Cardinality(Sent(o.set)) >= AtLeast(TopK, o.hits)
        BY <1>1 DEF MaterialInv, NothingLostSilently
      <4>2. /\ Cardinality(Sent(o.set)) \in Nat /\ Cardinality(Sent(o.set)') \in Nat
            /\ Cardinality(Sent(o.set)) <= Cardinality(Sent(o.set)')
        BY <2>a
      <4>3. AtLeast(TopK, o.hits) \in Nat
        BY <1>1, JobAssumption DEF FieldType, AtLeast
      <4> QED BY <2>2, <2>8, <4>1, <4>2, <4>3
    <3>2. Named(held.set)' \/ ~lane'.terms \/ Cardinality(Sent(held.set)') >= AtLeast(TopK, held.hits)
      <4>1. Cardinality(Sent(set.name)') >= Len(more)
        BY <2>a
      <4>2. a.codes # {} \/ ~lane.terms \/ Len(more) = AtLeast(TopK, held.hits)
        BY <2>3, <2>4, <2>5
      <4> QED BY <2>2, <2>4, <2>9, <4>1, <4>2
    <3>3. \A d \in lane'.due :
            \/ [set |-> d[1], file |-> d[2]] \in ToSet(lane'.docs)
            \/ <<d[1], "unavailable", d[2]>> \in lane'.named
            \/ <<d[1], "evicted", <<>>>> \in lane'.named
      BY <1>1, <2>2 DEF MaterialInv, NothingLostSilently
    <3> QED BY <2>2, <3>1, <3>2, <3>3 DEF NothingLostSilently
  <2>11. RankingIsHonest'
    <3>1. /\ \A r \in lane.ranked : /\ r.by \in Model => r.by = lane.embed
                                    /\ r.by = "bm25" /\ lane.embed # Off => Named(r.set)
          /\ \A n \in lane.named : n[2] # "corrupt-vector"
      BY <1>1 DEF MaterialInv, RankingIsHonest
    <3>2. ASSUME NEW r \in lane'.ranked
          PROVE  /\ r.by \in Model => r.by = lane'.embed
                 /\ r.by = "bm25" /\ lane'.embed # Off => Named(r.set)'
      <4>1. CASE r \in lane.ranked
        BY <2>2, <2>8, <3>1, <4>1
      <4>2. CASE r = [set |-> set.name, by |-> a.by]
        BY <2>2, <2>3, <2>9, <4>2
      <4> QED BY <2>2, <4>1, <4>2
    <3>3. \A n \in lane'.named : n[2] # "corrupt-vector"
      BY <2>2, <2>3, <3>1
    <3> QED BY <3>2, <3>3 DEF RankingIsHonest
  <2> QED BY <2>7, <2>10, <2>11
<1> QED BY <1>3, <1>4

LEMMA NarrowSeq == ASSUME NEW X, NEW Y, NEW s \in Seq(X), ToSet(s) \subseteq Y PROVE s \in Seq(Y)
<1>1. Len(s) \in Nat /\ s \in [1..Len(s) -> X] /\ DOMAIN s = 1..Len(s)
  OBVIOUS
<1>2. \A i \in 1..Len(s) : s[i] \in Y
  BY <1>1 DEF ToSet
<1> QED BY <1>1, <1>2

(* The files of a normative set, and what is said of the others. *)
LEMMA FullFilesOf ==
  ASSUME tree \in [File -> Kind], NEW set \in Declaration
  PROVE  /\ FullFiles(set) \in Seq(File)
         /\ \A f \in File : f \in ToSet(FullFiles(set)) <=>
              (f \in ToSet(set.paths) /\ Regular(f)) \/ (f[1] \in ToSet(set.paths) /\ tree[f] \in Listed)
<1> DEFINE S == {f \in File : Regular(f)}
           u == Among(set.paths, S)
           v == Walk(tree, set.paths)
<1>1. set.paths \in Seq(Path)
  BY DEF Declaration
<1>2. u \in Seq(Path) /\ ToSet(u) = ToSet(set.paths) \cap S
  <2> HIDE DEF S
  <2> QED BY <1>1, AmongKeeps
<1>3. u \in Seq(File)
  <2>1. ToSet(u) \subseteq File
    BY <1>2
  <2> HIDE DEF u
  <2> QED BY <1>2, <2>1, NarrowSeq
<1>4. v \in Seq(File) /\ ToSet(v) = {f \in File : f[1] \in ToSet(set.paths) /\ tree[f] \in Listed}
  BY <1>1, WalkOf
<1>5. FullFiles(set) = u \o v
  BY DEF FullFiles
<1> HIDE DEF u, v
<1>6. u \o v \in Seq(File) /\ ToSet(u \o v) = ToSet(u) \cup ToSet(v)
  BY <1>3, <1>4, Concat
<1>7. \A f \in File : /\ f \in ToSet(u) <=> (f \in ToSet(set.paths) /\ Regular(f))
                      /\ f \in ToSet(v) <=> (f[1] \in ToSet(set.paths) /\ tree[f] \in Listed)
  BY <1>2, <1>4
<1> QED BY <1>5, <1>6, <1>7

LEMMA DeclaredOf ==
  ASSUME tree \in [File -> Kind], NEW set \in Declaration, NEW f \in Declared(set)
  PROVE  f \in ToSet(FullFiles(set)) \/ <<set.name, "unavailable", f>> \in FullNamed(set)
<1>1. f \in File
  BY DEF Declared
<1>2. CASE f \in ToSet(set.paths)
  <2>1. CASE Regular(f)
    BY <1>1, <1>2, <2>1, FullFilesOf
  <2>2. CASE ~Regular(f)
    BY <1>1, <1>2, <2>2 DEF FullNamed
  <2> QED BY <2>1, <2>2
<1>3. CASE f[1] \in ToSet(set.paths) /\ tree[f] \notin {"hidden", "none"}
  <2>1. CASE tree[f] \in Listed
    BY <1>1, <1>3, <2>1, FullFilesOf
  <2>2. CASE tree[f] \notin Listed
    <3>1. tree[f] \in Skipped
      BY <1>1, <1>3, <2>2 DEF Kind
    <3>2. PICK d \in Dir, n \in Name : f = <<d, n>>
      BY <1>1 DEF File
    <3>3. d \in ToSet(set.paths) /\ ~Missing(tree, d)
      BY <1>3, <3>2 DEF Missing
    <3>4. f \in ToSet(Entries(tree, d, Skipped))
      <4>1. ToSet(Entries(tree, d, Skipped)) = {g \in File : g[1] = d /\ tree[g] \in Skipped}
        BY EntriesOf
      <4> QED BY <1>1, <3>1, <3>2, <4>1
    <3>5. f \in WalkSkips(tree, set.paths)
      BY <3>3, <3>4 DEF WalkSkips
    <3> QED BY <3>5 DEF FullNamed
  <2> QED BY <2>1, <2>2
<1> QED BY <1>2, <1>3 DEF Declared

LEMMA DocsOf ==
  ASSUME tree \in [File -> Kind], NEW full \in Seq(Declaration)
  PROVE  LET docs == FlattenSeq([i \in DOMAIN full |-> FullDocs(full[i])])
         IN  /\ docs \in Seq([set : SetName, file : File])
             /\ \A s \in ToSet(full) : \A f \in ToSet(FullFiles(s)) :
                  [set |-> s.name, file |-> f] \in ToSet(docs)
<1> DEFINE n == Len(full)
           D == [set : SetName, file : File]
           list(s) == FullDocs(s)
           p == [i \in DOMAIN full |-> list(full[i])]
<1>1. n \in Nat /\ DOMAIN full = 1..n /\ \A i \in 1..n : full[i] \in Declaration
  OBVIOUS
<1>2. ASSUME NEW s \in Declaration
      PROVE  /\ list(s) \in Seq(D)
             /\ \A f \in ToSet(FullFiles(s)) : [set |-> s.name, file |-> f] \in ToSet(list(s))
  <2> DEFINE fs == FullFiles(s)
             m == Len(fs)
  <2>1. m \in Nat /\ DOMAIN fs = 1..m /\ (\A j \in 1..m : fs[j] \in File) /\ s.name \in SetName
    <3>1. FullFiles(s) \in Seq(File)
      BY FullFilesOf
    <3> QED BY <3>1 DEF Declaration
  <2>2. list(s) = [j \in 1..m |-> [set |-> s.name, file |-> fs[j]]]
    BY <2>1 DEF FullDocs
  <2> HIDE DEF fs, list, m
  <2>3. list(s) \in [1..m -> D] /\ DOMAIN list(s) = 1..m
    BY <2>1, <2>2
  <2>4. list(s) \in Seq(D)
    <3> DEFINE l == list(s)
    <3>1. l \in [1..m -> D]
      BY <2>3
    <3> HIDE DEF l, D
    <3>2. l \in Seq(D)
      BY <2>1, <3>1
    <3> QED BY <3>2 DEF l
  <2>5. ASSUME NEW f \in ToSet(fs) PROVE [set |-> s.name, file |-> f] \in ToSet(list(s))
    <3>1. PICK j \in 1..m : f = fs[j]
      BY <2>1, <2>5 DEF ToSet
    <3>2. list(s)[j] = [set |-> s.name, file |-> f]
      BY <2>2, <3>1
    <3> QED BY <2>3, <3>2 DEF ToSet
  <2> QED BY <2>4, <2>5 DEF fs
<1> HIDE DEF list, D
<1>3. p \in [1..n -> Seq(D)] /\ \A i \in 1..n : p[i] = list(full[i])
  BY <1>1, <1>2
<1> HIDE DEF p
<1>4. /\ FlattenSeq(p) \in Seq(D)
      /\ \A x : x \in ToSet(FlattenSeq(p)) <=> \E i \in 1..n : x \in ToSet(p[i])
  BY <1>1, <1>3, Flat
<1>5. ASSUME NEW s \in ToSet(full), NEW f \in ToSet(FullFiles(s))
      PROVE  [set |-> s.name, file |-> f] \in ToSet(FlattenSeq(p))
  <2>1. PICK i \in 1..n : s = full[i]
    BY <1>1, <1>5 DEF ToSet
  <2>2. [set |-> s.name, file |-> f] \in ToSet(p[i])
    BY <1>1, <1>2, <1>3, <1>5, <2>1
  <2> QED BY <1>4, <2>2
<1> QED BY <1>4, <1>5 DEF p, list, D

LEMMA LoadKeepsFields == ASSUME MaterialInv, LoadFull PROVE FieldType' /\ NothingLostSilently' /\ RankingIsHonest'
<1>1. /\ lane.pc = "collect" /\ Sought /\ DOMAIN lane = Fields /\ FieldType
      /\ tree \in [File -> Kind] /\ lane.full \in Seq(Declaration)
  BY IndexAssumption DEF LoadFull, MaterialInv, EvictionInv, IndexInv, Sought, FieldType
<1>2. PICK files : files = FlattenSeq([i \in DOMAIN lane.full |-> FullDocs(lane.full[i])])
  OBVIOUS
<1> DEFINE D == [set : SetName, file : File]
           due == UNION {{s.name} \X Declared(s) : s \in ToSet(lane.full)}
           said == UNION {FullNamed(s) : s \in ToSet(lane.full)}
           locked == {d \in ToSet(files) : tree[d.file] = "locked"}
<1>l. PICK limit \in Limits : lane' = Loaded(files, limit)
  BY <1>2 DEF LoadFull
<1>4. lane' = [lane EXCEPT !.pc = "fit", !.limit = limit,
           !.docs = Among(files, ToSet(files) \ locked), !.due = due,
           !.named = @ \cup said \cup {<<d.set, "unavailable", d.file>> : d \in locked}]
  BY <1>l DEF Loaded
<1>5. /\ files \in Seq(D)
      /\ \A s \in ToSet(lane.full) : \A f \in ToSet(FullFiles(s)) : [set |-> s.name, file |-> f] \in ToSet(files)
  BY <1>1, <1>2, DocsOf
<1>6. /\ Among(files, ToSet(files) \ locked) \in Seq(D)
      /\ ToSet(Among(files, ToSet(files) \ locked)) = ToSet(files) \cap (ToSet(files) \ locked)
  <2> HIDE DEF D
  <2> QED BY <1>5, AmongKeeps
<1> HIDE DEF due, said, locked
<1>7. /\ lane'.embed = lane.embed /\ lane'.terms = lane.terms /\ lane'.todo = lane.todo
      /\ lane'.full = lane.full /\ lane'.docs = Among(files, ToSet(files) \ locked)
      /\ lane'.chunks = lane.chunks /\ lane'.owed = lane.owed /\ lane'.due = due /\ lane'.ranked = lane.ranked
      /\ lane'.named = lane.named \cup said \cup {<<d.set, "unavailable", d.file>> : d \in locked}
  BY <1>1, <1>4 DEF Fields
<1>8. FieldType'
  BY <1>1, <1>6, <1>7 DEF FieldType
<1>9. \A s : (Named(s) => Named(s)') /\ Sent(s)' = Sent(s)
  BY <1>7 DEF Named, Sent
<1>10. NothingLostSilently'
  <2>1. ASSUME NEW o \in lane'.owed
        PROVE  Named(o.set)' \/ ~lane'.terms \/ Cardinality(Sent(o.set)') >= AtLeast(TopK, o.hits)
    BY <1>1, <1>7, <1>9 DEF MaterialInv, NothingLostSilently
  <2>2. ASSUME NEW d \in lane'.due
        PROVE  \/ [set |-> d[1], file |-> d[2]] \in ToSet(lane'.docs)
               \/ <<d[1], "unavailable", d[2]>> \in lane'.named
               \/ <<d[1], "evicted", <<>>>> \in lane'.named
    <3>1. PICK s \in ToSet(lane.full) : \E f \in Declared(s) : d = <<s.name, f>>
      BY <1>7, <2>2 DEF due
    <3>f. PICK f \in Declared(s) : d = <<s.name, f>>
      BY <3>1
    <3>2. s \in Declaration
      BY <1>1 DEF ToSet
    <3>3. d[1] = s.name /\ d[2] = f
      BY <3>f
    <3>4. CASE <<s.name, "unavailable", f>> \in FullNamed(s)
      BY <1>7, <3>3, <3>4 DEF said
    <3>5. CASE f \in ToSet(FullFiles(s))
      <4> DEFINE doc == [set |-> s.name, file |-> f]
      <4>1. doc \in ToSet(files) /\ doc.set = s.name /\ doc.file = f
        BY <1>5, <3>5
      <4>2. CASE doc \in locked
        <5>1. <<doc.set, "unavailable", doc.file>> \in lane'.named
          BY <1>7, <4>2
        <5> QED BY <3>3, <4>1, <5>1
      <4>3. CASE doc \notin locked
        BY <1>6, <1>7, <3>3, <4>1, <4>3
      <4> QED BY <4>2, <4>3
    <3> QED BY <1>1, <3>1, <3>2, <3>4, <3>5, DeclaredOf
  <2> QED BY <2>1, <2>2 DEF NothingLostSilently
<1>11. RankingIsHonest'
  <2>1. \A n \in said : n[2] = "unavailable"
    <3> SUFFICES ASSUME NEW s \in ToSet(lane.full), NEW n \in FullNamed(s) PROVE n[2] = "unavailable"
      BY DEF said
    <3>1. PICK p : n = <<s.name, "unavailable", p>>
      BY DEF FullNamed
    <3> QED BY <3>1
  <2>2. \A n \in {<<d.set, "unavailable", d.file>> : d \in locked} : n[2] = "unavailable"
    <3> TAKE n \in {<<d.set, "unavailable", d.file>> : d \in locked}
    <3>1. PICK d \in locked : n = <<d.set, "unavailable", d.file>>
      OBVIOUS
    <3> QED BY <3>1
  <2>3. \A n \in lane'.named : n[2] # "corrupt-vector"
    BY <1>1, <1>7, <2>1, <2>2 DEF MaterialInv, RankingIsHonest
  <2>4. ASSUME NEW r \in lane'.ranked
        PROVE  /\ r.by \in Model => r.by = lane'.embed
               /\ r.by = "bm25" /\ lane'.embed # Off => Named(r.set)'
    BY <1>1, <1>7, <1>9 DEF MaterialInv, RankingIsHonest
  <2> QED BY <2>3, <2>4 DEF RankingIsHonest
<1> QED BY <1>8, <1>10, <1>11

(* A section goes: the last one of its field. *)
LEMMA FrontOf ==
  ASSUME NEW X, NEW s \in Seq(X), s # <<>>
  PROVE  LET n == Len(s) IN
           /\ n \in Nat \ {0} /\ DOMAIN s = 1..n /\ Last(s) = s[n]
           /\ Front(s) \in Seq(X) /\ DOMAIN Front(s) = 1..(n - 1)
           /\ \A i \in 1..(n - 1) : Front(s)[i] = s[i]
<1> DEFINE n == Len(s)
<1>1. n \in Nat \ {0} /\ DOMAIN s = 1..n /\ \A i \in 1..n : s[i] \in X
  OBVIOUS
<1>2. Front(s) = SubSeq(s, 1, n - 1) /\ Last(s) = s[n]
  BY DEF Front, Last
<1>3. 1 \in 1..(n + 1) /\ n - 1 \in 0..n
  BY <1>1
<1> DEFINE m == n - 1
           t == SubSeq(s, 1, m)
<1>4. /\ t \in Seq(X) /\ Len(t) = IF 1 <= m THEN m - 1 + 1 ELSE 0
      /\ \A i \in 1..(m - 1 + 1) : t[i] = s[1 + i - 1]
  BY <1>1, <1>3, SubSeqProperties
<1> HIDE DEF t, n
<1>5. Len(t) = m /\ DOMAIN t = 1..m
  BY <1>1, <1>4
<1>6. \A i \in 1..m : t[i] = s[i]
  BY <1>1, <1>4
<1> QED BY <1>1, <1>2, <1>4, <1>5, <1>6 DEF t, n

LEMMA EvictChunkKeepsFields ==
  ASSUME MaterialInv, lane.pc = "fit", Evict("chunks", "retrieval")
  PROVE  FieldType' /\ NothingLostSilently' /\ RankingIsHonest'
<1>1. /\ DOMAIN lane = Fields /\ FieldType /\ Sought /\ lane.chunks \in Seq(Chunk) /\ lane.chunks # <<>>
  BY DEF MaterialInv, EvictionInv, Sought, FieldType, Evict
<1>2. PICK last : last = Last(lane.chunks).set
  OBVIOUS
<1>3. lane' = [lane EXCEPT !["chunks"] = Front(@),
                !.gone = @ \cup {[mode |-> "retrieval", cost |-> Cost]},
                !.named = @ \cup {<<last, "evicted", <<>>>>}]
  BY <1>2 DEF Evict
<1>4. /\ lane'.embed = lane.embed /\ lane'.terms = lane.terms /\ lane'.todo = lane.todo
      /\ lane'.full = lane.full /\ lane'.docs = lane.docs /\ lane'.chunks = Front(lane.chunks)
      /\ lane'.owed = lane.owed /\ lane'.due = lane.due /\ lane'.ranked = lane.ranked
      /\ lane'.named = lane.named \cup {<<last, "evicted", <<>>>>}
  BY <1>1, <1>3 DEF Fields
<1>5. PICK n \in Nat \ {0} :
        /\ DOMAIN lane.chunks = 1..n /\ last = lane.chunks[n].set
        /\ Front(lane.chunks) \in Seq(Chunk) /\ DOMAIN Front(lane.chunks) = 1..(n - 1)
        /\ \A i \in 1..(n - 1) : Front(lane.chunks)[i] = lane.chunks[i]
  BY <1>1, <1>2, FrontOf
<1>6. FieldType'
  BY <1>1, <1>4, <1>5 DEF FieldType
<1>7. \A s : Named(s) => Named(s)'
  BY <1>4 DEF Named
<1>8. Named(last)'
  <2>1. <<last, "evicted", <<>>>>[1] = last /\ <<last, "evicted", <<>>>> \in lane'.named
    BY <1>4
  <2> QED BY <2>1 DEF Named
<1>9. \A s : s # last => Sent(s)' = Sent(s)
  <2> SUFFICES ASSUME NEW s, s # last PROVE Sent(s)' = Sent(s)
    OBVIOUS
  <2>1. Sent(s)' = {i \in 1..(n - 1) : lane.chunks[i].set = s}
    BY <1>4, <1>5 DEF Sent
  <2>2. Sent(s) = {i \in 1..n : lane.chunks[i].set = s}
    BY <1>5 DEF Sent
  <2>3. \A i \in 1..n : i = n \/ i \in 1..(n - 1)
    OBVIOUS
  <2>4. 1..(n - 1) \subseteq 1..n
    OBVIOUS
  <2> QED BY <1>5, <2>1, <2>2, <2>3, <2>4
<1>10. NothingLostSilently'
  <2>1. ASSUME NEW o \in lane'.owed
        PROVE  Named(o.set)' \/ ~lane'.terms \/ Cardinality(Sent(o.set)') >= AtLeast(TopK, o.hits)
    BY <1>1, <1>4, <1>7, <1>8, <1>9 DEF MaterialInv, NothingLostSilently
  <2> QED BY <1>1, <1>4, <2>1 DEF MaterialInv, NothingLostSilently
<1>11. RankingIsHonest'
  <2>1. \A k \in lane'.named : k[2] # "corrupt-vector"
    <3>1. <<last, "evicted", <<>>>>[2] = "evicted"
      OBVIOUS
    <3> QED BY <1>1, <1>4, <3>1 DEF MaterialInv, RankingIsHonest
  <2> QED BY <1>1, <1>4, <1>7, <2>1 DEF MaterialInv, RankingIsHonest
<1> QED BY <1>6, <1>10, <1>11

LEMMA EvictDocKeepsFields ==
  ASSUME MaterialInv, lane.pc = "fit", Evict("docs", "full")
  PROVE  FieldType' /\ NothingLostSilently' /\ RankingIsHonest'
<1> DEFINE D == [set : SetName, file : File]
<1>1. /\ DOMAIN lane = Fields /\ FieldType /\ Sought /\ lane.docs \in Seq(D) /\ lane.docs # <<>>
  BY DEF MaterialInv, EvictionInv, Sought, FieldType, Evict
<1>2. PICK last : last = Last(lane.docs).set
  OBVIOUS
<1>3. lane' = [lane EXCEPT !["docs"] = Front(@),
                !.gone = @ \cup {[mode |-> "full", cost |-> Cost]},
                !.named = @ \cup {<<last, "evicted", <<>>>>}]
  BY <1>2 DEF Evict
<1>4. /\ lane'.embed = lane.embed /\ lane'.terms = lane.terms /\ lane'.todo = lane.todo
      /\ lane'.full = lane.full /\ lane'.docs = Front(lane.docs) /\ lane'.chunks = lane.chunks
      /\ lane'.owed = lane.owed /\ lane'.due = lane.due /\ lane'.ranked = lane.ranked
      /\ lane'.named = lane.named \cup {<<last, "evicted", <<>>>>}
  BY <1>1, <1>3 DEF Fields
<1> HIDE DEF D
<1>5. PICK n \in Nat \ {0} :
        /\ DOMAIN lane.docs = 1..n /\ last = lane.docs[n].set
        /\ Front(lane.docs) \in Seq(D) /\ DOMAIN Front(lane.docs) = 1..(n - 1)
        /\ \A i \in 1..(n - 1) : Front(lane.docs)[i] = lane.docs[i]
  BY <1>1, <1>2, FrontOf
<1>6. FieldType'
  BY <1>1, <1>4, <1>5 DEF FieldType, D
<1>7. \A s : (Named(s) => Named(s)') /\ Sent(s)' = Sent(s)
  BY <1>4 DEF Named, Sent
<1>8. NothingLostSilently'
  <2>1. ASSUME NEW o \in lane'.owed
        PROVE  Named(o.set)' \/ ~lane'.terms \/ Cardinality(Sent(o.set)') >= AtLeast(TopK, o.hits)
    BY <1>1, <1>4, <1>7 DEF MaterialInv, NothingLostSilently
  <2>2. ASSUME NEW d \in lane'.due
        PROVE  \/ [set |-> d[1], file |-> d[2]] \in ToSet(lane'.docs)
               \/ <<d[1], "unavailable", d[2]>> \in lane'.named
               \/ <<d[1], "evicted", <<>>>> \in lane'.named
    <3>1. \/ [set |-> d[1], file |-> d[2]] \in ToSet(lane.docs)
          \/ <<d[1], "unavailable", d[2]>> \in lane.named
          \/ <<d[1], "evicted", <<>>>> \in lane.named
      BY <1>1, <1>4, <2>2 DEF MaterialInv, NothingLostSilently
    <3>2. CASE [set |-> d[1], file |-> d[2]] \in ToSet(lane.docs)
      <4>1. PICK i \in 1..n : lane.docs[i] = [set |-> d[1], file |-> d[2]]
        BY <1>5, <3>2 DEF ToSet
      <4>2. CASE i = n
        <5>1. last = d[1]
          BY <1>5, <4>1, <4>2
        <5> QED BY <1>4, <5>1
      <4>3. CASE i # n
        <5>1. i \in 1..(n - 1)
          BY <4>3
        <5>2. lane'.docs[i] = [set |-> d[1], file |-> d[2]] /\ i \in DOMAIN lane'.docs
          BY <1>4, <1>5, <4>1, <5>1
        <5> QED BY <5>2 DEF ToSet
      <4> QED BY <4>2, <4>3
    <3> QED BY <1>4, <3>1, <3>2
  <2> QED BY <2>1, <2>2 DEF NothingLostSilently
<1>9. RankingIsHonest'
  <2>1. \A k \in lane'.named : k[2] # "corrupt-vector"
    <3>1. <<last, "evicted", <<>>>>[2] = "evicted"
      OBVIOUS
    <3> QED BY <1>1, <1>4, <3>1 DEF MaterialInv, RankingIsHonest
  <2> QED BY <1>1, <1>4, <1>7, <2>1 DEF MaterialInv, RankingIsHonest
<1> QED BY <1>6, <1>8, <1>9

LEMMA FinishKeepsFields == ASSUME MaterialInv, Finish PROVE FieldType' /\ NothingLostSilently' /\ RankingIsHonest'
<1>1. /\ DOMAIN lane = Fields /\ FieldType /\ Sought
  BY DEF MaterialInv, EvictionInv, Sought, Finish
<1>2. \E pc : lane' = [lane EXCEPT !.pc = pc]
  BY DEF Finish
<1>3. /\ lane'.embed = lane.embed /\ lane'.terms = lane.terms /\ lane'.todo = lane.todo
      /\ lane'.full = lane.full /\ lane'.docs = lane.docs /\ lane'.chunks = lane.chunks
      /\ lane'.owed = lane.owed /\ lane'.due = lane.due /\ lane'.ranked = lane.ranked
      /\ lane'.named = lane.named
  BY <1>1, <1>2 DEF Fields
<1> QED BY <1>1, <1>3 DEF MaterialInv, FieldType, NothingLostSilently, RankingIsHonest, Named, Sent

LEMMA StepMaterial == MaterialInv /\ [Next]_vars => MaterialInv'
<1> SUFFICES ASSUME MaterialInv, [Next]_vars PROVE MaterialInv'
  OBVIOUS
<1>1. IndexInv' /\ EvictionInv'
  BY IndexKeeps, StepEviction DEF MaterialInv
<1>2. CASE UNCHANGED lane
  BY <1>1, <1>2 DEF MaterialInv, FieldType, NothingLostSilently, RankingIsHonest, Sought, Named, Sent
<1>3. CASE Start \/ Collect \/ LoadFull \/ EvictSection \/ Finish
  <2>1. FieldType' /\ NothingLostSilently' /\ RankingIsHonest'
    BY <1>3, StartKeepsFields, CollectKeepsFields, LoadKeepsFields, EvictChunkKeepsFields,
       EvictDocKeepsFields, FinishKeepsFields DEF MaterialInv, EvictSection, EvictNext
  <2> QED BY <1>1, <2>1 DEF MaterialInv
<1> QED BY <1>1, <1>2, <1>3 DEF Next, vars

THEOREM Material == Spec => []MaterialInv
<1>1. Init => MaterialInv
  BY InitWhole, InitEviction DEF Init, MaterialInv, NothingLostSilently, RankingIsHonest, Sought
<1> QED BY <1>1, StepMaterial, PTL DEF Spec

(* Whatever is asked for, whatever the store holds of it when it is queried,   *)
(* whatever cannot be read and however much has to go: what the prompt lacks   *)
(* is named (Compose, Retrieve, LoadFull, ComposeWithBudget).                  *)
THEOREM LossIsNamed == Spec => []NothingLostSilently
<1>1. MaterialInv => NothingLostSilently
  BY DEF MaterialInv
<1> QED BY <1>1, Material, PTL

(* Whatever rebuild replaces the store between two queries, vectors of another *)
(* model rank nothing, a way back to BM25 is named, and no candidate lacks its *)
(* vector (planRerank, candidateVectors).                                      *)
THEOREM RankingHonest == Spec => []RankingIsHonest
<1>1. MaterialInv => RankingIsHonest
  BY DEF MaterialInv
<1> QED BY <1>1, Material, PTL
=============================================================================
