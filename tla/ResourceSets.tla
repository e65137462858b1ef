---------------------------- MODULE ResourceSets ----------------------------
(* The declarations of resource sets and the files they select: what Load,     *)
(* Resolve and Walk compute.  A declaration file is a sequence of sets, each   *)
(* a record of name, mode, tags and paths; NoFile stands for one that is not   *)
(* there.  A path is a directory, a file in it, or Outside, which escapes the  *)
(* repository.  Names are numbers: WalkDir visits them in order.               *)
EXTENDS Naturals, Sequences, SequencesExt, Selections

CONSTANTS
  Dir, MaxName, Outside,  \* directories, the names of files in each, and outside
  SetName, Tag, NoFile

ASSUME NameAssumption == MaxName \in Nat

Name == 1..MaxName
File == Dir \X Name
Path == Dir \cup File \cup {Outside}
Declaration == [name : SetName, mode : STRING, tags : SUBSET Tag, paths : Seq(Path)]

(* What a file is: "doc" and "long" have one and two chunks about the diff,    *)
(* "other" one that is not, "broken" cannot be parsed and is cut into lines,   *)
(* "plain" is structured without operations, "locked" cannot be read.          *)
Parts == [doc |-> 1, long |-> 2, other |-> 1, broken |-> 1, plain |-> 0]
Listed == DOMAIN Parts \cup {"locked"}
Skipped == {"secret", "link", "special"}
Kind == Listed \cup Skipped \cup {"hidden", "none"}

-----------------------------------------------------------------------------
OfName(sets, n) == Among(sets, {s \in ToSet(sets) : s.name = n})

Valid(sets) ==
  /\ \A i, j \in DOMAIN sets : sets[i].name = sets[j].name => i = j
  /\ \A i \in DOMAIN sets : sets[i].mode \in {"full", "retrieval"}

(* An overlay's set takes the place of the canonical one of its name; new sets *)
(* come last.                                                                  *)
Merge(canonical, overlay) ==
  LET names == {s.name : s \in ToSet(canonical)}
  IN  [i \in DOMAIN canonical |->
         LET own == OfName(overlay, canonical[i].name)
         IN  IF own = <<>> THEN canonical[i] ELSE own[1]]
      \o Among(overlay, {s \in ToSet(overlay) : s.name \notin names})

Inside(sets) ==
  [i \in DOMAIN sets |-> [sets[i] EXCEPT !.paths = Among(@, Path \ {Outside})]]

Overlaid(files) == files.overlay # NoFile

LoadFails(files, withOverlay) ==
  /\ files.canonical # NoFile
  /\ \/ ~Valid(files.canonical)
     \/ withOverlay /\ Overlaid(files) /\ ~Valid(files.overlay)

Load(files, withOverlay) ==
  IF files.canonical = NoFile THEN <<>>
  ELSE IF withOverlay /\ Overlaid(files) THEN Inside(Merge(files.canonical, files.overlay))
  ELSE Inside(files.canonical)

(* Selectors alone choose in their own order, and as often as they say; with   *)
(* tags the declarations' order counts.                                        *)
Resolve(sets, selectors, tags) ==
  IF tags = {}
  THEN FlattenSeq([i \in DOMAIN selectors |-> OfName(sets, selectors[i])])
  ELSE Among(sets, {s \in ToSet(sets) : s.name \in ToSet(selectors) \/ s.tags \cap tags # {}})

Unknown(sets, selectors, tags) ==
  LET all == ToSet(sets)
  IN  {n \in ToSet(selectors) : \A s \in all : s.name # n}
      \cup {t \in tags : \A s \in all : t \notin s.tags}

-----------------------------------------------------------------------------
(* visit: what the walker makes of the entries of a root, which it never takes *)
(* for a candidate itself; a directory without entries is a missing one.       *)
Entries(tree, d, kinds) ==
  FlattenSeq([n \in Name |-> IF tree[<<d, n>>] \in kinds THEN <<<<d, n>>>> ELSE <<>>])

Missing(tree, p) == p \in Dir /\ \A n \in Name : tree[<<p, n>>] = "none"

Walk(tree, paths) ==
  FlattenSeq([i \in DOMAIN paths |->
     IF paths[i] \in Dir THEN Entries(tree, paths[i], Listed) ELSE <<>>])

WalkSkips(tree, paths) ==
  UNION {IF Missing(tree, p) THEN {p}
         ELSE IF p \in Dir THEN ToSet(Entries(tree, p, Skipped)) ELSE {} : p \in ToSet(paths)}

(* documents are UNIQUE in their set by path relative to the first root. *)
Collide(files) == \E i, j \in DOMAIN files : i # j /\ files[i][2] = files[j][2]
=============================================================================
