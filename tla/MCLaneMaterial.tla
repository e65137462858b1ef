---------------------------- MODULE MCLaneMaterial --------------------------
(* Two directories of two names each: what is there, and what is declared.     *)
EXTENDS LaneMaterial, TLC
CONSTANTS da, db, guides, specs, extra, norm, m1, m2

Holding(a1, a2, b1, b2) ==
  <<da, 1>> :> a1 @@ <<da, 2>> :> a2 @@ <<db, 1>> :> b1 @@ <<db, 2>> :> b2

MCTrees == {Holding("doc", "long", "doc", "secret"), Holding("other", "doc", "locked", "none"),
            Holding("plain", "hidden", "none", "none")}

Set(n, m, ps) == [name |-> n, mode |-> m, tags |-> IF m = "full" THEN {norm} ELSE {}, paths |-> ps]

Usual == <<Set(guides, "retrieval", <<da>>), Set(specs, "full", <<db>>)>>
MCRegistries ==
  {[canonical |-> Usual, overlay |-> NoFile],
   [canonical |-> Usual, overlay |-> <<Set(extra, "retrieval", <<db>>), Set(guides, "full", <<da>>)>>],
   [canonical |-> <<Set(guides, "retrieval", <<da, Outside>>), Set(extra, "retrieval", <<db>>)>>,
    overlay |-> NoFile],
   [canonical |-> <<Set(guides, "retrieval", <<da, db>>), Set(specs, "full", <<<<db, 1>>, da>>)>>,
    overlay |-> NoFile],
   [canonical |-> NoFile, overlay |-> Usual]}

Job(sel, tags, embed, terms) == [selectors |-> sel, tags |-> tags, embed |-> embed, terms |-> terms]

MCJobs ==
  {Job(<<specs, guides>>, {}, e, TRUE) : e \in {Off, m1}}
  \cup {Job(<<extra, guides>>, {norm}, e, TRUE) : e \in {m1, "missing-key"}}
  \cup {Job(<<extra, guides>>, {norm}, "embedder-init", FALSE)}

MCLimits == {Unlimited, [budget |-> 1, fail |-> FALSE], [budget |-> 4, fail |-> TRUE],
             [budget |-> 5, fail |-> FALSE]}

MCSize == [full |-> 2, retrieval |-> 1]
=============================================================================
