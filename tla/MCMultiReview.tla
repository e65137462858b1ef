---------------------------- MODULE MCMultiReview ---------------------------
(* Three lanes, and the answers they may get about a diff of two files.        *)
EXTENDS MultiReview
CONSTANTS k1, k2

Found(titled, sev, cat, file, line, cites) ==
  [titled |-> titled, severity |-> sev, category |-> cat, file |-> file, line |-> line, cites |-> cites]
Object(form, findings) == [fenced |-> FALSE, form |-> form, findings |-> findings]
Fence(form, findings) == [fenced |-> TRUE, form |-> form, findings |-> findings]

x == <<"x">>
y == <<"y">>
Number(n) == [is |-> "number", value |-> n]
Digits(n) == [is |-> "digits", value |-> n]
Words == [is |-> "words", value |-> 1]
Style(sev, file, line, cites) == Found(TRUE, sev, "style", file, Number(line), cites)

MCAnswers ==
  {<<Object("good", <<Style("low", x, 1, <<k1>>), Style("HIGH", x, 3, <<k2>>)>>)>>,
   <<Fence("good", <<Style("urgent", <<"b", "x">>, 4, <<k1, k2>>), Style("low", <<".", "x">>, 7, <<>>),
                       Found(TRUE, "low", "testing", x, Number(7), <<>>)>>),
     Object("invalid", <<>>)>>,
   <<Object("good", <<>>), Fence("invalid", <<>>),
     Object("good", <<Found(TRUE, "low", "security", y, Words, <<k2>>),
                      Found(FALSE, "high", "style", x, Number(1), <<>>),
                      Found(TRUE, "medium", "naming", x, Digits(1), <<>>),
                      Found(TRUE, "medium", "testing", x, Digits(-2), <<k1>>)>>)>>,
   <<Object("good", <<>>)>>,
   <<Object("good", <<>>), Object("deep", <<>>)>>, <<Object("keyless", <<>>)>>, <<Object("broken", <<>>)>>,
   <<Object("foreign", <<Style("high", x, 1, <<>>)>>)>>,
   <<Object("good", <<Style("low", x, 1, <<>>), Style("low", x, 2, <<>>),
                      Style("low", x, 3, <<>>), Style("low", x, 4, <<>>), Style("low", x, 5, <<>>)>>)>>}

MCSetups == [provider : {"openai", "anthropic", "gemini"}, enriched : BOOLEAN]

MCChunk == {k1, k2}
MCReceived == {{k1}, {k2}}

MCChanges == {[path |-> x, deleted |-> FALSE, lines |-> 1..4], [path |-> y, deleted |-> TRUE, lines |-> {}]}

Lan(id, enabled, budget) == [id |-> id, enabled |-> enabled, budget |-> budget]
Three == <<Lan("diff", TRUE, "ample"), Lan("tests", TRUE, "ample"), Lan("style", TRUE, "ample")>>
MCRegistries ==
  {[canonical |-> Three, overlay |-> NoFile],
   [canonical |-> Three, overlay |-> <<Lan("style", TRUE, "small"), Lan("diff", FALSE, "ample"),
                                       Lan("rules", TRUE, "ample")>>],
   [canonical |-> Three, overlay |-> <<Lan("rules", TRUE, "unknown")>>],
   [canonical |-> Three, overlay |-> Three \o Three],
   [canonical |-> <<Lan("diff", FALSE, "ample")>>, overlay |-> NoFile],
   [canonical |-> NoFile, overlay |-> Three]}
=============================================================================
