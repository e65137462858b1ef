---------------------------- MODULE LaneFindings ----------------------------
(* From the texts of the lanes to the rows of a report (lane/parse.go,         *)
(* merge.go, hunk.go, render.go).  A text is the sequence of JSON objects in   *)
(* it, a file the sequence of its path's segments.  Titles and wording do not  *)
(* matter, nor does the order of the rows.                                     *)
EXTENDS Integers, FiniteSets, SequencesExt

CONSTANTS
  NoLine,
  MaxFindings,  \* findings allowed in an answer
  MaxInt,       \* the greatest int
  Chunk         \* what a finding may cite

ASSUME LineAssumption == MaxInt \in Nat /\ NoLine \notin Int

-----------------------------------------------------------------------------
(* Parse.  The form of an object: "good", "invalid" JSON, "deep", "keyless",   *)
(* "foreign" with another lane's id, or with a "broken" finding.  A line may   *)
(* be written as a number, as digits in a string, or otherwise.                *)
Finding == [titled : BOOLEAN, severity : STRING, category : STRING, file : Seq(STRING),
            line : [is : {"number", "digits", "words"}, value : -(MaxInt + 1)..MaxInt],
            cites : Seq(Chunk)]
Block == [fenced : BOOLEAN, form : {"good", "invalid", "deep", "keyless", "foreign", "broken"},
          findings : Seq(Finding)]

Nothing == [fenced |-> FALSE, form |-> "invalid", findings |-> <<>>]
Fenced(text) == {i \in DOMAIN text : text[i].fenced}
IsValid(block) == block.form # "invalid"

Extract(text) ==
  IF Fenced(text) # {} /\ IsValid(text[Max(Fenced(text))]) THEN text[Max(Fenced(text))]
  ELSE IF text # <<>> /\ IsValid(Last(text)) THEN Last(text)
  ELSE Nothing

(* Parse refuses an object that is nested too deep, lacks a key of the         *)
(* envelope, holds more findings than allowed, or one that cannot be decoded.  *)
Shallow(block) == block.form # "deep"
Enveloped(block) == block.form # "keyless"
Decoded(block) == block.form # "broken" /\ Len(block.findings) <= MaxFindings

Accepted(text) ==
  LET block == Extract(text)
  IN  IsValid(block) /\ Shallow(block) /\ Enveloped(block) /\ Decoded(block)

(* The answer must be for the lane that asked. *)
Own(text) == Extract(text).form # "foreign"

Severity(s) == IF s = "HIGH" THEN "high" ELSE IF s \in {"high", "medium", "low"} THEN s ELSE "medium"
Category(c) == IF c \in {"", "style", "security", "testing"} THEN c ELSE "other"

(* parseLine: a number, or digits in a string; anything else is no line. *)
Line(raw) == IF raw.is \in {"number", "digits"} THEN raw.value ELSE NoLine

(* A finding without a title or a rationale is dropped; the others keep their  *)
(* places.                                                                     *)
Parse(text) ==
  LET findings == Extract(text).findings
  IN  [j \in {k \in DOMAIN findings : findings[k].titled} |->
         [findings[j] EXCEPT !.severity = Severity(@), !.category = Category(@), !.line = Line(@)]]

-----------------------------------------------------------------------------
(* Merge.  The results are what each lane found, the lanes being numbered in   *)
(* the order of their declarations.  A member of a cluster is a finding with   *)
(* its lane and its place there, the order in which Merge encounters them.     *)
Rank(s) == CASE s = "high" -> 0 [] s = "medium" -> 1 [] OTHER -> 2

(* normalizeMergeFile *)
Norm(file) ==
  LET f == IF Len(file) > 1 /\ file[1] = "." THEN Tail(file) ELSE file
  IN  IF Len(f) > 1 /\ f[1] \in {"a", "b"} THEN Tail(f) ELSE f

Member(i, j, finding) == [lane |-> i, nth |-> j, finding |-> [finding EXCEPT !.file = Norm(@)]]
Members(results) ==
  UNION {{Member(i, j, results[i][j]) : j \in DOMAIN results[i]} : i \in DOMAIN results}

Alone(m) == m.finding.line = NoLine \/ m.finding.category \in {"", "other"}
Key(m) == <<m.finding.file, m.finding.category>>

Before(m, n) == m.lane < n.lane \/ (m.lane = n.lane /\ m.nth < n.nth)
Upward(m, n) ==
  \/ m.finding.line < n.finding.line
  \/ (m.finding.line = n.finding.line /\ Before(m, n))

Foremost(S) == CHOOSE m \in S : \A n \in S \ {m} : Before(m, n)
Lowest(S) == CHOOSE m \in S : \A n \in S \ {m} : Upward(m, n)
Highest(S) == CHOOSE m \in S : \A n \in S \ {m} : Upward(n, m)

(* How far a line is above a lower one, as an int has it. *)
Above(line, low) ==
  IF line - low > MaxInt THEN line - low - 2 * (MaxInt + 1) ELSE line - low
Close(cluster, m) == Above(m.finding.line, Lowest(cluster).finding.line) <= 3

(* Mutant: a lane may be in a cluster twice. *)
PlaceTwice(clusters, m) ==
  IF clusters # <<>> /\ Close(Last(clusters), m)
  THEN [clusters EXCEPT ![Len(clusters)] = @ \cup {m}]
  ELSE Append(clusters, {m})

(* The last cluster, or one more. *)
Place(clusters, m) ==
  IF clusters # <<>> /\ Close(Last(clusters), m) /\ \A k \in Last(clusters) : k.lane # m.lane
  THEN [clusters EXCEPT ![Len(clusters)] = @ \cup {m}]
  ELSE Append(clusters, {m})

(* clusterByRepresentativeLine: the members of a group one after another,      *)
(* upwards.                                                                    *)
Clustered(group) ==
  LET upto[S \in SUBSET group] ==
        IF S = {} THEN <<>> ELSE Place(upto[S \ {Highest(S)}], Highest(S))
  IN  upto[group]

Groups(members) ==
  {{n \in members : ~Alone(n) /\ Key(n) = Key(m)} : m \in {n \in members : ~Alone(n)}}

Clusters(members) ==
  {{m} : m \in {n \in members : Alone(n)}} \cup UNION {ToSet(Clustered(g)) : g \in Groups(members)}

(* Mutant: the representative's severity. *)
GravestFirst(cluster) == Foremost(cluster).finding.severity

(* maximumSeverity *)
Gravest(cluster) ==
  LET of == {m.finding.severity : m \in cluster}
  IN  CHOOSE s \in of : \A t \in of : Rank(s) <= Rank(t)

Cited(cluster) == UNION {{m} \X DOMAIN m.finding.cites : m \in cluster}

(* Mutant: every citation is the representative's. *)
CitationsOfFirst(cluster) ==
  [p \in Cited(cluster) |-> [chunk |-> p[1].finding.cites[p[2]], lane |-> Foremost(cluster).lane]]

(* mergeCitations *)
Citations(cluster) ==
  [p \in Cited(cluster) |-> [chunk |-> p[1].finding.cites[p[2]], lane |-> p[1].lane]]

(* mergeCluster: the member of the lane declared first speaks for the cluster. *)
Row(cluster) ==
  LET f == Foremost(cluster).finding
  IN  [file |-> f.file, line |-> f.line, category |-> f.category, severity |-> Gravest(cluster),
       reportedBy |-> {m.lane : m \in cluster}, cites |-> Citations(cluster)]

(* The rows of a report, in no order: one for each cluster. *)
Merge(results) == [c \in Clusters(Members(results)) |-> Row(c)]

-----------------------------------------------------------------------------
(* Render.  received says which chunks a lane got; a change has a path, a sign *)
(* of deletion and the lines of the new side that its hunks hold.              *)
Verified(cite, received) == cite.chunk \in received[cite.lane]

Present(changes) == {c \in changes : ~c.deleted}
Lookup(changes, file) == UNION {c.lines : c \in {d \in Present(changes) : Norm(d.path) = Norm(file)}}

(* renderLocation *)
Located(file, line, changes) ==
  /\ line # NoLine /\ line > 0
  /\ file # <<>> /\ file[1] # "" /\ ".." \notin ToSet(file)
  /\ \E c \in Present(changes) : Norm(c.path) = file
  /\ line \in Lookup(changes, file)

Shown(row, received, changes) ==
  [file |-> Norm(row.file), line |-> row.line, category |-> row.category,
   severity |-> row.severity, reportedBy |-> row.reportedBy,
   located |-> Located(Norm(row.file), row.line, changes),
   cites |-> [p \in DOMAIN row.cites |->
                [chunk |-> row.cites[p].chunk, verified |-> Verified(row.cites[p], received)]]]

Verdict(rows, failed) ==
  LET severities == {rows[n].severity : n \in DOMAIN rows}
  IN  IF failed # {} THEN "Incomplete"
      ELSE IF "high" \in severities THEN "Needs changes"
      ELSE IF "medium" \in severities THEN "Comments"
      ELSE "Approved"
=============================================================================
