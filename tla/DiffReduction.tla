--------------------------- MODULE DiffReduction ---------------------------
(* How the diff of a run shrinks to the model's budget, whole files at a time  *)
(* (internal/diffbudget/diffbudget.go, internal/diff), what of it is disclosed *)
(* (internal/diff/disclosure), and whether the run may call the merge request  *)
(* reviewed (reduceAndValidate, fetchUpdateDiff and unseenPaths in             *)
(* internal/reviewer).                                                         *)
(*                                                                             *)
(* Files are numbered in GitLab's order.  A size stands for a number of tokens *)
(* and for one of bytes: each limit is a threshold on one text.                *)
EXTENDS Naturals, FiniteSetsExt

CONSTANTS
  N,          \* files in the merge request, or between two of its commits
  FileType,   \* the kinds of file the merge request may contain
  Limit,      \* budgets a model may leave for the diff
  NoLimit,    \* the budget of a model without a registered limit
  Header,     \* size of a file's header in a rendered diff
  GitHeader,  \* the same in the patch of the local checkout
  Frame,      \* size of the trailer around its lines
  Line        \* size of a line of the trailer

File == 1..N
Kind == {"edited", "added", "moved"}       \* moved: renamed, deleted, mode changed
Name == {"plain", "generated", "wasGenerated"} \* which of the two paths matches

ASSUME SizeAssumption ==
  /\ N \in Nat /\ Header \in Nat /\ GitHeader \in Nat /\ Frame \in Nat /\ Line \in Nat
  /\ Limit \subseteq Nat /\ NoLimit \notin Nat

(* size is what really changed in the file; GitLab withholds it beyond its own *)
(* limits, and flags the file then (too_large, collapsed).  A file that is not *)
(* moved has one path, and one that is edited has changed.                     *)
ASSUME FileAssumption ==
  /\ FileType \subseteq [kind : Kind, size : Nat, withheld : BOOLEAN, name : Name]
  /\ \A t \in FileType : /\ t.kind = "edited" \/ t.withheld => t.size > 0
                         /\ t.name = "wasGenerated" => t.kind = "moved"

VARIABLES
  file,      \* the changed files
  origin,    \* where the diff comes from: checkout, API, or compare for an update
  limit,     \* the budget the effective model leaves for the diff
  pc,        \* how far the run is
  at,        \* the first file the sweep of non-reviewable files has not seen
  fate,      \* what became of each file
  measured,  \* totalTokens, totalBytes
  text,      \* the diff the model gets
  footer,    \* the files the posted note lists as dropped or unavailable
  dirty      \* the run may not record a state

vars == <<file, origin, limit, pc, at, fate, measured, text, footer, dirty>>
data == <<file, origin, limit>>

Origin == {"checkout", "api", "compare"}
Fate == {"kept", "unavailable", "non-reviewable", "size budget"}
Text == [form : {"patch", "rendered"}, sections : SUBSET File, content : SUBSET File,
         trailer : SUBSET File]
Nothing == [form |-> "rendered", sections |-> {}, content |-> {}, trailer |-> {}]

TypeOK ==
  /\ file \in [File -> FileType] /\ origin \in Origin /\ limit \in Limit \cup {NoLimit}
  /\ pc \in {"fetched", "reducing", "sent", "assessed", "refused", "fallback"}
  /\ at \in 1..(N + 1)
  /\ fate \in [File -> Fate]
  /\ text \in Text
  /\ footer \subseteq File
  /\ dirty \in BOOLEAN

-----------------------------------------------------------------------------
(* Change.Diff, Change.Truncated and the two classifications by path: Reduce   *)
(* matches both paths of a renamed file, IsNonReviewable the new one.          *)
Diff(f) == IF file[f].withheld THEN 0 ELSE file[f].size
Truncated(f) == Diff(f) = 0 /\ file[f].kind # "moved"
IsEmptyNew(f) == file[f].kind = "added" /\ file[f].size = 0
IsNonReviewable(f) == file[f].name = "generated"
MatchesAnyPath(f) == file[f].name # "plain"
HasContent(f) == file[f].size > 0

(* SplitTruncated *)
Reviewable == {f \in File : ~Truncated(f)}
Unavailable == File \ Reviewable

Fated(what) == {f \in File : fate[f] = what}
Kept == Fated("kept")
Dropped == Fated("non-reviewable") \cup Fated("size budget")

(* ConvertChangesToDiff and the trailer; the patch of the checkout holds every *)
(* file, whatever GitLab withholds.                                            *)
Trailer(fs) == IF fs = {} THEN 0 ELSE Frame + Line * Cardinality(fs)
Rendering(fs, out) ==
  [form |-> "rendered", sections |-> fs, content |-> {f \in fs : Diff(f) > 0}, trailer |-> out]
Patch == [form |-> "patch", sections |-> File, content |-> {f \in File : HasContent(f)}, trailer |-> {}]
Fetched == IF origin = "checkout" THEN Patch ELSE Rendering(Reviewable, Unavailable)

SizeOf(t) ==
  IF t.form = "patch" THEN SumFunction([f \in t.sections |-> GitHeader + file[f].size])
  ELSE SumFunction([f \in t.sections |-> Header + Diff(f)]) + Trailer(t.trailer)
Bodies == SumFunction([f \in Reviewable |-> Diff(f)])

Fits(size) == limit # NoLimit => size <= limit

(* Mutants: the files GitLab withheld are left out of the measured trailer, or *)
(* of the one that is sent.                                                    *)
ArtifactBare(kept, dropped) == Rendering(kept, dropped)
DisclosedDropped(dropped) == dropped

(* The artifact Reduce measures through its Render option. *)
Artifact(kept, dropped) == Rendering(kept, dropped \cup Unavailable)

Disclosed(dropped) == dropped \cup Unavailable

-----------------------------------------------------------------------------
(* The run has fetched a diff and lists the changed files. *)
Init ==
  /\ file \in [File -> FileType] /\ origin \in Origin /\ limit \in Limit \cup {NoLimit}
  /\ pc = "fetched" /\ at = 1 /\ fate = [f \in File |-> "kept"] /\ measured = 0
  /\ text = Nothing /\ footer = {} /\ dirty = FALSE

(* A file list that fails leaves the diff as it is in the single mode and ends *)
(* the multi-lane one.                                                         *)
ListFails ==
  /\ pc = "fetched" /\ origin # "compare"
  /\ \/ pc' = "sent" /\ text' = Fetched /\ dirty' = TRUE
     \/ pc' = "refused" /\ UNCHANGED <<text, dirty>>
  /\ UNCHANGED <<data, at, fate, measured, footer>>

(* fetchUpdateDiff does not trust a comparison that lacks content. *)
Distrust ==
  /\ pc = "fetched" /\ origin = "compare"
  /\ \E f \in File : file[f].withheld \/ Truncated(f)
  /\ pc' = "fallback"
  /\ UNCHANGED <<data, at, fate, measured, text, footer, dirty>>

Trusted == origin = "compare" => \A f \in File : ~(file[f].withheld \/ Truncated(f))

(* Reduce starts from the larger of two measures: the files' own diffs, and    *)
(* the diff as it was fetched.                                                 *)
Begin ==
  /\ pc = "fetched" /\ Trusted
  /\ pc' = "reducing"
  /\ fate' = [f \in File |-> IF f \in Unavailable THEN "unavailable" ELSE "kept"]
  /\ measured' = Max({Bodies, SizeOf(Fetched)})
  /\ UNCHANGED <<data, at, text, footer, dirty>>

(* File f leaves the diff, and what is left is rendered and measured. *)
Drop(f, reason) ==
  /\ fate' = [fate EXCEPT ![f] = reason]
  /\ measured' = SizeOf(Artifact(Kept \ {f}, Dropped \cup {f}))

(* Mutant: the sweep steps over the file after one it dropped. *)
AfterDropNext(f) == f + 2

(* Where the sweep goes on after a file it dropped, and after one it kept. *)
AfterDrop(f) == f + 1
AfterKeep(f) == f + 1

Sweep ==
  /\ pc = "reducing" /\ at <= N /\ ~Fits(measured)
  /\ IF at \in Kept /\ MatchesAnyPath(at)
     THEN Drop(at, "non-reviewable") /\ at' = AfterDrop(at)
     ELSE at' = AfterKeep(at) /\ UNCHANGED <<fate, measured>>
  /\ UNCHANGED <<data, pc, text, footer, dirty>>

(* The first of the files with the longest diff. *)
Largest(f) == \A g \in Kept : Diff(g) < Diff(f) \/ (Diff(g) = Diff(f) /\ f <= g)

DropLargest ==
  /\ pc = "reducing" /\ at = N + 1 /\ ~Fits(measured)
  /\ \E f \in Kept : Largest(f) /\ Drop(f, "size budget")
  /\ UNCHANGED <<data, pc, at, text, footer, dirty>>

(* Even the trailer alone is too large. *)
CannotFit ==
  /\ pc = "reducing" /\ at = N + 1 /\ ~Fits(measured) /\ Kept = {}
  /\ pc' = IF origin = "compare" THEN "fallback" ELSE "refused"
  /\ UNCHANGED <<data, at, fate, measured, text, footer, dirty>>

(* reduceAndValidate after Reduce.  A diff that lost a file is rebuilt with a  *)
(* trailer; otherwise the fetched one stands, and only the files that have no  *)
(* section in it are unavailable.  ValidateDiff refuses an empty diff, and     *)
(* others by their size, number and kinds of files.  An update that lost a     *)
(* file for its size becomes a full run.                                       *)
Send ==
  /\ pc = "reducing" /\ Fits(measured)
  /\ LET t == IF Dropped = {} THEN Fetched ELSE Rendering(Kept, Disclosed(Dropped))
         out == IF Dropped = {} THEN Unavailable \ t.sections ELSE Dropped \cup Unavailable
     IN  \E valid \in IF t = Nothing THEN {FALSE} ELSE BOOLEAN :
           /\ pc' = CASE origin # "compare" -> IF valid THEN "sent" ELSE "refused"
                      [] ~valid \/ Fated("size budget") # {} -> "fallback"
                      [] OTHER -> "sent"
           /\ IF pc' = "sent" THEN text' = t /\ footer' = out ELSE UNCHANGED <<text, footer>>
  /\ UNCHANGED <<data, at, fate, measured, dirty>>

(* Mutant: files that GitLab withheld do not count. *)
UnseenDropped == Fated("size budget")

(* unseenPaths: drops for size, and files GitLab withheld whose content is not *)
(* in the diff that was sent.                                                  *)
Unseen ==
  Fated("size budget") \cup
  {f \in File : /\ ~IsEmptyNew(f) /\ (file[f].withheld \/ Truncated(f))
                /\ ~IsNonReviewable(f) /\ f \notin text.content}

(* assessRun; without a file list the run is dirty already, and an update has  *)
(* been looked at by fetchUpdateDiff.                                          *)
Assess ==
  /\ pc = "sent"
  /\ pc' = "assessed"
  /\ dirty' = (dirty \/ (origin # "compare" /\ Unseen # {}))
  /\ UNCHANGED <<data, at, fate, measured, text, footer>>

Ended == pc \in {"assessed", "refused", "fallback"} /\ UNCHANGED vars

Next == ListFails \/ Distrust \/ Begin \/ Sweep \/ DropLargest \/ CannotFit \/ Send \/ Assess \/ Ended

Spec == Init /\ [][Next]_vars

-----------------------------------------------------------------------------
(* A run that may record its state has shown the model every change that is    *)
(* not of a generated file, wherever its diff came from, whatever GitLab       *)
(* withheld and the budget pushed out (unseenPaths, fetchUpdateDiff).          *)
CleanMeansSeen ==
  pc = "assessed" /\ ~dirty =>
    \A f \in File : HasContent(f) =>
      \/ f \in text.content
      \/ IsNonReviewable(f) \/ fate[f] = "non-reviewable"

(* The diff and the note disclose exactly the files the model got no section   *)
(* of: none is left out in silence, and none that was reviewed is denied       *)
(* (Trailer, absentFromDiff).                                                  *)
DisclosedExactly ==
  pc = "sent" /\ ~dirty => text.trailer = File \ text.sections /\ footer = text.trailer

(* The diff the model gets in a full run, with its trailer, is within the      *)
(* budget, although it is put together again after Reduce measured it.  (To an *)
(* update the paths of the other files are added unmeasured.)                  *)
TextFits == pc = "sent" /\ ~dirty /\ origin # "compare" => Fits(SizeOf(text))

(* A file is given up for its size only when no non-reviewable file is left    *)
(* and, but for the first to go, the diff with it really did not fit (Reduce). *)
DropsAreEarned ==
  [][\A f \in File : fate'[f] = "size budget" /\ f \in Kept =>
       /\ \A g \in Kept : ~MatchesAnyPath(g)
       /\ Dropped # {} => ~Fits(SizeOf(Rendering(Kept, File \ Kept)))]_vars

(* What is dropped as non-reviewable is what IsNonReviewable calls so: by its  *)
(* comment it reports "the same rule Reduce applies".                          *)
OneRule == \A f \in Fated("non-reviewable") : IsNonReviewable(f)
-----------------------------------------------------------------------------
(* The inductive invariant, by parts: what fate means once Reduce has begun,   *)
(* that the sweep leaves no non-reviewable file behind it, that the measure is *)
(* of the fetched diff at first and after a drop of what is left, and how the  *)
(* diff that was sent came about.                                              *)
FateInv ==
  /\ \A f \in Fated("non-reviewable") : MatchesAnyPath(f)
  /\ pc = "reducing" \/ (pc = "sent" /\ ~dirty) =>
       /\ Fated("unavailable") = Unavailable
       /\ Trusted
  /\ pc = "fetched" => at = 1 /\ ~dirty

SweepInv == pc = "reducing" => \A f \in Kept : f < at => ~MatchesAnyPath(f)

MeasureInv ==
  pc = "reducing" => measured = IF Dropped = {} THEN Max({Bodies, SizeOf(Fetched)})
                                ELSE SizeOf(Rendering(Kept, File \ Kept))

SentInv ==
  pc = "sent" /\ ~dirty =>
    /\ text = IF Dropped = {} THEN Fetched ELSE Rendering(Kept, File \ Kept)
    /\ footer = File \ text.sections
    /\ origin = "compare" => Fated("size budget") = {}

IInv ==
  TypeOK /\ FateInv /\ SweepInv /\ MeasureInv /\ SentInv /\ CleanMeansSeen /\ TextFits
=============================================================================
