----------------------------- MODULE ToolBudget -----------------------------
(* What the Executor promises the lanes that share it: a tool runs when one    *)
(* place of the review's budget is taken, at once and by one lane; a lane's    *)
(* places follow one another, and each attempt has as many as a round allows;  *)
(* a call is refused for want of budget only when all of it is taken.          *)
EXTENDS Integers, FiniteSets

CONSTANTS Lane, Attempts, MaxCalls, TotalBudget

VARIABLES taken, refused  \* the places, and the lanes whose attempt met a refusal
vars == <<taken, refused>>

Place == [lane : Lane, attempt : 1..Attempts, index : 0..(MaxCalls - 1)]
Before(t, u) == t.attempt < u.attempt \/ (t.attempt = u.attempt /\ t.index < u.index)

Take ==
  /\ Cardinality(taken) < TotalBudget
  /\ \E t \in Place : /\ \A u \in taken : u.lane = t.lane => Before(u, t)
                      /\ taken' = taken \cup {t}
  /\ UNCHANGED refused

Refuse ==
  /\ Cardinality(taken) = TotalBudget
  /\ \E l \in Lane : refused' = refused \cup {l}
  /\ UNCHANGED taken

(* Another attempt begins, or the lane ends. *)
Renew == (\E l \in refused : refused' = refused \ {l}) /\ UNCHANGED taken

Init == taken = {} /\ refused = {}
Next == Take \/ Refuse \/ Renew
Spec == Init /\ [][Next]_vars
=============================================================================
