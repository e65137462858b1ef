----------------------------- MODULE LaneFanout -----------------------------
(* The fan-out of one review over its lanes (internal/lane/fanout.go,          *)
(* executeLaneWithOptions in parse.go) and the tool calls the lanes make       *)
(* through one shared Executor (internal/enrich/executor.go, round.go).        *)
EXTENDS Naturals, Sequences, FiniteSets

CONSTANTS
  N,            \* lanes are 1..N, in the order they are declared
  Enabled,      \* lanes that are switched on
  TooLarge,     \* lanes whose model budget the diff alone exceeds
  Limit,        \* MRI_LANE_CONCURRENCY
  Attempts,     \* generation attempts of a lane
  Enriched,     \* TRUE: each attempt is an enrichment round
  MaxCalls,     \* tool calls honoured in a round
  TotalBudget,  \* tool calls the Executor runs in the whole review
  MaxAsked      \* bound on the tool calls a model asks for in one turn

Lane == 1..N
ASSUME LaneAssumption ==
  /\ N \in Nat
  /\ Enabled \subseteq Lane /\ TooLarge \subseteq Lane
  /\ Limit \in Nat \ {0} /\ Attempts \in Nat
  /\ Enriched \in BOOLEAN
  /\ MaxCalls \in Nat /\ TotalBudget \in Nat /\ MaxAsked \in Nat

VARIABLES
  next,      \* the lane the spawning loop has reached; N + 1 once it waits
  fanout,    \* "running", then "error" or "collected"
  lane,      \* the lanes' goroutines
  results,   \* results[l]: the slot lane l writes
  executed,  \* the Executor's counter
  ran,       \* history: the tool calls that were run
  collected  \* the result and failure lists, once collected

vars == <<next, fanout, lane, results, executed, ran, collected>>

(* A tool call: its lane, the attempt and the place in that attempt's round. *)
Ticket == [lane : Lane, attempt : Nat, index : Nat]

NoResult == "none"
Failure == {"compose", "generate", "parse"}
Result == Failure \cup {"ok"}
Goroutine == [pc : {"unborn", "compose", "turn1", "call", "swap", "turn2", "parse", "done"},
              attempt : Nat,     \* the attempt under way
              asked : Nat,       \* tool calls of this round's first turn
              index : Nat,       \* tool calls of this round already answered
              current : Nat,     \* the counter as reserveCall loaded it
              starved : BOOLEAN] \* some call was refused for want of budget

Unborn == [pc |-> "unborn", attempt |-> 0, asked |-> 0, index |-> 0,
           current |-> 0, starved |-> FALSE]

RunType ==
  /\ next \in 1..(N + 1)
  /\ fanout \in {"running", "error", "collected"}
  /\ lane \in [Lane -> Goroutine]
  /\ results \in [Lane -> Result \cup {NoResult}]
  /\ executed \in Nat
  /\ ran \subseteq Ticket
TypeOK == RunType /\ collected \in [ok : Seq(Lane), failed : Seq(Lane)]

Running == {l \in Lane : lane[l].pc \notin {"unborn", "done"}}

-----------------------------------------------------------------------------
(* preflightLanes: an enabled lane whose model has no known budget ends it all. *)
Init ==
  /\ next = 1
  /\ fanout \in {"running"} \cup (IF Enabled = {} THEN {} ELSE {"error"})
  /\ lane = [l \in Lane |-> Unborn]
  /\ results = [l \in Lane |-> NoResult]
  /\ executed = 0
  /\ ran = {}
  /\ collected = [ok |-> <<>>, failed |-> <<>>]

Set(l, g) == lane' = [lane EXCEPT ![l] = g]
Write(l, r) == results' = [results EXCEPT ![l] = r]

(* The loop over the declared lanes.  A lane that is off is passed over; a     *)
(* diff too large for its model fails the lane without running it; group.Go    *)
(* waits for a free slot and starts the lane.                                  *)
Spawn ==
  /\ fanout = "running" /\ next \in Lane
  /\ next' = next + 1
  /\ \/ /\ next \notin Enabled
        /\ UNCHANGED <<lane, results>>
     \/ /\ next \in Enabled \cap TooLarge
        /\ Write(next, "compose")
        /\ UNCHANGED lane
     \/ /\ next \in Enabled \ TooLarge
        /\ Cardinality(Running) < Limit
        /\ Set(next, [Unborn EXCEPT !.pc = "compose"])
        /\ UNCHANGED results
  /\ UNCHANGED <<fanout, executed, ran, collected>>

(* Mutants: a lane that is off is reported; the join does not wait. *)
EnumeratedAll(S) ==
  LET upto[l \in 0..N] ==
        IF l = 0 THEN <<>> ELSE IF l \in S THEN Append(upto[l - 1], l) ELSE upto[l - 1]
  IN  upto[N]
JoinedEarly == TRUE

(* The enabled lanes that failed, or that did not, in declaration order: a     *)
(* slot nobody wrote holds no failure.                                         *)
Enumerated(S) ==
  LET upto[l \in 0..N] ==
        IF l = 0 THEN <<>> ELSE IF l \in Enabled \cap S THEN Append(upto[l - 1], l) ELSE upto[l - 1]
  IN  upto[N]
Failed == {l \in Lane : results[l] \in Failure}

(* group.Wait, then collectFanoutResult. *)
Joined == Running = {}
Collect ==
  /\ fanout = "running" /\ next = N + 1 /\ Joined
  /\ fanout' = "collected"
  /\ collected' = [ok |-> Enumerated(Lane \ Failed), failed |-> Enumerated(Failed)]
  /\ UNCHANGED <<next, lane, results, executed, ran>>

-----------------------------------------------------------------------------
(* One lane. *)
Finish(l, r) == Write(l, r) /\ Set(l, [Unborn EXCEPT !.pc = "done"])

(* The next attempt, or the failure of the lane once there is none left. *)
Retry(l, kind) ==
  IF lane[l].attempt < Attempts
  THEN /\ Set(l, [Unborn EXCEPT !.pc = "turn1", !.attempt = lane[l].attempt + 1])
       /\ UNCHANGED results
  ELSE Finish(l, kind)

(* The prompt cannot be composed, the lane's provider cannot take the turns an *)
(* enriched lane asks for, or the attempts begin.                              *)
Compose(l) ==
  /\ lane[l].pc = "compose"
  /\ \/ Finish(l, "compose")
     \/ Enriched /\ Finish(l, "generate")
     \/ Retry(l, "parse")
  /\ UNCHANGED <<next, fanout, executed, ran, collected>>

(* Generate, or the first turn of RunRound: an error, the text, or tool calls. *)
Turn1(l) ==
  /\ lane[l].pc = "turn1"
  /\ \/ Retry(l, "generate")
     \/ Set(l, [lane[l] EXCEPT !.pc = "parse"]) /\ UNCHANGED results
     \/ /\ Enriched
        /\ \E n \in 1..MaxAsked : Set(l, [lane[l] EXCEPT !.pc = "call", !.asked = n])
        /\ UNCHANGED results
  /\ UNCHANGED <<next, fanout, executed, ran, collected>>

(* Mutant: off by one. *)
SpentEarly == executed + 1 >= TotalBudget

(* The two limits of a call: the round's and, as the counter stands, the       *)
(* review's.                                                                   *)
InRound(l) == lane[l].index < MaxCalls
Spent == executed >= TotalBudget

Answered(l) == [lane[l] EXCEPT !.pc = "call", !.index = @ + 1]

(* Execute, the next call of the round: over the round's limit, oversized or   *)
(* unknown it is answered at once; otherwise reserveCall loads the counter.    *)
Call(l) ==
  /\ lane[l].pc = "call" /\ lane[l].index < lane[l].asked
  /\ \/ Set(l, Answered(l))
     \/ /\ InRound(l)
        /\ IF Spent
           THEN Set(l, [Answered(l) EXCEPT !.starved = TRUE])
           ELSE Set(l, [lane[l] EXCEPT !.pc = "swap", !.current = executed])
  /\ UNCHANGED <<next, fanout, results, executed, ran, collected>>

(* Mutants: a store without the compare; a retry without the load. *)
WinsAlways(l) == TRUE
NoReload(g) == g

(* CompareAndSwap: run the tool, or load again if another lane was first. *)
Wins(l) == executed = lane[l].current
Reload(g) == [g EXCEPT !.pc = "call", !.current = 0]
Swap(l) ==
  /\ lane[l].pc = "swap"
  /\ IF Wins(l)
     THEN /\ executed' = lane[l].current + 1
          /\ ran' = ran \cup {[lane |-> l, attempt |-> lane[l].attempt, index |-> lane[l].index]}
          /\ Set(l, [Answered(l) EXCEPT !.current = 0])
     ELSE /\ Set(l, Reload(lane[l]))
          /\ UNCHANGED <<executed, ran>>
  /\ UNCHANGED <<next, fanout, results, collected>>

(* The second turn: an error or an empty text fails the attempt. *)
Turn2(l) ==
  /\ lane[l].pc = "call" /\ lane[l].index = lane[l].asked
  /\ \/ Retry(l, "generate")
     \/ Set(l, [lane[l] EXCEPT !.pc = "parse"]) /\ UNCHANGED results
  /\ UNCHANGED <<next, fanout, executed, ran, collected>>

(* Parse, and the check that the answer is this lane's. *)
ParseAnswer(l) ==
  /\ lane[l].pc = "parse"
  /\ \/ Finish(l, "ok")
     \/ Retry(l, "parse")
  /\ UNCHANGED <<next, fanout, executed, ran, collected>>

LaneStep(l) == Compose(l) \/ Turn1(l) \/ Call(l) \/ Swap(l) \/ Turn2(l) \/ ParseAnswer(l)
Done == fanout \in {"error", "collected"} /\ UNCHANGED vars
Next == Spawn \/ Collect \/ (\E l \in Lane : LaneStep(l)) \/ Done

(* Every provider call, tool and prompt composition returns: they run under    *)
(* timeouts.  The scheduler runs each goroutine.                               *)
Fairness == WF_vars(Spawn) /\ WF_vars(Collect) /\ \A l \in Lane : WF_vars(LaneStep(l))
Spec == Init /\ [][Next]_vars /\ Fairness

-----------------------------------------------------------------------------
(* The tools all the lanes run, over all their attempts, stay within the       *)
(* budget of the review, and the counter misses none of them (reserveCall).    *)
BudgetHolds == executed <= TotalBudget /\ Cardinality(ran) = executed

(* A round is refused a call for want of budget only when the budget was spent *)
(* on tools that ran: refused, oversized and unknown calls are free (Execute). *)
RefusalIsEarned == \A l \in Lane : lane[l].starved => Cardinality(ran) = TotalBudget

(* No attempt of a lane runs more tools than a round allows, however often the *)
(* lane is retried and its calls lose the race for the counter.                *)
RoundLimit ==
  \A l \in Lane, a \in 1..Attempts :
    Cardinality({t \in ran : t.lane = l /\ t.attempt = a}) <= MaxCalls

(* What Fanout returns accounts for every enabled lane exactly once, in the    *)
(* order of the declarations, and calls a lane successful only if it delivered *)
(* an answer (Fanout, collectFanoutResult).                                    *)
Increasing(s) == \A i, k \in DOMAIN s : i < k => s[i] < s[k]
Listed(s) == {s[i] : i \in DOMAIN s}
AccountIsComplete ==
  fanout = "collected" =>
    /\ Increasing(collected.ok) /\ Increasing(collected.failed)
    /\ Listed(collected.ok) = {l \in Enabled : results[l] = "ok"}
    /\ Listed(collected.failed) = {l \in Enabled : results[l] \in Failure}
    /\ Listed(collected.ok) \cup Listed(collected.failed) = Enabled

(* A lane's slot is written once: nothing overwrites the outcome of a lane.    *)
WrittenOnce == [][\A l \in Lane : results[l] # NoResult => results'[l] = results[l]]_vars

(* The fan-out ends, whatever lanes fail and whoever wins the races.           *)
FanoutEnds == <>(fanout # "running")

-----------------------------------------------------------------------------
Budget == INSTANCE ToolBudget WITH taken <- ran, refused <- {l \in Lane : lane[l].starved}

(* The load of the counter and the compare-and-swap after it are, to the lanes *)
(* that race for it, one taking of a place: however they interleave, no more   *)
(* tools run than the budget has, each lane's in order and within its round,   *)
(* and no call is refused while some of the budget is left (reserveCall).      *)
BudgetSpec == Budget!Spec

-----------------------------------------------------------------------------
(* The inductive invariant behind these properties, by parts. *)
BudgetInv == executed <= TotalBudget /\ IsFiniteSet(ran) /\ Cardinality(ran) = executed

(* A tool that ran belongs to an earlier attempt of its lane or stands before  *)
(* the call its lane is at.                                                    *)
Past(t, g) ==
  g.pc = "done" \/ t.attempt < g.attempt \/ (t.attempt = g.attempt /\ t.index < g.index)
TicketInv == \A t \in ran : t.index < MaxCalls /\ Past(t, lane[t.lane])

GoroutineInv(l) ==
  /\ lane[l].pc = "swap" => InRound(l) /\ lane[l].current < TotalBudget
  /\ lane[l].starved => executed = TotalBudget
  /\ lane[l].pc \in {"compose", "turn1"} => lane[l].index = 0
  /\ lane[l].pc \notin {"unborn", "compose", "done"} => lane[l].attempt \in 1..Attempts
  /\ lane[l].pc \notin {"unborn", "done"} => results[l] = NoResult

SpawnInv == \A l \in Lane : l >= next => lane[l] = Unborn /\ results[l] = NoResult

RunInv == RunType /\ BudgetInv /\ TicketInv /\ SpawnInv /\ \A l \in Lane : GoroutineInv(l)

(* A lane the loop has passed has an outcome unless it is off or running, and  *)
(* once the fan-out is collected nothing changes any more.                     *)
Settled(l) ==
  IF l \in Enabled THEN l < next /\ lane[l].pc \in {"unborn", "done"} => results[l] # NoResult
  ELSE lane[l] = Unborn /\ results[l] = NoResult
AccountInv ==
  /\ \A l \in Lane : Settled(l)
  /\ fanout = "collected" =>
       /\ next = N + 1 /\ Running = {}
       /\ collected = [ok |-> Enumerated(Lane \ Failed), failed |-> Enumerated(Failed)]

IInv == RunInv /\ AccountInv /\ TypeOK
=============================================================================
