----------------------------- MODULE LaneProofs -----------------------------
(* Proofs about the lanes' fan-out and the tool budget they share, for any     *)
(* number of lanes, attempts, calls and any budget; and, from MultiReview,     *)
(* about what a review posts, for any lanes, answers, chunks and changes.      *)
EXTENDS LaneFanout, MultiReview, NaturalLemmas, SequenceTheorems, TLAPS

USE LaneAssumption

(* The slot and the goroutine of one lane change, and no tool is run. *)
LEMMA LaneMove ==
  ASSUME RunInv, NEW l \in Lane, lane[l].pc \notin {"unborn", "done"},
         NEW g \in Goroutine, g.pc # "unborn", lane' = [lane EXCEPT ![l] = g],
         UNCHANGED <<next, fanout, executed, ran>>,
         results' \in [Lane -> Result \cup {NoResult}],
         \A k \in Lane \ {l} : results'[k] = results[k],
         g.pc # "done" => results'[l] = results[l],
         \A t \in ran : t.lane = l /\ Past(t, lane[l]) => Past(t, g),
         g.pc = "swap" => g.index < MaxCalls /\ g.current < TotalBudget,
         g.starved => executed = TotalBudget,
         g.pc \in {"compose", "turn1"} => g.index = 0,
         g.pc \notin {"compose", "done"} => g.attempt \in 1..Attempts
  PROVE  RunInv'
<1> DEFINE other == Lane \ {l}
<1>1. RunType'
  BY DEF RunInv, RunType
<1>2. lane'[l] = g /\ \A k \in other : lane'[k] = lane[k]
  BY DEF RunInv, RunType
<1>3. BudgetInv'
  BY DEF RunInv, BudgetInv
<1>4. TicketInv'
  <2> SUFFICES ASSUME NEW t \in ran PROVE t.index < MaxCalls /\ Past(t, lane'[t.lane])
    BY DEF TicketInv
  <2>1. t.index < MaxCalls /\ Past(t, lane[t.lane]) /\ t.lane \in Lane
    BY DEF RunInv, TicketInv, RunType, Ticket
  <2>2. CASE t.lane = l
    BY <2>1, <2>2, <1>2
  <2>3. CASE t.lane # l
    BY <2>1, <2>3, <1>2
  <2> QED BY <2>2, <2>3
<1>5. SpawnInv'
  <2>1. l < next
    BY DEF RunInv, SpawnInv, RunType, Lane, Unborn
  <2> QED BY <2>1, <1>2 DEF RunInv, SpawnInv, RunType, Lane
<1>6. ASSUME NEW k \in Lane PROVE GoroutineInv(k)'
  <2>1. CASE k = l
    BY <2>1, <1>2 DEF RunInv, GoroutineInv, InRound
  <2>2. CASE k # l
    BY <2>2, <1>2 DEF RunInv, GoroutineInv, InRound
  <2> QED BY <2>1, <2>2
<1> QED BY <1>1, <1>3, <1>4, <1>5, <1>6 DEF RunInv

(* A lane that ends. *)
LEMMA FinishInvariant ==
  ASSUME RunInv, NEW l \in Lane, lane[l].pc \notin {"unborn", "done"}, NEW r \in Result,
         Finish(l, r), UNCHANGED <<next, fanout, executed, ran>>
  PROVE  RunInv'
<1> DEFINE g == [Unborn EXCEPT !.pc = "done"]
<1>1. g \in Goroutine /\ g.pc = "done" /\ ~g.starved
  BY DEF Unborn, Goroutine
<1>2. lane' = [lane EXCEPT ![l] = g] /\ results' = [results EXCEPT ![l] = r]
  BY DEF Finish, Set, Write
<1>3. \A t \in ran : Past(t, g)
  BY <1>1 DEF Past
<1>4. /\ results' \in [Lane -> Result \cup {NoResult}]
      /\ \A k \in Lane \ {l} : results'[k] = results[k]
  BY <1>2 DEF RunInv, RunType
<1> HIDE DEF g
<1> QED BY <1>1, <1>2, <1>3, <1>4, LaneMove

(* A lane that tries again, or fails. *)
LEMMA RetryInvariant ==
  ASSUME RunInv, NEW l \in Lane, lane[l].pc \notin {"unborn", "done"}, NEW kind \in Failure,
         Retry(l, kind), UNCHANGED <<next, fanout, executed, ran>>
  PROVE  RunInv'
<1>1. CASE lane[l].attempt < Attempts
  <2> DEFINE g == [Unborn EXCEPT !.pc = "turn1", !.attempt = lane[l].attempt + 1]
  <2>1. lane[l] \in Goroutine
    BY DEF RunInv, RunType
  <2>0. lane[l].attempt + 1 \in Nat /\ lane[l].attempt + 1 \in 1..Attempts
    BY <1>1, <2>1 DEF Goroutine
  <2>2. g \in Goroutine /\ g.pc = "turn1" /\ ~g.starved /\ g.index = 0 /\ g.attempt = lane[l].attempt + 1
    BY <2>0 DEF Unborn, Goroutine
  <2>3. lane' = [lane EXCEPT ![l] = g] /\ results' = results
    BY <1>1 DEF Retry, Set
  <2>4. \A t \in ran : t.lane = l /\ Past(t, lane[l]) => Past(t, g)
    <3> HIDE DEF g
    <3> QED BY <2>1, <2>2 DEF Past, RunInv, RunType, Ticket, Goroutine
  <2>5. results' \in [Lane -> Result \cup {NoResult}]
    BY <2>3 DEF RunInv, RunType
  <2>6. g.attempt \in 1..Attempts
    BY <2>0, <2>2
  <2> HIDE DEF g
  <2> QED BY <2>2, <2>3, <2>4, <2>5, <2>6, LaneMove
<1>2. CASE ~(lane[l].attempt < Attempts)
  <2>1. Finish(l, kind) /\ kind \in Result
    BY <1>2 DEF Retry, Result
  <2> QED BY <2>1, FinishInvariant
<1> QED BY <1>1, <1>2

(* A lane that goes on within its attempt, at the same call or the next one. *)
LEMMA AdvanceInvariant ==
  ASSUME RunInv, NEW l \in Lane, lane[l].pc \notin {"unborn", "compose", "done"},
         NEW g \in Goroutine, g.pc \in {"call", "swap", "parse"}, Set(l, g),
         g.attempt = lane[l].attempt, lane[l].index <= g.index,
         g.pc = "swap" => g.index < MaxCalls /\ g.current < TotalBudget,
         g.starved => executed = TotalBudget,
         UNCHANGED <<next, fanout, results, executed, ran>>
  PROVE  RunInv'
<1>1. lane[l] \in Goroutine /\ results' \in [Lane -> Result \cup {NoResult}]
  BY DEF RunInv, RunType
<1>2. \A t \in ran : t.lane = l /\ Past(t, lane[l]) => Past(t, g)
  BY <1>1 DEF Past, RunInv, RunType, Ticket, Goroutine
<1>3. g.attempt \in 1..Attempts
  BY DEF RunInv, GoroutineInv
<1> QED BY <1>1, <1>2, <1>3, LaneMove DEF Set

(* Before the first lane is started.                                          *)
LEMMA InitInvariant == Init => RunInv
<1> SUFFICES ASSUME Init PROVE RunInv
  OBVIOUS
<1>1. Unborn \in Goroutine /\ Unborn.pc = "unborn" /\ ~Unborn.starved
  BY DEF Unborn, Goroutine
<1>2. RunType
  BY <1>1 DEF Init, RunType, Lane, Result, NoResult
<1>3. BudgetInv
  BY FS_EmptySet DEF Init, BudgetInv
<1> QED BY <1>1, <1>2, <1>3 DEF Init, RunInv, TicketInv, SpawnInv, GoroutineInv

(* The loop of Fanout touches only the lane it has reached.                   *)
LEMMA SpawnInvariant == RunInv /\ Spawn => RunInv'
<1> SUFFICES ASSUME RunInv, Spawn PROVE RunInv'
  OBVIOUS
<1> DEFINE l == next
<1> DEFINE g == [Unborn EXCEPT !.pc = "compose"]
<1>1. l \in Lane /\ next' = l + 1 /\ l \in Nat /\ next' \in 1..(N + 1)
  BY DEF Spawn, Lane
<1>2. lane[l] = Unborn /\ results[l] = NoResult
  BY <1>1 DEF RunInv, SpawnInv, Lane
<1>0. Unborn.pc = "unborn" /\ ~Unborn.starved
  BY DEF Unborn
<1>3. \A t \in ran : t.lane \in Lane /\ Past(t, lane[t.lane])
  BY DEF RunInv, TicketInv, RunType, Ticket
<1>4. BudgetInv'
  BY DEF RunInv, BudgetInv, Spawn
<1>5. CASE lane' = lane /\ \E r \in Result \cup {NoResult} : results' = [results EXCEPT ![l] = r]
  <2> PICK r \in Result \cup {NoResult} : results' = [results EXCEPT ![l] = r]
    BY <1>5
  <2>1. RunType'
    BY <1>1, <1>5 DEF RunInv, RunType, Spawn
  <2>2. TicketInv'
    BY <1>5 DEF RunInv, TicketInv, Spawn
  <2>3. SpawnInv'
    BY <1>1, <1>5 DEF RunInv, SpawnInv, RunType, Lane
  <2>4. ASSUME NEW k \in Lane PROVE GoroutineInv(k)'
    BY <1>0, <1>1, <1>2, <1>5 DEF RunInv, GoroutineInv, RunType, Spawn, InRound
  <2> QED BY <1>4, <2>1, <2>2, <2>3, <2>4 DEF RunInv
<1>6. CASE lane' = [lane EXCEPT ![l] = g] /\ results' = results
  <2>1. g \in Goroutine /\ g.pc = "compose" /\ ~g.starved /\ g.index = 0 /\ g.attempt = 0
    BY DEF Unborn, Goroutine
  <2> HIDE DEF g
  <2>2. RunType'
    BY <1>1, <1>6, <2>1 DEF RunInv, RunType, Spawn
  <2>3. lane'[l] = g /\ \A k \in Lane \ {l} : lane'[k] = lane[k]
    BY <1>1, <1>6 DEF RunInv, RunType
  <2>4. \A t \in ran : t.lane # l
    <3>1. \A t \in ran : ~Past(t, Unborn)
      BY DEF Past, Unborn, RunInv, RunType, Ticket
    <3> QED BY <1>2, <1>3, <3>1
  <2>5. TicketInv'
    BY <1>3, <2>3, <2>4 DEF RunInv, TicketInv, Spawn
  <2>6. SpawnInv'
    BY <1>1, <1>6, <2>3 DEF RunInv, SpawnInv, RunType, Lane
  <2>7. ASSUME NEW k \in Lane PROVE GoroutineInv(k)'
    BY <1>0, <1>1, <1>2, <1>6, <2>1, <2>3 DEF RunInv, GoroutineInv, Spawn, InRound
  <2> QED BY <1>4, <2>2, <2>5, <2>6, <2>7 DEF RunInv
<1>7. (results' = results) => results' = [results EXCEPT ![l] = NoResult]
  BY <1>2 DEF RunInv, RunType
<1> QED BY <1>5, <1>6, <1>7 DEF Spawn, Write, Set, Result, Failure

(* collectFanoutResult only reads.                                            *)
LEMMA CollectInvariant == RunInv /\ Collect => RunInv'
BY DEF Collect, RunInv, RunType, BudgetInv, TicketInv, SpawnInv, GoroutineInv, InRound

(* Compose, and the check of the provider.                                    *)
LEMMA ComposeInvariant == ASSUME RunInv, NEW l \in Lane, Compose(l) PROVE RunInv'
<1>1. lane[l].pc \notin {"unborn", "done"} /\ UNCHANGED <<next, fanout, executed, ran>>
  BY DEF Compose
<1>2. {"compose", "generate"} \subseteq Result /\ "parse" \in Failure
  BY DEF Result, Failure
<1> QED BY <1>1, <1>2, FinishInvariant, RetryInvariant DEF Compose

(* A lane that goes on to parse the answer. *)
LEMMA AnswerInvariant ==
  ASSUME RunInv, NEW l \in Lane, lane[l].pc \notin {"unborn", "compose", "done"},
         Set(l, [lane[l] EXCEPT !.pc = "parse"]),
         UNCHANGED <<next, fanout, results, executed, ran>>
  PROVE  RunInv'
<1> DEFINE g == [lane[l] EXCEPT !.pc = "parse"]
<1>1. lane[l].starved => executed = TotalBudget
  BY DEF RunInv, GoroutineInv
<1>2. lane[l] \in Goroutine /\ lane[l].index \in Nat
  BY DEF RunInv, RunType, Goroutine
<1>3. /\ g \in Goroutine /\ g.pc = "parse" /\ g.attempt = lane[l].attempt
      /\ g.index = lane[l].index /\ g.starved = lane[l].starved
  BY <1>2 DEF Goroutine
<1>4. Set(l, g) /\ lane[l].index <= g.index
  BY <1>2, <1>3
<1> HIDE DEF g
<1> QED BY <1>1, <1>2, <1>3, <1>4, AdvanceInvariant

(* The first turn of RunRound.                                                *)
LEMMA Turn1Invariant == ASSUME RunInv, NEW l \in Lane, Turn1(l) PROVE RunInv'
<1>1. lane[l].pc = "turn1" /\ UNCHANGED <<next, fanout, executed, ran>> /\ "generate" \in Failure
  BY DEF Turn1, Failure
<1>2. CASE Retry(l, "generate")
  BY <1>1, <1>2, RetryInvariant
<1>3. CASE Set(l, [lane[l] EXCEPT !.pc = "parse"]) /\ UNCHANGED results
  BY <1>1, <1>3, AnswerInvariant
<1>4. ASSUME NEW n \in 1..MaxAsked, Set(l, [lane[l] EXCEPT !.pc = "call", !.asked = n]),
             UNCHANGED results
      PROVE  RunInv'
  <2> DEFINE g == [lane[l] EXCEPT !.pc = "call", !.asked = n]
  <2>1. lane[l] \in Goroutine /\ lane[l].index \in Nat /\ n \in Nat
    BY DEF RunInv, RunType, Goroutine
  <2>2. /\ g \in Goroutine /\ g.pc = "call" /\ g.attempt = lane[l].attempt
        /\ g.index = lane[l].index /\ g.starved = lane[l].starved
    BY <2>1 DEF Goroutine
  <2>3. lane[l].starved => executed = TotalBudget
    BY DEF RunInv, GoroutineInv
  <2>4. Set(l, g) /\ lane[l].index <= g.index
    BY <1>4, <2>1, <2>2
  <2> HIDE DEF g
  <2> QED BY <1>1, <1>4, <2>2, <2>3, <2>4, AdvanceInvariant
<1> QED BY <1>2, <1>3, <1>4 DEF Turn1

(* What a call that was answered leaves of its goroutine. *)
LEMMA AnsweredFields ==
  ASSUME RunInv, NEW l \in Lane
  PROVE  /\ Answered(l) \in Goroutine /\ Answered(l).pc = "call"
         /\ Answered(l).index = lane[l].index + 1 /\ Answered(l).attempt = lane[l].attempt
         /\ Answered(l).starved = lane[l].starved
         /\ lane[l] \in Goroutine /\ lane[l].index \in Nat /\ lane[l].attempt \in Nat
<1>1. lane[l] \in Goroutine /\ lane[l].index \in Nat /\ lane[l].attempt \in Nat
  BY DEF RunInv, RunType, Goroutine
<1>2. lane[l].index + 1 \in Nat
  BY <1>1
<1> QED BY <1>1, <1>2 DEF Answered, Goroutine

(* Execute up to the load of the counter in reserveCall.                      *)
LEMMA CallInvariant == ASSUME RunInv, NEW l \in Lane, Call(l) PROVE RunInv'
<1>1. /\ lane[l].pc = "call" /\ UNCHANGED <<next, fanout, results, executed, ran>>
      /\ lane[l].starved => executed = TotalBudget
  BY DEF Call, RunInv, GoroutineInv
<1>2. CASE Set(l, Answered(l))
  BY <1>1, <1>2, AnsweredFields, AdvanceInvariant
<1>3. CASE Spent /\ Set(l, [Answered(l) EXCEPT !.starved = TRUE])
  <2> DEFINE g == [Answered(l) EXCEPT !.starved = TRUE]
  <2>1. /\ g \in Goroutine /\ g.pc = "call" /\ g.attempt = lane[l].attempt
        /\ g.index = lane[l].index + 1
    BY AnsweredFields DEF Goroutine
  <2>2. executed = TotalBudget
    BY <1>3 DEF Spent, RunInv, BudgetInv, RunType
  <2>3. Set(l, g) /\ lane[l].index <= g.index
    BY <1>3, <2>1, AnsweredFields
  <2> HIDE DEF g
  <2> QED BY <1>1, <2>1, <2>2, <2>3, AdvanceInvariant
<1>4. CASE InRound(l) /\ ~Spent /\ Set(l, [lane[l] EXCEPT !.pc = "swap", !.current = executed])
  <2> DEFINE g == [lane[l] EXCEPT !.pc = "swap", !.current = executed]
  <2>1. executed \in Nat /\ lane[l] \in Goroutine /\ lane[l].index \in Nat
    BY AnsweredFields DEF RunInv, RunType
  <2>2. /\ g \in Goroutine /\ g.pc = "swap" /\ g.attempt = lane[l].attempt
        /\ g.index = lane[l].index /\ g.current = executed /\ g.starved = lane[l].starved
    BY <2>1 DEF Goroutine
  <2>3. g.index < MaxCalls /\ g.current < TotalBudget
    BY <1>4, <2>1, <2>2 DEF InRound, Spent
  <2>4. Set(l, g) /\ lane[l].index <= g.index
    BY <1>4, <2>1, <2>2
  <2> HIDE DEF g
  <2> QED BY <1>1, <2>2, <2>3, <2>4, AdvanceInvariant
<1> QED BY <1>2, <1>3, <1>4 DEF Call

(* The second turn of RunRound.                                               *)
LEMMA Turn2Invariant == ASSUME RunInv, NEW l \in Lane, Turn2(l) PROVE RunInv'
<1>1. lane[l].pc = "call" /\ UNCHANGED <<next, fanout, executed, ran>> /\ "generate" \in Failure
  BY DEF Turn2, Failure
<1> QED BY <1>1, RetryInvariant, AnswerInvariant DEF Turn2

(* Parse, and the check of the lane's id.                                     *)
LEMMA ParseInvariant == ASSUME RunInv, NEW l \in Lane, ParseAnswer(l) PROVE RunInv'
<1>1. /\ lane[l].pc = "parse" /\ UNCHANGED <<next, fanout, executed, ran>>
      /\ "ok" \in Result /\ "parse" \in Failure
  BY DEF ParseAnswer, Result, Failure
<1> QED BY <1>1, FinishInvariant, RetryInvariant DEF ParseAnswer

(* The one step that runs a tool.  The call is a new one, because those that   *)
(* ran stand before it, so the count of the calls grows with the counter.      *)
LEMMA SwapInvariant == ASSUME RunInv, NEW l \in Lane, Swap(l) PROVE RunInv'
<1>1. /\ lane[l].pc = "swap" /\ UNCHANGED <<next, fanout, results>>
      /\ lane[l].index < MaxCalls /\ lane[l].current < TotalBudget
      /\ lane[l].starved => executed = TotalBudget
      /\ results[l] = NoResult /\ lane[l].attempt \in 1..Attempts
  BY DEF Swap, RunInv, GoroutineInv, InRound
<1>2. CASE Wins(l)
  <2> DEFINE t == [lane |-> l, attempt |-> lane[l].attempt, index |-> lane[l].index]
  <2> DEFINE g == [Answered(l) EXCEPT !.current = 0]
  <2>1. executed' = executed + 1 /\ ran' = ran \cup {t} /\ lane' = [lane EXCEPT ![l] = g]
    BY <1>2 DEF Swap, Set, Wins
  <2>2. t \in Ticket /\ t.lane = l /\ t.attempt = lane[l].attempt /\ t.index = lane[l].index
    BY AnsweredFields DEF Ticket
  <2>3. /\ g \in Goroutine /\ g.pc = "call" /\ g.attempt = lane[l].attempt
        /\ g.index = lane[l].index + 1 /\ g.starved = lane[l].starved
    BY AnsweredFields DEF Goroutine
  <2>4. executed < TotalBudget /\ executed \in Nat /\ ~lane[l].starved
    BY <1>1, <1>2 DEF Wins, RunInv, RunType
  <2> HIDE DEF t, g
  <2>5. t \notin ran
    BY <1>1, <2>2, AnsweredFields DEF RunInv, TicketInv, Past
  <2>6. lane'[l] = g /\ \A k \in Lane \ {l} : lane'[k] = lane[k]
    BY <2>1 DEF RunInv, RunType
  <2>7. RunType'
    BY <1>1, <2>1, <2>2, <2>3, <2>4 DEF RunInv, RunType
  <2>8. BudgetInv'
    BY <2>1, <2>4, <2>5, FS_AddElement DEF RunInv, BudgetInv
  <2>9. TicketInv'
    <3>1. ASSUME NEW u \in ran PROVE u.index < MaxCalls /\ Past(u, lane'[u.lane])
      <4>1. u.index < MaxCalls /\ Past(u, lane[u.lane]) /\ u.lane \in Lane
        BY DEF RunInv, TicketInv, RunType, Ticket
      <4>2. u.index \in Nat
        BY DEF RunInv, RunType, Ticket
      <4>3. CASE u.lane = l
        BY <1>1, <2>3, <2>6, <4>1, <4>2, <4>3, AnsweredFields DEF Past
      <4>4. CASE u.lane # l
        BY <2>6, <4>1, <4>4
      <4> QED BY <4>3, <4>4
    <3>2. t.index < MaxCalls /\ Past(t, lane'[t.lane])
      BY <1>1, <2>2, <2>3, <2>6, AnsweredFields DEF Past
    <3> QED BY <2>1, <3>1, <3>2 DEF TicketInv
  <2>10. SpawnInv'
    <3>1. l < next
      BY <1>1 DEF RunInv, SpawnInv, RunType, Lane, Unborn
    <3> QED BY <1>1, <3>1, <2>6 DEF RunInv, SpawnInv, RunType, Lane
  <2>11. ASSUME NEW k \in Lane PROVE GoroutineInv(k)'
    <3>1. CASE k = l
      BY <1>1, <2>3, <2>4, <2>6, <3>1 DEF GoroutineInv
    <3>2. CASE k # l
      BY <1>1, <2>4, <2>6, <3>2 DEF RunInv, GoroutineInv, InRound
    <3> QED BY <3>1, <3>2
  <2> QED BY <2>7, <2>8, <2>9, <2>10, <2>11 DEF RunInv
<1>3. CASE ~Wins(l)
  <2> DEFINE g == Reload(lane[l])
  <2>1. /\ g \in Goroutine /\ g.pc = "call" /\ g.attempt = lane[l].attempt
        /\ g.index = lane[l].index /\ g.starved = lane[l].starved
    BY AnsweredFields DEF Reload, Goroutine
  <2>2. Set(l, g) /\ lane[l].index <= g.index /\ UNCHANGED <<executed, ran>>
    BY <1>3, <2>1, AnsweredFields DEF Swap
  <2> HIDE DEF g
  <2> QED BY <1>1, <2>1, <2>2, AdvanceInvariant
<1> QED BY <1>2, <1>3

(* Every step preserves the invariant.                                        *)
LEMMA StepInvariant == RunInv /\ [Next]_vars => RunInv'
<1> SUFFICES ASSUME RunInv, [Next]_vars PROVE RunInv'
  OBVIOUS
<1>1. CASE UNCHANGED vars
  BY <1>1 DEF vars, RunInv, RunType, BudgetInv, TicketInv, SpawnInv, GoroutineInv, InRound
<1>2. ASSUME NEW l \in Lane, LaneStep(l) PROVE RunInv'
  BY <1>2, ComposeInvariant, Turn1Invariant, CallInvariant, SwapInvariant, Turn2Invariant,
     ParseInvariant DEF LaneStep
<1> QED BY <1>1, <1>2, SpawnInvariant, CollectInvariant DEF Next, Done

(* The loop over the results, as far as it has come, holds the lanes of the set *)
(* up to there, in their order.                                                *)
LEMMA EnumeratedLanes ==
  ASSUME NEW S
  PROVE  /\ Enumerated(S) \in Seq(Lane) /\ Increasing(Enumerated(S))
         /\ Listed(Enumerated(S)) = Enabled \cap S
<1> DEFINE step == [p \in (1..N) \X Seq(Lane) |->
                      IF p[1] \in Enabled \cap S THEN Append(p[2], p[1]) ELSE p[2]]
           Equation(f) == f = [l \in 0..N |->
             IF l = 0 THEN <<>>
             ELSE IF l \in Enabled \cap S THEN Append(f[l - 1], l) ELSE f[l - 1]]
           upto == CHOOSE f : Equation(f)
<1>1. step \in [(1..N) \X Seq(Lane) -> Seq(Lane)]
  <2>1. \A l \in 1..N, s \in Seq(Lane) : Append(s, l) \in Seq(Lane)
    BY AppendProperties DEF Lane
  <2> QED BY <2>1
<1>2. PICK f \in [0..N -> Seq(Lane)] : Iterates(f, N, <<>>, step)
  <2> HIDE DEF step
  <2>1. <<>> \in Seq(Lane) /\ N \in Nat
    OBVIOUS
  <2> QED BY <1>1, <2>1, Recursion
<1>3. Equation(f)
  <2>1. f[0] = <<>>
    BY <1>2 DEF Iterates
  <2>2. \A l \in 1..N : f[l] = IF l \in Enabled \cap S THEN Append(f[l - 1], l) ELSE f[l - 1]
    <3> TAKE l \in 1..N
    <3>1. f[l - 1] \in Seq(Lane)
      <4>1. l - 1 \in 0..N
        OBVIOUS
      <4> QED BY <1>2, <4>1
    <3>2. f[l] = step[<<l, f[l - 1]>>]
      <4> HIDE DEF step
      <4> QED BY <1>2 DEF Iterates
    <3> QED BY <3>1, <3>2
  <2>3. f = [l \in 0..N |-> f[l]]
    BY <1>2
  <2>4. \A l \in 0..N : l = 0 \/ l \in 1..N
    OBVIOUS
  <2>5. \A l \in 0..N : f[l] = IF l = 0 THEN <<>>
                              ELSE IF l \in Enabled \cap S THEN Append(f[l - 1], l) ELSE f[l - 1]
    BY <2>1, <2>2, <2>4
  <2> QED BY <2>3, <2>5
<1>4. Equation(upto)
  <2> HIDE DEF Equation
  <2> QED BY <1>3
<1> HIDE DEF upto
<1> DEFINE Good(l) == /\ upto[l] \in Seq(Lane) /\ Increasing(upto[l])
                      /\ Listed(upto[l]) = {k \in Enabled \cap S : k <= l}
           T == {l \in Nat : l <= N => Good(l)}
<1>5. 0 \in T
  <2>1. upto[0] = <<>>
    BY <1>4
  <2>2. \A k \in Enabled : ~(k <= 0)
    BY DEF Lane
  <2>3. Increasing(<<>>) /\ Listed(<<>>) = {} /\ <<>> \in Seq(Lane)
    BY DEF Increasing, Listed
  <2> QED BY <2>1, <2>2, <2>3
<1>6. \A l \in Nat : l \in T => l + 1 \in T
  <2> SUFFICES ASSUME NEW l \in Nat, l + 1 <= N, Good(l) PROVE Good(l + 1)
    OBVIOUS
  <2>1. CASE l + 1 \in Enabled \cap S
    <3> DEFINE s == upto[l]
               t == upto[l + 1]
    <3>1. t = Append(s, l + 1) /\ s \in Seq(Lane) /\ l + 1 \in Lane
      <4>1. l + 1 \in 0..N /\ l + 1 # 0 /\ (l + 1) - 1 = l /\ l + 1 \in Lane
        BY DEF Lane
      <4> QED BY <1>4, <2>1, <4>1
    <3> HIDE DEF s, t
    <3>2. /\ t \in Seq(Lane) /\ Len(t) = Len(s) + 1 /\ Len(s) \in Nat
          /\ \A i \in 1..Len(s) : t[i] = s[i]
          /\ t[Len(s) + 1] = l + 1
      BY <3>1, AppendProperties
    <3>3. DOMAIN s = 1..Len(s) /\ DOMAIN t = 1..Len(s) \cup {Len(s) + 1}
      BY <3>1, <3>2
    <3>4. \A i \in DOMAIN s : s[i] \in Listed(s) /\ s[i] <= l /\ s[i] \in Lane
      BY <3>1, <3>3 DEF s, Listed
    <3>5. Increasing(t)
      <4> SUFFICES ASSUME NEW i \in DOMAIN t, NEW k \in DOMAIN t, i < k PROVE t[i] < t[k]
        BY DEF Increasing
      <4>1. i \in DOMAIN s
        BY <3>2, <3>3
      <4>2. CASE k \in DOMAIN s
        BY <3>2, <3>3, <4>1, <4>2 DEF s, Increasing
      <4>3. CASE k = Len(s) + 1
        <5>1. t[k] = l + 1 /\ t[i] = s[i] /\ s[i] <= l /\ s[i] \in Nat
          BY <3>2, <3>3, <3>4, <4>1, <4>3 DEF Lane
        <5> QED BY <5>1
      <4> QED BY <3>3, <4>2, <4>3
    <3>6. Listed(t) = Listed(s) \cup {l + 1}
      <4>1. \A i \in DOMAIN s : t[i] = s[i]
        BY <3>2, <3>3
      <4> QED BY <3>2, <3>3, <4>1 DEF Listed
    <3>7. Listed(s) = {k \in Enabled \cap S : k <= l}
      BY DEF s
    <3>8. \A k \in Enabled : k \in Nat /\ (k <= l + 1 <=> k <= l \/ k = l + 1)
      BY DEF Lane
    <3>9. Listed(t) = {k \in Enabled \cap S : k <= l + 1}
      BY <2>1, <3>6, <3>7, <3>8
    <3> QED BY <3>2, <3>5, <3>9 DEF t
  <2>2. CASE l + 1 \notin Enabled \cap S
    <3>1. upto[l + 1] = upto[l]
      <4>1. l + 1 \in 0..N /\ l + 1 # 0 /\ (l + 1) - 1 = l
        OBVIOUS
      <4> QED BY <1>4, <2>2, <4>1
    <3>2. \A k \in Enabled : k \in Nat /\ (k <= l + 1 <=> k <= l \/ k = l + 1)
      BY DEF Lane
    <3>3. {k \in Enabled \cap S : k <= l + 1} = {k \in Enabled \cap S : k <= l}
      BY <2>2, <3>2
    <3> QED BY <3>1, <3>3
  <2> QED BY <2>1, <2>2
<1>7. Good(N)
  <2> HIDE DEF T
  <2>1. N \in T
    BY <1>5, <1>6, Induction
  <2> QED BY <2>1 DEF T
<1>8. {k \in Enabled \cap S : k <= N} = Enabled \cap S
  <2>1. \A k \in Enabled : k <= N
    BY DEF Lane
  <2> QED BY <2>1
<1>9. Enumerated(S) = upto[N]
  BY DEF Enumerated, upto
<1> QED BY <1>7, <1>8, <1>9

(* What a step of a lane does to its outcome: it stays without one and runs    *)
(* on, or it ends with one.                                                    *)
LEMMA LaneOutcome ==
  ASSUME RunInv, NEW l \in Lane, LaneStep(l)
  PROVE  /\ lane[l].pc \notin {"unborn", "done"}
         /\ UNCHANGED <<next, fanout, collected>>
         /\ \A k \in Lane \ {l} : lane'[k] = lane[k] /\ results'[k] = results[k]
         /\ lane'[l].pc \notin {"unborn", "done"} \/ results'[l] # NoResult
<1>1. lane[l] \in Goroutine /\ DOMAIN lane = Lane /\ DOMAIN results = Lane
  BY DEF RunInv, RunType
<1>2. ASSUME NEW g, Set(l, g), UNCHANGED results, g.pc \notin {"unborn", "done"}
      PROVE  /\ \A k \in Lane \ {l} : lane'[k] = lane[k] /\ results'[k] = results[k]
             /\ lane'[l].pc \notin {"unborn", "done"}
  BY <1>1, <1>2 DEF Set
<1>3. ASSUME NEW r \in Result, Finish(l, r)
      PROVE  /\ \A k \in Lane \ {l} : lane'[k] = lane[k] /\ results'[k] = results[k]
             /\ results'[l] # NoResult
  BY <1>1, <1>3 DEF Finish, Set, Write, Result, Failure, NoResult
<1>4. ASSUME NEW kind \in Failure, Retry(l, kind)
      PROVE  /\ \A k \in Lane \ {l} : lane'[k] = lane[k] /\ results'[k] = results[k]
             /\ lane'[l].pc \notin {"unborn", "done"} \/ results'[l] # NoResult
  <2> DEFINE g == [Unborn EXCEPT !.pc = "turn1", !.attempt = lane[l].attempt + 1]
  <2>1. g.pc = "turn1" /\ kind \in Result
    BY DEF Unborn, Result
  <2>2. (Set(l, g) /\ UNCHANGED results) \/ Finish(l, kind)
    BY <1>4 DEF Retry
  <2> HIDE DEF g
  <2> QED BY <1>2, <1>3, <2>1, <2>2
<1>5. {"compose", "generate", "parse"} = Failure /\ {"ok", "compose", "generate"} \subseteq Result
  BY DEF Failure, Result
<1>6. \A p \in {"call", "parse", "swap"} : [lane[l] EXCEPT !.pc = p].pc \notin {"unborn", "done"}
  BY <1>1 DEF Goroutine
<1>7. CASE Compose(l) \/ Turn2(l) \/ ParseAnswer(l)
  BY <1>2, <1>3, <1>4, <1>5, <1>6, <1>7 DEF Compose, Turn2, ParseAnswer
<1>8. CASE Turn1(l)
  <2>1. \A n : [lane[l] EXCEPT !.pc = "call", !.asked = n].pc = "call"
    BY <1>1 DEF Goroutine
  <2> QED BY <1>2, <1>4, <1>5, <1>6, <1>8, <2>1 DEF Turn1
<1>9. CASE Call(l)
  <2>1. Answered(l).pc = "call" /\ [Answered(l) EXCEPT !.starved = TRUE].pc = "call"
    BY <1>1 DEF Answered, Goroutine
  <2>2. [lane[l] EXCEPT !.pc = "swap", !.current = executed].pc = "swap"
    BY <1>1 DEF Goroutine
  <2> QED BY <1>2, <1>9, <2>1, <2>2 DEF Call
<1>10. CASE Swap(l)
  <2>1. [Answered(l) EXCEPT !.current = 0].pc = "call" /\ Reload(lane[l]).pc = "call"
    BY <1>1 DEF Answered, Reload, Goroutine
  <2> QED BY <1>2, <1>10, <2>1 DEF Swap
<1> QED BY <1>7, <1>8, <1>9, <1>10 DEF LaneStep

(* The loop settles the lane it passes, the lanes themselves the others, and   *)
(* when all have ended the account is drawn up.                                *)
LEMMA AccountStep == RunInv /\ AccountInv /\ [Next]_vars => AccountInv'
<1> SUFFICES ASSUME RunInv, AccountInv, [Next]_vars PROVE AccountInv'
  OBVIOUS
<1>1. CASE UNCHANGED vars
  BY <1>1 DEF vars, AccountInv, Settled, Running, Failed, Enumerated
<1>2. CASE Spawn
  <2>1. /\ fanout = "running" /\ fanout' = "running" /\ next \in Lane /\ next' = next + 1
        /\ lane[next] = Unborn /\ results[next] = NoResult
    BY <1>2 DEF Spawn, RunInv, SpawnInv, Lane
  <2>2. /\ \A k \in Lane \ {next} : lane'[k] = lane[k] /\ results'[k] = results[k]
        /\ IF next \in Enabled
           THEN results'[next] # NoResult \/ lane'[next].pc \notin {"unborn", "done"}
           ELSE lane'[next] = lane[next] /\ results'[next] = results[next]
    BY <1>2, <2>1 DEF Spawn, Set, Write, RunInv, RunType, NoResult, Unborn
  <2>3. ASSUME NEW k \in Lane PROVE Settled(k)'
    <3>1. k # next => (k < next' <=> k < next)
      BY <2>1 DEF Lane
    <3> QED BY <2>1, <2>2, <3>1 DEF AccountInv, Settled
  <2> QED BY <2>1, <2>3 DEF AccountInv
<1>3. CASE Collect
  BY <1>3 DEF Collect, Joined, AccountInv, Settled, Running, Failed, Enumerated
<1>4. ASSUME NEW l \in Lane, LaneStep(l) PROVE AccountInv'
  <2>1. /\ lane[l].pc \notin {"unborn", "done"} /\ UNCHANGED <<next, fanout, collected>>
        /\ \A k \in Lane \ {l} : lane'[k] = lane[k] /\ results'[k] = results[k]
        /\ lane'[l].pc \notin {"unborn", "done"} \/ results'[l] # NoResult
    BY <1>4, LaneOutcome
  <2>2. l \in Enabled
    BY <2>1 DEF AccountInv, Settled, Unborn
  <2>3. fanout # "collected"
    BY <2>1 DEF AccountInv, Running
  <2>4. ASSUME NEW k \in Lane PROVE Settled(k)'
    BY <2>1, <2>2 DEF AccountInv, Settled
  <2> QED BY <2>1, <2>3, <2>4 DEF AccountInv
<1> QED BY <1>1, <1>2, <1>3, <1>4 DEF Next, Done

LEMMA AccountTyped == RunInv /\ AccountInv /\ TypeOK /\ [Next]_vars => TypeOK'
<1>1. ASSUME RunInv, TypeOK, [Next]_vars PROVE RunInv' /\ collected' \in [ok : Seq(Lane), failed : Seq(Lane)]
  <2>1. RunInv'
    BY <1>1, StepInvariant
  <2>2. ASSUME Collect PROVE collected' \in [ok : Seq(Lane), failed : Seq(Lane)]
    <3>1. Enumerated(Lane \ Failed) \in Seq(Lane) /\ Enumerated(Failed) \in Seq(Lane)
      BY EnumeratedLanes
    <3> QED BY <2>2, <3>1 DEF Collect
  <2>3. ASSUME UNCHANGED collected PROVE collected' \in [ok : Seq(Lane), failed : Seq(Lane)]
    BY <1>1, <2>3 DEF TypeOK
  <2>4. Collect \/ UNCHANGED collected
    BY <1>1 DEF Next, Spawn, Done, vars, LaneStep, Compose, Turn1, Call, Swap, Turn2, ParseAnswer
  <2> QED BY <2>1, <2>2, <2>3, <2>4
<1> QED BY <1>1 DEF RunInv, TypeOK

(* The parts of the inductive invariant hold in every reachable state.         *)
THEOREM Invariant == Spec => []IInv
<1>1. Init => IInv
  <2>1. ASSUME Init PROVE AccountInv
    <3>1. fanout # "collected"
      BY <2>1 DEF Init
    <3>2. \A l \in Lane : ~(l < next) /\ lane[l] = Unborn /\ results[l] = NoResult
      BY <2>1 DEF Init, Lane
    <3> QED BY <3>1, <3>2 DEF AccountInv, Settled
  <2>2. Init => collected \in [ok : Seq(Lane), failed : Seq(Lane)]
    BY DEF Init
  <2> QED BY <2>1, <2>2, InitInvariant DEF IInv, RunInv, TypeOK
<1>2. IInv /\ [Next]_vars => IInv'
  BY StepInvariant, AccountStep, AccountTyped DEF IInv
<1> QED BY <1>1, <1>2, PTL DEF Spec

(* Whatever lanes race for the counter, the tools they run are at most the     *)
(* budget of the review and each of them is counted (Executor.reserveCall).    *)
THEOREM BudgetSafe == Spec => []BudgetHolds
<1>1. IInv => BudgetHolds
  BY DEF IInv, RunInv, BudgetInv, BudgetHolds
<1> QED BY <1>1, Invariant, PTL

(* A call is refused for want of budget only when the tools that ran spent it  *)
(* all (Executor.Execute).                                                     *)
THEOREM RefusalEarned == Spec => []RefusalIsEarned
<1>1. IInv => RefusalIsEarned
  BY DEF IInv, RunInv, BudgetInv, GoroutineInv, RefusalIsEarned
<1> QED BY <1>1, Invariant, PTL

(* An attempt of a lane runs at most MaxCalls tools: its calls have different  *)
(* places in the round, all below the limit (Executor.Execute).                *)
THEOREM RoundBounded == Spec => []RoundLimit
<1>1. IInv => RoundLimit
  <2> SUFFICES ASSUME IInv, NEW l \in Lane, NEW a \in 1..Attempts
               PROVE Cardinality({t \in ran : t.lane = l /\ t.attempt = a}) <= MaxCalls
    BY DEF RoundLimit
  <2> DEFINE S == {t \in ran : t.lane = l /\ t.attempt = a}
  <2> DEFINE f == [t \in S |-> t.index]
  <2>1. \A t \in S : t.index \in 0..(MaxCalls - 1)
    BY DEF IInv, RunInv, TicketInv, RunType, Ticket
  <2>2. ASSUME NEW t \in S, NEW u \in S, t.index = u.index PROVE t = u
    <3>1. t \in Ticket /\ u \in Ticket
      BY DEF IInv, RunInv, RunType
    <3>2. t = [lane |-> l, attempt |-> a, index |-> t.index] /\ u = [lane |-> l, attempt |-> a, index |-> u.index]
      BY <3>1 DEF Ticket
    <3> QED BY <2>2, <3>2
  <2>3. f \in Injection(S, 0..(MaxCalls - 1))
    BY <2>1, <2>2 DEF Injection, IsInjective
  <2>4. IsFiniteSet(0..(MaxCalls - 1)) /\ Cardinality(0..(MaxCalls - 1)) = MaxCalls
    BY FS_Interval
  <2> HIDE DEF f
  <2> QED BY <2>3, <2>4, FS_Injection
<1> QED BY <1>1, Invariant, PTL

LEMMA BudgetCounts == Budget!Cardinality(ran) = Cardinality(ran)
BY DEF Budget!Cardinality, Cardinality

(* A step in which no tool runs takes no place: at most one lane's refusal     *)
(* changes, and one that is new has been earned.                               *)
LEMMA NoTaking ==
  ASSUME RunInv, RunInv', NEW l \in Lane, UNCHANGED ran,
         \A k \in Lane \ {l} : lane'[k].starved = lane[k].starved
  PROVE  [Budget!Next]_(Budget!vars)
<1> DEFINE S == {k \in Lane : lane[k].starved}
<1>1. lane[l].starved \in BOOLEAN /\ lane'[l].starved \in BOOLEAN
  BY DEF RunInv, RunType, Goroutine
<1>2. CASE lane'[l].starved = lane[l].starved
  <2>1. S' = S
    BY <1>2
  <2> QED BY <2>1 DEF Budget!vars
<1>3. CASE lane'[l].starved /\ ~lane[l].starved
  <2>1. S' = S \cup {l}
    BY <1>3
  <2>2. Cardinality(ran) = TotalBudget
    BY <1>3 DEF RunInv, GoroutineInv, BudgetInv
  <2> QED BY <2>1, <2>2, BudgetCounts DEF Budget!Next, Budget!Refuse
<1>4. CASE ~lane'[l].starved /\ lane[l].starved
  <2>1. S' = S \ {l} /\ l \in S
    BY <1>4
  <2> QED BY <2>1 DEF Budget!Next, Budget!Renew
<1> QED BY <1>1, <1>2, <1>3, <1>4

(* The swap that succeeds takes the place of the call its lane is at, which    *)
(* comes after all that the lane has taken.                                    *)
LEMMA Taking ==
  ASSUME RunInv, NEW l \in Lane, Swap(l), Wins(l)
  PROVE  Budget!Take
<1> DEFINE t == [lane |-> l, attempt |-> lane[l].attempt, index |-> lane[l].index]
           g == [Answered(l) EXCEPT !.current = 0]
           S == {k \in Lane : lane[k].starved}
<1>1. /\ lane[l].pc = "swap" /\ lane[l].index < MaxCalls /\ lane[l].current < TotalBudget
      /\ lane[l].attempt \in 1..Attempts /\ executed = lane[l].current
  BY DEF Swap, Wins, RunInv, GoroutineInv, InRound
<1>2. lane[l].index \in 0..(MaxCalls - 1)
  BY <1>1, AnsweredFields
<1>3. t \in Budget!Place /\ t.lane = l /\ t.attempt = lane[l].attempt /\ t.index = lane[l].index
  BY <1>1, <1>2 DEF Budget!Place
<1>4. g.starved = lane[l].starved
  BY AnsweredFields DEF Goroutine
<1>5. ran' = ran \cup {t} /\ lane' = [lane EXCEPT ![l] = g]
  BY DEF Swap, Set
<1> HIDE DEF t, g
<1>6. S' = S
  <2>1. \A k \in Lane : lane'[k].starved = lane[k].starved
    BY <1>4, <1>5 DEF RunInv, RunType
  <2> QED BY <2>1
<1>7. \A u \in ran : u.lane = t.lane => Budget!Before(u, t)
  BY <1>1, <1>3 DEF RunInv, TicketInv, Past, Budget!Before
<1>8. Cardinality(ran) < TotalBudget
  BY <1>1 DEF RunInv, BudgetInv
<1> QED BY <1>3, <1>5, <1>6, <1>7, <1>8, BudgetCounts DEF Budget!Take

LEMMA BudgetStep == RunInv /\ [Next]_vars => [Budget!Next]_(Budget!vars)
<1> SUFFICES ASSUME RunInv, [Next]_vars PROVE [Budget!Next]_(Budget!vars)
  OBVIOUS
<1>i. RunInv'
  BY StepInvariant
<1>1. CASE UNCHANGED vars
  BY <1>1 DEF vars, Budget!vars
<1>2. CASE Collect \/ Done
  BY <1>2 DEF Collect, Done, vars, Budget!vars
<1>3. CASE Spawn
  <2>1. next \in Lane /\ UNCHANGED ran /\ \A k \in Lane \ {next} : lane'[k] = lane[k]
    BY <1>3 DEF Spawn, Set, RunInv, RunType
  <2>2. PICK l \in Lane : \A k \in Lane \ {l} : lane'[k] = lane[k]
    BY <2>1
  <2> QED BY <1>i, <2>1, <2>2, NoTaking
<1>4. ASSUME NEW l \in Lane, LaneStep(l) PROVE [Budget!Next]_(Budget!vars)
  <2>1. CASE Swap(l) /\ Wins(l)
    BY <2>1, Taking DEF Budget!Next
  <2>2. CASE ~(Swap(l) /\ Wins(l))
    <3>1. UNCHANGED ran
      BY <1>4, <2>2 DEF LaneStep, Compose, Turn1, Call, Swap, Turn2, ParseAnswer
    <3>2. \A k \in Lane \ {l} : lane'[k] = lane[k]
      BY <1>4, LaneOutcome
    <3> QED BY <1>i, <3>1, <3>2, NoTaking
  <2> QED BY <2>1, <2>2
<1> QED BY <1>1, <1>2, <1>3, <1>4 DEF Next

(* However many lanes race, the Executor's counter is one budget from which    *)
(* places are taken at once (Executor.reserveCall implements ToolBudget).      *)
THEOREM BudgetRefinement == Spec => BudgetSpec
<1>1. Init => Budget!Init
  BY DEF Init, Budget!Init, Unborn
<1>2. IInv /\ [Next]_vars => [Budget!Next]_(Budget!vars)
  BY BudgetStep DEF IInv
<1> QED BY <1>1, <1>2, Invariant, PTL DEF Spec, BudgetSpec, Budget!Spec

(* When the fan-out is collected every enabled lane is accounted for once, in  *)
(* the order of the declarations, and as successful only if it delivered an    *)
(* answer (Fanout, collectFanoutResult).                                       *)
THEOREM AccountComplete == Spec => []AccountIsComplete
<1>1. IInv => AccountIsComplete
  <2> SUFFICES ASSUME IInv, fanout = "collected"
               PROVE  /\ Increasing(collected.ok) /\ Increasing(collected.failed)
                      /\ Listed(collected.ok) = {l \in Enabled : results[l] = "ok"}
                      /\ Listed(collected.failed) = {l \in Enabled : results[l] \in Failure}
                      /\ Listed(collected.ok) \cup Listed(collected.failed) = Enabled
    BY DEF AccountIsComplete
  <2>1. /\ collected.ok = Enumerated(Lane \ Failed) /\ collected.failed = Enumerated(Failed)
        /\ next = N + 1 /\ Running = {}
    BY DEF IInv, AccountInv
  <2>2. /\ Increasing(collected.ok) /\ Increasing(collected.failed)
        /\ Listed(collected.ok) = Enabled \cap (Lane \ Failed)
        /\ Listed(collected.failed) = Enabled \cap Failed
    BY <2>1, EnumeratedLanes
  <2>3. \A l \in Enabled : results[l] \in Result
    <3> TAKE l \in Enabled
    <3>1. l \in Lane /\ l < next /\ lane[l].pc \in {"unborn", "done"}
      BY <2>1 DEF Lane, Running
    <3> QED BY <3>1 DEF IInv, RunInv, RunType, AccountInv, Settled
  <2>4. /\ Enabled \cap (Lane \ Failed) = {l \in Enabled : results[l] = "ok"}
        /\ Enabled \cap Failed = {l \in Enabled : results[l] \in Failure}
    BY <2>3 DEF Failed, Result, Failure
  <2>5. (Enabled \cap (Lane \ Failed)) \cup (Enabled \cap Failed) = Enabled
    OBVIOUS
  <2> QED BY <2>2, <2>4, <2>5, Zenon
<1> QED BY <1>1, Invariant, PTL

(* No step overwrites the outcome of a lane: only a running goroutine, or the  *)
(* loop that has not reached the lane, writes its slot (Fanout).               *)
THEOREM OutcomesStand == Spec => WrittenOnce
<1> DEFINE Kept == \A l \in Lane : results[l] # NoResult => results'[l] = results[l]
<1>1. IInv /\ [Next]_vars => Kept \/ UNCHANGED vars
  <2> SUFFICES ASSUME IInv, Next, NEW l \in Lane, results[l] # NoResult
               PROVE results'[l] = results[l]
    BY DEF vars
  <2>1. CASE Spawn
    BY <2>1 DEF IInv, RunInv, SpawnInv, RunType, Spawn, Write, Lane
  <2>2. CASE Collect \/ Done
    BY <2>2 DEF Collect, Done, vars
  <2>3. ASSUME NEW k \in Lane, LaneStep(k) PROVE results'[l] = results[l]
    <3>1. lane[k].pc \notin {"unborn", "done"}
      BY <2>3 DEF LaneStep, Compose, Turn1, Call, Swap, Turn2, ParseAnswer
    <3>2. k # l
      BY <3>1 DEF IInv, RunInv, GoroutineInv
    <3>3. results' = results \/ \E r : results' = [results EXCEPT ![k] = r]
      BY <2>3 DEF LaneStep, Compose, Turn1, Call, Swap, Turn2, ParseAnswer, Retry, Finish, Write
    <3> QED BY <3>2, <3>3 DEF IInv, RunInv, RunType
  <2> QED BY <2>1, <2>2, <2>3 DEF Next
<1> QED BY <1>1, Invariant, PTL DEF Spec, WrittenOnce

-----------------------------------------------------------------------------
(* The findings of an answer that was parsed. *)
LEMMA ExtractOf ==
  ASSUME ReviewAssumption, NEW text \in Answers
  PROVE  Extract(text).findings \in Seq(Finding)
<1>1. text \in Seq(Block) /\ Len(text) \in Nat /\ DOMAIN text = 1..Len(text)
  BY DEF ReviewAssumption
<1>2. \A i \in DOMAIN text : text[i].findings \in Seq(Finding)
  <2> TAKE i \in DOMAIN text
  <2>1. text[i] \in Block
    BY <1>1
  <2> QED BY <2>1 DEF Block
<1>3. Fenced(text) # {} => Max(Fenced(text)) \in DOMAIN text
  <2>1. Fenced(text) \subseteq 1..Len(text)
    BY <1>1 DEF Fenced
  <2>2. Fenced(text) # {} => \E m \in Fenced(text) : \A k \in Fenced(text) : k <= m
    BY <1>1, <2>1, MaxExists
  <2>3. \A m, k \in Fenced(text) : k <= m <=> m >= k
    BY <2>1
  <2> QED BY <1>1, <2>1, <2>2, <2>3 DEF Max
<1>4. text # <<>> => Last(text) = text[Len(text)] /\ Len(text) \in DOMAIN text
  BY <1>1 DEF Last
<1>5. Nothing.findings \in Seq(Finding)
  BY DEF Nothing
<1> QED BY <1>2, <1>3, <1>4, <1>5 DEF Extract

(* What a lane found, normalized; Met, as a member of a cluster.               *)
Grade == {"high", "medium", "low"}
Sort == {"", "style", "security", "testing", "other"}
Ints == -(MaxInt + 1)..MaxInt
Normal == [titled : BOOLEAN, severity : Grade, category : Sort, file : Seq(STRING),
           line : Ints \cup {NoLine}, cites : Seq(Chunk)]
Met == [lane : Nat, nth : Nat, finding : Normal]
Distinct(M) == \A m, n \in M : m.lane = n.lane /\ m.nth = n.nth => m = n

LEMMA NormType == ASSUME NEW f \in Seq(STRING) PROVE Norm(f) \in Seq(STRING)
<1> DEFINE g == IF Len(f) > 1 /\ f[1] = "." THEN Tail(f) ELSE f
<1>1. g \in Seq(STRING)
  <2>1. Len(f) > 1 => Tail(f) \in Seq(STRING)
    OBVIOUS
  <2> QED BY <2>1
<1>2. Len(g) > 1 => Tail(g) \in Seq(STRING)
  <2> HIDE DEF g
  <2> QED BY <1>1
<1>3. Norm(f) = IF Len(g) > 1 /\ g[1] \in {"a", "b"} THEN Tail(g) ELSE g
  BY DEF Norm
<1> HIDE DEF g
<1> QED BY <1>1, <1>2, <1>3

LEMMA ParseOf ==
  ASSUME ReviewAssumption, LineAssumption, NEW text \in Answers
  PROVE  LET fs == Extract(text).findings
             kept == {k \in DOMAIN fs : fs[k].titled}
         IN  /\ kept \subseteq Nat /\ IsFiniteSet(kept)
             /\ DOMAIN Parse(text) = kept
             /\ \A j \in kept :
                  /\ Parse(text)[j] \in Normal /\ fs[j] \in Finding
                  /\ Parse(text)[j].severity = Severity(fs[j].severity)
                  /\ Parse(text)[j].category = Category(fs[j].category)
                  /\ Parse(text)[j].line = Line(fs[j].line)
                  /\ Parse(text)[j].file = fs[j].file
                  /\ Parse(text)[j].cites = fs[j].cites
<1> DEFINE fs == Extract(text).findings
           kept == {k \in DOMAIN fs : fs[k].titled}
<1>1. fs \in Seq(Finding) /\ Len(fs) \in Nat /\ DOMAIN fs = 1..Len(fs)
  BY ExtractOf
<1>2. kept \subseteq 1..Len(fs) /\ kept \subseteq Nat
  BY <1>1
<1>3. IsFiniteSet(kept)
  <2> HIDE DEF fs
  <2>1. IsFiniteSet(1..Len(fs))
    BY <1>1, FS_Interval
  <2> HIDE DEF kept
  <2> QED BY <1>2, <2>1, FS_Subset
<1>4. Parse(text) = [j \in kept |-> [fs[j] EXCEPT !.severity = Severity(@), !.category = Category(@), !.line = Line(@)]]
  BY DEF Parse
<1> HIDE DEF fs
<1>5. ASSUME NEW j \in kept
      PROVE  /\ fs[j] \in Finding
             /\ Severity(fs[j].severity) \in Grade
             /\ Category(fs[j].category) \in Sort
             /\ Line(fs[j].line) \in Ints \cup {NoLine}
  <2>1. fs[j] \in Finding
    BY <1>1, <1>2
  <2> DEFINE f == fs[j]
  <2>2. /\ f.severity \in STRING /\ f.category \in STRING
        /\ f.line.is \in {"number", "digits", "words"} /\ f.line.value \in Ints
    BY <2>1 DEF Finding, Ints
  <2> HIDE DEF f
  <2>3. Severity(f.severity) \in Grade
    BY <2>2 DEF Severity, Grade
  <2>4. Category(f.category) \in Sort
    BY DEF Category, Sort
  <2>5. Line(f.line) \in Ints \cup {NoLine}
    BY <2>2 DEF Line
  <2> QED BY <2>1, <2>3, <2>4, <2>5 DEF f
<1>6. ASSUME NEW j \in kept
      PROVE  LET p == [fs[j] EXCEPT !.severity = Severity(@), !.category = Category(@), !.line = Line(@)]
             IN  /\ p \in Normal
                 /\ p.severity = Severity(fs[j].severity)
                 /\ p.category = Category(fs[j].category)
                 /\ p.line = Line(fs[j].line)
                 /\ p.file = fs[j].file
                 /\ p.cites = fs[j].cites
  BY <1>5 DEF Finding, Normal
<1> QED BY <1>2, <1>3, <1>4, <1>5, <1>6 DEF fs

(* The orders in which members are taken are total.                            *)
LEMMA Orders ==
  ASSUME LineAssumption, NEW S, IsFiniteSet(S), S # {}, S \subseteq Met, Distinct(S)
  PROVE  /\ Foremost(S) \in S /\ \A n \in S \ {Foremost(S)} : Before(Foremost(S), n)
         /\ (\A m \in S : m.finding.line # NoLine) =>
              /\ Lowest(S) \in S /\ \A n \in S \ {Lowest(S)} : Upward(Lowest(S), n)
              /\ Highest(S) \in S /\ \A n \in S \ {Highest(S)} : Upward(n, Highest(S))
<1>1. \A m \in S : m.lane \in Nat /\ m.nth \in Nat
  BY DEF Met
<1>2. \A m, n \in S : m # n => Before(m, n) \/ Before(n, m)
  BY <1>1 DEF Before, Distinct
<1>3. \A m, n, o \in S : Before(m, n) /\ Before(n, o) => Before(m, o)
  BY <1>1 DEF Before
<1>4. \E m \in S : \A n \in S \ {m} : Before(m, n)
  <2>1. PICK R : \A m, n \in S : <<m, n>> \in R <=> Before(m, n)
    <3>1. \A m, n \in S : <<m, n>> \in {p \in S \X S : Before(p[1], p[2])} <=> Before(m, n)
      OBVIOUS
    <3> QED BY <3>1
  <2>2. \A m, n \in S : m # n => <<m, n>> \in R \/ <<n, m>> \in R
    BY <2>1, <1>2
  <2>3. \A m, n, o \in S : <<m, n>> \in R /\ <<n, o>> \in R => <<m, o>> \in R
    BY <2>1, <1>3
  <2>4. \E m \in S : \A n \in S \ {m} : <<m, n>> \in R
    BY <2>2, <2>3, LeastExists
  <2> QED BY <2>1, <2>4
<1>5. ASSUME \A m \in S : m.finding.line # NoLine
      PROVE  /\ \E m \in S : \A n \in S \ {m} : Upward(m, n)
             /\ \E m \in S : \A n \in S \ {m} : Upward(n, m)
  <2>1. \A m \in S : m.finding.line \in Int
    <3> TAKE m \in S
    <3>1. m.finding \in Normal
      BY DEF Met
    <3> QED BY <3>1, <1>5 DEF Normal, Ints, LineAssumption
  <2>2. \A m, n \in S : m # n => Upward(m, n) \/ Upward(n, m)
    BY <1>2, <2>1 DEF Upward
  <2>3. \A m, n, o \in S : Upward(m, n) /\ Upward(n, o) => Upward(m, o)
    BY <1>3, <2>1 DEF Upward
  <2>4. PICK R : \A m, n \in S : <<m, n>> \in R <=> Upward(m, n)
    <3>1. \A m, n \in S : <<m, n>> \in {p \in S \X S : Upward(p[1], p[2])} <=> Upward(m, n)
      OBVIOUS
    <3> QED BY <3>1
  <2>5. PICK D : \A m, n \in S : <<m, n>> \in D <=> Upward(n, m)
    <3>1. \A m, n \in S : <<m, n>> \in {p \in S \X S : Upward(p[2], p[1])} <=> Upward(n, m)
      OBVIOUS
    <3> QED BY <3>1
  <2>6. \E m \in S : \A n \in S \ {m} : <<m, n>> \in R
    <3>1. \A m, n \in S : m # n => <<m, n>> \in R \/ <<n, m>> \in R
      BY <2>2, <2>4
    <3>2. \A m, n, o \in S : <<m, n>> \in R /\ <<n, o>> \in R => <<m, o>> \in R
      BY <2>3, <2>4
    <3> QED BY <3>1, <3>2, LeastExists
  <2>7. \E m \in S : \A n \in S \ {m} : <<m, n>> \in D
    <3>1. \A m, n \in S : m # n => <<m, n>> \in D \/ <<n, m>> \in D
      BY <2>2, <2>5
    <3>2. \A m, n, o \in S : <<m, n>> \in D /\ <<n, o>> \in D => <<m, o>> \in D
      BY <2>3, <2>5
    <3> QED BY <3>1, <3>2, LeastExists
  <2> QED BY <2>4, <2>5, <2>6, <2>7
<1> QED BY <1>4, <1>5 DEF Foremost, Lowest, Highest

(* How far the clustering of a group is when the members of S are placed: each *)
(* is in one cluster; a cluster has one member of a lane, none of them below   *)
(* its lowest line and none far above it, unless that is below zero.           *)
Together(c) ==
  /\ \A m, n \in c : m.lane = n.lane => m = n
  /\ \E low \in c : \A m \in c :
       /\ low.finding.line <= m.finding.line
       /\ m.finding.line - low.finding.line <= 3 \/ low.finding.line < 0
Clustering(cs, S) ==
  /\ cs \in Seq(SUBSET S)
  /\ \A m \in S : \E i \in DOMAIN cs : m \in cs[i]
  /\ \A i, k \in DOMAIN cs : cs[i] \cap cs[k] # {} => i = k
  /\ \A i \in DOMAIN cs : cs[i] # {} /\ Together(cs[i])

LEMMA PlaceKeeps ==
  ASSUME LineAssumption, NEW S, IsFiniteSet(S), S \subseteq Met, Distinct(S),
         \A n \in S : n.finding.line # NoLine,
         NEW m \in S, \A n \in S \ {m} : Upward(n, m),
         NEW cs, Clustering(cs, S \ {m})
  PROVE  Clustering(Place(cs, m), S)
<1> DEFINE n == Len(cs)
           last == Last(cs)
<1>1. \A k \in S : k.finding.line \in Ints /\ k.finding.line \in Int
  <2> TAKE k \in S
  <2>1. k.finding \in Normal
    BY DEF Met
  <2> QED BY <2>1 DEF Normal, Ints, LineAssumption
<1>2. cs \in Seq(SUBSET (S \ {m})) /\ n \in Nat /\ DOMAIN cs = 1..n
  BY DEF Clustering
<1>3. \A k \in S : k.finding.line <= m.finding.line
  BY <1>1 DEF Upward
<1>4. CASE cs # <<>> /\ Close(last, m) /\ \A k \in last : k.lane # m.lane
  <2> DEFINE ds == [cs EXCEPT ![n] = @ \cup {m}]
  <2>1. Place(cs, m) = ds
    BY <1>4 DEF Place
  <2>2. n \in 1..n /\ last = cs[n]
    BY <1>2, <1>4 DEF Last
  <2>3. ds \in Seq(SUBSET S) /\ DOMAIN ds = 1..n
    BY <1>2, <2>2
  <2>4. ds[n] = last \cup {m} /\ \A i \in 1..n : i # n => ds[i] = cs[i]
    BY <1>2, <2>2
  <2>5. \A i \in 1..n : cs[i] \subseteq S \ {m} /\ cs[i] \subseteq ds[i]
    <3> HIDE DEF ds, n, last
    <3> TAKE i \in 1..n
    <3>1. cs[i] \in SUBSET (S \ {m})
      BY <1>2
    <3>2. cs[i] \subseteq ds[i]
      BY <2>2, <2>4
    <3> QED BY <3>1, <3>2
  <2> HIDE DEF ds, n, last
  <2>6. \A k \in S : \E i \in 1..n : k \in ds[i]
    <3> TAKE k \in S
    <3>1. CASE k = m
      BY <3>1, <2>2, <2>4
    <3>2. CASE k # m
      BY <3>2, <1>2, <2>5 DEF Clustering
    <3> QED BY <3>1, <3>2
  <2>7. \A i, k \in 1..n : ds[i] \cap ds[k] # {} => i = k
    BY <1>2, <2>2, <2>4, <2>5 DEF Clustering
  <2>8. Together(ds[n])
    <3>1. last # {} /\ Together(last) /\ last \subseteq S \ {m}
      BY <1>2, <2>2, <2>5 DEF Clustering
    <3>2. \A k, l \in last \cup {m} : k.lane = l.lane => k = l
      BY <1>4, <3>1 DEF Together
    <3>3. PICK low \in last : \A k \in last :
            /\ low.finding.line <= k.finding.line
            /\ k.finding.line - low.finding.line <= 3 \/ low.finding.line < 0
      BY <3>1 DEF Together
    <3>4. Lowest(last) \in last /\ Lowest(last).finding.line = low.finding.line
      <4>1. IsFiniteSet(last) /\ last \subseteq Met /\ Distinct(last)
        BY <3>1, FS_Subset DEF Distinct
      <4>2. Lowest(last) \in last /\ \A k \in last \ {Lowest(last)} : Upward(Lowest(last), k)
        BY <3>1, <4>1, Orders
      <4>3. Lowest(last).finding.line <= low.finding.line
        BY <1>1, <3>1, <4>2 DEF Upward
      <4> QED BY <1>1, <3>1, <3>3, <4>2, <4>3
    <3>5. m.finding.line - low.finding.line <= 3 \/ low.finding.line < 0
      BY <1>1, <1>4, <3>1, <3>4 DEF Close, Above, Ints, LineAssumption
    <3>6. \A k \in last \cup {m} :
            /\ low.finding.line <= k.finding.line
            /\ k.finding.line - low.finding.line <= 3 \/ low.finding.line < 0
      BY <1>3, <3>1, <3>3, <3>5
    <3> QED BY <2>4, <3>2, <3>6 DEF Together
  <2>9. \A i \in 1..n : ds[i] # {} /\ Together(ds[i])
    BY <1>2, <2>2, <2>4, <2>8 DEF Clustering
  <2> QED BY <2>1, <2>3, <2>6, <2>7, <2>9 DEF Clustering
<1>5. CASE ~(cs # <<>> /\ Close(last, m) /\ \A k \in last : k.lane # m.lane)
  <2> DEFINE ds == Append(cs, {m})
  <2>1. Place(cs, m) = ds
    BY <1>5 DEF Place
  <2>2. ds \in Seq(SUBSET S) /\ DOMAIN ds = 1..(n + 1)
    BY <1>2
  <2>3. ds[n + 1] = {m} /\ \A i \in 1..n : ds[i] = cs[i]
    BY <1>2
  <2>4. \A i \in 1..n : cs[i] \subseteq S \ {m}
    BY <1>2
  <2>5. \A i \in 1..(n + 1) : i \in 1..n \/ i = n + 1
    BY <1>2
  <2>6. n + 1 \in 1..(n + 1) /\ \A i \in 1..n : i \in 1..(n + 1)
    BY <1>2
  <2> HIDE DEF ds, n
  <2>7. \A k \in S : \E i \in 1..(n + 1) : k \in ds[i]
    <3> TAKE k \in S
    <3>1. CASE k = m
      BY <3>1, <2>3, <2>6
    <3>2. CASE k # m
      BY <3>2, <1>2, <2>3, <2>6 DEF Clustering
    <3> QED BY <3>1, <3>2
  <2>8. \A i, k \in 1..(n + 1) : ds[i] \cap ds[k] # {} => i = k
    BY <1>2, <2>3, <2>4, <2>5 DEF Clustering
  <2>9. Together({m})
    BY <1>1 DEF Together
  <2>10. \A i \in 1..(n + 1) : ds[i] # {} /\ Together(ds[i])
    BY <1>2, <2>3, <2>5, <2>9 DEF Clustering
  <2> QED BY <2>1, <2>2, <2>7, <2>8, <2>10 DEF Clustering
<1> QED BY <1>4, <1>5

(* So a group is clustered: the recursion takes its highest member last.       *)
LEMMA ClusteredOf ==
  ASSUME LineAssumption, NEW G, IsFiniteSet(G), G \subseteq Met, Distinct(G),
         \A n \in G : n.finding.line # NoLine
  PROVE  Clustering(Clustered(G), G)
<1> DEFINE D == Seq(SUBSET G)
           pick == [A \in SUBSET G |-> Highest(A)]
           step == [p \in G \X D |-> Place(p[2], p[1])]
           Equation(u) == u = [S \in SUBSET G |->
             IF S = {} THEN <<>> ELSE Place(u[S \ {Highest(S)}], Highest(S))]
<1>1. \A A \in SUBSET G : A # {} =>
        /\ IsFiniteSet(A) /\ A \subseteq Met /\ Distinct(A) /\ \A n \in A : n.finding.line # NoLine
        /\ Highest(A) \in A /\ \A n \in A \ {Highest(A)} : Upward(n, Highest(A))
  <2> TAKE A \in SUBSET G
  <2> HAVE A # {}
  <2>1. IsFiniteSet(A) /\ A \subseteq Met /\ Distinct(A) /\ \A n \in A : n.finding.line # NoLine
    BY FS_Subset DEF Distinct
  <2> QED BY <2>1, Orders
<1>2. Picks(pick, G)
  BY <1>1 DEF Picks
<1>3. step \in [G \X D -> D]
  <2>1. \A cs \in D, m \in G : Place(cs, m) \in D
    <3> TAKE cs \in D, m \in G
    <3>1. Append(cs, {m}) \in D
      OBVIOUS
    <3>2. cs # <<>> => [cs EXCEPT ![Len(cs)] = @ \cup {m}] \in D
      <4> HAVE cs # <<>>
      <4>1. Len(cs) \in 1..Len(cs) /\ cs[Len(cs)] \in SUBSET G
        OBVIOUS
      <4>2. cs[Len(cs)] \cup {m} \in SUBSET G
        BY <4>1
      <4> QED BY <4>1, <4>2
    <3> QED BY <3>1, <3>2 DEF Place
  <2> HIDE DEF D
  <2> QED BY <2>1
<1>4. PICK u \in [SUBSET G -> D] : Folds(u, G, <<>>, step, pick)
  <2>1. <<>> \in D
    OBVIOUS
  <2> HIDE DEF pick, step, D
  <2> QED BY <1>2, <1>3, <2>1, SetRecursion
<1>5. Equation(u)
  <2>1. \A S \in SUBSET G : u[S] = IF S = {} THEN <<>> ELSE Place(u[S \ {Highest(S)}], Highest(S))
    <3> TAKE S \in SUBSET G
    <3>1. u[S] = IF S = {} THEN <<>> ELSE step[<<pick[S], u[S \ {pick[S]}]>>]
      <4> HIDE DEF step, pick
      <4> QED BY <1>4 DEF Folds
    <3>2. S # {} => step[<<pick[S], u[S \ {pick[S]}]>>] = Place(u[S \ {Highest(S)}], Highest(S))
      <4> HAVE S # {}
      <4>1. pick[S] = Highest(S) /\ pick[S] \in G
        BY <1>1
      <4>2. u[S \ {pick[S]}] \in D
        <5> HIDE DEF pick, D
        <5>1. S \ {pick[S]} \in SUBSET G
          OBVIOUS
        <5> QED BY <5>1
      <4> HIDE DEF pick, D
      <4> QED BY <4>1, <4>2
    <3> QED BY <3>1, <3>2
  <2>2. u = [S \in SUBSET G |-> u[S]]
    OBVIOUS
  <2> QED BY <2>1, <2>2
<1> DEFINE upto == CHOOSE h : Equation(h)
<1>6. Equation(upto)
  <2> HIDE DEF Equation
  <2> QED BY <1>5
<1> HIDE DEF pick, step
<1>7. \A S \in SUBSET G : Clustering(upto[S], S)
  <2> DEFINE T == {S \in SUBSET G : Clustering(upto[S], S)}
  <2>1. {} \in T
    <3>1. upto[{}] = <<>>
      BY <1>6
    <3>2. Clustering(<<>>, {})
      BY DEF Clustering
    <3> QED BY <3>1, <3>2
  <2>2. \A A \in SUBSET G : A # {} /\ (\A x \in A : A \ {x} \in T) => A \in T
    <3> SUFFICES ASSUME NEW A \in SUBSET G, A # {}, \A x \in A : A \ {x} \in T
                 PROVE  Clustering(upto[A], A)
      OBVIOUS
    <3> DEFINE m == Highest(A)
    <3>1. m \in A /\ \A n \in A \ {m} : Upward(n, m)
      BY <1>1
    <3>2. upto[A] = Place(upto[A \ {m}], m)
      BY <1>6
    <3>3. Clustering(upto[A \ {m}], A \ {m})
      BY <3>1
    <3>4. IsFiniteSet(A) /\ A \subseteq Met /\ Distinct(A) /\ \A n \in A : n.finding.line # NoLine
      BY <1>1
    <3> HIDE DEF upto, m, T
    <3>5. Clustering(Place(upto[A \ {m}], m), A)
      BY <3>1, <3>3, <3>4, PlaceKeeps
    <3> QED BY <3>2, <3>5
  <2> HIDE DEF T
  <2>3. \A A \in SUBSET G : A \in T
    BY <2>1, <2>2, SetInduction
  <2> QED BY <2>3 DEF T
<1>8. Clustered(G) = upto[G]
  BY DEF Clustered
<1> HIDE DEF upto
<1> QED BY <1>7, <1>8

(* What becomes of a group: its clusters share it out among them.              *)
LEMMA GroupOf ==
  ASSUME LineAssumption, NEW M, IsFiniteSet(M), M \subseteq Met, Distinct(M), NEW G \in Groups(M)
  PROVE  /\ G \subseteq M /\ \A m \in G : ~Alone(m)
         /\ \A m \in G : \A n \in M : ~Alone(n) /\ Key(n) = Key(m) <=> n \in G
         /\ \A m \in G : \E c \in ToSet(Clustered(G)) : m \in c
         /\ \A c \in ToSet(Clustered(G)) : c \subseteq G /\ c # {} /\ Together(c)
         /\ \A c, d \in ToSet(Clustered(G)) : c \cap d # {} => c = d
<1>1. PICK x \in M : ~Alone(x) /\ G = {n \in M : ~Alone(n) /\ Key(n) = Key(x)}
  BY DEF Groups
<1>2. /\ G \subseteq M /\ \A m \in G : ~Alone(m)
      /\ \A m \in G : \A n \in M : ~Alone(n) /\ Key(n) = Key(m) <=> n \in G
  BY <1>1
<1>3. Clustering(Clustered(G), G)
  <2>1. IsFiniteSet(G) /\ G \subseteq Met /\ Distinct(G)
    BY <1>2, FS_Subset DEF Distinct
  <2>2. \A n \in G : n.finding.line # NoLine
    BY <1>2 DEF Alone
  <2> QED BY <2>1, <2>2, ClusteredOf
<1> DEFINE cs == Clustered(G)
<1> HIDE DEF cs
<1>4. ToSet(cs) = {cs[i] : i \in DOMAIN cs}
  BY DEF ToSet
<1>5. Clustering(cs, G)
  BY <1>3 DEF cs
<1>6. \A i \in DOMAIN cs : cs[i] \subseteq G
  <2>1. cs \in Seq(SUBSET G)
    BY <1>5 DEF Clustering
  <2> TAKE i \in DOMAIN cs
  <2>2. cs[i] \in SUBSET G
    BY <2>1
  <2> QED BY <2>2
<1>7. /\ \A m \in G : \E c \in ToSet(cs) : m \in c
      /\ \A c \in ToSet(cs) : c \subseteq G /\ c # {} /\ Together(c)
      /\ \A c, d \in ToSet(cs) : c \cap d # {} => c = d
  BY <1>4, <1>5, <1>6 DEF Clustering
<1> QED BY <1>2, <1>7 DEF cs

(* The clusters of the members of M share them out among them, one cluster     *)
(* having one file and one category, one member of a lane, and lines that are  *)
(* close; nothing is put with a finding that has no line.                      *)
Akin(c) ==
  /\ \A m, n \in c : m.lane = n.lane => m = n
  /\ \A m, n \in c : Key(m) = Key(n)
  /\ \A m, n \in c :
       \/ m = n
       \/ /\ m.finding.line # NoLine /\ n.finding.line # NoLine
          /\ \/ m.finding.line - n.finding.line \in -3..3
             \/ \E k \in c : k.finding.line # NoLine /\ k.finding.line < 0

LEMMA TogetherAkin ==
  ASSUME LineAssumption, NEW c, c \subseteq Met, \A m \in c : ~Alone(m),
         \A m, n \in c : Key(m) = Key(n), Together(c)
  PROVE  Akin(c)
<1>1. \A m \in c : m.finding.line # NoLine /\ m.finding.line \in Int
  <2> TAKE m \in c
  <2>1. m.finding \in Normal /\ m.finding.line # NoLine
    BY DEF Met, Alone
  <2> QED BY <2>1 DEF Normal, Ints, LineAssumption
<1>2. PICK low \in c : \A m \in c :
        /\ low.finding.line <= m.finding.line
        /\ m.finding.line - low.finding.line <= 3 \/ low.finding.line < 0
  BY DEF Together
<1>3. \A m, n \in c : low.finding.line < 0 \/ m.finding.line - n.finding.line \in -3..3
  BY <1>1, <1>2
<1> QED BY <1>1, <1>3 DEF Akin, Together

LEMMA ClustersOf ==
  ASSUME LineAssumption, NEW M, IsFiniteSet(M), M \subseteq Met, Distinct(M)
  PROVE  /\ \A m \in M : \E c \in Clusters(M) : m \in c
         /\ \A c \in Clusters(M) : c \subseteq M /\ c # {} /\ Akin(c)
         /\ \A c, d \in Clusters(M) : c \cap d # {} => c = d
<1> DEFINE Single(c) == \E m \in M : Alone(m) /\ c = {m}
           Grouped(c) == \E G \in Groups(M) : c \in ToSet(Clustered(G))
<1>1. \A c : c \in Clusters(M) <=> Single(c) \/ Grouped(c)
  BY DEF Clusters
<1>2. \A m \in M : ~Alone(m) => \E G \in Groups(M) : m \in G
  <2> TAKE m \in M
  <2> HAVE ~Alone(m)
  <2>1. {n \in M : ~Alone(n) /\ Key(n) = Key(m)} \in Groups(M)
    BY DEF Groups
  <2> QED BY <2>1
<1>3. \A G \in Groups(M) :
        /\ G \subseteq M /\ \A m \in G : ~Alone(m)
        /\ \A m \in G : \A n \in M : ~Alone(n) /\ Key(n) = Key(m) <=> n \in G
        /\ \A m \in G : \E c \in ToSet(Clustered(G)) : m \in c
        /\ \A c \in ToSet(Clustered(G)) : c \subseteq G /\ c # {} /\ Together(c)
        /\ \A c, d \in ToSet(Clustered(G)) : c \cap d # {} => c = d
  BY GroupOf
<1>4. \A m \in M : \E c \in Clusters(M) : m \in c
  <2> TAKE m \in M
  <2>1. CASE Alone(m)
    BY <1>1, <2>1
  <2>2. CASE ~Alone(m)
    BY <1>1, <1>2, <1>3, <2>2
  <2> QED BY <2>1, <2>2
<1>5. \A c \in Clusters(M) : c \subseteq M /\ c # {} /\ Akin(c)
  <2> TAKE c \in Clusters(M)
  <2>1. CASE Single(c)
    BY <2>1 DEF Akin
  <2>2. CASE Grouped(c)
    <3>1. PICK G \in Groups(M) : c \in ToSet(Clustered(G))
      BY <2>2
    <3>2. c \subseteq G /\ c # {} /\ Together(c) /\ G \subseteq M /\ \A m \in G : ~Alone(m)
      BY <1>3, <3>1
    <3>3. \A m, n \in c : Key(m) = Key(n)
      BY <1>3, <3>1, <3>2
    <3>4. c \subseteq Met /\ \A m \in c : ~Alone(m)
      BY <3>2
    <3>5. Akin(c)
      BY <3>2, <3>3, <3>4, TogetherAkin
    <3> QED BY <3>2, <3>5
  <2> QED BY <1>1, <2>1, <2>2
<1>6. ASSUME NEW c \in Clusters(M), NEW d \in Clusters(M), NEW m, m \in c, m \in d
      PROVE  c = d
  <2>1. CASE Single(c) /\ Single(d)
    BY <1>6, <2>1
  <2>2. ~(Single(c) /\ Grouped(d)) /\ ~(Grouped(c) /\ Single(d))
    BY <1>3, <1>6
  <2>3. CASE Grouped(c) /\ Grouped(d)
    <3>1. PICK G \in Groups(M) : c \in ToSet(Clustered(G))
      BY <2>3
    <3>2. PICK H \in Groups(M) : d \in ToSet(Clustered(H))
      BY <2>3
    <3>3. m \in G /\ m \in H /\ G \subseteq M /\ H \subseteq M
      BY <1>3, <1>6, <3>1, <3>2
    <3>4. G = H
      <4>1. \A n \in M : n \in G <=> n \in H
        BY <1>3, <3>3
      <4> QED BY <3>3, <4>1
    <3> QED BY <1>3, <1>6, <3>1, <3>2, <3>4
  <2> QED BY <1>1, <2>1, <2>2, <2>3
<1> QED BY <1>4, <1>5, <1>6

(* What a lane that was accepted found, before and after the parsing.          *)
LEMMA GivenOf ==
  ASSUME ReviewAssumption, LineAssumption, ReviewTypeOK, NEW i \in DOMAIN run
  PROVE  /\ i \in Nat /\ DOMAIN Given(i) \subseteq Nat /\ IsFiniteSet(DOMAIN Given(i))
         /\ i \in With("accepted") => Results[i] = Parse(run[i].text) /\ DOMAIN Results[i] = DOMAIN Given(i)
         /\ \A j \in DOMAIN Given(i) :
              /\ i \in With("accepted")
              /\ Given(i)[j] \in Finding /\ Results[i][j] \in Normal
              /\ Results[i][j].severity = Severity(Given(i)[j].severity)
              /\ Results[i][j].category = Category(Given(i)[j].category)
              /\ Results[i][j].line = Line(Given(i)[j].line)
              /\ Results[i][j].file = Given(i)[j].file
              /\ Results[i][j].cites = Given(i)[j].cites
<1>1. i \in Nat /\ run[i] \in State
  BY DEF ReviewTypeOK
<1>2. CASE run[i].pc # "accepted"
  <2>1. Given(i) = <<>> /\ i \notin With("accepted") /\ DOMAIN <<>> = {}
    BY <1>2 DEF Given, With
  <2> QED BY <1>1, <2>1, FS_EmptySet
<1>3. CASE run[i].pc = "accepted"
  <2>1. run[i].text \in Answers
    BY <1>1, <1>3 DEF State, Waiting
  <2>2. i \in With("accepted") /\ Results[i] = Parse(run[i].text)
    BY <1>3 DEF With, Results
  <2> DEFINE fs == Extract(run[i].text).findings
             kept == {k \in DOMAIN fs : fs[k].titled}
  <2>3. Given(i) = [j \in kept |-> fs[j]]
    BY <1>3 DEF Given
  <2>4. /\ kept \subseteq Nat /\ IsFiniteSet(kept)
        /\ DOMAIN Parse(run[i].text) = kept
        /\ \A j \in kept :
             /\ Parse(run[i].text)[j] \in Normal /\ fs[j] \in Finding
             /\ Parse(run[i].text)[j].severity = Severity(fs[j].severity)
             /\ Parse(run[i].text)[j].category = Category(fs[j].category)
             /\ Parse(run[i].text)[j].line = Line(fs[j].line)
             /\ Parse(run[i].text)[j].file = fs[j].file
             /\ Parse(run[i].text)[j].cites = fs[j].cites
    BY <2>1, ParseOf
  <2> HIDE DEF fs, kept
  <2> QED BY <1>1, <2>2, <2>3, <2>4
<1> QED BY <1>2, <1>3

(* The members that Merge sees are what the lanes found, each once.            *)
Quotes(m) ==
  LET f == Given(m.lane)[m.nth]
  IN  /\ m.finding.severity = Severity(f.severity) /\ m.finding.category = Category(f.category)
      /\ m.finding.line = Line(f.line) /\ m.finding.file = Norm(f.file) /\ m.finding.cites = f.cites

LEMMA MembersOf ==
  ASSUME ReviewAssumption, LineAssumption, ReviewTypeOK
  PROVE  LET M == Members(Results)
         IN  /\ IsFiniteSet(M) /\ M \subseteq Met /\ Distinct(M)
             /\ \A m \in M : m.lane \in DOMAIN run /\ m.nth \in DOMAIN Given(m.lane) /\ Quotes(m)
             /\ \A i \in DOMAIN run : \A j \in DOMAIN Given(i) : \E m \in M : m.lane = i /\ m.nth = j
<1> DEFINE M == Members(Results)
           A == With("accepted")
           of == [i \in A |-> {Member(i, j, Results[i][j]) : j \in DOMAIN Results[i]}]
<1>1. A \subseteq DOMAIN run /\ IsFiniteSet(A) /\ DOMAIN Results = A
  <2>1. A \subseteq DOMAIN run /\ DOMAIN Results = A
    BY DEF With, Results
  <2>2. DOMAIN run = 1..Len(run) /\ Len(run) \in Nat
    BY DEF ReviewTypeOK
  <2> HIDE DEF A
  <2>3. IsFiniteSet(1..Len(run))
    BY <2>2, FS_Interval
  <2>4. IsFiniteSet(A)
    BY <2>1, <2>2, <2>3, FS_Subset
  <2> QED BY <2>1, <2>4
<1>2. M = UNION {of[i] : i \in A}
  BY <1>1 DEF Members
<1> HIDE DEF A, M
<1>3. \A i \in A : IsFiniteSet(of[i])
  <2> TAKE i \in A
  <2> DEFINE K == DOMAIN Results[i]
             member == [j \in K |-> {Member(i, j, Results[i][j])}]
  <2>1. IsFiniteSet(K)
    BY <1>1, GivenOf DEF A
  <2>2. \A j \in K : IsFiniteSet(member[j])
    BY FS_Singleton
  <2>3. of[i] = UNION {member[j] : j \in K}
    <3>1. of[i] = {Member(i, j, Results[i][j]) : j \in K}
      OBVIOUS
    <3>2. \A j \in K : member[j] = {Member(i, j, Results[i][j])}
      OBVIOUS
    <3> HIDE DEF of, member, K
    <3> QED BY <3>1, <3>2
  <2> HIDE DEF K, member, of
  <2>4. IsFiniteSet(UNION {member[j] : j \in K})
    BY <2>1, <2>2, FiniteUnion
  <2> QED BY <2>3, <2>4
<1>4. IsFiniteSet(M)
  <2> HIDE DEF of
  <2> QED BY <1>1, <1>2, <1>3, FiniteUnion
<1>5. \A m : m \in M <=> \E i \in A : \E j \in DOMAIN Given(i) : m = Member(i, j, Results[i][j])
  <2>1. \A i \in A : DOMAIN Results[i] = DOMAIN Given(i)
    BY <1>1, GivenOf DEF A
  <2> QED BY <1>2, <2>1
<1>6. ASSUME NEW i \in A, NEW j \in DOMAIN Given(i), NEW m, m = Member(i, j, Results[i][j])
      PROVE  m \in Met /\ m.lane = i /\ m.nth = j /\ Quotes(m)
  <2> DEFINE r == Results[i][j]
             f == Given(i)[j]
  <2>1. /\ i \in Nat /\ j \in Nat /\ r \in Normal
        /\ r.severity = Severity(f.severity) /\ r.category = Category(f.category)
        /\ r.line = Line(f.line) /\ r.file = f.file /\ r.cites = f.cites
    BY <1>1, GivenOf
  <2>2. m = [lane |-> i, nth |-> j, finding |-> [r EXCEPT !.file = Norm(@)]]
    BY <1>6 DEF Member
  <2>3. Norm(r.file) \in Seq(STRING)
    <3>1. r.file \in Seq(STRING)
      BY <2>1 DEF Normal
    <3> QED BY <3>1, NormType
  <2> HIDE DEF r
  <2>4. m.lane = i /\ m.nth = j /\ m.finding = [r EXCEPT !.file = Norm(@)]
    BY <2>2
  <2>5. /\ [r EXCEPT !.file = Norm(@)] \in Normal
        /\ \A g : g = [r EXCEPT !.file = Norm(@)] =>
             /\ g.severity = r.severity /\ g.category = r.category /\ g.line = r.line
             /\ g.file = Norm(r.file) /\ g.cites = r.cites
    BY <2>1, <2>3 DEF Normal
  <2>6. m \in Met
    BY <2>1, <2>2, <2>5 DEF Met
  <2>7. Given(m.lane)[m.nth] = f
    BY <2>4
  <2> HIDE DEF f
  <2>8. Quotes(m)
    BY <2>1, <2>4, <2>5, <2>7 DEF Quotes
  <2> QED BY <2>4, <2>6, <2>8
<1>7. M \subseteq Met /\ Distinct(M)
  BY <1>5, <1>6 DEF Distinct
<1>8. \A m \in M : m.lane \in DOMAIN run /\ m.nth \in DOMAIN Given(m.lane) /\ Quotes(m)
  BY <1>1, <1>5, <1>6
<1>9. \A i \in DOMAIN run : \A j \in DOMAIN Given(i) : \E m \in M : m.lane = i /\ m.nth = j
  <2> TAKE i \in DOMAIN run
  <2> TAKE j \in DOMAIN Given(i)
  <2>1. i \in A
    BY GivenOf DEF A
  <2> QED BY <1>5, <1>6, <2>1
<1> QED BY <1>4, <1>7, <1>8, <1>9 DEF M

(* A row speaks of its cluster: the file and the category are everybody's, the *)
(* line is one of its members', and nothing in it is graver than the severity. *)
LEMMA RowOf ==
  ASSUME LineAssumption, NEW M, IsFiniteSet(M), M \subseteq Met, Distinct(M), NEW c \in Clusters(M)
  PROVE  /\ Foremost(c) \in c
         /\ \E m \in c : Gravest(c) = m.finding.severity
         /\ \A m \in c :
              /\ Row(c).file = m.finding.file /\ Row(c).category = m.finding.category
              /\ Rank(Row(c).severity) <= Rank(m.finding.severity)
         /\ \A m \in c :
              \/ Row(c).line = m.finding.line
              \/ /\ Row(c).line # NoLine /\ m.finding.line # NoLine
                 /\ \/ m.finding.line - Row(c).line \in -3..3
                    \/ \E k \in c : k.finding.line # NoLine /\ k.finding.line < 0
<1>1. c \subseteq M /\ c # {} /\ Akin(c)
  BY ClustersOf
<1>2. Foremost(c) \in c
  <2>1. IsFiniteSet(c) /\ c \subseteq Met /\ Distinct(c)
    BY <1>1, FS_Subset DEF Distinct
  <2> QED BY <1>1, <2>1, Orders
<1> DEFINE of == {m.finding.severity : m \in c}
<1>3. Gravest(c) \in of /\ \A t \in of : Rank(Gravest(c)) <= Rank(t)
  <2>1. of \subseteq Grade /\ of # {}
    <3>1. \A m \in c : m.finding \in Normal
      BY <1>1 DEF Met
    <3> QED BY <1>1, <3>1 DEF Normal
  <2>2. Rank("high") = 0 /\ Rank("medium") = 1 /\ Rank("low") = 2
    BY DEF Rank
  <2> HIDE DEF of
  <2>3. \E s \in of : \A t \in of : Rank(s) <= Rank(t)
    <3>0. \A t \in of : t = "high" \/ t = "medium" \/ t = "low"
      BY <2>1 DEF Grade
    <3>1. CASE "high" \in of
      BY <2>2, <3>0, <3>1
    <3>2. CASE "high" \notin of /\ "medium" \in of
      BY <2>2, <3>0, <3>2
    <3>3. CASE "high" \notin of /\ "medium" \notin of
      BY <2>1, <2>2, <3>0, <3>3
    <3> QED BY <3>1, <3>2, <3>3
  <2>4. Gravest(c) = CHOOSE s \in of : \A t \in of : Rank(s) <= Rank(t)
    BY DEF Gravest, of
  <2> QED BY <2>3, <2>4
<1>4. /\ Row(c).file = Foremost(c).finding.file /\ Row(c).line = Foremost(c).finding.line
      /\ Row(c).category = Foremost(c).finding.category /\ Row(c).severity = Gravest(c)
  BY DEF Row
<1>5. \A m \in c : Foremost(c).finding.file = m.finding.file /\ Foremost(c).finding.category = m.finding.category
  BY <1>1, <1>2 DEF Akin, Key
<1>6. \A m \in c :
        \/ Foremost(c).finding.line = m.finding.line
        \/ /\ Foremost(c).finding.line # NoLine /\ m.finding.line # NoLine
           /\ \/ m.finding.line - Foremost(c).finding.line \in -3..3
              \/ \E k \in c : k.finding.line # NoLine /\ k.finding.line < 0
  BY <1>1, <1>2 DEF Akin
<1> QED BY <1>2, <1>3, <1>4, <1>5, <1>6

(* The lanes are always in one of their states.                                *)
LEMMA Goes ==
  ASSUME ReviewTypeOK, NEW i \in DOMAIN run, NEW state \in State, To(i, state)
  PROVE  ReviewTypeOK'
<1>1. [run EXCEPT ![i] = state] \in Seq(State)
  BY DEF ReviewTypeOK
<1> QED BY <1>1 DEF To, ReviewTypeOK

LEMMA FailedGoes ==
  ASSUME ReviewAssumption, ReviewTypeOK, NEW i \in DOMAIN run, run[i] \in Waiting,
         NEW kind \in {"generate", "parse"}, AttemptFailed(i, kind)
  PROVE  ReviewTypeOK'
<1> DEFINE state == IF run[i].attempt < RetryAttempts THEN Attempt(run[i].received, run[i].attempt + 1)
                   ELSE [pc |-> "failed", kind |-> kind]
<1>1. state \in State
  <2>1. run[i].received \in Received /\ run[i].attempt \in 1..RetryAttempts
    BY DEF Waiting
  <2>2. run[i].attempt < RetryAttempts => run[i].attempt + 1 \in 1..RetryAttempts
    BY <2>1 DEF ReviewAssumption
  <2>3. 1 \in 1..Tries /\ 1 \in 1..2
    BY DEF ReviewAssumption
  <2> QED BY <2>1, <2>2, <2>3 DEF Attempt, State, Waiting
<1>2. To(i, state)
  BY DEF AttemptFailed
<1> HIDE DEF state
<1> QED BY <1>1, <1>2, Goes

LEMMA LaneGoes ==
  ASSUME ReviewAssumption, ReviewTypeOK, NEW i \in DOMAIN run, LaneGoesOn(i)
  PROVE  ReviewTypeOK'
<1>1. run[i] \in State
  BY DEF ReviewTypeOK
<1>2. run[i].pc \in {"call", "tools"} => run[i] \in Waiting
  BY <1>1 DEF State
<1>3. 1 \in 1..Tries /\ 1 \in 1..2 /\ 2 \in 1..2 /\ 1 \in 1..RetryAttempts
  BY DEF ReviewAssumption
<1>4. CASE ComposePrompt(i)
  <2>1. PICK state \in State : To(i, state)
    <3>1. \A received \in Received : Attempt(received, 1) \in State
      BY <1>3 DEF Attempt, State, Waiting
    <3>2. [pc |-> "failed", kind |-> "compose"] \in State /\ [pc |-> "failed", kind |-> "evicted"] \in State
      BY DEF State
    <3> QED BY <1>4, <3>1, <3>2 DEF ComposePrompt
  <2> QED BY <2>1, Goes
<1>5. CASE Fails(i)
  <2>1. PICK o \in Outcomes : CallFails(i, o.error) /\ run[i].pc = "call"
    BY <1>5 DEF Fails
  <2>2. CASE AttemptFailed(i, "generate")
    BY <1>2, <2>1, <2>2, FailedGoes
  <2>3. CASE run[i].try # Tries /\ To(i, [run[i] EXCEPT !.try = @ + 1])
    <3>1. [run[i] EXCEPT !.try = @ + 1] \in State
      BY <1>2, <2>1, <2>3 DEF Waiting, State, ReviewAssumption
    <3> QED BY <2>3, <3>1, Goes
  <2> QED BY <2>1, <2>2, <2>3 DEF CallFails
<1>6. CASE AsksForTools(i)
  <2>1. [run[i] EXCEPT !.pc = "tools"] \in State
    BY <1>2, <1>6 DEF AsksForTools, Waiting, State
  <2> QED BY <1>6, <2>1, Goes DEF AsksForTools
<1>7. CASE Tools(i)
  <2>1. [run[i] EXCEPT !.pc = "call", !.turn = 2, !.try = 1] \in State
    BY <1>2, <1>3, <1>7 DEF Tools, Waiting, State
  <2> QED BY <1>7, <2>1, Goes DEF Tools
<1>8. CASE TakeAnswer(i)
  <2>1. run[i] \in Waiting
    BY <1>2, <1>8 DEF TakeAnswer
  <2>2. PICK text \in Answers :
          \/ To(i, [pc |-> "accepted", received |-> run[i].received, text |-> text])
          \/ AttemptFailed(i, "parse")
    BY <1>8 DEF TakeAnswer
  <2>3. [pc |-> "accepted", received |-> run[i].received, text |-> text] \in State
    BY <2>1 DEF Waiting, State
  <2> QED BY <2>1, <2>2, <2>3, Goes, FailedGoes
<1>9. CASE SaysNothing(i)
  <2>1. run[i] \in Waiting
    BY <1>2, <1>9 DEF SaysNothing
  <2>2. PICK kind \in {"generate", "parse"} : AttemptFailed(i, kind)
    BY <1>9 DEF SaysNothing
  <2> QED BY <2>1, <2>2, FailedGoes
<1> QED BY <1>4, <1>5, <1>6, <1>7, <1>8, <1>9 DEF LaneGoesOn

(* Whatever the files hold, the registry is a sequence of declarations.        *)
LEMMA RegistryOf ==
  ASSUME ReviewAssumption, NEW files \in Registries
  PROVE  Registry(files) \in Seq(Declared)
<1> DEFINE a == files.canonical
           b == files.overlay
<1>1. a \in Seq(Declared) \cup {NoFile} /\ b \in Seq(Declared) \cup {NoFile}
  BY DEF ReviewAssumption
<1> HIDE DEF a, b
<1>2. ASSUME a \in Seq(Declared), b \in Seq(Declared) PROVE MergeLanes(a, b) \in Seq(Declared)
  <2> DEFINE first == [i \in DOMAIN a |-> IF a[i].id \in Ids(b) THEN CHOOSE l \in ToSet(b) : l.id = a[i].id ELSE a[i]]
             rest == Among(b, {l \in ToSet(b) : l.id \notin Ids(a)})
  <2>1. \A i \in DOMAIN a : first[i] \in Declared
    <3> TAKE i \in DOMAIN a
    <3>1. a[i] \in Declared
      BY <1>2
    <3>2. ASSUME a[i].id \in Ids(b) PROVE (CHOOSE l \in ToSet(b) : l.id = a[i].id) \in Declared
      <4>1. \A l \in ToSet(b) : l \in Declared
        BY <1>2 DEF ToSet
      <4>2. \E l \in ToSet(b) : l.id = a[i].id
        BY <3>2 DEF Ids, ToSet
      <4> QED BY <4>1, <4>2
    <3> QED BY <3>1, <3>2
  <2>2. first \in Seq(Declared)
    <3>1. DOMAIN a = 1..Len(a) /\ Len(a) \in Nat
      BY <1>2
    <3>2. first = [i \in 1..Len(a) |-> first[i]]
      BY <3>1
    <3> HIDE DEF first
    <3>3. first \in [1..Len(a) -> Declared]
      BY <2>1, <3>1, <3>2
    <3> QED BY <3>1, <3>3
  <2>3. rest \in Seq(Declared)
    BY <1>2, AmongKeeps
  <2>4. MergeLanes(a, b) = first \o rest
    BY DEF MergeLanes
  <2> HIDE DEF first, rest
  <2> QED BY <2>2, <2>3, <2>4
<1>3. <<>> \in Seq(Declared)
  OBVIOUS
<1> QED BY <1>1, <1>2, <1>3 DEF Registry, a, b

(* Every lane of a review is in one of its states: off, composing, at some     *)
(* attempt's try, failed for one of the kinds, or with an answer that was      *)
(* accepted (generateMultiReview, executeLaneWithOptions).                     *)
THEOREM ReviewTypeCorrect ==
  ASSUME ReviewAssumption
  PROVE  ReviewSpec => []ReviewTypeOK
<1>1. ReviewInit => ReviewTypeOK
  BY DEF ReviewInit, ReviewTypeOK
<1>2. ReviewTypeOK /\ [ReviewNext]_reviewVars => ReviewTypeOK'
  <2> SUFFICES ASSUME ReviewTypeOK, [ReviewNext]_reviewVars PROVE ReviewTypeOK'
    OBVIOUS
  <2>1. CASE Load
    <3>1. PICK files \in Registries :
            LET ls == IF LoadFails(files) THEN <<>> ELSE Registry(files)
            IN  \/ phase' = "done" /\ UNCHANGED <<setup, lanes, run>> /\ mode' \in {"single", "error"}
                \/ /\ phase' = "fan" /\ UNCHANGED <<setup, mode>>
                   /\ lanes' = ls /\ run' = [i \in DOMAIN ls |-> Prepared(ls[i])]
      BY <2>1 DEF Load
    <3> DEFINE ls == IF LoadFails(files) THEN <<>> ELSE Registry(files)
    <3>2. ls \in Seq(Declared)
      BY RegistryOf
    <3> HIDE DEF ls
    <3>3. \A i \in DOMAIN ls : Prepared(ls[i]) \in State
      BY DEF Prepared, State
    <3>4. [i \in DOMAIN ls |-> Prepared(ls[i])] \in Seq(State)
      <4>1. DOMAIN ls = 1..Len(ls) /\ Len(ls) \in Nat
        BY <3>2
      <4> QED BY <3>3, <4>1
    <3> QED BY <3>1, <3>2, <3>4 DEF ReviewTypeOK, ls
  <2>2. ASSUME NEW i \in DOMAIN run, LaneGoesOn(i) PROVE ReviewTypeOK'
    BY <2>2, LaneGoes
  <2>3. CASE Render
    BY <2>3 DEF Render, ReviewTypeOK
  <2>4. CASE UNCHANGED reviewVars
    BY <2>4 DEF reviewVars, ReviewTypeOK
  <2> QED BY <2>1, <2>2, <2>3, <2>4 DEF ReviewNext
<1> QED BY <1>1, <1>2, PTL DEF ReviewSpec

(* What a report that is not silenced consists of.                             *)
LEMMA PostedOf ==
  ASSUME Told
  PROVE  LET M == Members(Results)
             shown(c) == Shown(Row(c), ReceivedChunks, Changes)
         IN  /\ Posted.verdict = Verdict(Merge(Results), With("failed"))
             /\ DOMAIN Merge(Results) = Clusters(M) /\ DOMAIN Posted.rows = Clusters(M)
             /\ \A c \in Clusters(M) : Merge(Results)[c] = Row(c) /\ Posted.rows[c] = shown(c)
BY DEF Told, Posted, Rendered, Merge

(* A cluster's row and a member of it, as the lane wrote it.                   *)
LEMMA ShownOf ==
  ASSUME ReviewAssumption, LineAssumption, ReviewTypeOK, Told,
         NEW c \in Clusters(Members(Results)), NEW m \in c
  PROVE  LET f == Given(m.lane)[m.nth]
             r == Posted.rows[c]
         IN  /\ m \in Members(Results) /\ m.lane \in DOMAIN run /\ m.nth \in DOMAIN Given(m.lane)
             /\ Quotes(m) /\ Line(f.line) \in Ints \cup {NoLine}
             /\ m.lane \in r.reportedBy /\ r.file = Norm(Norm(f.file))
             /\ r.category = Category(f.category) /\ r.severity = Row(c).severity
             /\ Near(Line(f.line), r) /\ Rank(r.severity) <= Rank(Severity(f.severity))
<1> DEFINE M == Members(Results)
           f == Given(m.lane)[m.nth]
           r == Posted.rows[c]
<1>1. IsFiniteSet(M) /\ M \subseteq Met /\ Distinct(M)
  BY MembersOf
<1>2. c \subseteq M
  <2> HIDE DEF M
  <2> QED BY <1>1, ClustersOf DEF M
<1>3. \A k \in c : k \in Met /\ k.lane \in DOMAIN run /\ k.nth \in DOMAIN Given(k.lane) /\ Quotes(k)
  BY <1>1, <1>2, MembersOf
<1>4. /\ r.file = Norm(Row(c).file) /\ r.line = Row(c).line /\ r.category = Row(c).category
      /\ r.severity = Row(c).severity /\ r.reportedBy = {k.lane : k \in c}
  <2>1. r = Shown(Row(c), ReceivedChunks, Changes)
    BY PostedOf
  <2>2. Row(c).reportedBy = {k.lane : k \in c}
    BY DEF Row
  <2> HIDE DEF r
  <2> QED BY <2>1, <2>2 DEF Shown
<1>5. /\ Row(c).file = m.finding.file /\ Row(c).category = m.finding.category
      /\ Rank(Row(c).severity) <= Rank(m.finding.severity)
      /\ \/ Row(c).line = m.finding.line
         \/ /\ Row(c).line # NoLine /\ m.finding.line # NoLine
            /\ \/ m.finding.line - Row(c).line \in -3..3
               \/ \E k \in c : k.finding.line # NoLine /\ k.finding.line < 0
  <2> HIDE DEF M
  <2> QED BY <1>1, RowOf DEF M
<1>6. m.finding.line = Line(f.line) /\ m.finding.line \in Ints \cup {NoLine}
  <2>1. m.finding \in Normal
    BY <1>3 DEF Met
  <2> QED BY <1>3, <2>1 DEF Quotes, Normal
<1>7. \A k \in c : k.finding.line # NoLine /\ k.finding.line < 0 => \E i \in r.reportedBy : BelowZero(i, r)
  <2> SUFFICES ASSUME NEW k \in c, k.finding.line # NoLine, k.finding.line < 0
               PROVE  \E i \in r.reportedBy : BelowZero(i, r)
    OBVIOUS
  <2> DEFINE g == Given(k.lane)[k.nth]
  <2>1. /\ k.nth \in DOMAIN Given(k.lane) /\ k.finding.line = Line(g.line)
        /\ k.finding.file = Norm(g.file) /\ k.finding.category = Category(g.category)
    BY <1>3 DEF Quotes
  <2>2. Row(c).file = k.finding.file /\ Row(c).category = k.finding.category
    <3> HIDE DEF M
    <3> QED BY <1>1, RowOf DEF M
  <2>3. r.file = Norm(Norm(g.file)) /\ r.category = Category(g.category)
    BY <1>4, <2>1, <2>2
  <2> HIDE DEF r
  <2>4. BelowZero(k.lane, r)
    BY <2>1, <2>3 DEF BelowZero
  <2> QED BY <1>4, <2>4
<1>8. Near(Line(f.line), r)
  <2> HIDE DEF f, r
  <2>1. CASE m.finding.line = NoLine
    BY <1>4, <1>5, <1>6, <2>1 DEF Near
  <2>2. CASE m.finding.line # NoLine /\ r.line = m.finding.line
    BY <1>6, <2>2 DEF Near, Ints, LineAssumption
  <2>3. CASE m.finding.line # NoLine /\ r.line # m.finding.line
    BY <1>4, <1>5, <1>6, <1>7, <2>3 DEF Near
  <2> QED BY <2>1, <2>2, <2>3
<1> QED BY <1>2, <1>3, <1>4, <1>5, <1>6, <1>8 DEF Quotes

(* Nothing a lane found gets lost or becomes less grave.                       *)
LEMMA NoneSinks ==
  ASSUME ReviewAssumption, LineAssumption, ReviewTypeOK
  PROVE  NothingSinks
<1> SUFFICES ASSUME Told PROVE NothingSinks
  BY DEF NothingSinks
<1> DEFINE M == Members(Results)
           rows == Merge(Results)
<1>1. /\ Posted.verdict = Verdict(rows, With("failed"))
      /\ DOMAIN rows = Clusters(M) /\ DOMAIN Posted.rows = Clusters(M)
      /\ \A c \in Clusters(M) : rows[c] = Row(c)
  BY PostedOf
<1>2. (Posted.verdict = "Incomplete") <=> With("failed") # {}
  BY <1>1 DEF Verdict
<1>3. ASSUME NEW i \in DOMAIN run, NEW j \in DOMAIN Given(i)
      PROVE  LET f == Given(i)[j] IN
             /\ With("failed") = {} => Posted.verdict \in Needs(Severity(f.severity))
             /\ \E c \in DOMAIN Posted.rows :
                  LET r == Posted.rows[c] IN
                  /\ i \in r.reportedBy /\ r.file = Norm(Norm(f.file))
                  /\ r.category = Category(f.category) /\ Near(Line(f.line), r)
                  /\ Rank(r.severity) <= Rank(Severity(f.severity))
  <2> DEFINE f == Given(i)[j]
  <2>1. PICK m \in M : m.lane = i /\ m.nth = j
    BY MembersOf
  <2>2. PICK c \in Clusters(M) : m \in c
    <3>1. IsFiniteSet(M) /\ M \subseteq Met /\ Distinct(M)
      BY MembersOf
    <3> HIDE DEF M
    <3> QED BY <2>1, <3>1, ClustersOf
  <2> DEFINE r == Posted.rows[c]
  <2>3. /\ i \in r.reportedBy /\ r.file = Norm(Norm(f.file))
        /\ r.category = Category(f.category) /\ Near(Line(f.line), r)
        /\ r.severity = Row(c).severity
        /\ Rank(r.severity) <= Rank(Severity(f.severity))
    BY <2>1, <2>2, ShownOf
  <2>4. c \in DOMAIN rows /\ rows[c].severity = r.severity
    BY <1>1, <2>2, <2>3
  <2> HIDE DEF M, rows, f, r
  <2>5. Severity(f.severity) \in Grade
    BY DEF Severity, Grade
  <2>6. With("failed") = {} => Posted.verdict \in Needs(Severity(f.severity))
    <3> HAVE With("failed") = {}
    <3> DEFINE severities == {rows[n].severity : n \in DOMAIN rows}
    <3>1. r.severity \in severities
      BY <2>4
    <3>2. Posted.verdict = IF "high" \in severities THEN "Needs changes"
                           ELSE IF "medium" \in severities THEN "Comments" ELSE "Approved"
      BY <1>1 DEF Verdict
    <3> HIDE DEF severities
    <3>3. CASE Severity(f.severity) = "high"
      <4>1. r.severity = "high"
        BY <2>3, <3>3 DEF Rank
      <4> QED BY <3>1, <3>2, <3>3, <4>1 DEF Needs
    <3>4. CASE Severity(f.severity) = "medium"
      <4>1. r.severity \in {"high", "medium"}
        BY <2>3, <3>4 DEF Rank
      <4> QED BY <3>1, <3>2, <3>4, <4>1 DEF Needs
    <3>5. CASE Severity(f.severity) = "low"
      BY <3>2, <3>5 DEF Needs
    <3> QED BY <2>5, <3>3, <3>4, <3>5 DEF Grade
  <2>7. c \in DOMAIN Posted.rows
    BY <1>1, <2>2
  <2> QED BY <2>3, <2>6, <2>7 DEF f, r
<1> QED BY <1>2, <1>3 DEF NothingSinks

THEOREM FindingsKept ==
  ASSUME ReviewAssumption, LineAssumption
  PROVE  ReviewSpec => []NothingSinks
<1>1. ReviewTypeOK => NothingSinks
  BY NoneSinks
<1> QED BY <1>1, ReviewTypeCorrect, PTL

(* A lane is in as many rows as it has findings: a finding corresponds to the  *)
(* cluster it is in, which has no other one of its lane.                       *)
LEMMA EachOnce ==
  ASSUME ReviewAssumption, LineAssumption, ReviewTypeOK
  PROVE  EveryFindingOnce
<1> SUFFICES ASSUME Told, NEW i \in DOMAIN run
             PROVE  Cardinality(DOMAIN Given(i)) = Cardinality({c \in DOMAIN Posted.rows : i \in Posted.rows[c].reportedBy})
  BY DEF EveryFindingOnce
<1> DEFINE M == Members(Results)
           C == Clusters(M)
           K == DOMAIN Given(i)
           T == {c \in DOMAIN Posted.rows : i \in Posted.rows[c].reportedBy}
           P(j, c) == c \in C /\ \E m \in c : m.lane = i /\ m.nth = j
           home(j) == CHOOSE c \in C : \E m \in c : m.lane = i /\ m.nth = j
           f == [j \in K |-> home(j)]
<1>1. /\ IsFiniteSet(M) /\ M \subseteq Met /\ Distinct(M)
      /\ \A j \in K : \E m \in M : m.lane = i /\ m.nth = j
      /\ \A m \in M : m.nth \in DOMAIN Given(m.lane)
  BY MembersOf
<1>2. /\ \A m \in M : \E c \in C : m \in c
      /\ \A c \in C : c \subseteq M /\ Akin(c)
      /\ \A c, d \in C : c \cap d # {} => c = d
  <2> HIDE DEF M
  <2> QED BY <1>1, ClustersOf
<1>3. \A c : c \in T <=> c \in C /\ \E m \in c : m.lane = i
  <2>1. DOMAIN Posted.rows = C /\ \A c \in C : Posted.rows[c] = Shown(Row(c), ReceivedChunks, Changes)
    BY PostedOf
  <2>2. \A c : Row(c).reportedBy = {m.lane : m \in c}
    BY DEF Row
  <2>3. \A c \in C : Posted.rows[c].reportedBy = {m.lane : m \in c}
    <3> TAKE c \in C
    <3> DEFINE row == Row(c)
    <3>1. Posted.rows[c] = Shown(row, ReceivedChunks, Changes) /\ row.reportedBy = {m.lane : m \in c}
      BY <2>1, <2>2
    <3> HIDE DEF row, C
    <3> QED BY <3>1 DEF Shown
  <2> HIDE DEF C
  <2> QED BY <2>1, <2>3
<1>4. IsFiniteSet(K)
  BY GivenOf
<1> HIDE DEF M, C, K, T
<1>5. \A j \in K : P(j, home(j))
  <2> TAKE j \in K
  <2>1. \E c \in C : \E m \in c : m.lane = i /\ m.nth = j
    BY <1>1, <1>2
  <2> QED BY <2>1
<1> HIDE DEF home
<1>6. f \in [K -> T] /\ \A j \in K : P(j, f[j])
  BY <1>3, <1>5
<1> HIDE DEF f
<1>7. ASSUME NEW j \in K, NEW k \in K, f[j] = f[k] PROVE j = k
  BY <1>2, <1>6, <1>7 DEF Akin
<1>8. ASSUME NEW c \in T PROVE \E j \in K : f[j] = c
  <2>1. PICK m \in c : c \in C /\ m.lane = i
    BY <1>3
  <2>2. m \in M /\ m.nth \in K
    BY <1>1, <1>2, <2>1 DEF K
  <2>3. PICK n \in f[m.nth] : f[m.nth] \in C /\ n.lane = i /\ n.nth = m.nth
    BY <1>6, <2>2
  <2>4. n = m
    BY <1>1, <1>2, <2>1, <2>2, <2>3 DEF Distinct
  <2> QED BY <1>2, <2>1, <2>2, <2>3, <2>4
<1>9. Cardinality(T) = Cardinality(K)
  BY <1>4, <1>6, <1>7, <1>8, SameSize
<1> QED BY <1>9 DEF K, T

THEOREM FindingsOnce ==
  ASSUME ReviewAssumption, LineAssumption
  PROVE  ReviewSpec => []EveryFindingOnce
<1>1. ReviewTypeOK => EveryFindingOnce
  BY EachOnce
<1> QED BY <1>1, ReviewTypeCorrect, PTL

(* What a row cites, and what of it counts as verified.                        *)
LEMMA CitesOf ==
  ASSUME Told, NEW c \in Clusters(Members(Results))
  PROVE  LET cites == Posted.rows[c].cites
         IN  /\ DOMAIN cites = Cited(c)
             /\ \A p \in Cited(c) :
                  /\ cites[p].chunk = p[1].finding.cites[p[2]]
                  /\ cites[p].verified <=> p[1].finding.cites[p[2]] \in ReceivedChunks[p[1].lane]
<1> DEFINE row == Row(c)
<1>1. Posted.rows[c] = Shown(row, ReceivedChunks, Changes)
  BY PostedOf
<1>2. row.cites = [p \in Cited(c) |-> [chunk |-> p[1].finding.cites[p[2]], lane |-> p[1].lane]]
  BY DEF Row, Citations
<1> HIDE DEF row
<1>3. Posted.rows[c].cites =
        [p \in DOMAIN row.cites |-> [chunk |-> row.cites[p].chunk, verified |-> Verified(row.cites[p], ReceivedChunks)]]
  BY <1>1 DEF Shown
<1>4. DOMAIN row.cites = Cited(c)
  BY <1>2
<1>5. \A p \in Cited(c) : row.cites[p].chunk = p[1].finding.cites[p[2]] /\ row.cites[p].lane = p[1].lane
  BY <1>2
<1>6. \A p \in Cited(c) :
        /\ Posted.rows[c].cites[p].chunk = row.cites[p].chunk
        /\ Posted.rows[c].cites[p].verified = Verified(row.cites[p], ReceivedChunks)
  BY <1>3, <1>4
<1>7. \A p \in Cited(c) : Verified(row.cites[p], ReceivedChunks) <=> p[1].finding.cites[p[2]] \in ReceivedChunks[p[1].lane]
  BY <1>5 DEF Verified
<1> QED BY <1>3, <1>4, <1>5, <1>6, <1>7

(* As many citations count as verified as the lanes gave of chunks they        *)
(* received: a lane's citation corresponds to that of its cluster's row.       *)
LEMMA EarnedFinite ==
  ASSUME ReviewAssumption, LineAssumption, ReviewTypeOK
  PROVE  IsFiniteSet(UNION {{i} \X Earned(i) : i \in DOMAIN run})
<1>1. ASSUME NEW i \in DOMAIN run PROVE IsFiniteSet({i} \X Earned(i))
  <2> DEFINE K == DOMAIN Given(i)
             h == [j \in K |-> {j} \X DOMAIN Given(i)[j].cites]
  <2>1. IsFiniteSet(K) /\ \A j \in K : Given(i)[j] \in Finding
    BY GivenOf
  <2>2. ASSUME NEW j \in K PROVE IsFiniteSet(h[j])
    <3>1. Given(i)[j].cites \in Seq(Chunk)
      BY <2>1 DEF Finding
    <3> DEFINE s == Given(i)[j].cites
    <3> HIDE DEF s
    <3>2. DOMAIN s = 1..Len(s) /\ Len(s) \in Nat
      BY <3>1 DEF s
    <3>3. IsFiniteSet(DOMAIN s)
      BY <3>2, FS_Interval
    <3>4. IsFiniteSet({j} \X DOMAIN s)
      BY <3>3, FS_Singleton, FS_Product
    <3> QED BY <3>4 DEF s
  <2>3. IsFiniteSet(UNION {h[j] : j \in K})
    <3> HIDE DEF h, K
    <3> QED BY <2>1, <2>2, FiniteUnion
  <2>4. Earned(i) \subseteq UNION {h[j] : j \in K}
    BY DEF Earned
  <2>5. IsFiniteSet(Earned(i))
    <3> HIDE DEF h, K
    <3> QED BY <2>3, <2>4, FS_Subset
  <2> QED BY <2>5, FS_Singleton, FS_Product
<1> DEFINE L == DOMAIN run
           g == [i \in L |-> {i} \X Earned(i)]
<1>2. IsFiniteSet(L)
  <2>1. L = 1..Len(run) /\ Len(run) \in Nat
    BY DEF ReviewTypeOK
  <2> QED BY <2>1, FS_Interval
<1>3. UNION {{i} \X Earned(i) : i \in DOMAIN run} = UNION {g[i] : i \in L}
  OBVIOUS
<1>4. \A i \in L : IsFiniteSet(g[i])
  BY <1>1
<1>5. IsFiniteSet(UNION {g[i] : i \in L})
  <2> HIDE DEF g, L
  <2> QED BY <1>2, <1>4, FiniteUnion
<1> QED BY <1>3, <1>5

LEMMA AsManyVerified ==
  ASSUME ReviewAssumption, LineAssumption, ReviewTypeOK, Told
  PROVE  Cardinality(VerifiedIn(Posted.rows)) = Cardinality(UNION {{i} \X Earned(i) : i \in DOMAIN run})
<1> DEFINE M == Members(Results)
           C == Clusters(M)
           V == VerifiedIn(Posted.rows)
           E == UNION {{i} \X Earned(i) : i \in DOMAIN run}
           R == ReceivedChunks
           f == [x \in V |-> <<x[2][1].lane, <<x[2][1].nth, x[2][2]>>>>]
<1>1. /\ IsFiniteSet(M) /\ M \subseteq Met /\ Distinct(M)
      /\ \A m \in M : /\ m.lane \in DOMAIN run /\ m.nth \in DOMAIN Given(m.lane)
                      /\ m.finding.cites = Given(m.lane)[m.nth].cites
      /\ \A i \in DOMAIN run : \A j \in DOMAIN Given(i) : \E m \in M : m.lane = i /\ m.nth = j
  BY MembersOf DEF Quotes
<1>2. /\ \A m \in M : \E c \in C : m \in c
      /\ \A c \in C : c \subseteq M
      /\ \A c, d \in C : c \cap d # {} => c = d
  <2> HIDE DEF M
  <2> QED BY <1>1, ClustersOf
<1>3. DOMAIN Posted.rows = C
  BY PostedOf
<1>4. \A c \in C : /\ DOMAIN Posted.rows[c].cites = Cited(c)
                   /\ \A p \in Cited(c) : Posted.rows[c].cites[p].verified <=> p[1].finding.cites[p[2]] \in R[p[1].lane]
  BY CitesOf
<1> HIDE DEF M, C, R
<1>5. \A x : x \in V <=> \E c \in C : \E m \in c : \E k \in DOMAIN m.finding.cites :
                           x = <<c, <<m, k>>>> /\ m.finding.cites[k] \in R[m.lane]
  <2>1. \A x : x \in V <=> \E c \in C : \E p \in Cited(c) : x = <<c, p>> /\ Posted.rows[c].cites[p].verified
    <3>1. V = {x \in UNION {{c} \X Cited(c) : c \in C} : Posted.rows[x[1]].cites[x[2]].verified}
      BY <1>3, <1>4 DEF VerifiedIn
    <3> QED BY <3>1
  <2>2. \A c : \A p : p \in Cited(c) <=> \E m \in c : \E k \in DOMAIN m.finding.cites : p = <<m, k>>
    BY DEF Cited
  <2> HIDE DEF V
  <2> QED BY <2>1, <2>2, <1>4
<1>6. \A y : y \in E <=> \E i \in DOMAIN run : \E j \in DOMAIN Given(i) : \E k \in DOMAIN Given(i)[j].cites :
                           y = <<i, <<j, k>>>> /\ Given(i)[j].cites[k] \in R[i]
  <2>1. \A i : \A p : p \in Earned(i) <=> \E j \in DOMAIN Given(i) : \E k \in DOMAIN Given(i)[j].cites :
                                p = <<j, k>> /\ Given(i)[j].cites[k] \in R[i]
    BY DEF Earned, R
  <2> QED BY <2>1
<1>7. IsFiniteSet(E)
  BY EarnedFinite
<1> HIDE DEF V, E
<1>8. ASSUME NEW c \in C, NEW m \in c, NEW k, <<c, <<m, k>>>> \in V
      PROVE  f[<<c, <<m, k>>>>] = <<m.lane, <<m.nth, k>>>>
  BY <1>8
<1>9. f \in [V -> E]
  <2> SUFFICES ASSUME NEW x \in V PROVE <<x[2][1].lane, <<x[2][1].nth, x[2][2]>>>> \in E
    OBVIOUS
  <2>0. PICK c \in C : \E m \in c : \E k \in DOMAIN m.finding.cites :
          x = <<c, <<m, k>>>> /\ m.finding.cites[k] \in R[m.lane]
    BY <1>5
  <2>1. PICK m \in c : \E k \in DOMAIN m.finding.cites :
          x = <<c, <<m, k>>>> /\ m.finding.cites[k] \in R[m.lane]
    BY <2>0
  <2>2. m \in M
    BY <1>2
  <2>3. PICK k \in DOMAIN m.finding.cites : x = <<c, <<m, k>>>> /\ m.finding.cites[k] \in R[m.lane]
    BY <2>1
  <2>4. <<m.lane, <<m.nth, k>>>> \in E
    BY <1>1, <1>6, <2>2, <2>3
  <2> QED BY <2>3, <2>4
<1> HIDE DEF f
<1>10. ASSUME NEW x \in V, NEW y \in V, f[x] = f[y] PROVE x = y
  <2>1. PICK c, m, k : c \in C /\ m \in c /\ x = <<c, <<m, k>>>>
    BY <1>5
  <2>2. PICK d, n, l : d \in C /\ n \in d /\ y = <<d, <<n, l>>>>
    BY <1>5
  <2>3. f[x] = <<m.lane, <<m.nth, k>>>> /\ f[y] = <<n.lane, <<n.nth, l>>>>
    BY <1>8, <2>1, <2>2
  <2>4. m.lane = n.lane /\ m.nth = n.nth /\ k = l
    <3>1. <<m.lane, <<m.nth, k>>>> = <<n.lane, <<n.nth, l>>>>
      BY <1>10, <2>3
    <3> QED BY <3>1
  <2>5. m \in M /\ n \in M
    BY <1>2, <2>1, <2>2
  <2>6. m = n
    BY <1>1, <2>4, <2>5 DEF Distinct
  <2> QED BY <1>2, <2>1, <2>2, <2>4, <2>6
<1>11. ASSUME NEW y \in E PROVE \E x \in V : f[x] = y
  <2>0. PICK i \in DOMAIN run : \E j \in DOMAIN Given(i) : \E k \in DOMAIN Given(i)[j].cites :
          y = <<i, <<j, k>>>> /\ Given(i)[j].cites[k] \in R[i]
    BY <1>6
  <2>1. PICK j, k : /\ j \in DOMAIN Given(i) /\ k \in DOMAIN Given(i)[j].cites
                    /\ y = <<i, <<j, k>>>> /\ Given(i)[j].cites[k] \in R[i]
    BY <2>0
  <2>2. PICK m \in M : m.lane = i /\ m.nth = j /\ m.finding.cites = Given(i)[j].cites
    BY <1>1, <2>1
  <2>3. PICK c \in C : m \in c
    BY <1>2
  <2>4. <<c, <<m, k>>>> \in V
    BY <1>5, <2>1, <2>2, <2>3
  <2>5. f[<<c, <<m, k>>>>] = y
    BY <1>8, <2>1, <2>2, <2>3, <2>4
  <2> QED BY <2>4, <2>5
<1>12. Cardinality(E) = Cardinality(V)
  BY <1>7, <1>9, <1>10, <1>11, SameSize
<1> QED BY <1>12 DEF V, E

(* A location is a place in the diff: a path is normalized no further.         *)
LEMMA LocatedOf ==
  ASSUME PathAssumption, NEW file, NEW line, Located(file, line, Changes)
  PROVE  \E d \in Changes : ~d.deleted /\ d.path = file /\ line \in d.lines
<1>1. PICK c \in Changes : Norm(c.path) = file
  BY DEF Located, Present
<1>2. Norm(file) = file
  BY <1>1 DEF PathAssumption
<1>3. PICK d \in Changes : ~d.deleted /\ Norm(d.path) = Norm(file) /\ line \in d.lines
  BY DEF Located, Lookup, Present
<1> QED BY <1>2, <1>3 DEF PathAssumption

LEMMA AllChecked ==
  ASSUME ReviewAssumption, LineAssumption, PathAssumption, ReviewTypeOK
  PROVE  ClaimsAreChecked
<1> SUFFICES ASSUME Told PROVE ClaimsAreChecked
  BY DEF ClaimsAreChecked
<1> DEFINE M == Members(Results)
           rows == Posted.rows
<1>1. Cardinality(VerifiedIn(rows)) = Cardinality(UNION {{i} \X Earned(i) : i \in DOMAIN run})
  BY AsManyVerified
<1>2. ASSUME NEW c \in DOMAIN rows
      PROVE  LET r == rows[c] IN
             /\ \A p \in DOMAIN r.cites : r.cites[p].verified =>
                  \E i \in r.reportedBy : \E j \in DOMAIN Given(i) :
                    /\ r.cites[p].chunk \in ReceivedChunks[i]
                    /\ r.cites[p].chunk \in ToSet(Given(i)[j].cites)
             /\ r.located => \E d \in Changes : ~d.deleted /\ d.path = r.file /\ r.line \in d.lines
  <2> DEFINE r == rows[c]
             row == Row(c)
  <2>1. c \in Clusters(M) /\ r = Shown(row, ReceivedChunks, Changes)
    BY PostedOf
  <2>2. ASSUME NEW p \in DOMAIN r.cites, r.cites[p].verified
        PROVE  \E i \in r.reportedBy : \E j \in DOMAIN Given(i) :
                 /\ r.cites[p].chunk \in ReceivedChunks[i]
                 /\ r.cites[p].chunk \in ToSet(Given(i)[j].cites)
    <3>1. /\ p \in Cited(c) /\ r.cites[p].chunk = p[1].finding.cites[p[2]]
          /\ p[1].finding.cites[p[2]] \in ReceivedChunks[p[1].lane]
      BY <2>1, <2>2, CitesOf
    <3>2. PICK m, k : m \in c /\ k \in DOMAIN m.finding.cites /\ p = <<m, k>>
      BY <3>1 DEF Cited
    <3>3. /\ m.lane \in r.reportedBy /\ m.nth \in DOMAIN Given(m.lane)
          /\ m.finding.cites = Given(m.lane)[m.nth].cites
      BY <2>1, <3>2, ShownOf DEF Quotes
    <3> HIDE DEF r
    <3>4. m.finding.cites[k] \in ToSet(Given(m.lane)[m.nth].cites)
      BY <3>2, <3>3 DEF ToSet
    <3>5. p[1] = m /\ p[2] = k
      BY <3>2
    <3> QED BY <3>1, <3>3, <3>4, <3>5
  <2>3. r.located => \E d \in Changes : ~d.deleted /\ d.path = r.file /\ r.line \in d.lines
    <3> HIDE DEF r, row
    <3>1. r.file = Norm(row.file) /\ r.line = row.line /\ r.located = Located(Norm(row.file), row.line, Changes)
      BY <2>1 DEF Shown
    <3>2. r.located => Located(r.file, r.line, Changes)
      BY <3>1
    <3> QED BY <3>2, LocatedOf
  <2> QED BY <2>2, <2>3
<1> QED BY <1>1, <1>2 DEF ClaimsAreChecked

THEOREM ClaimsEarned ==
  ASSUME ReviewAssumption, LineAssumption, PathAssumption
  PROVE  ReviewSpec => []ClaimsAreChecked
<1>1. ReviewTypeOK => ClaimsAreChecked
  BY AllChecked
<1> QED BY <1>1, ReviewTypeCorrect, PTL
=============================================================================
