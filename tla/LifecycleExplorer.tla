------------------------- MODULE LifecycleExplorer -------------------------
(***************************************************************************)
(* The conformance check of the payment lifecycle                          *)
(* (conformance/payment_lifecycle_model.rs): main explores the states      *)
(* reachable from State::created() with a queue and a set of seen states   *)
(* and panics at the first assertion that fails.  The transition relation  *)
(* is a variable, so that what a pass or a panic of the explorer says is   *)
(* stated for any lifecycle and not only for next_states as it is today.   *)
(***************************************************************************)
EXTENDS Integers, Sequences, FiniteSets

CONSTANTS MaxCaptures,  \* bound on captures, a u8 in the code
          Graphs        \* the transition relations considered

Created    == 0
Authorized == 1
Captured   == 2
Refunded   == 3

State == [phase : Created .. Refunded, captures : 0 .. MaxCaptures]

ASSUME CapturesAssumption == MaxCaptures \in Nat \ {0}
ASSUME GraphsAssumption   == Graphs \subseteq [State -> Seq(State)]

created  == [phase |-> Created, captures |-> 0]
refunded == [phase |-> Refunded, captures |-> 1]

\* Mutant of next_states: the capture is not counted.
next_states_uncounted ==
  [state \in State |->
     IF state.phase = Created THEN <<[phase |-> Authorized, captures |-> 0]>>
     ELSE IF state.phase = Authorized THEN <<[phase |-> Captured, captures |-> 0]>>
     ELSE IF state.phase = Captured THEN <<[phase |-> Refunded, captures |-> 1]>>
     ELSE <<state>>]

next_states ==
  [state \in State |->
     IF state.phase = Created THEN <<[phase |-> Authorized, captures |-> 0]>>
     ELSE IF state.phase = Authorized THEN <<[phase |-> Captured, captures |-> 1]>>
     ELSE IF state.phase = Captured THEN <<[phase |-> Refunded, captures |-> 1]>>
     ELSE <<state>>]

VARIABLES graph,    \* the transition relation explored
          queue,    \* the states still to be expanded
          seen,
          edges,    \* transitions counted so far
          current,  \* the state being expanded and what is left of its successors
          verdict   \* "running", "passed" or "panicked"

vars == <<graph, queue, seen, edges, current, verdict>>

Expanding == current.left # << >>

Init ==
  /\ graph \in Graphs
  /\ queue = <<created>>
  /\ seen = {created}
  /\ edges = 0
  /\ current = [state |-> created, left |-> << >>]
  /\ verdict = "running"

Panic ==
  /\ verdict' = "panicked"
  /\ UNCHANGED <<graph, queue, seen, edges, current>>

\* while let Some(state) = queue.pop_front()
PopFront ==
  /\ verdict = "running" /\ ~Expanding /\ queue # << >>
  /\ LET state == Head(queue)
     IN IF state.captures <= 1
        THEN /\ queue' = Tail(queue)
             /\ current' = [state |-> state, left |-> graph[state]]
             /\ UNCHANGED <<graph, seen, edges, verdict>>
        ELSE Panic

EdgeHolds(state, next) ==
  /\ next.phase >= state.phase
  /\ next.captures >= state.captures
  /\ next.phase >= Captured => next.captures = 1

\* Mutant of Edge: only a transition to a new state is counted.
Edge_counts_new ==
  /\ verdict = "running" /\ Expanding
  /\ LET next == Head(current.left)
     IN IF EdgeHolds(current.state, next)
        THEN /\ edges' = IF next \in seen THEN edges ELSE edges + 1
             /\ current' = [current EXCEPT !.left = Tail(@)]
             /\ queue' = IF next \in seen THEN queue ELSE Append(queue, next)
             /\ seen' = seen \union {next}
             /\ UNCHANGED <<graph, verdict>>
        ELSE Panic

\* Mutant of Edge: a successor is marked as seen and never expanded.
Edge_not_queued ==
  /\ verdict = "running" /\ Expanding
  /\ LET next == Head(current.left)
     IN IF EdgeHolds(current.state, next)
        THEN /\ edges' = edges + 1
             /\ current' = [current EXCEPT !.left = Tail(@)]
             /\ seen' = seen \union {next}
             /\ UNCHANGED <<graph, queue, verdict>>
        ELSE Panic

\* Mutant of Edge: a successor seen before is looked at for ever.
Edge_stuck ==
  /\ verdict = "running" /\ Expanding
  /\ LET next == Head(current.left)
     IN IF EdgeHolds(current.state, next)
        THEN /\ next \notin seen
             /\ edges' = edges + 1
             /\ current' = [current EXCEPT !.left = Tail(@)]
             /\ queue' = Append(queue, next)
             /\ seen' = seen \union {next}
             /\ UNCHANGED <<graph, verdict>>
        ELSE Panic

\* One successor: counted, checked, and queued when it is new.
Edge ==
  /\ verdict = "running" /\ Expanding
  /\ LET next == Head(current.left)
     IN IF EdgeHolds(current.state, next)
        THEN /\ edges' = edges + 1
             /\ current' = [current EXCEPT !.left = Tail(@)]
             /\ queue' = IF next \in seen THEN queue ELSE Append(queue, next)
             /\ seen' = seen \union {next}
             /\ UNCHANGED <<graph, verdict>>
        ELSE Panic

\* Mutant of Finish: nothing is asked of what was reached.
Finish_unconditional ==
  /\ verdict = "running" /\ ~Expanding /\ queue = << >>
  /\ verdict' = "passed"
  /\ UNCHANGED <<graph, queue, seen, edges, current>>

\* After the loop: the refunded state must have been seen.
Finish ==
  /\ verdict = "running" /\ ~Expanding /\ queue = << >>
  /\ IF refunded \in seen
     THEN verdict' = "passed" /\ UNCHANGED <<graph, queue, seen, edges, current>>
     ELSE Panic

Next == PopFront \/ Edge \/ Finish

\* main is one thread that never waits.
Spec == Init /\ [][Next]_vars /\ WF_vars(Next)

-----------------------------------------------------------------------------
Successors(g, S) == UNION {{g[state][j] : j \in DOMAIN g[state]} : state \in S}

\* The transitions out of a set of states, by the place of the target among the
\* successors: a target listed twice is two transitions.
Transitions(g, S) == UNION {{state} \X DOMAIN g[state] : state \in S}

\* What is reachable in at most as many steps as there are states.
Reachable(g) ==
  LET within[n \in 0 .. Cardinality(State)] ==
        IF n = 0 THEN {created} ELSE within[n - 1] \union Successors(g, within[n - 1])
  IN within[Cardinality(State)]

\* The lifecycle property the assertions are there for: nothing reachable is
\* captured twice, no reachable transition goes back, whatever is captured or
\* refunded was captured once, and a refund can be reached.
LifecycleSafe(g) ==
  /\ \A state \in Reachable(g) : /\ state.captures <= 1
                                 /\ \A j \in DOMAIN g[state] : EdgeHolds(state, g[state][j])
  /\ refunded \in Reachable(g)

\* Types of the explorer's variables.
TypeOK ==
  /\ graph \in [State -> Seq(State)]
  /\ queue \in Seq(State)
  /\ seen \subseteq State
  /\ edges \in Nat
  /\ current \in [state : State, left : Seq(State)]
  /\ verdict \in {"running", "passed", "panicked"}

\* The explorer is exact for every lifecycle: it passes only one that is safe
\* in all its reachable states and panics only at one that is not.
VerdictExact ==
  /\ verdict = "passed" => LifecycleSafe(graph)
  /\ verdict = "panicked" => ~LifecycleSafe(graph)

\* A pass leaves no seen state unexpanded: the seen states hold the first and the
\* refunded one, are closed under the transitions, and every assertion holds in
\* all of them.
PassIsClosed ==
  verdict = "passed" =>
    /\ created \in seen /\ refunded \in seen
    /\ \A state \in seen : /\ state.captures <= 1
                           /\ \A j \in DOMAIN graph[state] : /\ EdgeHolds(state, graph[state][j])
                                                             /\ graph[state][j] \in seen

\* The numbers the explorer prints are those of the lifecycle: every reachable
\* state once and every transition of one once.
CountsAreExact ==
  verdict = "passed" =>
    /\ seen = Reachable(graph)
    /\ edges = Cardinality(Transitions(graph, seen))

\* The lifecycle of the code passes its own check.
CodeLifecyclePasses == graph = next_states => verdict # "panicked"

\* The exploration ends although lifecycles have cycles, as the refunded state has.
Terminates == <>(verdict # "running")
=============================================================================
