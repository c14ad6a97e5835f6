--------------------- MODULE LifecycleExplorer_proofs ---------------------
(***************************************************************************)
(* What a pass of the conformance explorer shows, for every transition     *)
(* relation: the states it has seen are closed under the transitions and   *)
(* satisfy every assertion.  A closed set that holds the first state holds *)
(* every reachable one, so nothing reachable escaped the assertions.       *)
(***************************************************************************)
EXTENDS LifecycleExplorer, FiniteSetTheorems, TLAPS

RangeOf(q) == {q[j] : j \in DOMAIN q}

\* A transition of a seen state is checked and its target seen, or it is still
\* among the successors of the state being expanded.
Handled(state, next) ==
  \/ EdgeHolds(state, next) /\ next \in seen
  \/ state = current.state /\ next \in RangeOf(current.left)

Covered(state) ==
  /\ state.captures <= 1
  /\ \A j \in DOMAIN graph[state] : Handled(state, graph[state][j])

\* The strengthening of PassIsClosed: a seen state waits in the queue or is
\* covered, and the counters of the loop agree with each other.
IInv ==
  /\ TypeOK
  /\ created \in seen
  /\ RangeOf(queue) \subseteq seen
  /\ \A state \in seen : state \in RangeOf(queue) \/ Covered(state)
  /\ PassIsClosed

\* Taking the head of a queue removes it from the queue's elements and nothing else.
LEMMA HeadAndTail ==
  ASSUME NEW S, NEW q \in Seq(S), q # << >>
  PROVE  /\ Head(q) \in S /\ Tail(q) \in Seq(S)
         /\ RangeOf(q) = {Head(q)} \union RangeOf(Tail(q))
<1>1. Len(q) \in Nat \ {0} /\ DOMAIN q = 1 .. Len(q) /\ \A j \in 1 .. Len(q) : q[j] \in S
  OBVIOUS
<1>2. Head(q) = q[1] /\ Tail(q) \in Seq(S) /\ Len(Tail(q)) = Len(q) - 1
  BY <1>1
<1>3. \A j \in 1 .. (Len(q) - 1) : Tail(q)[j] = q[j + 1]
  BY <1>1
<1>4. DOMAIN Tail(q) = 1 .. (Len(q) - 1)
  BY <1>1, <1>2
<1>5. ASSUME NEW x \in RangeOf(q) PROVE x \in {Head(q)} \union RangeOf(Tail(q))
  <2>1. PICK j \in 1 .. Len(q) : x = q[j]
    BY <1>1, <1>5 DEF RangeOf
  <2>2. CASE j = 1
    BY <2>1, <2>2, <1>2
  <2>3. CASE j # 1
    <3>1. j - 1 \in 1 .. (Len(q) - 1) /\ (j - 1) + 1 = j
      BY <2>3, <1>1
    <3>2. Tail(q)[j - 1] = x
      BY <3>1, <2>1, <1>3
    <3> QED
      BY <3>1, <3>2, <1>4 DEF RangeOf
  <2> QED
    BY <2>2, <2>3
<1>6. RangeOf(Tail(q)) \subseteq RangeOf(q)
  BY <1>1, <1>3, <1>4 DEF RangeOf
<1>7. Head(q) \in RangeOf(q)
  BY <1>1, <1>2 DEF RangeOf
<1> QED
  BY <1>1, <1>2, <1>5, <1>6, <1>7

\* Appending to a queue adds the new element and nothing else.
LEMMA Appended ==
  ASSUME NEW S, NEW q \in Seq(S), NEW x \in S
  PROVE  Append(q, x) \in Seq(S) /\ RangeOf(Append(q, x)) = RangeOf(q) \union {x}
<1>1. /\ Len(q) \in Nat /\ DOMAIN q = 1 .. Len(q)
      /\ DOMAIN Append(q, x) = 1 .. (Len(q) + 1)
      /\ Append(q, x)[Len(q) + 1] = x
      /\ \A j \in 1 .. Len(q) : Append(q, x)[j] = q[j]
  OBVIOUS
<1> QED
  BY <1>1 DEF RangeOf

LEMMA StateFacts ==
  /\ created \in State /\ refunded \in State
  /\ \A state \in State : state.phase \in 0 .. 3 /\ state.captures \in Nat
BY CapturesAssumption DEF created, refunded, State, Created, Refunded

\* The explorer starts in the invariant: the first state is seen and waits.
LEMMA InitIInv == Init => IInv
<1> SUFFICES ASSUME Init PROVE IInv
  OBVIOUS
<1>1. TypeOK
  BY StateFacts, GraphsAssumption DEF Init, TypeOK
<1>2. RangeOf(queue) = {created} /\ seen = {created}
  BY DEF Init, RangeOf
<1> QED
  BY <1>1, <1>2 DEF IInv, Init, PassIsClosed

\* A step that only panics keeps the invariant.
LEMMA PanicIInv == IInv /\ Panic => IInv'
<1> SUFFICES ASSUME IInv, Panic PROVE IInv'
  OBVIOUS
<1> USE DEF Panic
<1>1. TypeOK'
  BY DEF IInv, TypeOK
<1>2. \A state \in State : Covered(state) => Covered(state)'
  BY DEF Covered, Handled
<1> QED
  BY <1>1, <1>2 DEF IInv, PassIsClosed, TypeOK

\* Taking a state from the queue: it is covered by its successors, all of which
\* are left to look at.
LEMMA PopIInv == IInv /\ PopFront => IInv'
<1> SUFFICES ASSUME IInv, PopFront PROVE IInv'
  OBVIOUS
<1> DEFINE state == Head(queue)
<1>1. CASE state.captures <= 1
  <2>1. /\ queue' = Tail(queue) /\ current' = [state |-> state, left |-> graph[state]]
        /\ UNCHANGED <<graph, seen, edges, verdict>>
        /\ verdict = "running" /\ current.left = << >> /\ queue # << >>
    BY <1>1 DEF PopFront, Expanding
  <2>2. /\ state \in State /\ queue' \in Seq(State)
        /\ RangeOf(queue) = {state} \union RangeOf(queue')
    <3>1. queue \in Seq(State)
      BY DEF IInv, TypeOK
    <3> QED
      BY <3>1, <2>1, HeadAndTail
  <2>3. TypeOK'
    <3>1. graph[state] \in Seq(State)
      BY <2>2 DEF IInv, TypeOK
    <3> QED
      BY <2>1, <2>2, <3>1 DEF IInv, TypeOK
  <2>4. ASSUME NEW other \in seen', other \notin RangeOf(queue') PROVE Covered(other)'
    <3>1. CASE other = state
      BY <3>1, <1>1, <2>1 DEF Covered, Handled, RangeOf
    <3>2. CASE other # state
      <4>1. Covered(other)
        BY <3>2, <2>1, <2>2, <2>4 DEF IInv
      <4>2. RangeOf(current.left) = {}
        BY <2>1 DEF RangeOf
      <4> QED
        BY <4>1, <4>2, <2>1 DEF Covered, Handled
    <3> QED
      BY <3>1, <3>2
  <2>5. RangeOf(queue') \subseteq seen'
    BY <2>1, <2>2 DEF IInv
  <2>6. PassIsClosed'
    BY <2>1 DEF PassIsClosed
  <2> QED
    BY <2>1, <2>3, <2>4, <2>5, <2>6 DEF IInv
<1>2. CASE ~(state.captures <= 1)
  BY <1>2, PanicIInv DEF PopFront
<1> QED
  BY <1>1, <1>2

\* Looking at one successor: it is checked and seen, and queued if it was new.
LEMMA EdgeIInv == IInv /\ Edge => IInv'
<1> SUFFICES ASSUME IInv, Edge PROVE IInv'
  OBVIOUS
<1> DEFINE next == Head(current.left)
<1>1. CASE EdgeHolds(current.state, next)
  <2>1. /\ edges' = edges + 1 /\ current' = [current EXCEPT !.left = Tail(@)]
        /\ queue' = IF next \in seen THEN queue ELSE Append(queue, next)
        /\ seen' = seen \union {next}
        /\ UNCHANGED <<graph, verdict>>
        /\ verdict = "running" /\ current.left # << >>
    BY <1>1 DEF Edge, Expanding
  <2>2. /\ queue \in Seq(State) /\ current.left \in Seq(State) /\ current.state \in State
        /\ current \in [state : State, left : Seq(State)] /\ seen \subseteq State
    BY DEF IInv, TypeOK
  <2>3. /\ next \in State /\ Tail(current.left) \in Seq(State)
        /\ RangeOf(current.left) = {next} \union RangeOf(Tail(current.left))
    BY <2>1, <2>2, HeadAndTail
  <2>4. current'.state = current.state /\ current'.left = Tail(current.left)
        /\ current' \in [state : State, left : Seq(State)]
    BY <2>1, <2>2, <2>3
  <2>5. /\ queue' \in Seq(State) /\ RangeOf(queue) \subseteq RangeOf(queue')
        /\ RangeOf(queue') \subseteq seen'
        /\ next \in RangeOf(queue') \/ next \in seen
    BY <2>1, <2>2, <2>3, Appended DEF IInv
  <2>6. TypeOK'
    BY <2>1, <2>2, <2>3, <2>4, <2>5 DEF IInv, TypeOK
  <2>7. \A state \in seen : Covered(state) => Covered(state)'
    BY <1>1, <2>1, <2>3, <2>4 DEF Covered, Handled
  <2>8. ASSUME NEW other \in seen', other \notin RangeOf(queue') PROVE Covered(other)'
    <3>1. other \in seen /\ other \notin RangeOf(queue)
      BY <2>8, <2>1, <2>5
    <3> QED
      BY <3>1, <2>7 DEF IInv
  <2>9. PassIsClosed'
    BY <2>1 DEF PassIsClosed
  <2> QED
    BY <2>1, <2>5, <2>6, <2>8, <2>9 DEF IInv
<1>2. CASE ~EdgeHolds(current.state, next)
  BY <1>2, PanicIInv DEF Edge
<1> QED
  BY <1>1, <1>2

\* The queue is empty and nothing is left of the last state: every seen state is
\* covered by checked transitions alone.
LEMMA FinishIInv == IInv /\ Finish => IInv'
<1> SUFFICES ASSUME IInv, Finish PROVE IInv'
  OBVIOUS
<1>1. CASE refunded \in seen
  <2>1. /\ UNCHANGED <<graph, queue, seen, edges, current>>
        /\ verdict' = "passed" /\ queue = << >> /\ current.left = << >>
    BY <1>1 DEF Finish, Expanding
  <2>2. RangeOf(queue) = {} /\ RangeOf(current.left) = {}
    BY <2>1 DEF RangeOf
  <2>3. \A state \in seen : Covered(state)
    BY <2>2 DEF IInv
  <2>4. PassIsClosed'
    BY <1>1, <2>1, <2>2, <2>3 DEF IInv, PassIsClosed, Covered, Handled
  <2>5. TypeOK'
    BY <2>1 DEF IInv, TypeOK
  <2>6. \A state \in seen : Covered(state)'
    BY <2>1, <2>3 DEF Covered, Handled
  <2> QED
    BY <2>1, <2>4, <2>5, <2>6 DEF IInv
<1>2. CASE refunded \notin seen
  BY <1>2, PanicIInv DEF Finish
<1> QED
  BY <1>1, <1>2

LEMMA StutterIInv == IInv /\ UNCHANGED vars => IInv'
<1> SUFFICES ASSUME IInv, UNCHANGED vars PROVE IInv'
  OBVIOUS
<1> USE DEF vars
<1>1. \A state \in seen : Covered(state) => Covered(state)'
  BY DEF Covered, Handled
<1>2. TypeOK' /\ PassIsClosed'
  BY DEF IInv, TypeOK, PassIsClosed
<1> QED
  BY <1>1, <1>2 DEF IInv

\* When the explorer of conformance/payment_lifecycle_model.rs passes, every
\* state it has seen satisfies the assertions and has all its successors seen,
\* whatever the lifecycle and however many captures are counted.
THEOREM PassMeansClosed == Spec => []PassIsClosed
<1>1. IInv /\ [Next]_vars => IInv'
  BY PopIInv, EdgeIInv, FinishIInv, StutterIInv DEF Next
<1>2. IInv => PassIsClosed
  BY DEF IInv
<1> QED
  BY InitIInv, <1>1, <1>2, PTL DEF Spec

-----------------------------------------------------------------------------
(* The reachable states are the least set that holds the first one and is    *)
(* closed under the transitions.                                             *)

\* Induction over the natural numbers, for a set of them.
LEMMA NatSetInduction ==
  ASSUME NEW S, 0 \in S, \A n \in Nat : n \in S => n + 1 \in S
  PROVE  Nat \subseteq S
<1>. SUFFICES ASSUME Nat \ S # {} PROVE FALSE
  OBVIOUS
<1>. DEFINE Below == {ss \in Nat \X Nat : ss[1] < ss[2]}
<1>1. IsWellFoundedOn(Below, Nat)
  BY NatLessThanWellFounded DEF OpToRel
<1>. HIDE DEF Below
<1>2. PICK n \in Nat \ S : \A m \in Nat \ S : ~(<<m, n>> \in Below)
  BY <1>1, WFMin
<1>3. \A m \in Nat \ S : ~(m < n)
  BY <1>2 DEF Below
<1>4. n # 0 /\ n - 1 \in Nat /\ n - 1 < n /\ n = (n - 1) + 1
  OBVIOUS
<1>. QED BY <1>3, <1>4

\* The values at 0 .. N of a function defined by its first value and a step.
Iterates(f, S, x, G, N) ==
  f \in [0 .. N -> S] /\ f[0] = x /\ \A n \in 1 .. N : f[n] = G[f[n - 1]]

\* A function on 0 .. N may be defined from its value at 0 and a step.
LEMMA Recursion ==
  ASSUME NEW S, NEW x \in S, NEW G \in [S -> S], NEW N \in Nat
  PROVE  \E f : Iterates(f, S, x, G, N)
<1>. DEFINE Steps(f, n) == f[0] = x /\ \A m \in 1 .. n : f[m] = G[f[m - 1]]
            Good == {n \in Nat : \E f \in [0 .. n -> S] : Steps(f, n)}
<1>1. 0 \in Good
  <2>1. [n \in 0 .. 0 |-> x] \in [0 .. 0 -> S] /\ Steps([n \in 0 .. 0 |-> x], 0)
    OBVIOUS
  <2>. QED BY <2>1
<1>2. ASSUME NEW n \in Nat, n \in Good PROVE n + 1 \in Good
  <2>1. PICK f \in [0 .. n -> S] : Steps(f, n)
    BY <1>2
  <2>. DEFINE h == [m \in 0 .. n + 1 |-> IF m = n + 1 THEN G[f[n]] ELSE f[m]]
  <2>2. h \in [0 .. n + 1 -> S]
    OBVIOUS
  <2>3. h[0] = x
    BY <2>1
  <2>4. ASSUME NEW m \in 1 .. n + 1 PROVE h[m] = G[h[m - 1]]
    <3>1. CASE m = n + 1
      BY <3>1
    <3>2. CASE m # n + 1
      <4>1. m \in 1 .. n /\ m - 1 \in 0 .. n /\ m - 1 # n + 1 /\ m \in 0 .. n + 1 /\ m - 1 \in 0 .. n + 1
        BY <3>2
      <4>2. h[m] = f[m] /\ h[m - 1] = f[m - 1]
        BY <3>2, <4>1
      <4>. QED BY <4>1, <4>2, <2>1
    <3>. QED BY <3>1, <3>2
  <2>. QED BY <2>2, <2>3, <2>4
<1>3. N \in Good
  <2>. HIDE DEF Good
  <2>. QED BY <1>1, <1>2, NatSetInduction
<1>. QED BY <1>3 DEF Iterates

LEMMA StateIsFinite == IsFiniteSet(State)
<1>. DEFINE Pairs == (0 .. 3) \X (0 .. MaxCaptures)
            f == [pair \in Pairs |-> [phase |-> pair[1], captures |-> pair[2]]]
<1>1. IsFiniteSet(Pairs)
  <2>1. 0 \in Int /\ 3 \in Int /\ MaxCaptures \in Int
    BY CapturesAssumption
  <2>2. IsFiniteSet(0 .. 3)
    BY <2>1, FS_Interval
  <2>3. IsFiniteSet(0 .. MaxCaptures)
    BY <2>1, FS_Interval
  <2>. QED BY <2>2, <2>3, FS_Product
<1>2. f \in [Pairs -> State]
  BY DEF State, Created, Refunded
<1>3. \A state \in State : \E pair \in Pairs : f[pair] = state
  <2>. SUFFICES ASSUME NEW state \in State PROVE \E pair \in Pairs : f[pair] = state
    OBVIOUS
  <2>1. /\ state = [phase |-> state.phase, captures |-> state.captures]
        /\ <<state.phase, state.captures>> \in Pairs
    BY DEF State, Created, Refunded
  <2>2. f[<<state.phase, state.captures>>] = state
    BY <2>1
  <2>. QED BY <2>1, <2>2
<1>4. f \in Surjection(Pairs, State)
  BY <1>2, <1>3 DEF Surjection
<1>. QED BY <1>1, <1>4, FS_Surjection

LEMMA SuccessorsType ==
  ASSUME NEW g \in [State -> Seq(State)], NEW S \in SUBSET State
  PROVE  Successors(g, S) \subseteq State
<1>1. \A state \in S : \A j \in DOMAIN g[state] : g[state][j] \in State
  <2>. SUFFICES ASSUME NEW state \in S, NEW j \in DOMAIN g[state] PROVE g[state][j] \in State
    OBVIOUS
  <2>1. g[state] \in Seq(State)
    OBVIOUS
  <2>. QED BY <2>1
<1>. QED BY <1>1 DEF Successors

\* Reachable is the last of the sets it is defined by.
LEMMA ReachableSteps ==
  ASSUME NEW g \in [State -> Seq(State)]
  PROVE  \E W \in [0 .. Cardinality(State) -> SUBSET State] :
           /\ W[0] = {created}
           /\ \A n \in 1 .. Cardinality(State) : W[n] = W[n - 1] \union Successors(g, W[n - 1])
           /\ Reachable(g) = W[Cardinality(State)]
<1>. DEFINE N == Cardinality(State)
            G == [S \in SUBSET State |-> S \union Successors(g, S)]
            Eq(f) == f = [n \in 0 .. N |-> IF n = 0 THEN {created} ELSE f[n - 1] \union Successors(g, f[n - 1])]
<1>1. N \in Nat
  BY StateIsFinite, FS_CardinalityType
<1>2. {created} \in SUBSET State /\ G \in [SUBSET State -> SUBSET State]
  <2>1. {created} \in SUBSET State
    BY StateFacts
  <2>. QED BY <2>1, SuccessorsType
<1>3. PICK f : Iterates(f, SUBSET State, {created}, G, N)
  <2>. HIDE DEF N, G
  <2>. QED BY <1>1, <1>2, Recursion
<1>4. Eq(f)
  <2>1. \A n \in 0 .. N : n # 0 => n - 1 \in 0 .. N /\ n \in 1 .. N
    BY <1>1
  <2>2. \A n \in 0 .. N : n # 0 => G[f[n - 1]] = f[n - 1] \union Successors(g, f[n - 1])
    BY <1>3, <2>1 DEF Iterates
  <2>3. \A n \in 0 .. N : f[n] = IF n = 0 THEN {created} ELSE f[n - 1] \union Successors(g, f[n - 1])
    BY <1>3, <2>1, <2>2 DEF Iterates
  <2>4. f \in [0 .. N -> SUBSET State]
    BY <1>3 DEF Iterates
  <2>. QED BY <2>3, <2>4
<1>. DEFINE W == CHOOSE W : Eq(W)
<1>5. Eq(W)
  BY <1>4
<1>6. Reachable(g) = W[N]
  BY DEF Reachable
<1>. HIDE DEF W
<1>7. W[0] = {created} /\ \A n \in 1 .. N : W[n] = W[n - 1] \union Successors(g, W[n - 1])
  <2>1. \A n \in 0 .. N : W[n] = IF n = 0 THEN {created} ELSE W[n - 1] \union Successors(g, W[n - 1])
    BY <1>5
  <2>2. 0 \in 0 .. N /\ \A n \in 1 .. N : n \in 0 .. N /\ n # 0
    BY <1>1
  <2>. HIDE DEF N
  <2>. QED BY <2>1, <2>2
<1>8. \A n \in Nat : n \in 0 .. N => W[n] \subseteq State
  <2>. DEFINE Good == {n \in Nat : n \in 0 .. N => W[n] \subseteq State}
  <2>1. 0 \in Good
    BY <1>2, <1>7
  <2>2. ASSUME NEW n \in Nat, n \in Good PROVE n + 1 \in Good
    <3>. SUFFICES ASSUME n + 1 \in 0 .. N PROVE W[n + 1] \subseteq State
      OBVIOUS
    <3>1. n \in 0 .. N /\ n + 1 \in 1 .. N /\ (n + 1) - 1 = n
      BY <1>1
    <3>2. W[n + 1] = W[n] \union Successors(g, W[n])
      BY <1>7, <3>1
    <3>. QED BY <2>2, <3>1, <3>2, SuccessorsType
  <2>. HIDE DEF Good
  <2>3. Nat \subseteq Good
    BY <2>1, <2>2, NatSetInduction
  <2>. QED BY <2>3 DEF Good
<1>9. W \in [0 .. N -> SUBSET State]
  <2>1. \A n \in 0 .. N : W[n] \in SUBSET State
    BY <1>8
  <2>. QED BY <1>5, <2>1
<1>. QED BY <1>6, <1>7, <1>9

\* Every set closed under the transitions that holds the first state holds all
\* the reachable ones ...
LEMMA ReachableIsLeast ==
  ASSUME NEW g \in [State -> Seq(State)], NEW C, created \in C, Successors(g, C) \subseteq C
  PROVE  Reachable(g) \subseteq C
<1>. DEFINE N == Cardinality(State)
<1>1. N \in Nat
  BY StateIsFinite, FS_CardinalityType
<1>2. PICK W \in [0 .. N -> SUBSET State] :
        /\ W[0] = {created}
        /\ \A n \in 1 .. N : W[n] = W[n - 1] \union Successors(g, W[n - 1])
        /\ Reachable(g) = W[N]
  BY ReachableSteps
<1>. DEFINE Good == {n \in Nat : n \in 0 .. N => W[n] \subseteq C}
<1>3. 0 \in Good
  BY <1>2
<1>4. ASSUME NEW n \in Nat, n \in Good PROVE n + 1 \in Good
  <2>. SUFFICES ASSUME n + 1 \in 0 .. N PROVE W[n + 1] \subseteq C
    OBVIOUS
  <2>1. n \in 0 .. N /\ n + 1 \in 1 .. N /\ (n + 1) - 1 = n
    BY <1>1
  <2>2. W[n + 1] = W[n] \union Successors(g, W[n]) /\ W[n] \subseteq C
    BY <1>2, <1>4, <2>1
  <2>3. Successors(g, W[n]) \subseteq Successors(g, C)
    BY <2>2 DEF Successors
  <2>. QED BY <2>2, <2>3
<1>. HIDE DEF Good
<1>5. N \in Good
  BY <1>1, <1>3, <1>4, NatSetInduction
<1>. QED BY <1>1, <1>2, <1>5 DEF Good

\* ... and the reachable states are such a set: there are no more steps without a
\* new state than there are states.
LEMMA ReachableIsClosed ==
  ASSUME NEW g \in [State -> Seq(State)]
  PROVE  /\ created \in Reachable(g) /\ Reachable(g) \subseteq State
         /\ Successors(g, Reachable(g)) \subseteq Reachable(g)
<1>. DEFINE N == Cardinality(State)
<1>1. N \in Nat
  BY StateIsFinite, FS_CardinalityType
<1>2. PICK W \in [0 .. N -> SUBSET State] :
        /\ W[0] = {created}
        /\ \A n \in 1 .. N : W[n] = W[n - 1] \union Successors(g, W[n - 1])
        /\ Reachable(g) = W[N]
  BY ReachableSteps
<1>. DEFINE Shut(n) == Successors(g, W[n]) \subseteq W[n]
            Good == {n \in Nat : n \in 0 .. N => created \in W[n] /\ (Shut(n) \/ Cardinality(W[n]) >= n + 1)}
<1>3. 0 \in Good
  <2>1. created \in W[0] /\ Cardinality(W[0]) = 1
    BY <1>2, FS_Singleton
  <2>. QED BY <2>1
<1>4. ASSUME NEW n \in Nat, n \in Good PROVE n + 1 \in Good
  <2>. SUFFICES ASSUME n + 1 \in 0 .. N
                PROVE  created \in W[n + 1] /\ (Shut(n + 1) \/ Cardinality(W[n + 1]) >= (n + 1) + 1)
    OBVIOUS
  <2>1. n \in 0 .. N /\ n + 1 \in 1 .. N /\ (n + 1) - 1 = n
    BY <1>1
  <2>2. W[n + 1] = W[n] \union Successors(g, W[n]) /\ created \in W[n]
    BY <1>2, <1>4, <2>1
  <2>3. CASE Shut(n)
    <3>1. W[n + 1] = W[n]
      BY <2>2, <2>3
    <3>. QED BY <2>2, <2>3, <3>1
  <2>4. CASE ~Shut(n)
    <3>1. W[n] \in SUBSET W[n + 1] /\ W[n] # W[n + 1] /\ W[n + 1] \in SUBSET State
      BY <1>2, <2>1, <2>2, <2>4
    <3>2. IsFiniteSet(W[n + 1])
      BY <3>1, StateIsFinite, FS_Subset
    <3>3. Cardinality(W[n]) <= Cardinality(W[n + 1]) /\ Cardinality(W[n]) # Cardinality(W[n + 1])
      BY <3>1, <3>2, FS_Subset
    <3>4. Cardinality(W[n]) \in Nat /\ Cardinality(W[n + 1]) \in Nat
      BY <3>1, <3>2, FS_Subset, FS_CardinalityType
    <3>5. Cardinality(W[n]) >= n + 1
      BY <1>4, <2>1, <2>4
    <3>. QED BY <2>2, <3>3, <3>4, <3>5
  <2>. QED BY <2>3, <2>4
<1>. HIDE DEF Good
<1>5. N \in Good
  BY <1>1, <1>3, <1>4, NatSetInduction
<1>6. created \in W[N] /\ (Shut(N) \/ Cardinality(W[N]) >= N + 1)
  BY <1>1, <1>5 DEF Good
<1>7. W[N] \in SUBSET State /\ Cardinality(W[N]) \in Nat /\ Cardinality(W[N]) <= N
  <2>1. W[N] \in SUBSET State
    BY <1>1, <1>2
  <2>2. IsFiniteSet(W[N]) /\ Cardinality(W[N]) <= N
    BY <2>1, StateIsFinite, FS_Subset
  <2>. QED BY <2>1, <2>2, FS_CardinalityType
<1>. QED BY <1>1, <1>2, <1>6, <1>7

-----------------------------------------------------------------------------
(* The exactness of the explorer: what it has seen is reachable, a panic is  *)
(* about a reachable state, and what it has counted are the transitions out  *)
(* of the states it is through with.                                         *)

Distinct(q) == \A m, n \in DOMAIN q : q[m] = q[n] => m = n

\* How many successors of the current state have been looked at.
Done == Len(graph[current.state]) - Len(current.left)

Expanded == seen \ (RangeOf(queue) \union IF Expanding THEN {current.state} ELSE {})

Counted == Transitions(graph, Expanded) \union IF Expanding THEN {current.state} \X (1 .. Done) ELSE {}

AtSuccessor ==
  /\ current.state \in seen /\ current.state \notin RangeOf(queue)
  /\ Done \in Nat
  /\ \A j \in 1 .. Len(current.left) : current.left[j] = graph[current.state][Done + j]

ExactInv ==
  /\ IInv
  /\ Distinct(queue)
  /\ Expanding => AtSuccessor
  /\ IsFiniteSet(Counted) /\ edges = Cardinality(Counted)
  /\ seen \subseteq Reachable(graph)
  /\ verdict = "passed" => queue = << >> /\ ~Expanding
  /\ verdict = "panicked" => ~LifecycleSafe(graph)

LEMMA TransitionsAdded ==
  ASSUME NEW g, NEW S, NEW state
  PROVE  Transitions(g, S \union {state}) = Transitions(g, S) \union ({state} \X DOMAIN g[state])
BY DEF Transitions

\* Removing the head keeps a queue distinct, and the head is no longer in it.
LEMMA DistinctTail ==
  ASSUME NEW S, NEW q \in Seq(S), q # << >>, Distinct(q)
  PROVE  Distinct(Tail(q)) /\ Head(q) \notin RangeOf(Tail(q))
<1>1. /\ Len(q) \in Nat \ {0} /\ DOMAIN q = 1 .. Len(q) /\ Head(q) = q[1]
      /\ DOMAIN Tail(q) = 1 .. (Len(q) - 1)
      /\ \A j \in 1 .. (Len(q) - 1) : Tail(q)[j] = q[j + 1]
  <2>1. Len(q) \in Nat \ {0} /\ DOMAIN q = 1 .. Len(q)
    OBVIOUS
  <2>2. Head(q) = q[1] /\ Tail(q) \in Seq(S) /\ Len(Tail(q)) = Len(q) - 1
    BY <2>1
  <2>3. \A j \in 1 .. (Len(q) - 1) : Tail(q)[j] = q[j + 1]
    BY <2>1
  <2>. QED BY <2>1, <2>2, <2>3
<1>2. \A j \in 1 .. (Len(q) - 1) : j + 1 \in DOMAIN q /\ 1 \in DOMAIN q /\ j + 1 # 1
  BY <1>1
<1>3. Head(q) \notin RangeOf(Tail(q))
  BY <1>1, <1>2 DEF Distinct, RangeOf
<1>4. ASSUME NEW m \in DOMAIN Tail(q), NEW n \in DOMAIN Tail(q), Tail(q)[m] = Tail(q)[n] PROVE m = n
  <2>1. q[m + 1] = q[n + 1] /\ m + 1 \in DOMAIN q /\ n + 1 \in DOMAIN q
    BY <1>1, <1>2, <1>4
  <2>2. m + 1 = n + 1
    BY <2>1 DEF Distinct
  <2>. QED BY <1>1, <2>2
<1>. QED BY <1>3, <1>4 DEF Distinct

LEMMA DistinctAppend ==
  ASSUME NEW S, NEW q \in Seq(S), NEW x \in S, Distinct(q), x \notin RangeOf(q)
  PROVE  Distinct(Append(q, x))
<1>1. /\ Len(q) \in Nat /\ DOMAIN q = 1 .. Len(q)
      /\ DOMAIN Append(q, x) = 1 .. (Len(q) + 1)
      /\ Append(q, x)[Len(q) + 1] = x
      /\ \A j \in 1 .. Len(q) : Append(q, x)[j] = q[j]
  OBVIOUS
<1>2. \A j \in 1 .. Len(q) : q[j] # x
  BY <1>1 DEF RangeOf
<1>. QED BY <1>1, <1>2 DEF Distinct

\* With nothing left to expand, the seen states are closed and the assertions
\* hold in them.
LEMMA SeenIsClosed ==
  ASSUME IInv, queue = << >>, ~Expanding
  PROVE  /\ Successors(graph, seen) \subseteq seen
         /\ \A state \in seen : /\ state.captures <= 1
                                /\ \A j \in DOMAIN graph[state] : EdgeHolds(state, graph[state][j])
<1>1. RangeOf(queue) = {} /\ RangeOf(current.left) = {}
  BY DEF RangeOf, Expanding
<1>2. \A state \in seen : Covered(state)
  BY <1>1 DEF IInv
<1>. QED BY <1>1, <1>2 DEF Covered, Handled, Successors

LEMMA InitExact == Init => ExactInv
<1>. SUFFICES ASSUME Init PROVE ExactInv
  OBVIOUS
<1>1. IInv
  BY InitIInv
<1>2. Distinct(queue) /\ ~Expanding
  BY DEF Init, Distinct, Expanding
<1>3. Counted = {}
  <2>1. RangeOf(queue) = {created} /\ seen = {created}
    BY DEF Init, RangeOf
  <2>. QED BY <1>2, <2>1 DEF Counted, Expanded, Transitions
<1>4. IsFiniteSet(Counted) /\ edges = Cardinality(Counted)
  BY <1>3, FS_EmptySet DEF Init
<1>5. seen \subseteq Reachable(graph)
  <2>1. graph \in [State -> Seq(State)]
    BY <1>1 DEF IInv, TypeOK
  <2>. QED BY <2>1, ReachableIsClosed DEF Init
<1>. QED BY <1>1, <1>2, <1>4, <1>5 DEF ExactInv, Init

\* A panic is justified by a lifecycle that is not safe.
LEMMA PanicExact == ExactInv /\ Panic /\ ~LifecycleSafe(graph) => ExactInv'
<1>. SUFFICES ASSUME ExactInv, Panic, ~LifecycleSafe(graph) PROVE ExactInv'
  OBVIOUS
<1>1. IInv'
  BY PanicIInv DEF ExactInv
<1>2. UNCHANGED <<graph, queue, seen, edges, current>> /\ verdict' = "panicked"
  BY DEF Panic
<1>3. Counted' = Counted /\ Expanding' = Expanding /\ AtSuccessor' = AtSuccessor
      /\ Distinct(queue)' = Distinct(queue)
  BY <1>2 DEF Counted, Expanded, Expanding, AtSuccessor, Done, Distinct
<1>4. LifecycleSafe(graph)' = LifecycleSafe(graph) /\ Reachable(graph)' = Reachable(graph)
  BY <1>2
<1>. QED BY <1>1, <1>2, <1>3, <1>4 DEF ExactInv

LEMMA PopExact == ExactInv /\ PopFront => ExactInv'
<1>. SUFFICES ASSUME ExactInv, PopFront PROVE ExactInv'
  OBVIOUS
<1>. DEFINE state == Head(queue)
<1>1. /\ queue \in Seq(State) /\ queue # << >> /\ ~Expanding /\ verdict = "running"
      /\ graph \in [State -> Seq(State)] /\ seen \subseteq State
  BY DEF ExactInv, IInv, TypeOK, PopFront
<1>2. /\ state \in State /\ Tail(queue) \in Seq(State) /\ state \in seen
      /\ RangeOf(queue) = {state} \union RangeOf(Tail(queue))
  BY <1>1, HeadAndTail DEF ExactInv, IInv
<1>3. CASE state.captures <= 1
  <2>1. /\ queue' = Tail(queue) /\ current' = [state |-> state, left |-> graph[state]]
        /\ UNCHANGED <<graph, seen, edges, verdict>>
    BY <1>3 DEF PopFront
  <2>2. Distinct(queue)' /\ state \notin RangeOf(queue')
    BY <1>1, <2>1, DistinctTail DEF ExactInv
  <2>3. current'.state = state /\ current'.left = graph[state] /\ graph[state] \in Seq(State)
    BY <1>1, <1>2, <2>1
  <2>4. Done' = 0 /\ (Expanding' => AtSuccessor')
    <3>1. Len(graph[state]) \in Nat
      BY <2>3
    <3>2. Done' = 0
      BY <2>1, <2>3, <3>1 DEF Done
    <3>3. \A j \in 1 .. Len(graph[state]) : graph[state][j] = graph[state][0 + j]
      BY <3>1
    <3>. QED BY <1>2, <2>1, <2>2, <2>3, <3>2, <3>3 DEF AtSuccessor
  <2>5. Counted' = Counted
    <3>1. Expanded = seen \ RangeOf(queue) /\ Counted = Transitions(graph, Expanded)
      BY <1>1 DEF Expanded, Counted
    <3>2. CASE Expanding'
      <4>1. Expanded' = Expanded
        BY <1>2, <2>1, <2>3, <3>1, <3>2 DEF Expanded
      <4>2. {current'.state} \X (1 .. Done') = {}
        BY <2>4
      <4>. QED BY <2>1, <3>1, <3>2, <4>1, <4>2 DEF Counted
    <3>3. CASE ~Expanding'
      <4>1. graph[state] = << >> /\ DOMAIN graph[state] = {}
        BY <2>3, <3>3 DEF Expanding
      <4>2. Expanded' = Expanded \union {state}
        BY <1>2, <2>1, <2>2, <3>1, <3>3 DEF Expanded
      <4>3. Counted' = Transitions(graph, Expanded \union {state})
        BY <2>1, <3>3, <4>2 DEF Counted
      <4>4. Transitions(graph, Expanded \union {state})
              = Transitions(graph, Expanded) \union ({state} \X DOMAIN graph[state])
        BY TransitionsAdded
      <4>. QED BY <3>1, <4>1, <4>3, <4>4
    <3>. QED BY <3>2, <3>3
  <2>6. IInv'
    BY PopIInv DEF ExactInv
  <2>. QED BY <1>1, <2>1, <2>2, <2>4, <2>5, <2>6 DEF ExactInv
<1>4. CASE ~(state.captures <= 1)
  <2>1. ~LifecycleSafe(graph)
    BY <1>2, <1>4 DEF ExactInv, LifecycleSafe
  <2>. QED BY <1>4, <2>1, PanicExact DEF PopFront
<1>. QED BY <1>3, <1>4

LEMMA EdgeExact == ExactInv /\ Edge => ExactInv'
<1>. SUFFICES ASSUME ExactInv, Edge PROVE ExactInv'
  OBVIOUS
<1>. DEFINE next == Head(current.left)
            state == current.state
<1>1. /\ queue \in Seq(State) /\ current.left # << >> /\ verdict = "running" /\ Expanding
      /\ graph \in [State -> Seq(State)] /\ seen \subseteq State /\ edges \in Nat
      /\ current \in [state : State, left : Seq(State)] /\ AtSuccessor
      /\ RangeOf(queue) \subseteq seen
  BY DEF ExactInv, IInv, TypeOK, Edge, Expanding
<1>2. /\ graph[state] \in Seq(State) /\ Len(graph[state]) \in Nat
      /\ Len(current.left) \in Nat \ {0} /\ Done \in Nat
      /\ Done + Len(current.left) = Len(graph[state])
  BY <1>1 DEF Done, AtSuccessor
<1>3. next = graph[state][Done + 1] /\ Done + 1 \in DOMAIN graph[state] /\ next \in State
  <2>1. next = current.left[1] /\ 1 \in 1 .. Len(current.left)
    BY <1>1, <1>2
  <2>2. next = graph[state][Done + 1]
    BY <1>1, <2>1 DEF AtSuccessor
  <2>3. Done + 1 \in 1 .. Len(graph[state]) /\ DOMAIN graph[state] = 1 .. Len(graph[state])
    BY <1>2
  <2>. QED BY <1>2, <2>2, <2>3
<1>4. state \in Reachable(graph) /\ next \in Reachable(graph)
  <2>1. state \in Reachable(graph)
    BY <1>1 DEF ExactInv, AtSuccessor
  <2>2. next \in Successors(graph, Reachable(graph))
    BY <1>3, <2>1 DEF Successors
  <2>. QED BY <1>1, <2>1, <2>2, ReachableIsClosed
<1>5. CASE EdgeHolds(state, next)
  <2>1. /\ edges' = edges + 1 /\ current' = [current EXCEPT !.left = Tail(@)]
        /\ queue' = IF next \in seen THEN queue ELSE Append(queue, next)
        /\ seen' = seen \union {next}
        /\ UNCHANGED <<graph, verdict>>
    BY <1>5 DEF Edge
  <2>2. current'.state = state /\ current'.left = Tail(current.left)
    BY <1>1, <2>1
  <2>3. /\ Len(Tail(current.left)) = Len(current.left) - 1 /\ Tail(current.left) \in Seq(State)
        /\ \A j \in 1 .. Len(current.left) - 1 : Tail(current.left)[j] = current.left[j + 1]
    <3>1. current.left \in Seq(State)
      BY <1>1
    <3>. QED BY <1>1, <1>2, <3>1
  <2>4. Done' = Done + 1
    <3>. DEFINE rest == Tail(current.left)
    <3>1. Done' = Len(graph[state]) - Len(rest)
      BY <2>1, <2>2 DEF Done
    <3>2. Len(rest) = Len(current.left) - 1
      BY <2>3
    <3>3. Done \in Int /\ Len(current.left) \in Int
      BY <1>2
    <3>4. Len(graph[state]) = Done + Len(current.left)
      BY <1>2
    <3>5. \A d, l \in Int : (d + l) - (l - 1) = d + 1
      OBVIOUS
    <3>6. Done' = (Done + Len(current.left)) - (Len(current.left) - 1)
      BY <3>1, <3>2, <3>4
    <3>. QED BY <3>3, <3>5, <3>6
  <2>5. RangeOf(queue') = IF next \in seen THEN RangeOf(queue) ELSE RangeOf(queue) \union {next}
    BY <1>1, <1>3, <2>1, Appended
  <2>6. Distinct(queue)'
    BY <1>1, <1>3, <2>1, DistinctAppend DEF ExactInv
  <2>7. state \in seen' /\ state \notin RangeOf(queue')
    BY <1>1, <2>1, <2>5 DEF AtSuccessor
  <2>8. AtSuccessor'
    <3>1. \A j \in 1 .. Len(Tail(current.left)) : Tail(current.left)[j] = graph[state][(Done + 1) + j]
      <4>. SUFFICES ASSUME NEW j \in 1 .. Len(Tail(current.left))
                    PROVE  Tail(current.left)[j] = graph[state][(Done + 1) + j]
        OBVIOUS
      <4>1. j + 1 \in 1 .. Len(current.left) /\ Done + (j + 1) = (Done + 1) + j /\ j \in 1 .. Len(current.left) - 1
        BY <1>2, <2>3
      <4>2. current.left[j + 1] = graph[state][Done + (j + 1)]
        BY <1>1, <4>1 DEF AtSuccessor
      <4>. QED BY <2>3, <4>1, <4>2
    <3>. QED BY <1>2, <2>1, <2>2, <2>4, <2>7, <3>1 DEF AtSuccessor
  <2>9. Counted' = Counted \union {<<state, Done + 1>>} /\ <<state, Done + 1>> \notin Counted
    <3>1. Expanded = (seen \ RangeOf(queue)) \ {state} /\ state \in seen \ RangeOf(queue)
      BY <1>1 DEF Expanded, AtSuccessor
    <3>2. Counted = Transitions(graph, Expanded) \union ({state} \X (1 .. Done))
      BY <1>1 DEF Counted
    <3>3. seen' \ RangeOf(queue') = seen \ RangeOf(queue)
      BY <1>1, <2>1, <2>5
    <3>4. {state} \X (1 .. (Done + 1)) = ({state} \X (1 .. Done)) \union {<<state, Done + 1>>}
      BY <1>2
    <3>5. Counted' = Transitions(graph, Expanded) \union ({state} \X (1 .. (Done + 1)))
      <4>1. CASE Expanding'
        <5>1. Expanded' = Expanded
          BY <2>2, <3>1, <3>3, <4>1 DEF Expanded
        <5>. QED BY <2>1, <2>2, <2>4, <4>1, <5>1 DEF Counted
      <4>2. CASE ~Expanding'
        <5>1. Tail(current.left) = << >> /\ Len(current.left) = 1
          <6>. DEFINE rest == Tail(current.left)
          <6>1. rest = << >>
            BY <2>2, <4>2 DEF Expanding
          <6>2. Len(rest) = Len(current.left) - 1
            BY <2>3
          <6>3. Len(current.left) \in Nat
            BY <1>2
          <6>. HIDE DEF rest
          <6>4. Len(rest) = 0
            BY <6>1
          <6>5. Len(current.left) = 1
            BY <6>2, <6>3, <6>4
          <6>. QED BY <6>1, <6>5 DEF rest
        <5>2. DOMAIN graph[state] = 1 .. (Done + 1)
          BY <1>2, <5>1
        <5>3. Expanded' = Expanded \union {state}
          BY <2>2, <3>1, <3>3, <4>2 DEF Expanded
        <5>4. Counted' = Transitions(graph, Expanded \union {state})
          BY <2>1, <4>2, <5>3 DEF Counted
        <5>5. Transitions(graph, Expanded \union {state})
                = Transitions(graph, Expanded) \union ({state} \X DOMAIN graph[state])
          BY TransitionsAdded
        <5>. QED BY <5>2, <5>4, <5>5
      <4>. QED BY <4>1, <4>2
    <3>6. <<state, Done + 1>> \notin Counted
      BY <1>2, <3>1, <3>2 DEF Transitions
    <3>. QED BY <3>2, <3>4, <3>5, <3>6
  <2>10. IsFiniteSet(Counted') /\ edges' = Cardinality(Counted')
    BY <2>1, <2>9, FS_AddElement DEF ExactInv
  <2>11. IInv'
    BY EdgeIInv DEF ExactInv
  <2>12. seen' \subseteq Reachable(graph)
    BY <1>4, <2>1 DEF ExactInv
  <2>. QED BY <1>1, <2>1, <2>6, <2>8, <2>10, <2>11, <2>12 DEF ExactInv
<1>6. CASE ~EdgeHolds(state, next)
  <2>1. ~LifecycleSafe(graph)
    BY <1>3, <1>4, <1>6 DEF LifecycleSafe
  <2>. QED BY <1>6, <2>1, PanicExact DEF Edge
<1>. QED BY <1>5, <1>6

LEMMA FinishExact == ExactInv /\ Finish => ExactInv'
<1>. SUFFICES ASSUME ExactInv, Finish PROVE ExactInv'
  OBVIOUS
<1>1. queue = << >> /\ ~Expanding /\ graph \in [State -> Seq(State)] /\ IInv
  BY DEF Finish, ExactInv, IInv, TypeOK
<1>2. CASE refunded \in seen
  <2>1. UNCHANGED <<graph, queue, seen, edges, current>> /\ verdict' = "passed"
    BY <1>2 DEF Finish
  <2>2. Counted' = Counted /\ Expanding' = Expanding /\ AtSuccessor' = AtSuccessor
        /\ Distinct(queue)' = Distinct(queue)
    BY <2>1 DEF Counted, Expanded, Expanding, AtSuccessor, Done, Distinct
  <2>3. IInv' /\ seen' \subseteq Reachable(graph')
    BY <2>1, FinishIInv DEF ExactInv
  <2>. QED BY <1>1, <2>1, <2>2, <2>3 DEF ExactInv
<1>3. CASE refunded \notin seen
  <2>1. Reachable(graph) \subseteq seen
    <3>1. created \in seen
      BY <1>1 DEF IInv
    <3>. QED BY <1>1, <3>1, SeenIsClosed, ReachableIsLeast
  <2>2. ~LifecycleSafe(graph)
    BY <1>3, <2>1 DEF LifecycleSafe
  <2>. QED BY <1>3, <2>2, PanicExact DEF Finish
<1>. QED BY <1>2, <1>3

LEMMA StutterExact == ExactInv /\ UNCHANGED vars => ExactInv'
<1>. SUFFICES ASSUME ExactInv, UNCHANGED vars PROVE ExactInv'
  OBVIOUS
<1>1. UNCHANGED <<graph, queue, seen, edges, current, verdict>>
  BY DEF vars
<1>2. Counted' = Counted /\ Expanding' = Expanding /\ AtSuccessor' = AtSuccessor
      /\ Distinct(queue)' = Distinct(queue)
  BY <1>1 DEF Counted, Expanded, Expanding, AtSuccessor, Done, Distinct
<1>3. IInv' /\ Reachable(graph)' = Reachable(graph) /\ LifecycleSafe(graph)' = LifecycleSafe(graph)
  BY <1>1, StutterIInv DEF ExactInv
<1>. QED BY <1>1, <1>2, <1>3 DEF ExactInv

LEMMA SpecExact == Spec => []ExactInv
<1>1. ExactInv /\ [Next]_vars => ExactInv'
  BY PopExact, EdgeExact, FinishExact, StutterExact DEF Next
<1>. QED BY InitExact, <1>1, PTL DEF Spec

\* After a pass the seen states are the reachable ones, and safe.
LEMMA PassedExact ==
  ASSUME ExactInv, verdict = "passed"
  PROVE  seen = Reachable(graph) /\ LifecycleSafe(graph) /\ Counted = Transitions(graph, seen)
<1>1. /\ queue = << >> /\ ~Expanding /\ graph \in [State -> Seq(State)] /\ IInv
      /\ created \in seen /\ refunded \in seen
  BY DEF ExactInv, IInv, TypeOK, PassIsClosed
<1>2. seen = Reachable(graph)
  BY <1>1, SeenIsClosed, ReachableIsLeast DEF ExactInv
<1>3. LifecycleSafe(graph)
  BY <1>1, <1>2, SeenIsClosed DEF LifecycleSafe
<1>4. Counted = Transitions(graph, seen)
  <2>1. RangeOf(queue) = {}
    BY <1>1 DEF RangeOf
  <2>. QED BY <1>1, <2>1 DEF Counted, Expanded
<1>. QED BY <1>2, <1>3, <1>4

\* Whatever the lifecycle, conformance/payment_lifecycle_model.rs passes it only
\* if all its reachable states are safe and panics only if one is not.
THEOREM ExplorerIsExact == Spec => []VerdictExact
<1>1. ExactInv => VerdictExact
  BY PassedExact DEF ExactInv, VerdictExact
<1>. QED BY <1>1, SpecExact, PTL

\* The numbers it prints are those of the reachable states and of the transitions
\* out of them, each counted once.
THEOREM CountsOfTheLifecycle == Spec => []CountsAreExact
<1>1. ExactInv => CountsAreExact
  BY PassedExact DEF ExactInv, CountsAreExact
<1>. QED BY <1>1, SpecExact, PTL

\* The lifecycle of the code is safe: its four states are all there is to reach.
LEMMA CodeLifecycleSafe == LifecycleSafe(next_states)
<1>. DEFINE authorized == [phase |-> Authorized, captures |-> 0]
            captured   == [phase |-> Captured, captures |-> 1]
            Four       == {created, authorized, captured, refunded}
            After(state) == {next_states[state][j] : j \in DOMAIN next_states[state]}
<1>1. Four \subseteq State
  BY CapturesAssumption DEF State, Created, Refunded, Authorized, Captured, created, refunded
<1>2. /\ next_states[created] = <<authorized>> /\ next_states[authorized] = <<captured>>
      /\ next_states[captured] = <<refunded>> /\ next_states[refunded] = <<refunded>>
  BY <1>1 DEF next_states, Created, Refunded, Authorized, Captured, created, refunded
<1>3. next_states \in [State -> Seq(State)]
  <2>1. \A state \in State : \E next \in State : next_states[state] = <<next>>
    BY <1>1 DEF next_states, refunded
  <2>2. \A next \in State : <<next>> \in Seq(State)
    OBVIOUS
  <2>. QED BY <2>1, <2>2 DEF next_states
<1>4. /\ \A state \in Four : /\ state.captures <= 1
                             /\ \A j \in DOMAIN next_states[state] : EdgeHolds(state, next_states[state][j])
      /\ Successors(next_states, Four) \subseteq Four
  <2>1. ASSUME NEW state \in Four
        PROVE  \A j \in DOMAIN next_states[state] :
                 EdgeHolds(state, next_states[state][j]) /\ next_states[state][j] \in Four
    BY <1>2 DEF EdgeHolds, Created, Refunded, Authorized, Captured, created, refunded
  <2>. QED BY <2>1 DEF Successors, created, refunded
<1>5. Reachable(next_states) \subseteq Four
  BY <1>3, <1>4, ReachableIsLeast
<1>6. refunded \in Reachable(next_states)
  <2>1. created \in Reachable(next_states) /\ Successors(next_states, Reachable(next_states)) \subseteq Reachable(next_states)
    BY <1>3, ReachableIsClosed
  <2>2. \A state \in Reachable(next_states) : \A j \in DOMAIN next_states[state] :
          next_states[state][j] \in Reachable(next_states)
    BY <2>1 DEF Successors
  <2>3. authorized \in Reachable(next_states)
    BY <1>2, <2>1, <2>2
  <2>4. captured \in Reachable(next_states)
    BY <1>2, <2>2, <2>3
  <2>. QED BY <1>2, <2>2, <2>4
<1>. QED BY <1>4, <1>5, <1>6 DEF LifecycleSafe

\* So the explorer never panics at it, whatever the bound on captures.
THEOREM CodePasses == Spec => []CodeLifecyclePasses
<1>1. ExactInv => CodeLifecyclePasses
  BY CodeLifecycleSafe DEF ExactInv, CodeLifecyclePasses
<1>. QED BY <1>1, SpecExact, PTL
=============================================================================
