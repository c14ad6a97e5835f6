--------------------------- MODULE PendingEvents ---------------------------
(***************************************************************************)
(* The stack of scopes in which both require-send checkers keep the log    *)
(* events that are built, bound to a name and not delivered yet: a         *)
(* JavaScript Map from names in each scope, so one event per name.         *)
(***************************************************************************)
EXTENDS Naturals, Sequences

Holds(scope, name) == \E p \in scope : p.name = name

Without(scope, name) == {p \in scope : p.name # name}

Enter(scopes) == Append(scopes, {})

Exit(scopes) == SubSeq(scopes, 1, Len(scopes) - 1)

\* A name bound again in one scope takes the place of its earlier event.
Mark(scopes, name, event) ==
  [scopes EXCEPT ![Len(scopes)] = Without(@, name) \union {[name |-> name, event |-> event]}]

IsPending(scopes, name) == \E k \in DOMAIN scopes : Holds(scopes[k], name)

\* A use of a name settles the event of the innermost scope that holds the name.
Settle(scopes, names) ==
  [k \in DOMAIN scopes |->
    {p \in scopes[k] : p.name \in names => \E j \in k + 1 .. Len(scopes) : Holds(scopes[j], p.name)}]

Clear(scopes, name) == Settle(scopes, {name})

EventsIn(scope) == {p.event : p \in scope}
=============================================================================
