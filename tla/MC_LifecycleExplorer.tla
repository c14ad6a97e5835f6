----------------------- MODULE MC_LifecycleExplorer -----------------------
(***************************************************************************)
(* Lifecycles for TLC: the one of the code, and every lifecycle that       *)
(* differs from it in the successors of one state, of which there may be   *)
(* none, one or two, back edges and double captures included.              *)
(***************************************************************************)
EXTENDS LifecycleExplorer

FewSuccessors == {<< >>} \union {<<a>> : a \in State} \union {<<a, b>> : a, b \in State}

OneStateChanged ==
  {next_states} \union {[next_states EXCEPT ![state] = left] : state \in State, left \in FewSuccessors}
=============================================================================
