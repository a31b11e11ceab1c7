------------------------------ MODULE IRBlockWalk ------------------------------
(***************************************************************************)
(* The refinement of EmitWalk by IRBlock: Emit's loop over the intrusive  *)
(* list, with its emitters erasing pseudo-ops as it goes, is a walk over  *)
(* the block's ordinary instructions in order.                            *)
(***************************************************************************)
EXTENDS IRBlock

(* Building a block is idle for the walk; the prelude and the loop are   *)
(* the walk's emission.                                                    *)
WalkStage ==
    CASE phase = "build"                -> "idle"
      [] phase \in {"prelude", "body"}  -> "emit"
      [] phase = "done"                 -> "done"

(* Still to dispatch: every ordinary instruction from the iterator on.   *)
WalkTodo ==
    {j \in instructions :
        /\ ~IsPseudo(j)
        /\ \/ phase = "prelude"
           \/ phase = "body" /\ iter # End /\ iter <= j}

Walk == INSTANCE EmitWalk WITH Insts <- Ids, stage <- WalkStage, todo <- WalkTodo,
                               out <- emitted

(* Emit's walk over the block, pseudo-op erasure and all, dispatches the *)
(* ordinary instructions of the handed block one at a time, in order,    *)
(* each once, and then ends (EmitWalk's specification, fairness         *)
(* included).                                                              *)
WalkSpec == Walk!Spec

=============================================================================
