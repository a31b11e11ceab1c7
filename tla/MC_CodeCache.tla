--------------------------- MODULE MC_CodeCache ---------------------------
(* Four locations: PCs 0 and 4, each in ARM and Thumb state.  A is       *)
(* conditional (its failure links to B) and pushes B on the RSB before    *)
(* linking to C in Thumb state; B is a return (BXWritePC, then CheckHalt   *)
(* around an If of PopRSBHint and ReturnToDispatch); C fast-links to D or  *)
(* links back to A; D hands its successor to the interpreter.             *)
EXTENDS CodeCache

L(pc, t) == [pc |-> pc, t |-> t]

MCProgram ==
  [l \in [pc : {0, 4}, t : BOOLEAN] |->
     IF l = L(0, FALSE) THEN
        [cond |-> "cc", condFailed |-> L(4, FALSE), condFailedCycles |-> 1,
         cycles |-> 1, writesPC |-> FALSE, pushRSB |-> L(4, FALSE),
         term |-> [kind |-> "LinkBlock", next |-> L(0, TRUE)]]
     ELSE IF l = L(4, FALSE) THEN
        [cond |-> "AL", condFailed |-> L(0, FALSE), condFailedCycles |-> 0,
         cycles |-> 1, writesPC |-> TRUE, pushRSB |-> NoLoc,
         term |-> [kind |-> "CheckHalt",
                   else_ |-> [kind |-> "If",
                              then_ |-> [kind |-> "PopRSBHint", next |-> NoLoc],
                              else_ |-> [kind |-> "ReturnToDispatch", next |-> NoLoc]]]]
     ELSE IF l = L(0, TRUE) THEN
        [cond |-> "AL", condFailed |-> L(0, FALSE), condFailedCycles |-> 0,
         cycles |-> 1, writesPC |-> FALSE, pushRSB |-> NoLoc,
         term |-> [kind |-> "If",
                   then_ |-> [kind |-> "LinkBlockFast", next |-> L(4, TRUE)],
                   else_ |-> [kind |-> "LinkBlock", next |-> L(0, FALSE)]]]
     ELSE
        [cond |-> "AL", condFailed |-> L(0, FALSE), condFailedCycles |-> 0,
         cycles |-> 1, writesPC |-> FALSE, pushRSB |-> NoLoc,
         term |-> [kind |-> "Interpret", next |-> L(0, TRUE)]]]

ASSUME MCWellFormed == \A l \in Loc : WellFormed(Program[l], l)
=============================================================================
