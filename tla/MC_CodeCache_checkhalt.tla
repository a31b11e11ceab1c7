------------------------ MODULE MC_CodeCache_checkhalt ------------------------
(* A loop as the front-end translates it with CheckHalt "around loops":  *)
(* the block at PC 0 does not write the PC and ends in                   *)
(* CheckHalt{LinkBlock{PC 4}}; the block at PC 4 links back to PC 0.     *)
(* Both are in ARM and in Thumb state.                                   *)
EXTENDS CodeCache

MCProgramLoop ==
  [l \in [pc : {0, 4}, t : BOOLEAN] |->
     [cond |-> "AL", condFailed |-> l, condFailedCycles |-> 0,
      cycles |-> 1, writesPC |-> FALSE, pushRSB |-> NoLoc,
      term |-> IF l.pc = 0
                 THEN [kind |-> "CheckHalt",
                       else_ |-> [kind |-> "LinkBlock", next |-> [pc |-> 4, t |-> l.t]]]
                 ELSE [kind |-> "LinkBlock", next |-> [pc |-> 0, t |-> l.t]]]]
=============================================================================
