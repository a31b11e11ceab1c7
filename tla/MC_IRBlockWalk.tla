---------------------------- MODULE MC_IRBlockWalk ----------------------------
(* IRBlockWalk on MC_IRBlock's instance. *)
EXTENDS IRBlockWalk

MCOpcodes == {"MostSignificantWord", "AddWithCarry", "SignedSaturatedAdd",
              "PackedAddU8", "LeastSignificantWord"}
MCConds == {"AL", "EQ"}
MCTerms == {"LinkBlock"}
=============================================================================
