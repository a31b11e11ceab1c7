------------------------------ MODULE MC_IRBlock ------------------------------
(* IRBlock instantiated for TLC: every opcode whose emitter consumes a    *)
(* pseudo-op, and one that consumes none; one conditional code; four     *)
(* instructions per block, enough for two producers with their flags in  *)
(* either order.                                                          *)
EXTENDS IRBlock

MCOpcodes == {"MostSignificantWord", "AddWithCarry", "SignedSaturatedAdd",
              "PackedAddU8", "LeastSignificantWord"}
MCConds == {"AL", "EQ"}
MCTerms == {"LinkBlock"}
=============================================================================
