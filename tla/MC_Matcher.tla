------------------------------ MODULE MC_Matcher ------------------------------
(* A six-bit decode table in the style of the ARM tables: overlapping    *)
(* entries whose order decides (a specific encoding before the general   *)
(* one), and an entry fixed in every bit.                                 *)
EXTENDS Matcher

MCTable ==
    << [name |-> "MOVS_pc", pattern |-> <<"1", "1", "-", "-", "0", "1">>],
       [name |-> "DataProc", pattern |-> <<"1", "-", "-", "-", "-", "-">>],
       [name |-> "NOP", pattern |-> <<"0", "0", "0", "0", "0", "0">>],
       [name |-> "Branch", pattern |-> <<"0", "1", "0", "-", "-", "-">>] >>
=============================================================================
