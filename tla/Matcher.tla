------------------------------- MODULE Matcher -------------------------------
(***************************************************************************)
(* The instruction matcher (frontend/decoder/matcher.h) and the decoder  *)
(* that uses it.  A Matcher holds a name, a mask and an expected value    *)
(* built from a bit pattern of the decode table; Matches tests           *)
(* (instruction & mask) == expected, and call() ASSERTs Matches before   *)
(* running the handler.  The decoder scans its table in order and calls  *)
(* the first matcher that matches (std::find_if), or reports the         *)
(* instruction undefined.  Opcodes are W bits wide (32 for ARM, 16 for   *)
(* Thumb in the code).                                                    *)
(***************************************************************************)
EXTENDS Naturals, Sequences, Bitwise

CONSTANTS
    W,        \* bits of opcode_type
    Table     \* the decode table: a sequence of [name, pattern] records

(* A pattern is the table's bit string, most significant bit first:      *)
(* "0", "1", or "-" for a bit the instruction may have either way.       *)
Pattern == [1..W -> {"0", "1", "-"}]
Opcode == 0..(2^W - 1)

ASSUME WAssumption == W \in Nat \ {0}
ASSUME TableAssumption ==
    Table \in Seq([name : STRING, pattern : Pattern])

VARIABLES
    instruction,  \* the opcode being decoded
    pos,          \* the table entry find_if is looking at
    handled       \* the name of the handler called, "undefined", or "none"

vars == <<instruction, pos, handled>>

Bit(n, i) == (n \div 2^i) % 2

(* Bit i (0 = least significant) as the pattern spells it. *)
PatBit(p, i) == p[W - i]

(* GetMaskAndExpect: a 1 in the mask for every fixed bit, the expected   *)
(* value holds the fixed bits' values.                                     *)
MaskOf(p) == LET f[i \in 0..W] == IF i = 0 THEN 0
                                  ELSE f[i - 1] + (IF PatBit(p, i - 1) = "-" THEN 0 ELSE 2^(i - 1))
             IN f[W]
ExpectOf(p) == LET f[i \in 0..W] == IF i = 0 THEN 0
                                    ELSE f[i - 1] + (IF PatBit(p, i - 1) = "1" THEN 2^(i - 1) ELSE 0)
               IN f[W]

(* The Matcher object built for a table entry: the constructor keeps the *)
(* name, mask and expected value, which GetName/GetMask/GetExpected read. *)
MatcherOf(entry) ==
    [name |-> entry.name, mask |-> MaskOf(entry.pattern),
     expected |-> ExpectOf(entry.pattern)]

(* The reference: the instruction agrees with every fixed bit. *)
PatternMatches(p, n) ==
    \A i \in 0..(W - 1) : PatBit(p, i) # "-" => Bit(n, i) = (IF PatBit(p, i) = "1" THEN 1 ELSE 0)

(* The first entry of the table whose pattern matches, by the reference. *)
RefDecode(n) ==
    LET hits == {k \in DOMAIN Table : PatternMatches(Table[k].pattern, n)}
    IN IF hits = {} THEN "undefined"
       ELSE Table[CHOOSE k \in hits : \A j \in hits : k <= j].name

-----------------------------------------------------------------------------
(* Mutant: Matches testing only that the expected 1 bits are set,        *)
(* forgetting the fixed 0 bits.                                          *)
MatchesOnes(mask, expected, n) == (n & expected) = expected

(* Matcher::Matches. *)
Matches(mask, expected, n) == (n & mask) = expected

(* Decoding starts on any opcode, at the head of the table. *)
Init ==
    /\ instruction \in Opcode
    /\ pos = 1
    /\ handled = "none"

(* find_if: skip an entry that does not match. *)
Skip ==
    /\ handled = "none"
    /\ pos <= Len(Table)
    /\ ~Matches(MatcherOf(Table[pos]).mask, MatcherOf(Table[pos]).expected, instruction)
    /\ pos' = pos + 1
    /\ UNCHANGED <<instruction, handled>>

(* Matcher::call on the entry found: ASSERT(Matches(instruction)), then  *)
(* the handler.                                                           *)
Call ==
    /\ handled = "none"
    /\ pos <= Len(Table)
    /\ Matches(MatcherOf(Table[pos]).mask, MatcherOf(Table[pos]).expected, instruction)
    /\ handled' = MatcherOf(Table[pos]).name
    /\ UNCHANGED <<instruction, pos>>

(* No entry matches: the instruction is undefined. *)
Undefined ==
    /\ handled = "none"
    /\ pos > Len(Table)
    /\ handled' = "undefined"
    /\ UNCHANGED <<instruction, pos>>

Next == Skip \/ Call \/ Undefined

Spec == Init /\ [][Next]_vars

-----------------------------------------------------------------------------
(* The decoder calls the handler of the first table entry whose bit      *)
(* pattern the instruction fits, and calls none when no pattern fits:    *)
(* the mask/expected test and the in-order scan agree with the table's   *)
(* bit strings.                                                           *)
DecodesAsTable == handled # "none" => handled = RefDecode(instruction)

=============================================================================
