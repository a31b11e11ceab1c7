------------------------------- MODULE IRBlock -------------------------------
(***************************************************************************)
(* One IR::Block over its lifetime: the front-end builds it through the   *)
(* Block API (frontend/ir/basic_block.h and its .cpp), hands it to        *)
(* EmitX64::Emit, which walks its intrusive instruction list with an     *)
(* iterator while the opcode emitters erase the flag pseudo-ops          *)
(* (GetCarryFromOp, GetOverflowFromOp, GetGEFromOp) they consume, and    *)
(* the block is then discarded and the next one built.                   *)
(*                                                                         *)
(* The intrusive instruction list is the set `instructions` of the ids  *)
(* of its nodes: AppendNewInst gives each node the pool's next id and     *)
(* pushes it at the back, and nothing inserts elsewhere, so list order is *)
(* id order and erasing a node keeps the others' order.  node[j] is what  *)
(* the pool slot j holds: its opcode and, for a pseudo-op, the id of the  *)
(* producer it reads (the other operands do not matter here).  Cycle      *)
(* counts are size_t; EmitAddCycles encodes them as the 32-bit immediate  *)
(* of a 64-bit SUB, which the CPU sign-extends: the immediate width is    *)
(* the constant ImmBits (32 in the code).                                 *)
(***************************************************************************)
EXTENDS Integers, Sequences

CONSTANTS
    Opcodes,      \* the ordinary opcodes the front-end may append
    Conds,        \* the ARM condition codes, "AL" included
    Locs,         \* location descriptors (condition-failed targets)
    Terms,        \* terminal kinds the front-end may set
    MaxInsts,     \* instructions allocated per block (bounds the pool)
    MaxCycles,    \* bound on the block's cycle counts
    ImmBits,      \* width of EmitAddCycles' immediate
    None,         \* an empty boost::optional
    NoArg,        \* no instruction argument
    End           \* the list's end() iterator

PseudoOps == {"GetCarryFromOp", "GetOverflowFromOp", "GetGEFromOp"}
Ids == 1..MaxInsts
Node == [op : Opcodes \cup PseudoOps \cup {"Free"}, arg : Ids \cup {NoArg}]
FreeNode == [op |-> "Free", arg |-> NoArg]

ASSUME OpcodesAssumption == Opcodes \cap (PseudoOps \cup {"Free"}) = {}
ASSUME CondsAssumption == "AL" \in Conds
ASSUME MaxInstsAssumption == MaxInsts \in Nat \ {0}
ASSUME ImmBitsAssumption == ImmBits \in Nat \ {0}
\* EmitAddCycles: ASSERT(cycles < std::numeric_limits<u32>::max()).  The
\* front-end never exceeds it; what it leaves open is tested below.
ASSUME MaxCyclesAssumption == MaxCycles \in Nat /\ MaxCycles < 2^ImmBits - 1
ASSUME SentinelAssumption ==
    /\ None \notin Locs /\ NoArg \notin Ids /\ End \notin Ids

VARIABLES
    cond, cond_failed, cond_failed_cycle_count,   \* Block's fields
    instructions, terminal, cycle_count,
    node,         \* the instruction pool's slots
    nextId,       \* the pool's next free slot
    phase,        \* "build", "prelude", "body", "done" (the block's owner)
    iter,         \* Emit's iterator: the id of the current node, or End
    handed,       \* ghost: the instruction list Emit was handed
    emitted,      \* ghost: ids passed to their Emit* member, in order
    standalone,   \* ghost: pseudo-ops the loop dispatched by themselves
    condSub,      \* what the prelude's SUB takes from cycles_remaining
    bodySub       \* what the block's trailing SUB takes

blockVars == <<cond, cond_failed, cond_failed_cycle_count, instructions,
               terminal, cycle_count, node, nextId>>
emitVars == <<phase, iter, handed, emitted, standalone, condSub, bodySub>>
vars == <<blockVars, emitVars>>

IsPseudo(j) == node[j].op \in PseudoOps

(* The least and the greatest id of a non-empty set. *)
Least(S) == CHOOSE j \in S : \A k \in S : j <= k
Greatest(S) == CHOOSE j \in S : \A k \in S : k <= j

(* ++iter on the intrusive list L: the next node after id, or end(). *)
NextInList(L, id) ==
    IF \E j \in L : j > id THEN Least({j \in L : j > id}) ELSE End

(* begin(). *)
Begin(L) == IF L = {} THEN End ELSE Least(L)

-----------------------------------------------------------------------------
(* Mutants: each is a plausible slip in one of the code's definitions    *)
(* below, used to confirm that a property notices it.                     *)

(* EmitAddWithCarry forgetting to erase its GetOverflowFromOp. *)
ConsumedByDropOverflow(op) ==
    CASE op = "MostSignificantWord" -> {"GetCarryFromOp"}
      [] op = "AddWithCarry"        -> {"GetCarryFromOp"}
      [] op = "SignedSaturatedAdd"  -> {"GetOverflowFromOp"}
      [] op = "PackedAddU8"         -> {"GetGEFromOp"}
      [] OTHER                      -> {}

(* ConditionFailedCycleCount() returning a reference to cycle_count. *)
AddConditionFailedCycleWrongField ==
    /\ cond_failed_cycle_count < MaxCycles
    /\ cycle_count' = cycle_count + 1
    /\ UNCHANGED <<cond, cond_failed, cond_failed_cycle_count, instructions, node,
                   terminal, nextId>>

-----------------------------------------------------------------------------
(* The IR's flag pseudo-ops: which flags an opcode produces (IR opcode   *)
(* table, outside the backend).                                           *)
Produces(op) ==
    CASE op = "MostSignificantWord" -> {"GetCarryFromOp"}
      [] op = "AddWithCarry"        -> {"GetCarryFromOp", "GetOverflowFromOp"}
      [] op = "SignedSaturatedAdd"  -> {"GetOverflowFromOp"}
      [] op = "PackedAddU8"         -> {"GetGEFromOp"}
      [] OTHER                      -> {}

(* The pseudo-ops each opcode's emitter looks up and erases. *)
ConsumedBy(op) ==
    CASE op = "MostSignificantWord" -> {"GetCarryFromOp"}
      [] op = "AddWithCarry"        -> {"GetCarryFromOp", "GetOverflowFromOp"}
      [] op = "SignedSaturatedAdd"  -> {"GetOverflowFromOp"}
      [] op = "PackedAddU8"         -> {"GetGEFromOp"}
      [] OTHER                      -> {}

(* Inst::GetAssociatedPseudoOperation: the pseudo-op of that kind whose  *)
(* argument is this instruction, if any.                                  *)
Associated(L, id, kind) == {j \in L : node[j].op = kind /\ node[j].arg = id}

(* EmitAddCycles: SUB qword [cycles_remaining], imm32 where imm32 is     *)
(* static_cast<u32>(cycles); the CPU sign-extends the immediate.          *)
SubEffect(n) ==
    LET imm == n % 2^ImmBits
    IN IF imm >= 2^(ImmBits - 1) THEN imm - 2^ImmBits ELSE imm

-----------------------------------------------------------------------------
(* The Block API, called by the front-end while it builds the block. *)

(* Block::Block(location): every field at its default. *)
NewBlock ==
    /\ cond = "AL" /\ cond_failed = None /\ cond_failed_cycle_count = 0
    /\ instructions = {} /\ terminal = "Invalid" /\ cycle_count = 0
    /\ node = [j \in Ids |-> FreeNode] /\ nextId = 1

HasTerminal == terminal # "Invalid"
HasConditionFailedLocation == cond_failed # None

Build(A) == phase = "build" /\ A /\ UNCHANGED emitVars

(* AppendNewInst: allocate from the pool and push_back.  A pseudo-op's   *)
(* argument is an instruction already in the block that produces its    *)
(* kind, with at most one pseudo-op of each kind (IR contract).          *)
AppendNewInst(op, arg) ==
    /\ nextId <= MaxInsts
    /\ IF op \in PseudoOps
       THEN /\ arg \in instructions
            /\ ~IsPseudo(arg)
            /\ op \in Produces(node[arg].op)
            /\ Associated(instructions, arg, op) = {}
       ELSE arg = NoArg
    /\ node' = [node EXCEPT ![nextId] = [op |-> op, arg |-> arg]]
    /\ instructions' = instructions \cup {nextId}
    /\ nextId' = nextId + 1
    /\ UNCHANGED <<cond, cond_failed, cond_failed_cycle_count, terminal, cycle_count>>

SetCondition(c) ==
    /\ cond' = c
    /\ UNCHANGED <<cond_failed, cond_failed_cycle_count, instructions, node,
                   terminal, cycle_count, nextId>>

SetConditionFailedLocation(l) ==
    /\ cond_failed' = l
    /\ UNCHANGED <<cond, cond_failed_cycle_count, instructions, node,
                   terminal, cycle_count, nextId>>

(* ++block.ConditionFailedCycleCount() through the mutable reference. *)
AddConditionFailedCycle ==
    /\ cond_failed_cycle_count < MaxCycles
    /\ cond_failed_cycle_count' = cond_failed_cycle_count + 1
    /\ UNCHANGED <<cond, cond_failed, instructions, node, terminal, cycle_count, nextId>>

(* ++block.CycleCount() through the mutable reference. *)
AddCycle ==
    /\ cycle_count < MaxCycles
    /\ cycle_count' = cycle_count + 1
    /\ UNCHANGED <<cond, cond_failed, cond_failed_cycle_count, instructions, node,
                   terminal, nextId>>

(* SetTerminal: ASSERT_MSG(!HasTerminal()); the front-end sets it once. *)
SetTerminal(t) ==
    /\ ~HasTerminal
    /\ terminal' = t
    /\ UNCHANGED <<cond, cond_failed, cond_failed_cycle_count, instructions, node,
                   cycle_count, nextId>>

(* The front-end hands the finished block to Emit: it has its terminal,  *)
(* and a condition-failed location exactly when it is conditional (what  *)
(* EmitCondPrelude asserts).                                              *)
HandOff ==
    /\ phase = "build"
    /\ HasTerminal
    /\ (cond = "AL") = ~HasConditionFailedLocation
    /\ phase' = "prelude"
    /\ handed' = instructions
    /\ UNCHANGED <<blockVars, iter, emitted, standalone, condSub, bodySub>>

-----------------------------------------------------------------------------
(* EmitX64::Emit, one step per stage of its body. *)

(* EmitCondPrelude: nothing for AL; otherwise the fail path's            *)
(* EmitAddCycles(ConditionFailedCycleCount()) and LinkBlock.  Then the   *)
(* loop's iterator starts at begin().                                     *)
EmitCondPrelude ==
    /\ phase = "prelude"
    /\ condSub' = IF cond = "AL" THEN 0 ELSE SubEffect(cond_failed_cycle_count)
    /\ iter' = Begin(instructions)
    /\ phase' = "body"
    /\ UNCHANGED <<blockVars, handed, emitted, standalone, bodySub>>

(* What the emitter of the node at iter erases: EraseInstruction on each *)
(* GetAssociatedPseudoOperation of a kind it consumes; nothing when the   *)
(* node is itself a pseudo-op, whose Emit* member only ASSERTs.           *)
Gone ==
    IF IsPseudo(iter) THEN {}
    ELSE UNION {Associated(instructions, iter, k) : k \in ConsumedBy(node[iter].op)}

(* One turn of the loop: dispatch *iter to its Emit* member, which erases *)
(* Gone; then the iterator moves to next.  A pseudo-op reaching the      *)
(* switch hits EmitGetCarryFromOp & co, which ASSERT.                     *)
EmitStep(next) ==
    /\ phase = "body"
    /\ iter # End
    /\ instructions' = instructions \ Gone
    /\ emitted' = IF IsPseudo(iter) THEN emitted ELSE Append(emitted, iter)
    /\ standalone' = IF IsPseudo(iter) THEN standalone \cup {iter} ELSE standalone
    /\ iter' = next
    /\ UNCHANGED <<cond, cond_failed, cond_failed_cycle_count, terminal,
                   cycle_count, node, nextId, phase, handed, condSub, bodySub>>

(* Mutant: the loop resuming from what erase() returns, the node after   *)
(* the erased pseudo-op, skipping those between it and its producer.      *)
EmitInstResumeAfterErased ==
    EmitStep(IF Gone = {} THEN NextInList(instructions \ Gone, iter)
             ELSE NextInList(instructions \ Gone, Greatest(Gone)))

(* The loop's turn as the code takes it: ++iter reads the node's         *)
(* successor in the list as it is after the erasure.                      *)
EmitInst == EmitStep(NextInList(instructions \ Gone, iter))

(* After the loop: EmitAddCycles(block.CycleCount()), then the terminal *)
(* (modelled in CodeCache).                                               *)
EmitTail ==
    /\ phase = "body"
    /\ iter = End
    /\ bodySub' = SubEffect(cycle_count)
    /\ phase' = "done"
    /\ UNCHANGED <<blockVars, iter, handed, emitted, standalone, condSub>>

EmitVars0 ==
    /\ iter = End /\ handed = {} /\ emitted = <<>>
    /\ standalone = {} /\ condSub = 0 /\ bodySub = 0

(* The caller discards the block; the front-end starts the next one. *)
Discard ==
    /\ phase = "done"
    /\ phase' = "build"
    /\ cond' = "AL" /\ cond_failed' = None /\ cond_failed_cycle_count' = 0
    /\ instructions' = {} /\ terminal' = "Invalid" /\ cycle_count' = 0
    /\ node' = [j \in Ids |-> FreeNode] /\ nextId' = 1
    /\ iter' = End /\ handed' = {} /\ emitted' = <<>>
    /\ standalone' = {} /\ condSub' = 0 /\ bodySub' = 0

Init == phase = "build" /\ NewBlock /\ EmitVars0

Next ==
    \/ \E op \in Opcodes \cup PseudoOps, a \in Ids \cup {NoArg} :
           Build(AppendNewInst(op, a))
    \/ \E c \in Conds : Build(SetCondition(c))
    \/ \E l \in Locs : Build(SetConditionFailedLocation(l))
    \/ Build(AddConditionFailedCycle)
    \/ Build(AddCycle)
    \/ \E t \in Terms : Build(SetTerminal(t))
    \/ HandOff
    \/ EmitCondPrelude
    \/ EmitInst
    \/ EmitTail
    \/ Discard

(* Emit is a plain function call: once begun it runs to its end. *)
Spec == Init /\ [][Next]_vars /\ WF_vars(EmitCondPrelude \/ EmitInst \/ EmitTail)

-----------------------------------------------------------------------------
(* Properties. *)

TypeOK ==
    /\ cond \in Conds /\ cond_failed \in Locs \cup {None}
    /\ cond_failed_cycle_count \in 0..MaxCycles /\ cycle_count \in 0..MaxCycles
    /\ instructions \subseteq Ids /\ node \in [Ids -> Node]
    /\ nextId \in 1..(MaxInsts + 1)
    /\ terminal \in Terms \cup {"Invalid"}
    /\ phase \in {"build", "prelude", "body", "done"}
    /\ iter \in Ids \cup {End}
    /\ handed \subseteq Ids /\ emitted \in Seq(Ids)
    /\ standalone \subseteq Ids /\ condSub \in Int /\ bodySub \in Int

(* The emit loop never dispatches a pseudo-op by itself (which would hit *)
(* EmitGetCarryFromOp/EmitGetOverflowFromOp/EmitGetGEFromOp's ASSERT):   *)
(* each is erased by its producer's emitter before the iterator gets to  *)
(* it, whatever order the front-end appended the block in.               *)
NoStandalonePseudoOp == standalone = {}

(* Emission is strictly in IR order: when Emit is done, it has passed    *)
(* every ordinary instruction of the block it was handed to its emitter  *)
(* exactly once, in list order.                                           *)
EmittedInOrder ==
    phase = "done" =>
        /\ {emitted[i] : i \in DOMAIN emitted} = {j \in handed : ~IsPseudo(j)}
        /\ \A i, k \in DOMAIN emitted : i < k => emitted[i] < emitted[k]

(* The cycle accounting is exact: what the emitted SUBs take from        *)
(* cycles_remaining is the block's cycle count, and on the condition-    *)
(* failed path its condition-failed cycle count, for every count that    *)
(* passes EmitAddCycles' ASSERT.                                          *)
CyclesSubtracted ==
    phase = "done" =>
        /\ bodySub = cycle_count
        /\ cond # "AL" => condSub = cond_failed_cycle_count

=============================================================================
