---------------------------- MODULE IRBlock_proofs ----------------------------
(***************************************************************************)
(* Proofs about the IR block and Emit's walk over it: for every pool     *)
(* size, the walk never dispatches a flag pseudo-op by itself, and it    *)
(* emits every ordinary instruction once, in list order.                  *)
(***************************************************************************)
EXTENDS IRBlock, WellFoundedInduction, TLAPS

(* The shape of the instruction list.  Every pseudo-op on the list reads *)
(* an ordinary instruction that is on the list before it and produces    *)
(* that flag.                                                             *)
LiveShape ==
    /\ instructions \subseteq 1..(nextId - 1)
    /\ \A c \in instructions : IsPseudo(c) =>
          /\ node[c].arg \in instructions
          /\ node[c].arg < c
          /\ ~IsPseudo(node[c].arg)
          /\ node[c].op \in Produces(node[node[c].arg].op)

(* During the loop, the iterator is on the list and has not passed the   *)
(* producer of any pseudo-op still on it.                                 *)
IterAhead ==
    phase = "body" =>
        /\ iter \in instructions \cup {End}
        /\ \A c \in instructions : IsPseudo(c) => iter # End /\ iter <= node[c].arg

Typing ==
    /\ instructions \subseteq Ids /\ node \in [Ids -> Node]
    /\ nextId \in 1..(MaxInsts + 1) /\ iter \in Ids \cup {End}
    /\ phase \in {"build", "prelude", "body", "done"}
    /\ standalone \subseteq Ids

WInv == Typing /\ LiveShape /\ IterAhead /\ NoStandalonePseudoOp

(* While a block is being built, Emit has not yet started on it: nothing  *)
(* is erased, emitted or handed over.                                      *)
BuildClean ==
    phase = "build" =>
        /\ emitted = <<>>
        /\ handed = {}

(* From the hand-off on: the list only loses pseudo-ops of the block      *)
(* handed over, and what has been emitted is, in increasing order, the     *)
(* ordinary instructions before the iterator.                              *)
EmitOrder ==
    phase # "build" =>
        /\ instructions \subseteq handed
        /\ \A j \in handed : ~IsPseudo(j) => j \in instructions
        /\ phase = "prelude" => emitted = <<>>
        /\ phase = "done" => iter = End
        /\ phase \in {"body", "done"} =>
              {emitted[i] : i \in DOMAIN emitted} =
                  {j \in handed : ~IsPseudo(j) /\ (iter = End \/ j < iter)}
        /\ \A i, k \in DOMAIN emitted : i < k => emitted[i] < emitted[k]

FInv == TypeOK /\ WInv /\ BuildClean /\ EmitOrder

-----------------------------------------------------------------------------
(* Lemmas on the helpers. *)

(* A non-empty set of naturals has a least element, which Least picks. *)
LEMMA LeastIsLeast ==
    ASSUME NEW S, S \subseteq Nat, S # {}
    PROVE  Least(S) \in S /\ \A k \in S : Least(S) <= k
<1>1. \E x \in S : \A y \in S : ~(<<y, x>> \in OpToRel(<, Nat))
  BY WFMin, NatLessThanWellFounded
<1>2. OpToRel(<, Nat) = {ss \in Nat \X Nat : ss[1] < ss[2]}
  BY Zenon DEF OpToRel
<1>3. PICK x \in S : \A y \in S : ~(<<y, x>> \in {ss \in Nat \X Nat : ss[1] < ss[2]})
  BY <1>1, <1>2
<1>4. \A y \in S : x <= y
  <2>1. SUFFICES ASSUME NEW y \in S PROVE x <= y
    OBVIOUS
  <2>2. ~(y < x)
    BY <1>3, Zenon
  <2>. QED
    BY <2>2
<1>5. \E x1 \in S : \A y \in S : x1 <= y
  BY <1>4
<1>. QED
  BY <1>5 DEF Least

LEMMA IdsNat == Ids \subseteq Nat
  BY MaxInstsAssumption DEF Ids

(* ++iter: the least node of the list after id, or end() when none is. *)
LEMMA NextInListProp ==
    ASSUME NEW L, L \subseteq Ids, NEW id \in Nat
    PROVE  /\ NextInList(L, id) \in L \cup {End}
           /\ \A j \in L : j > id => NextInList(L, id) # End
                                      /\ NextInList(L, id) <= j
<1>1. CASE \E j \in L : j > id
  <2>1. {j \in L : j > id} \subseteq Nat /\ {j \in L : j > id} # {}
    BY <1>1, IdsNat
  <2>2. NextInList(L, id) = Least({j \in L : j > id})
    BY <1>1 DEF NextInList
  <2>. QED
    BY <2>1, <2>2, LeastIsLeast, SentinelAssumption
<1>2. CASE ~\E j \in L : j > id
  BY <1>2 DEF NextInList
<1>. QED
  BY <1>1, <1>2

(* begin(): the least node of the list, or end() for an empty list. *)
LEMMA BeginProp ==
    ASSUME NEW L, L \subseteq Ids
    PROVE  /\ Begin(L) \in L \cup {End}
           /\ \A j \in L : Begin(L) # End /\ Begin(L) <= j
<1>1. CASE L # {}
  <2>1. Least(L) \in L /\ \A k \in L : Least(L) <= k
    BY <1>1, IdsNat, LeastIsLeast
  <2>. QED
    BY <1>1, <2>1, SentinelAssumption DEF Begin
<1>2. CASE L = {}
  BY <1>2 DEF Begin
<1>. QED
  BY <1>1, <1>2

(* Every emitter in the model erases every flag its opcode can produce,  *)
(* and only pseudo-ops.                                                    *)
LEMMA ConsumesWhatItProduces ==
    ASSUME NEW op
    PROVE  ConsumedBy(op) = Produces(op) /\ Produces(op) \subseteq PseudoOps
  BY DEF ConsumedBy, Produces, PseudoOps

-----------------------------------------------------------------------------
(* WInv holds initially and is kept by every step. *)

USE DEF blockVars, emitVars

LEMMA InitWInv == Init => WInv
  BY MaxInstsAssumption, SentinelAssumption
  DEF Init, NewBlock, EmitVars0, WInv, Typing, LiveShape, IterAhead,
      NoStandalonePseudoOp, Node, FreeNode, Ids

(* A step that leaves the list, the pool, the iterator and the phase     *)
(* alone keeps WInv: the Block setters.                                   *)
LEMMA FrameWInv ==
    ASSUME WInv, UNCHANGED <<instructions, node, nextId, phase, iter, standalone>>
    PROVE  WInv'
  BY DEF WInv, Typing, LiveShape, IterAhead, NoStandalonePseudoOp, IsPseudo

(* AppendNewInst writes a fresh pool slot above every live id. *)
LEMMA AppendWInv ==
    ASSUME WInv, NEW op \in Opcodes \cup PseudoOps, NEW a \in Ids \cup {NoArg},
           Build(AppendNewInst(op, a))
    PROVE  WInv'
<1> USE DEF Build, AppendNewInst, PseudoOps
<1>1. nextId \in Ids /\ nextId \notin instructions /\ instructions \subseteq Ids
  BY MaxInstsAssumption DEF WInv, Typing, LiveShape, Ids
<1>2. Typing'
  <2>1. [op |-> op, arg |-> a] \in Node
    BY DEF Node
  <2>2. node' \in [Ids -> Node]
    BY <1>1, <2>1 DEF WInv, Typing
  <2>3. nextId' \in 1..(MaxInsts + 1) /\ instructions' \subseteq Ids
    BY <1>1, MaxInstsAssumption DEF WInv, Typing, Ids
  <2>. QED
    BY <2>2, <2>3 DEF WInv, Typing
<1>3. instructions' \subseteq 1..(nextId' - 1)
  BY <1>1 DEF WInv, Typing, LiveShape, Ids
<1>4. ASSUME NEW c \in instructions', node'[c].op \in PseudoOps
      PROVE  /\ node'[c].arg \in instructions'
             /\ node'[c].arg < c
             /\ node'[node'[c].arg].op \notin PseudoOps
             /\ node'[c].op \in Produces(node'[node'[c].arg].op)
  <2>1. CASE c = nextId
    <3>1. node'[c] = [op |-> op, arg |-> a]
      BY <1>1, <2>1 DEF WInv, Typing
    <3>2. op \in PseudoOps
      BY <1>4, <3>1
    <3>3. a \in instructions /\ ~IsPseudo(a) /\ op \in Produces(node[a].op)
      BY <3>2
    <3>4. a < nextId /\ a # nextId /\ node'[a] = node[a]
      BY <3>3 DEF WInv, Typing, LiveShape
    <3>. QED
      BY <3>1, <3>3, <3>4, <2>1 DEF IsPseudo
  <2>2. CASE c # nextId
    <3>1. c \in instructions /\ node'[c] = node[c] /\ IsPseudo(c)
      BY <1>1, <1>4, <2>2 DEF WInv, Typing, IsPseudo
    <3>2. node[c].arg \in instructions /\ node[c].arg < c /\ ~IsPseudo(node[c].arg)
          /\ node[c].op \in Produces(node[node[c].arg].op)
      BY <3>1 DEF WInv, LiveShape
    <3>3. node'[node[c].arg] = node[node[c].arg]
      BY <1>1, <3>2 DEF WInv, Typing
    <3>. QED
      BY <3>1, <3>2, <3>3 DEF IsPseudo
  <2>. QED
    BY <2>1, <2>2
<1>5. LiveShape'
  BY <1>3, <1>4 DEF LiveShape, IsPseudo
<1>. QED
  BY <1>2, <1>5 DEF WInv, IterAhead, NoStandalonePseudoOp

(* HandOff, EmitTail and Discard leave the loop, where IterAhead is void. *)
LEMMA HandOffWInv == WInv /\ HandOff => WInv'
  BY DEF WInv, HandOff, Typing, LiveShape, IterAhead, NoStandalonePseudoOp, IsPseudo

LEMMA EmitTailWInv == WInv /\ EmitTail => WInv'
  BY DEF WInv, EmitTail, Typing, LiveShape, IterAhead, NoStandalonePseudoOp, IsPseudo

LEMMA DiscardWInv == WInv /\ Discard => WInv'
  BY MaxInstsAssumption, SentinelAssumption
  DEF WInv, Discard, Typing, LiveShape, IterAhead, NoStandalonePseudoOp, Node,
      FreeNode, Ids

(* The loop starts at begin(), at or before every producer on the list. *)
LEMMA PreludeWInv == WInv /\ EmitCondPrelude => WInv'
<1> SUFFICES ASSUME WInv, EmitCondPrelude PROVE WInv'
  OBVIOUS
<1>1. instructions \subseteq Ids
  BY DEF WInv, Typing
<1>2. /\ Begin(instructions) \in instructions \cup {End}
      /\ \A j \in instructions : Begin(instructions) # End /\ Begin(instructions) <= j
  BY <1>1, BeginProp
<1>3. IterAhead'
  BY <1>2 DEF EmitCondPrelude, IterAhead, WInv, LiveShape, IsPseudo
<1>. QED
  BY <1>1, <1>2, <1>3 DEF WInv, EmitCondPrelude, Typing, LiveShape, IsPseudo,
                          NoStandalonePseudoOp

(* What one turn of the loop dispatches and erases.  The node at iter is *)
(* an ordinary instruction: a pseudo-op's producer precedes it, and the  *)
(* iterator has not passed that producer.  Its emitter erases exactly    *)
(* the live pseudo-ops that read it.                                       *)
LEMMA EmitInstFacts ==
    ASSUME WInv, EmitInst
    PROVE  /\ iter \in instructions /\ instructions \subseteq Ids
           /\ node \in [Ids -> Node] /\ phase = "body"
           /\ ~IsPseudo(iter)
           /\ \A j \in Gone : j \in instructions /\ IsPseudo(j) /\ node[j].arg = iter
           /\ \A c \in instructions : IsPseudo(c) /\ node[c].arg = iter => c \in Gone
<1>1. /\ iter \in instructions /\ instructions \subseteq Ids /\ node \in [Ids -> Node]
      /\ phase = "body"
  BY DEF EmitInst, EmitStep, WInv, Typing, IterAhead
<1>2. ~IsPseudo(iter)
  <2>1. SUFFICES ASSUME IsPseudo(iter) PROVE FALSE
    OBVIOUS
  <2>2. node[iter].arg < iter /\ node[iter].arg \in Ids
    BY <1>1, <2>1 DEF WInv, LiveShape
  <2>3. iter <= node[iter].arg
    BY <1>1, <2>1 DEF WInv, IterAhead
  <2>4. iter \in Nat /\ node[iter].arg \in Nat
    BY <1>1, <2>2, IdsNat
  <2>. QED
    BY <2>2, <2>3, <2>4
<1>3. Gone = UNION {Associated(instructions, iter, k) : k \in ConsumedBy(node[iter].op)}
  BY <1>2 DEF Gone
<1>4. \A j \in Gone : j \in instructions /\ IsPseudo(j) /\ node[j].arg = iter
  BY <1>3, ConsumesWhatItProduces DEF Associated, IsPseudo
<1>5. \A c \in instructions : IsPseudo(c) /\ node[c].arg = iter => c \in Gone
  <2>1. SUFFICES ASSUME NEW c \in instructions, IsPseudo(c), node[c].arg = iter
                 PROVE  c \in Gone
    OBVIOUS
  <2>2. node[c].op \in ConsumedBy(node[iter].op)
    BY <2>1, ConsumesWhatItProduces DEF WInv, LiveShape
  <2>3. c \in Associated(instructions, iter, node[c].op)
    BY <2>1 DEF Associated
  <2>. QED
    BY <1>3, <2>2, <2>3
<1>. QED
  BY <1>1, <1>2, <1>4, <1>5

(* One turn of the loop keeps WInv: the pseudo-ops left read a later    *)
(* producer, still on the list, and ++iter, taken on the list after the  *)
(* erasure, does not pass it.                                             *)
LEMMA EmitInstWInv == WInv /\ EmitInst => WInv'
<1> SUFFICES ASSUME WInv, EmitInst PROVE WInv'
  OBVIOUS
<1> DEFINE L == instructions \ Gone
<1>1. /\ iter \in instructions /\ instructions \subseteq Ids /\ node \in [Ids -> Node]
      /\ phase = "body"
  BY EmitInstFacts
<1>2. ~IsPseudo(iter)
  BY EmitInstFacts
<1>4. \A j \in Gone : j \in instructions /\ IsPseudo(j) /\ node[j].arg = iter
  BY EmitInstFacts
<1>5. \A c \in instructions : IsPseudo(c) /\ node[c].arg = iter => c \in Gone
  BY EmitInstFacts
<1>6. /\ instructions' = L /\ node' = node /\ phase' = "body"
      /\ iter' = NextInList(L, iter) /\ standalone' = standalone /\ nextId' = nextId
  BY <1>2 DEF EmitInst, EmitStep
<1>7. /\ NextInList(L, iter) \in L \cup {End}
      /\ \A j \in L : j > iter => NextInList(L, iter) # End
                                  /\ NextInList(L, iter) <= j
  BY <1>1, IdsNat, NextInListProp
<1>8. ASSUME NEW c \in L, IsPseudo(c)
      PROVE  node[c].arg \in L /\ node[c].arg > iter
  <2>1. node[c].arg \in instructions /\ ~IsPseudo(node[c].arg) /\ node[c].arg \in Ids
    BY <1>1, <1>8 DEF WInv, LiveShape
  <2>2. node[c].arg \in L
    BY <1>4, <2>1
  <2>3. iter <= node[c].arg /\ node[c].arg # iter
    BY <1>1, <1>5, <1>8 DEF WInv, IterAhead
  <2>4. iter \in Nat /\ node[c].arg \in Nat
    BY <1>1, <2>1, IdsNat
  <2>. QED
    BY <2>2, <2>3, <2>4
<1>9. Typing'
  BY <1>1, <1>6, <1>7 DEF WInv, Typing
<1>10. LiveShape'
  BY <1>6, <1>8 DEF WInv, LiveShape, IsPseudo
<1>11. IterAhead'
  BY <1>6, <1>7, <1>8 DEF IterAhead, IsPseudo
<1>12. NoStandalonePseudoOp'
  BY <1>6 DEF WInv, NoStandalonePseudoOp
<1>. QED
  BY <1>9, <1>10, <1>11, <1>12 DEF WInv

-----------------------------------------------------------------------------
(* FInv: the invariant behind type correctness and emission in order.   *)

(* The immediate's modulus is a positive number: MaxCycles < 2^ImmBits-1. *)
LEMMA PowPos == 2^ImmBits \in Nat \ {0}
<1>1. 2^ImmBits \in Int
  BY ImmBitsAssumption
<1>. QED
  BY <1>1, MaxCyclesAssumption

LEMMA SubEffectInt == \A n \in Int : SubEffect(n) \in Int
  BY PowPos DEF SubEffect

(* ++iter moves forward. *)
LEMMA NextInListAbove ==
    ASSUME NEW L, L \subseteq Ids, NEW id \in Nat, NextInList(L, id) # End
    PROVE  NextInList(L, id) > id
<1>1. \E j \in L : j > id
  BY DEF NextInList
<1>2. {j \in L : j > id} \subseteq Nat /\ {j \in L : j > id} # {}
  BY <1>1, IdsNat
<1>. QED
  BY <1>1, <1>2, LeastIsLeast DEF NextInList

LEMMA InitFInv == Init => FInv
<1> SUFFICES ASSUME Init PROVE FInv
  OBVIOUS
<1>1. WInv
  BY InitWInv
<1>2. TypeOK
  <2>1. [j \in Ids |-> FreeNode] \in [Ids -> Node]
    BY DEF FreeNode, Node
  <2>2. <<>> \in Seq(Ids)
    OBVIOUS
  <2>3. 0 \in 0..MaxCycles /\ 1 \in 1..(MaxInsts + 1)
    BY MaxInstsAssumption, MaxCyclesAssumption
  <2>4. /\ cond \in Conds /\ cond_failed \in Locs \cup {None}
        /\ terminal \in Terms \cup {"Invalid"}
    BY CondsAssumption DEF Init, NewBlock, EmitVars0
  <2>5. /\ instructions \subseteq Ids /\ handed \subseteq Ids /\ standalone \subseteq Ids
        /\ iter \in Ids \cup {End} /\ condSub \in Int /\ bodySub \in Int
    BY DEF Init, NewBlock, EmitVars0
  <2>6. /\ node \in [Ids -> Node] /\ emitted \in Seq(Ids)
        /\ cond_failed_cycle_count \in 0..MaxCycles /\ cycle_count \in 0..MaxCycles
        /\ nextId \in 1..(MaxInsts + 1) /\ phase \in {"build", "prelude", "body", "done"}
    BY <2>1, <2>2, <2>3 DEF Init, NewBlock, EmitVars0
  <2>. QED
    BY <2>4, <2>5, <2>6 DEF TypeOK
<1>. QED
  BY <1>1, <1>2 DEF Init, EmitVars0, FInv, BuildClean, EmitOrder

(* A step of the front-end that touches neither the list, the pool nor   *)
(* any of Emit's state keeps FInv once it is well typed.                  *)
LEMMA FrameFInv ==
    ASSUME FInv, phase = "build",
           UNCHANGED <<instructions, node, nextId, phase, iter, handed, emitted,
                       standalone, condSub, bodySub>>,
           TypeOK'
    PROVE  FInv'
<1>1. WInv'
  BY FrameWInv DEF FInv
<1>. QED
  BY <1>1 DEF FInv, BuildClean, EmitOrder

LEMMA AppendFInv ==
    ASSUME FInv, NEW op \in Opcodes \cup PseudoOps, NEW a \in Ids \cup {NoArg},
           Build(AppendNewInst(op, a))
    PROVE  FInv'
<1> USE DEF Build, AppendNewInst
<1>1. WInv'
  BY AppendWInv DEF FInv
<1>2. nextId \in Ids /\ [op |-> op, arg |-> a] \in Node
  BY MaxInstsAssumption DEF FInv, TypeOK, Ids, Node
<1>3. TypeOK'
  BY <1>2, MaxInstsAssumption DEF FInv, TypeOK, Ids
<1>. QED
  BY <1>1, <1>3 DEF FInv, BuildClean, EmitOrder

LEMMA SettersFInv ==
    ASSUME FInv,
           \/ \E c \in Conds : Build(SetCondition(c))
           \/ \E l \in Locs : Build(SetConditionFailedLocation(l))
           \/ Build(AddConditionFailedCycle) \/ Build(AddCycle)
           \/ \E t \in Terms : Build(SetTerminal(t))
    PROVE  FInv'
<1>1. TypeOK'
  <2>1. CASE \E c \in Conds : Build(SetCondition(c))
    BY <2>1 DEF FInv, TypeOK, Build, SetCondition
  <2>2. CASE \E l \in Locs : Build(SetConditionFailedLocation(l))
    BY <2>2 DEF FInv, TypeOK, Build, SetConditionFailedLocation
  <2>3. CASE Build(AddConditionFailedCycle)
    BY <2>3, MaxCyclesAssumption DEF FInv, TypeOK, Build, AddConditionFailedCycle
  <2>4. CASE Build(AddCycle)
    BY <2>4, MaxCyclesAssumption DEF FInv, TypeOK, Build, AddCycle
  <2>5. CASE \E t \in Terms : Build(SetTerminal(t))
    BY <2>5 DEF FInv, TypeOK, Build, SetTerminal
  <2>. QED
    BY <2>1, <2>2, <2>3, <2>4, <2>5
<1>. QED
  BY <1>1, FrameFInv DEF Build, SetCondition, SetConditionFailedLocation,
                         AddConditionFailedCycle, AddCycle, SetTerminal

LEMMA HandOffFInv == FInv /\ HandOff => FInv'
<1> SUFFICES ASSUME FInv, HandOff PROVE FInv'
  OBVIOUS
<1>1. WInv' /\ TypeOK'
  BY HandOffWInv DEF FInv, HandOff, TypeOK
<1>2. EmitOrder'
  BY DEF FInv, HandOff, BuildClean, EmitOrder, IsPseudo
<1>. QED
  BY <1>1, <1>2 DEF FInv, HandOff, BuildClean

LEMMA EmitTailFInv == FInv /\ EmitTail => FInv'
<1> SUFFICES ASSUME FInv, EmitTail PROVE FInv'
  OBVIOUS
<1>1. WInv'
  BY EmitTailWInv DEF FInv
<1>2. TypeOK'
  BY SubEffectInt DEF FInv, EmitTail, TypeOK
<1>. QED
  BY <1>1, <1>2 DEF FInv, EmitTail, BuildClean, EmitOrder, IsPseudo

LEMMA DiscardFInv == FInv /\ Discard => FInv'
<1> SUFFICES ASSUME FInv, Discard PROVE FInv'
  OBVIOUS
<1>1. WInv'
  BY DiscardWInv DEF FInv
<1>2. TypeOK'
  <2>1. [j \in Ids |-> FreeNode] \in [Ids -> Node]
    BY DEF FreeNode, Node
  <2>2. <<>> \in Seq(Ids)
    OBVIOUS
  <2>3. 0 \in 0..MaxCycles /\ 1 \in 1..(MaxInsts + 1)
    BY MaxInstsAssumption, MaxCyclesAssumption
  <2>4. /\ cond' \in Conds /\ cond_failed' \in Locs \cup {None}
        /\ terminal' \in Terms \cup {"Invalid"}
    BY CondsAssumption DEF Discard
  <2>5. /\ instructions' \subseteq Ids /\ handed' \subseteq Ids /\ standalone' \subseteq Ids
        /\ iter' \in Ids \cup {End} /\ condSub' \in Int /\ bodySub' \in Int
    BY DEF Discard
  <2>6. /\ node' \in [Ids -> Node] /\ emitted' \in Seq(Ids)
        /\ cond_failed_cycle_count' \in 0..MaxCycles /\ cycle_count' \in 0..MaxCycles
        /\ nextId' \in 1..(MaxInsts + 1) /\ phase' \in {"build", "prelude", "body", "done"}
    BY <2>1, <2>2, <2>3 DEF Discard
  <2>. QED
    BY <2>4, <2>5, <2>6 DEF TypeOK
<1>. QED
  BY <1>1, <1>2 DEF FInv, Discard, BuildClean, EmitOrder

(* The prelude starts the loop at begin(): no ordinary instruction of  *)
(* the block lies before it, and nothing has been emitted.                *)
LEMMA PreludeFInv == FInv /\ EmitCondPrelude => FInv'
<1> SUFFICES ASSUME FInv, EmitCondPrelude PROVE FInv'
  OBVIOUS
<1> DEFINE b == Begin(instructions)
<1>1. /\ instructions \subseteq Ids /\ handed \subseteq Ids /\ emitted = <<>>
      /\ \A j \in handed : ~IsPseudo(j) => j \in instructions
      /\ instructions \subseteq handed
  BY DEF FInv, TypeOK, EmitOrder, EmitCondPrelude
<1>2. /\ b \in instructions \cup {End}
      /\ \A j \in instructions : b # End /\ b <= j
  BY <1>1, BeginProp
<1>3. WInv'
  BY PreludeWInv DEF FInv
<1>4. TypeOK'
  BY <1>1, <1>2, SubEffectInt DEF FInv, TypeOK, EmitCondPrelude
<1>5. {j \in handed : ~IsPseudo(j) /\ (b = End \/ j < b)} = {}
  <2>1. SUFFICES ASSUME NEW j \in handed, ~IsPseudo(j), b = End \/ j < b
                 PROVE  FALSE
    OBVIOUS
  <2>2. j \in instructions /\ j \in Nat
    BY <1>1, <2>1, IdsNat
  <2>3. b # End /\ b <= j /\ b \in Nat
    BY <1>1, <1>2, <2>2, IdsNat
  <2>. QED
    BY <2>1, <2>2, <2>3
<1>6. EmitOrder'
  BY <1>1, <1>5 DEF EmitCondPrelude, EmitOrder, IsPseudo
<1>. QED
  BY <1>3, <1>4, <1>6
  DEF FInv, EmitCondPrelude, BuildClean

(* One turn of the loop appends the node at iter, which lies after all   *)
(* emitted so far, and moves to the next node on the list: every         *)
(* ordinary instruction in between would still be on the list, so there  *)
(* is none.                                                                *)
LEMMA EmitInstFInv == FInv /\ EmitInst => FInv'
<1> SUFFICES ASSUME FInv, EmitInst PROVE FInv'
  OBVIOUS
<1> DEFINE L == instructions \ Gone
<1> DEFINE n == NextInList(L, iter)
<1> DEFINE P(j) == IsPseudo(j)
<1>1. /\ iter \in instructions /\ instructions \subseteq Ids /\ phase = "body"
      /\ ~IsPseudo(iter)
      /\ \A j \in Gone : j \in instructions /\ IsPseudo(j) /\ node[j].arg = iter
  BY EmitInstFacts DEF FInv
<1>2. /\ instructions' = L /\ node' = node /\ handed' = handed /\ phase' = "body"
      /\ emitted' = Append(emitted, iter) /\ iter' = n
      /\ standalone' = standalone
      /\ UNCHANGED <<cond, cond_failed_cycle_count, cycle_count, condSub, bodySub,
                     cond_failed, terminal, nextId>>
  BY <1>1 DEF EmitInst, EmitStep
<1>3. /\ handed \subseteq Ids /\ emitted \in Seq(Ids) /\ iter \in Ids /\ iter \in Nat
      /\ instructions \subseteq handed
      /\ \A j \in handed : ~P(j) => j \in instructions
      /\ {emitted[i] : i \in DOMAIN emitted} = {j \in handed : ~P(j) /\ j < iter}
      /\ \A i, k \in DOMAIN emitted : i < k => emitted[i] < emitted[k]
  BY <1>1, IdsNat, SentinelAssumption DEF FInv, TypeOK, EmitOrder
<1>4. /\ n \in L \cup {End}
      /\ \A j \in L : j > iter => n # End /\ n <= j
      /\ n # End => n > iter
  BY <1>1, <1>3, NextInListProp, NextInListAbove
<1>5. WInv'
  BY EmitInstWInv DEF FInv
<1>6. TypeOK'
  <2>1. emitted' \in Seq(Ids)
    BY <1>2, <1>3
  <2>3. iter' \in Ids \cup {End} /\ instructions' \subseteq Ids
    BY <1>1, <1>2, <1>4
  <2>. QED
    BY <1>2, <2>1, <2>3 DEF FInv, TypeOK
<1>8. {emitted'[i] : i \in DOMAIN emitted'} = {j \in handed : ~P(j) /\ (n = End \/ j < n)}
  <2>1. {emitted'[i] : i \in DOMAIN emitted'} = {emitted[i] : i \in DOMAIN emitted} \cup {iter}
    BY <1>2, <1>3
  <2>2. ASSUME NEW j \in handed, ~P(j), n = End \/ j < n
        PROVE  j < iter \/ j = iter
    <3>1. j \in instructions /\ j \notin Gone /\ j \in Nat
      BY <1>1, <1>3, <2>2, IdsNat
    <3>2. ~(j > iter)
      <4>1. SUFFICES ASSUME j > iter PROVE FALSE
        OBVIOUS
      <4>2. j \in L
        BY <3>1
      <4>3. n # End /\ n <= j
        BY <1>4, <4>1, <4>2
      <4>4. n \in Nat
        BY <1>1, <1>4, <4>3, IdsNat
      <4>. QED
        BY <2>2, <3>1, <4>3, <4>4
    <3>. QED
      BY <1>3, <3>1, <3>2
  <2>3. ASSUME NEW j \in handed, ~P(j), j < iter \/ j = iter
        PROVE  n = End \/ j < n
    <3>1. j \in Nat
      BY <1>3, IdsNat
    <3>2. n # End => n \in Nat
      BY <1>4, <1>1, IdsNat
    <3>. QED
      BY <1>3, <1>4, <2>3, <3>1, <3>2
  <2>4. iter \in handed /\ ~P(iter)
    BY <1>1, <1>3
  <2>. QED
    BY <1>3, <2>1, <2>2, <2>3, <2>4
<1>9. \A i, k \in DOMAIN emitted' : i < k => emitted'[i] < emitted'[k]
  <2>1. SUFFICES ASSUME NEW i \in DOMAIN emitted', NEW k \in DOMAIN emitted', i < k
                 PROVE  emitted'[i] < emitted'[k]
    OBVIOUS
  <2>2. CASE k = Len(emitted) + 1
    <3>1. i \in DOMAIN emitted /\ emitted'[k] = iter /\ emitted'[i] = emitted[i]
      BY <1>2, <1>3, <2>1, <2>2
    <3>2. emitted[i] < iter
      BY <1>3, <3>1
    <3>. QED
      BY <3>1, <3>2
  <2>3. CASE k # Len(emitted) + 1
    BY <1>2, <1>3, <2>1, <2>3
  <2>. QED
    BY <2>2, <2>3
<1>10. EmitOrder'
  <2>1. instructions' \subseteq handed' /\ \A j \in handed' : ~IsPseudo(j)' => j \in instructions'
    BY <1>1, <1>2, <1>3 DEF IsPseudo
  <2>. QED
    BY <1>2, <1>8, <1>9, <2>1 DEF EmitOrder, IsPseudo
<1>11. BuildClean'
  BY <1>2 DEF BuildClean
<1>. QED
  BY <1>5, <1>6, <1>10, <1>11 DEF FInv

LEMMA NextWInv == WInv /\ [Next]_vars => WInv'
<1> SUFFICES ASSUME WInv, [Next]_vars PROVE WInv'
  OBVIOUS
<1>1. CASE \E op \in Opcodes \cup PseudoOps, a \in Ids \cup {NoArg} :
             Build(AppendNewInst(op, a))
  BY <1>1, AppendWInv
<1>2. CASE \/ \E c \in Conds : Build(SetCondition(c))
           \/ \E l \in Locs : Build(SetConditionFailedLocation(l))
           \/ Build(AddConditionFailedCycle) \/ Build(AddCycle)
           \/ \E t \in Terms : Build(SetTerminal(t))
           \/ UNCHANGED vars
  BY <1>2, FrameWInv
  DEF Build, SetCondition, SetConditionFailedLocation, AddConditionFailedCycle,
      AddCycle, SetTerminal, vars
<1>. QED
  BY <1>1, <1>2, HandOffWInv, PreludeWInv, EmitInstWInv, EmitTailWInv, DiscardWInv
  DEF Next

LEMMA NextFInv == FInv /\ [Next]_vars => FInv'
<1> SUFFICES ASSUME FInv, [Next]_vars PROVE FInv'
  OBVIOUS
<1>1. CASE \E op \in Opcodes \cup PseudoOps, a \in Ids \cup {NoArg} :
             Build(AppendNewInst(op, a))
  BY <1>1, AppendFInv
<1>2. CASE \/ \E c \in Conds : Build(SetCondition(c))
           \/ \E l \in Locs : Build(SetConditionFailedLocation(l))
           \/ Build(AddConditionFailedCycle) \/ Build(AddCycle)
           \/ \E t \in Terms : Build(SetTerminal(t))
  BY <1>2, SettersFInv
<1>3. CASE UNCHANGED vars
  <2>1. TypeOK' /\ WInv'
    BY <1>3, FrameWInv DEF vars, FInv, TypeOK
  <2>. QED
    BY <1>3, <2>1 DEF vars, FInv, BuildClean, EmitOrder, IsPseudo
<1>. QED
  BY <1>1, <1>2, <1>3, HandOffFInv, PreludeFInv, EmitInstFInv, EmitTailFInv,
     DiscardFInv DEF Next

-----------------------------------------------------------------------------
(* Theorems. *)

(* For every pool size and opcode set: Emit's loop never hands a flag    *)
(* pseudo-op to EmitGetCarryFromOp/EmitGetOverflowFromOp/EmitGetGEFromOp *)
(* (whose ASSERT would fire), because every producer's emitter erases    *)
(* the pseudo-ops that read it before the iterator reaches them.          *)
THEOREM NoStandalonePseudoOpInvariant == Spec => []NoStandalonePseudoOp
<1>1. WInv => NoStandalonePseudoOp
  BY DEF WInv
<1>. QED
  BY InitWInv, NextWInv, <1>1, PTL DEF Spec

(* For every pool size, opcode set and cycle bound, every reachable state *)
(* of the block and of Emit's walk over it is well typed: in particular   *)
(* the iterator is a node id or end(), and what the SUBs take is a number. *)
THEOREM TypeCorrect == Spec => []TypeOK
<1>1. FInv => TypeOK
  BY DEF FInv
<1>. QED
  BY InitFInv, NextFInv, <1>1, PTL DEF Spec

(* For every pool size: when Emit is done it has dispatched every        *)
(* ordinary instruction of the block it was handed exactly once, in list *)
(* order, although its emitters erased nodes from the list meanwhile.    *)
THEOREM EmittedInOrderInvariant == Spec => []EmittedInOrder
<1>1. FInv => EmittedInOrder
  BY DEF FInv, EmitOrder, EmittedInOrder, IsPseudo
<1>. QED
  BY InitFInv, NextFInv, <1>1, PTL DEF Spec

=============================================================================
