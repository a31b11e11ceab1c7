-------------------------- MODULE IRBlockWalk_proofs --------------------------
(***************************************************************************)
(* For every pool size: Emit's walk over the intrusive list, with its     *)
(* emitters erasing pseudo-ops under it, implements EmitWalk: the        *)
(* ordinary instructions of the block handed over are dispatched one at  *)
(* a time, in increasing order, each once, and then emission ends.       *)
(***************************************************************************)
EXTENDS IRBlockWalk, IRBlock_proofs, TLAPS

USE DEF blockVars, emitVars

(* While the block is built, the walk is idle with nothing to dispatch. *)
LEMMA BuildIdle ==
    ASSUME phase = "build"
    PROVE  WalkStage = "idle" /\ WalkTodo = {}
  BY DEF WalkStage, WalkTodo

(* The front-end's steps on the block are invisible to the walk.        *)
LEMMA BuildStutters ==
    ASSUME phase = "build", phase' = "build", emitted' = emitted
    PROVE  UNCHANGED Walk!vars
<1>1. WalkStage = "idle" /\ WalkTodo = {} /\ WalkStage' = "idle" /\ WalkTodo' = {}
  BY BuildIdle DEF WalkStage, WalkTodo
<1>. QED
  BY <1>1 DEF Walk!vars

(* The hand-off starts the walk on the block's ordinary instructions. *)
LEMMA HandOffStarts ==
    ASSUME WInv, HandOff
    PROVE  \E S \in SUBSET Ids : Walk!Start(S)
<1>. DEFINE S == {j \in instructions : ~IsPseudo(j)}
<1>1. S \in SUBSET Ids
  BY DEF WInv, Typing
<1>2. WalkStage = "idle" /\ WalkStage' = "emit"
  BY DEF HandOff, WalkStage
<1>3. WalkTodo' = S
  BY DEF HandOff, WalkTodo, IsPseudo
<1>. QED
  BY <1>1, <1>2, <1>3 DEF HandOff, Walk!Start

(* The condition prelude changes nothing the walk sees: begin() is the  *)
(* least node, so every ordinary instruction is still ahead.              *)
LEMMA PreludeStutters ==
    ASSUME WInv, EmitCondPrelude
    PROVE  UNCHANGED Walk!vars
<1>1. WalkStage = "emit" /\ WalkStage' = "emit"
  BY DEF EmitCondPrelude, WalkStage
<1>2. instructions \subseteq Ids
  BY DEF WInv, Typing
<1>3. \A j \in instructions : Begin(instructions) # End /\ Begin(instructions) <= j
  BY <1>2, BeginProp
<1>4. WalkTodo' = WalkTodo
  BY <1>3 DEF EmitCondPrelude, WalkTodo, IsPseudo
<1>. QED
  BY <1>1, <1>4 DEF EmitCondPrelude, Walk!vars

(* One turn of the loop dispatches the first instruction still to       *)
(* dispatch: the iterator's node is ordinary and precedes the others,    *)
(* and ++iter, taken after the erasure, lands on the next ordinary one   *)
(* or on a pseudo-op before it, never past it.                            *)
LEMMA EmitInstDispatches ==
    ASSUME WInv, EmitInst
    PROVE  Walk!Dispatch
<1>1. /\ iter \in instructions /\ instructions \subseteq Ids
      /\ phase = "body" /\ ~IsPseudo(iter)
      /\ \A j \in Gone : j \in instructions /\ IsPseudo(j)
  BY EmitInstFacts
<1>2. iter \in Nat /\ instructions \subseteq Nat
  BY <1>1, IdsNat
<1>3. WalkTodo = {j \in instructions : ~IsPseudo(j) /\ iter <= j}
  BY <1>1, SentinelAssumption DEF WalkTodo
<1>4. iter \in WalkTodo /\ \A k \in WalkTodo : iter <= k
  BY <1>1, <1>2, <1>3
<1>5. Walk!First(WalkTodo) = iter
  <2>1. Walk!First(WalkTodo) \in WalkTodo /\ \A k \in WalkTodo : Walk!First(WalkTodo) <= k
    BY <1>2, <1>4, LeastIsLeast DEF Walk!First, Least
  <2>2. Walk!First(WalkTodo) \in Nat
    BY <2>1, <1>2, <1>3
  <2>. QED
    BY <1>2, <1>4, <2>1, <2>2
<1>. DEFINE L == instructions \ Gone
<1>6. iter' = NextInList(L, iter) /\ instructions' = L /\ node' = node /\ phase' = "body"
  BY DEF EmitInst, EmitStep
<1>7. \A j \in L : ~IsPseudo(j) /\ j > iter =>
                     iter' # End /\ iter' <= j /\ iter' > iter /\ iter' \in Nat
  <2>1. SUFFICES ASSUME NEW j \in L, ~IsPseudo(j), j > iter
                 PROVE  iter' # End /\ iter' <= j /\ iter' > iter /\ iter' \in Nat
    OBVIOUS
  <2>2. L \subseteq Ids
    BY <1>1
  <2>3. iter' \in L \cup {End} /\ iter' # End /\ iter' <= j
    BY <1>2, <2>1, <2>2, <1>6, NextInListProp
  <2>4. iter' > iter
    BY <1>2, <2>2, <2>3, <1>6, NextInListAbove
  <2>. QED
    BY <2>2, <2>3, <2>4, IdsNat
<1>8. WalkTodo' = WalkTodo \ {iter}
  <2>1. WalkTodo' = {j \in L : ~IsPseudo(j) /\ iter' # End /\ iter' <= j}
    BY <1>6 DEF WalkTodo, IsPseudo
  <2>2. ASSUME NEW j \in WalkTodo' PROVE j \in WalkTodo \ {iter}
    <3>1. j \in L /\ ~IsPseudo(j) /\ iter' # End /\ iter' <= j
      BY <2>1
    <3>2. iter' \in L
      BY <3>1, <1>1, <1>2, <1>6, NextInListProp
    <3>3. iter' > iter /\ iter' \in Nat /\ j \in Nat
      BY <3>1, <3>2, <1>1, <1>2, <1>6, NextInListAbove, IdsNat
    <3>. QED
      BY <3>1, <3>3, <1>2, <1>3
  <2>3. ASSUME NEW j \in WalkTodo \ {iter} PROVE j \in WalkTodo'
    <3>1. j \in instructions /\ ~IsPseudo(j) /\ j > iter
      BY <1>2, <1>3
    <3>2. j \in L
      BY <3>1, <1>1
    <3>. QED
      BY <3>1, <3>2, <1>7, <2>1
  <2>. QED
    BY <2>2, <2>3
<1>9. WalkStage = "emit" /\ WalkStage' = "emit"
  BY <1>1, <1>6 DEF WalkStage
<1>10. emitted' = Append(emitted, iter)
  BY <1>1 DEF EmitInst, EmitStep
<1>. QED
  BY <1>4, <1>5, <1>8, <1>9, <1>10 DEF Walk!Dispatch

(* The tail runs once the iterator is at end(): nothing is left. *)
LEMMA EmitTailFinishes ==
    ASSUME EmitTail
    PROVE  Walk!Finish
<1>1. WalkStage = "emit" /\ WalkStage' = "done"
  BY DEF EmitTail, WalkStage
<1>2. WalkTodo = {} /\ WalkTodo' = {}
  BY DEF EmitTail, WalkTodo
<1>. QED
  BY <1>1, <1>2 DEF EmitTail, Walk!Finish

(* Discarding the block resets the walk for the next one. *)
LEMMA DiscardResets ==
    ASSUME Discard
    PROVE  Walk!Reset
<1>1. WalkStage = "done" /\ WalkStage' = "idle"
  BY DEF Discard, WalkStage
<1>2. WalkTodo = {} /\ WalkTodo' = {}
  BY DEF Discard, WalkTodo
<1>. QED
  BY <1>1, <1>2 DEF Discard, Walk!Reset

LEMMA WalkStep == WInv /\ [Next]_vars => [Walk!Next]_Walk!vars
<1> SUFFICES ASSUME WInv, [Next]_vars PROVE [Walk!Next]_Walk!vars
  OBVIOUS
<1>1. CASE \/ \E op \in Opcodes \cup PseudoOps, a \in Ids \cup {NoArg} :
                Build(AppendNewInst(op, a))
           \/ \E c \in Conds : Build(SetCondition(c))
           \/ \E l \in Locs : Build(SetConditionFailedLocation(l))
           \/ Build(AddConditionFailedCycle) \/ Build(AddCycle)
           \/ \E t \in Terms : Build(SetTerminal(t))
  <2>1. phase = "build" /\ phase' = "build" /\ emitted' = emitted
    BY <1>1 DEF Build
  <2>. QED
    BY <2>1, BuildStutters
<1>3. CASE HandOff
  BY <1>3, HandOffStarts DEF Walk!Next
<1>4. CASE EmitCondPrelude
  BY <1>4, PreludeStutters
<1>5. CASE EmitInst
  BY <1>5, EmitInstDispatches DEF Walk!Next
<1>6. CASE EmitTail
  BY <1>6, EmitTailFinishes DEF Walk!Next
<1>7. CASE Discard
  BY <1>7, DiscardResets DEF Walk!Next
<1>8. CASE UNCHANGED vars
  BY <1>8 DEF vars, Walk!vars, WalkStage, WalkTodo, IsPseudo
<1>. QED
  BY <1>1, <1>3, <1>4, <1>5, <1>6, <1>7, <1>8 DEF Next

-----------------------------------------------------------------------------
(* For every pool size, opcode set and cycle bound: every behaviour of   *)
(* the block and of Emit's loop over it, seen through the refinement     *)
(* mapping (the phase as the walk's stage, the ordinary instructions from *)
(* the iterator on as what is left, emitted as its output), is a         *)
(* behaviour of EmitWalk's safety part: erasing pseudo-ops under the     *)
(* iterator never makes the loop skip, repeat or reorder an instruction. *)
THEOREM WalkRefinement == Spec => Walk!SafetySpec
<1>1. Init => Walk!Init
  BY BuildIdle DEF Init, EmitVars0, Walk!Init
<1>. QED
  BY <1>1, InitWInv, NextWInv, WalkStep, PTL DEF Spec, Walk!SafetySpec

=============================================================================
