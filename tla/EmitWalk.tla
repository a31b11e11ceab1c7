------------------------------- MODULE EmitWalk -------------------------------
(***************************************************************************)
(* What EmitX64::Emit promises about the instructions of a block, without *)
(* the list it walks or the pseudo-ops its emitters erase: once a block   *)
(* is handed over, its ordinary instructions are dispatched one at a     *)
(* time, each exactly once, in increasing order, and then emission ends. *)
(***************************************************************************)
EXTENDS Integers, Sequences

CONSTANT Insts    \* instruction ids (naturals), ordered as the list orders them

VARIABLES
    stage,  \* "idle" (no block handed over), "emit" or "done"
    todo,   \* the ordinary instructions still to dispatch
    out     \* the instructions dispatched, in order

vars == <<stage, todo, out>>

(* The first instruction still to dispatch. *)
First(S) == CHOOSE j \in S : \A k \in S : j <= k

Init == stage = "idle" /\ todo = {} /\ out = <<>>

(* A block with ordinary instructions S is handed to Emit. *)
Start(S) ==
    /\ stage = "idle"
    /\ stage' = "emit"
    /\ todo' = S
    /\ UNCHANGED out

(* The next instruction in order is dispatched to its emitter. *)
Dispatch ==
    /\ stage = "emit"
    /\ todo # {}
    /\ out' = Append(out, First(todo))
    /\ todo' = todo \ {First(todo)}
    /\ UNCHANGED stage

(* Nothing is left: Emit ends. *)
Finish ==
    /\ stage = "emit"
    /\ todo = {}
    /\ stage' = "done"
    /\ UNCHANGED <<todo, out>>

(* The next block. *)
Reset ==
    /\ stage = "done"
    /\ stage' = "idle"
    /\ out' = <<>>
    /\ UNCHANGED todo

Next == (\E S \in SUBSET Insts : Start(S)) \/ Dispatch \/ Finish \/ Reset

SafetySpec == Init /\ [][Next]_vars

(* Emit is a function call that runs to its end. *)
Spec == SafetySpec /\ WF_vars(Dispatch \/ Finish)

=============================================================================
