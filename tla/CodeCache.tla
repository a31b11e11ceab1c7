----------------------------- MODULE CodeCache -----------------------------
(***************************************************************************)
(* The x86-64 backend's code cache as the guest runs through it: the block *)
(* registry (EmitX64::block_descriptors), the patch tables                 *)
(* (EmitX64::patch_information), the patch sites written by the terminal   *)
(* emitters, the return stack buffer kept in JitState, and the dispatcher  *)
(* that looks blocks up, compiles missing ones and enters them.            *)
(*                                                                         *)
(* The data of a block (its IR instructions, the guest registers and       *)
(* flags) is abstracted away: a block is its entry condition, its cycle    *)
(* counts, whether its body writes the guest PC (BXWritePC), the location  *)
(* it pushes on the RSB and its terminal.  The outcome of a condition test *)
(* on the guest flags is a nondeterministic choice.  Code pointers are the *)
(* numbers 1..MaxCode of the blocks in the code buffer; Null stands for    *)
(* nullptr and for the return-to-dispatcher address a patch site falls     *)
(* back to.                                                                *)
(***************************************************************************)
EXTENDS Integers, FiniteSets

CONSTANTS
    PCs,              \* the guest program counters of the locations used
    Program,          \* [Loc -> IRBlock]: the block the front-end translates at a location
    MaxCode,          \* how many blocks the code buffer holds before it is cleared
    RSBSize,          \* JitState::RSBSize
    RunCycles,        \* the cycle budget of one call of Run
    UnpatchEnabled,   \* whether the host invalidates single blocks with Unpatch
    ResetRSBOnClear,  \* whether the host's cache clear also empties the JitState RSB
    Null,             \* nullptr / the return-from-run-code address
    NoLoc             \* no location (an empty RSB slot, a terminal without a target)

(* A location descriptor: guest PC and the CPSR.T bit.  The E bit and the *)
(* FPSCR mode bits are handled by the code exactly like T and are left    *)
(* out.  The descriptor is its own unique hash.                           *)
Loc == [pc : PCs, t : BOOLEAN]

Ptr == 1..MaxCode

(* Where control is when it is not in emitted code: in the host, or in  *)
(* the dispatcher loop.  Code pointers start at 1.                      *)
Host == -1
Dispatch == 0

RSBIndex == 0..(RSBSize - 1)

(* Terminal kinds (IR::Term) that carry a next location, and those that do not. *)
NextKinds == {"LinkBlock", "LinkBlockFast", "Interpret"}
LeafTerm == [kind : NextKinds, next : Loc]
            \cup [kind : {"ReturnToDispatch", "PopRSBHint"}, next : {NoLoc}]
IfTerm == [kind : {"If"}, then_ : LeafTerm, else_ : LeafTerm]
CheckHaltTerm == [kind : {"CheckHalt"}, else_ : LeafTerm \cup IfTerm]
Terminal == LeafTerm \cup IfTerm \cup CheckHaltTerm

(* What the backend reads of an IR::Block. *)
IRBlock == [cond : {"AL", "cc"}, condFailed : Loc, condFailedCycles : Nat,
            cycles : Nat, writesPC : BOOLEAN, pushRSB : Loc \cup {NoLoc},
            term : Terminal]

(* The places in one emitted block where a patch site can sit: the       *)
(* LinkBlock of the condition prelude, the MOV RCX of a PushRSB, and the *)
(* leaves of the terminal (the whole terminal, or the two arms of an If).*)
Slots == {"prelude", "rsb", "term", "then", "else"}

ASSUME PCsAssumption == PCs # {}
ASSUME MaxCodeAssumption == MaxCode \in Nat \ {0}
ASSUME RSBSizeAssumption == RSBSize \in {2, 4, 8, 16}   \* a power of two
ASSUME RunCyclesAssumption == RunCycles \in Nat
ASSUME FlagsAssumption == UnpatchEnabled \in BOOLEAN /\ ResetRSBOnClear \in BOOLEAN
ASSUME NullAssumption == Null \notin Nat
ASSUME NoLocAssumption == NoLoc \notin Loc
ASSUME ProgramAssumption == Program \in [Loc -> IRBlock]

VARIABLES
    codeLoc,      \* [Ptr -> Loc \cup {NoLoc}]: the location whose block sits at a code pointer
    site,         \* [Ptr -> [Slots -> Ptr \cup {Null}]]: the target each patch site jumps to
    descriptors,  \* EmitX64::block_descriptors: [Loc -> Ptr \cup {Null}]
    patchInfo,    \* EmitX64::patch_information: [Loc -> SUBSET (Ptr \X Slots)]
    cursor,       \* the code buffer's current pointer
    jsPC,         \* JitState::Reg[15]
    jsT,          \* JitState::Cpsr bit 5
    cycles,       \* JitState::cycles_remaining
    halt,         \* JitState::halt_requested
    rsbHash,      \* JitState::rsb_location_descriptors
    rsbCode,      \* JitState::rsb_codeptrs
    rsbPtr,       \* JitState::rsb_ptr
    ctl,          \* Host, Dispatch, or the code pointer about to run
    guest,        \* where the guest program is, by ARM semantics
    retired       \* the entries of blocks unpatched since the last clear

cacheVars == <<codeLoc, site, descriptors, patchInfo, cursor, retired>>
stateVars == <<jsPC, jsT, cycles, halt, rsbHash, rsbCode, rsbPtr>>
vars == <<codeLoc, site, descriptors, patchInfo, cursor,
          jsPC, jsT, cycles, halt, rsbHash, rsbCode, rsbPtr, ctl, guest, retired>>

JsLoc == [pc |-> jsPC, t |-> jsT]

-----------------------------------------------------------------------------
(* Mutants: each is a plausible slip in one of the code's definitions    *)
(* below, used to confirm that a property notices it.  None is used by   *)
(* the specification.                                                    *)

(* EmitAddCycles adding the block's cycles instead of subtracting them. *)
AddCyclesWrongSign(c, n) == c + n

(* EmitAddCycles left out of a block's code. *)
AddCyclesNotCounted(c, n) == c

(* Patch without its loop over the mov_rcx sites. *)
PatchSkipMovRcx(st, sites, target) ==
    [q \in Ptr |-> [s \in Slots |-> IF <<q, s>> \in sites /\ s # "rsb"
                                    THEN target ELSE st[q][s]]]

(* EmitTerminal(LinkBlock) without the MOV of the next PC on its fallback. *)
TermLinkBlockNoPC(p, slot, leaf, here, nl, c) ==
    /\ jsT' = IF leaf.next.t # here.t THEN leaf.next.t ELSE nl.t
    /\ IF c > 0 /\ site[p][slot] # Null
         THEN ctl' = site[p][slot] /\ jsPC' = nl.pc
         ELSE ctl' = Dispatch /\ jsPC' = nl.pc
    /\ guest' = leaf.next

(* EmitPushRSB storing the code pointer at rsb_ptr before it is advanced. *)
PushRSBStaleIndex(p, h) ==
    LET idx == (rsbPtr + 1) % RSBSize IN
    IF h = NoLoc \/ \E i \in RSBIndex : rsbHash[i] = h
      THEN [hash |-> rsbHash, code |-> rsbCode, ptr |-> rsbPtr]
      ELSE [hash |-> [rsbHash EXCEPT ![idx] = h],
            code |-> [rsbCode EXCEPT ![rsbPtr] = site[p]["rsb"]],
            ptr |-> idx]

(* An Unpatch that forgets the block's descriptor instead of patching   *)
(* the sites that link to it.                                            *)
UnpatchDropDescriptorOnly(l) ==
    /\ UnpatchEnabled
    /\ ctl = Host
    /\ descriptors' = [descriptors EXCEPT ![l] = Null]
    /\ retired' = IF descriptors[l] # Null THEN retired \cup {descriptors[l]} ELSE retired
    /\ UNCHANGED <<codeLoc, site, patchInfo, cursor, stateVars, ctl, guest>>

-----------------------------------------------------------------------------
(* Helpers on blocks and terminals. *)

(* The terminal below a CheckHalt. *)
Inner(t) == IF t.kind = "CheckHalt" THEN t.else_ ELSE t

(* The leaves of a terminal, by slot. *)
LeavesOf(t) ==
    LET u == Inner(t) IN
    IF u.kind = "If" THEN [s \in {"then", "else"} |-> IF s = "then" THEN u.then_ ELSE u.else_]
                     ELSE [s \in {"term"} |-> u]

(* The patch sites a block's code contains, each with the location it    *)
(* links to: the prelude's LinkBlock, the PushRSB, and the LinkBlock and  *)
(* LinkBlockFast leaves of the terminal.                                  *)
LinkSites(ir) ==
    LET leaves == LeavesOf(ir.term)
        links == {s \in DOMAIN leaves : leaves[s].kind \in {"LinkBlock", "LinkBlockFast"}}
        pre == IF ir.cond # "AL" THEN {"prelude"} ELSE {}
        push == IF ir.pushRSB # NoLoc THEN {"rsb"} ELSE {}
    IN [s \in links \cup pre \cup push |->
            IF s = "prelude" THEN ir.condFailed
            ELSE IF s = "rsb" THEN ir.pushRSB
            ELSE leaves[s].next]

(* EmitAddCycles: cycles_remaining -= n.  The code only ever tests the    *)
(* counter against zero, so every value at or below zero is kept as 0.    *)
AddCycles(c, n) == IF c > n THEN c - n ELSE 0

(* EmitX64::GetBasicBlock. *)
GetBasicBlock(l) == descriptors[l]

(* EmitX64::Patch on the site table: every recorded site jumps to target. *)
Patch(st, sites, target) ==
    [q \in Ptr |-> [s \in Slots |-> IF <<q, s>> \in sites THEN target ELSE st[q][s]]]

(* What the backend expects of the front-end's blocks.  A block whose    *)
(* body writes the PC ends in ReturnToDispatch or PopRSBHint, and only    *)
(* such a block does (the others name their successor); Interpret keeps  *)
(* T (the ASSERT in EmitTerminal(Interpret)); every block costs a cycle;  *)
(* and CheckHalt, which returns without writing the PC, only ends blocks *)
(* whose body has written it.                                             *)
WellFormed(ir, here) ==
    /\ ir.cycles >= 1
    /\ \A s \in DOMAIN LeavesOf(ir.term) :
          LET lf == LeavesOf(ir.term)[s] IN
          /\ (lf.kind \in {"ReturnToDispatch", "PopRSBHint"}) <=> ir.writesPC
          /\ lf.kind = "Interpret" => lf.next.t = here.t
    /\ ir.term.kind = "CheckHalt" => ir.writesPC

-----------------------------------------------------------------------------
Init ==
    /\ codeLoc = [p \in Ptr |-> NoLoc]
    /\ site = [p \in Ptr |-> [s \in Slots |-> Null]]
    /\ descriptors = [l \in Loc |-> Null]
    /\ patchInfo = [l \in Loc |-> {}]
    /\ cursor = 1
    /\ jsPC \in PCs
    /\ jsT \in BOOLEAN
    /\ cycles = 0
    /\ halt = FALSE
    /\ rsbHash = [i \in RSBIndex |-> NoLoc]
    /\ rsbCode = [i \in RSBIndex |-> Null]
    /\ rsbPtr = 0
    /\ ctl = Host
    /\ guest = [pc |-> jsPC, t |-> jsT]
    /\ retired = {}

-----------------------------------------------------------------------------
(* The host and the dispatcher (the library facade, outside the backend). *)

(* Jit::Run: set the cycle budget, clear a stale halt request. *)
Run ==
    /\ ctl = Host
    /\ ctl' = Dispatch
    /\ cycles' = RunCycles
    /\ halt' = FALSE
    /\ UNCHANGED <<cacheVars, jsPC, jsT, rsbHash, rsbCode, rsbPtr, guest>>

(* The dispatcher returns to the host once the budget is spent or a halt *)
(* was requested.                                                        *)
ReturnToHost ==
    /\ ctl = Dispatch
    /\ cycles = 0 \/ halt
    /\ ctl' = Host
    /\ UNCHANGED <<cacheVars, stateVars, guest>>

(* The dispatcher finds the block of the JitState's location and enters it. *)
EnterBlock ==
    /\ ctl = Dispatch
    /\ cycles > 0 /\ ~halt
    /\ GetBasicBlock(JsLoc) # Null
    /\ ctl' = GetBasicBlock(JsLoc)
    /\ UNCHANGED <<cacheVars, stateVars, guest>>

(* Another thread asks the running guest to stop (Jit::HaltExecution). *)
HaltExecution ==
    /\ ctl # Host
    /\ ~halt
    /\ halt' = TRUE
    /\ UNCHANGED <<cacheVars, jsPC, jsT, cycles, rsbHash, rsbCode, rsbPtr, ctl, guest>>

-----------------------------------------------------------------------------
(* EmitX64::Emit of the block at l, called by the dispatcher on a miss:  *)
(* the block goes at the cursor; each patch site is recorded under its   *)
(* target and written with the target's code if GetBasicBlock finds it,  *)
(* the fallback otherwise; then Patch(l, entry) rewrites every site      *)
(* recorded for l (the block's own self-links included) and the          *)
(* descriptor is entered.                                                *)
Emit ==
    /\ ctl = Dispatch
    /\ cycles > 0 /\ ~halt
    /\ GetBasicBlock(JsLoc) = Null
    /\ cursor <= MaxCode
    /\ LET l == JsLoc
           p == cursor
           links == LinkSites(Program[l])
           written == [s \in Slots |-> IF s \in DOMAIN links
                                       THEN GetBasicBlock(links[s]) ELSE Null]
           info == [h \in Loc |-> patchInfo[h]
                                  \cup {<<p, s>> : s \in {x \in DOMAIN links : links[x] = h}}]
       IN /\ patchInfo' = info
          /\ site' = Patch([site EXCEPT ![p] = written], info[l], p)
          /\ descriptors' = [descriptors EXCEPT ![l] = p]
          /\ codeLoc' = [codeLoc EXCEPT ![p] = l]
          /\ cursor' = cursor + 1
    /\ UNCHANGED <<stateVars, ctl, guest, retired>>

(* EmitX64::ClearCache drops the descriptors and the patch tables; the  *)
(* caller moves the code buffer's cursor back to its start with it (the *)
(* old code stays in memory until it is overwritten), and empties the   *)
(* RSB if its policy ResetRSBOnClear says so.  Never while emitted code *)
(* runs.                                                                *)
ClearCache ==
    /\ ctl \in {Host, Dispatch}
    /\ descriptors' = [l \in Loc |-> Null]
    /\ patchInfo' = [l \in Loc |-> {}]
    /\ cursor' = 1
    /\ retired' = {}
    /\ IF ResetRSBOnClear
         THEN /\ rsbHash' = [i \in RSBIndex |-> NoLoc]
              /\ rsbCode' = [i \in RSBIndex |-> Null]
         ELSE UNCHANGED <<rsbHash, rsbCode>>
    /\ UNCHANGED <<codeLoc, site, jsPC, jsT, cycles, halt, rsbPtr, ctl, guest>>

(* EmitX64::Unpatch: Patch(desc, nullptr), from the host between runs. *)
Unpatch(l) ==
    /\ UnpatchEnabled
    /\ ctl = Host
    /\ site' = Patch(site, patchInfo[l], Null)
    /\ retired' = IF descriptors[l] # Null THEN retired \cup {descriptors[l]} ELSE retired
    /\ UNCHANGED <<codeLoc, descriptors, patchInfo, cursor, stateVars, ctl, guest>>

-----------------------------------------------------------------------------
(* Running emitted code.  One step runs one block from its entry to the   *)
(* jump its terminal takes: into another block, or back to the dispatcher.*)

(* EmitX64::EmitPushRSB, run: advance rsb_ptr modulo RSBSize (the code    *)
(* masks with RSBSize - 1) and store the hash with the code pointer its   *)
(* MOV RCX patch site holds now, unless the hash is already in the ring.  *)
PushRSB(p, h) ==
    LET idx == (rsbPtr + 1) % RSBSize IN
    IF h = NoLoc \/ \E i \in RSBIndex : rsbHash[i] = h
      THEN [hash |-> rsbHash, code |-> rsbCode, ptr |-> rsbPtr]
      ELSE [hash |-> [rsbHash EXCEPT ![idx] = h],
            code |-> [rsbCode EXCEPT ![idx] = site[p]["rsb"]],
            ptr |-> idx]

(* EmitTerminal(LinkBlock): fix CPSR.T if the target's T differs from the *)
(* block's own; if cycles remain, the JG patch site jumps to the target;  *)
(* otherwise (or while the site is the fallback) write the PC and return. *)
TermLinkBlock(p, slot, leaf, here, nl, c) ==
    /\ jsT' = IF leaf.next.t # here.t THEN leaf.next.t ELSE nl.t
    /\ IF c > 0 /\ site[p][slot] # Null
         THEN ctl' = site[p][slot] /\ jsPC' = nl.pc
         ELSE ctl' = Dispatch /\ jsPC' = leaf.next.pc
    /\ guest' = leaf.next

(* EmitTerminal(LinkBlockFast): the same without the cycle check; the    *)
(* fallback of the JMP patch site writes the PC and returns.             *)
TermLinkBlockFast(p, slot, leaf, here, nl) ==
    /\ jsT' = IF leaf.next.t # here.t THEN leaf.next.t ELSE nl.t
    /\ IF site[p][slot] # Null
         THEN ctl' = site[p][slot] /\ jsPC' = nl.pc
         ELSE ctl' = Dispatch /\ jsPC' = leaf.next.pc
    /\ guest' = leaf.next

(* EmitTerminal(PopRSBHint): hash the JitState's location, scan the ring *)
(* with CMOVE (the last matching slot wins), jump to the code found or   *)
(* to the dispatcher.                                                    *)
TermPopRSBHint(nl, rh, rc) ==
    /\ \/ \E i \in RSBIndex :
            /\ rh[i] = nl
            /\ \A j \in RSBIndex : j > i => rh[j] # nl
            /\ ctl' = IF rc[i] = Null THEN Dispatch ELSE rc[i]
       \/ /\ \A i \in RSBIndex : rh[i] # nl
          /\ ctl' = Dispatch
    /\ jsPC' = nl.pc /\ jsT' = nl.t
    /\ guest' = nl

(* EmitTerminal(ReturnToDispatch). *)
TermReturnToDispatch(nl) ==
    /\ ctl' = Dispatch
    /\ jsPC' = nl.pc /\ jsT' = nl.t
    /\ guest' = nl

(* EmitTerminal(Interpret): write the PC, call the user's interpreter    *)
(* fallback on it, and return to the dispatcher at wherever the          *)
(* interpreter left the guest.                                           *)
TermInterpret ==
    \E il \in Loc :
        /\ ctl' = Dispatch
        /\ jsPC' = il.pc /\ jsT' = il.t
        /\ guest' = il

(* EmitCondPrelude when the entry condition fails: subtract the          *)
(* condition-failed cycles and LinkBlock to the condition-failed         *)
(* location from the "prelude" patch site.                               *)
CondFailed ==
    /\ ctl \in Ptr
    /\ LET p == ctl
           here == codeLoc[p]
           ir == Program[here]
           c == AddCycles(cycles, ir.condFailedCycles)
       IN /\ ir.cond # "AL"
          /\ cycles' = c
          /\ TermLinkBlock(p, "prelude", [kind |-> "LinkBlock", next |-> ir.condFailed],
                           here, JsLoc, c)
    /\ UNCHANGED <<cacheVars, halt, rsbHash, rsbCode, rsbPtr>>

(* EmitTerminal(CheckHalt): the halt byte is tested first; if it is set *)
(* the code jumps to the return-from-run-code address as it stands,     *)
(* without writing the PC of the terminal it guards.                    *)
CheckHaltTaken(ir) == ir.term.kind = "CheckHalt" /\ halt

(* The block runs: its body (a BXWritePC body leaves the JitState at any *)
(* location, the PushRSB pushes), EmitAddCycles, then its terminal:      *)
(* CheckHalt returns to the dispatcher if a halt is pending, an If takes *)
(* one of its arms, and the leaf reached runs.                           *)
ExecBlock ==
    /\ ctl \in Ptr
    /\ LET p == ctl
           here == codeLoc[p]
           ir == Program[here]
           c == AddCycles(cycles, ir.cycles)
           r == PushRSB(p, ir.pushRSB)
       IN \E nl \in (IF ir.writesPC THEN Loc ELSE {JsLoc}) :
          \E slot \in DOMAIN LeavesOf(ir.term) :
            LET leaf == LeavesOf(ir.term)[slot] IN
            /\ cycles' = c
            /\ rsbHash' = r.hash /\ rsbCode' = r.code /\ rsbPtr' = r.ptr
            /\ \/ /\ CheckHaltTaken(ir)
                  /\ ctl' = Dispatch
                  /\ jsPC' = nl.pc /\ jsT' = nl.t
                  /\ guest' = IF leaf.next \in Loc THEN leaf.next ELSE nl
               \/ /\ ~CheckHaltTaken(ir)
                  /\ \/ leaf.kind = "LinkBlock" /\ TermLinkBlock(p, slot, leaf, here, nl, c)
                     \/ leaf.kind = "LinkBlockFast" /\ TermLinkBlockFast(p, slot, leaf, here, nl)
                     \/ leaf.kind = "PopRSBHint" /\ TermPopRSBHint(nl, r.hash, r.code)
                     \/ leaf.kind = "ReturnToDispatch" /\ TermReturnToDispatch(nl)
                     \/ leaf.kind = "Interpret" /\ TermInterpret
    /\ UNCHANGED <<cacheVars, halt>>

-----------------------------------------------------------------------------
Next ==
    \/ Run
    \/ ReturnToHost
    \/ EnterBlock
    \/ HaltExecution
    \/ Emit
    \/ ClearCache
    \/ \E l \in Loc : Unpatch(l)
    \/ CondFailed
    \/ ExecBlock

(* The guest thread (dispatcher and emitted code) is never starved while *)
(* it has something to do; the host's own choices (Run, ClearCache,      *)
(* Unpatch, HaltExecution) are not forced.                               *)
GuestSteps == ReturnToHost \/ EnterBlock \/ Emit \/ CondFailed \/ ExecBlock

Spec == Init /\ [][Next]_vars /\ WF_vars(GuestSteps)

-----------------------------------------------------------------------------
(* Properties. *)

(* The blocks emitted since the last clear: below the cursor. *)
Live == 1..(cursor - 1)

TypeOK ==
    /\ codeLoc \in [Ptr -> Loc \cup {NoLoc}]
    /\ site \in [Ptr -> [Slots -> Ptr \cup {Null}]]
    /\ descriptors \in [Loc -> Ptr \cup {Null}]
    /\ patchInfo \in [Loc -> SUBSET (Ptr \X Slots)]
    /\ cursor \in 1..(MaxCode + 1)
    /\ jsPC \in PCs
    /\ jsT \in BOOLEAN
    /\ cycles \in 0..RunCycles
    /\ halt \in BOOLEAN
    /\ rsbHash \in [RSBIndex -> Loc \cup {NoLoc}]
    /\ rsbCode \in [RSBIndex -> Ptr \cup {Null}]
    /\ rsbPtr \in RSBIndex
    /\ ctl \in Ptr \cup {Host, Dispatch}
    /\ guest \in Loc
    /\ retired \subseteq Ptr

(* Patch completeness (Emit, Patch, the terminal emitters): every patch  *)
(* site in the code buffer jumps to the block currently registered for   *)
(* its target, and to the fallback exactly while none is.                *)
PatchComplete ==
    \A p \in Live :
        LET links == LinkSites(Program[codeLoc[p]]) IN
        \A s \in DOMAIN links : site[p][s] = descriptors[links[s]]

(* Linking is transparent to the guest: whenever control enters emitted  *)
(* code it is the block of the location the guest is at (with CPSR.T     *)
(* right), and whenever control is back at the dispatcher or the host    *)
(* the JitState's PC and T name that location.                           *)
EnterAtRightLocation ==
    /\ ctl \in Ptr => codeLoc[ctl] = guest /\ jsT = guest.t
    /\ ctl \in {Host, Dispatch} => JsLoc = guest

(* The RSB hint is sound: every code pointer stored in the ring is the   *)
(* entry of a block emitted for the location stored beside it.           *)
RSBSound ==
    \A i \in RSBIndex : rsbCode[i] # Null => codeLoc[rsbCode[i]] = rsbHash[i]

(* A halt request is honoured: once HaltExecution has set the flag the   *)
(* run reaches the host (through CheckHalt, the LinkBlock cycle check or *)
(* the dispatcher).                                                      *)
HaltStopsRun == halt ~> (ctl = Host)

(* What Unpatch leaves behind is harmless: a patch site never jumps to a *)
(* block other than the one now registered for its target.               *)
SiteTargetsCurrent ==
    \A p \in Live :
        LET links == LinkSites(Program[codeLoc[p]]) IN
        \A s \in DOMAIN links : site[p][s] \in {Null, descriptors[links[s]]}

(* Unpatch invalidates a block (spec 4.5): once a block is unpatched,    *)
(* control never enters its code again before the cache is cleared.     *)
UnpatchedNotEntered == ctl \in Ptr => ctl \notin retired

=============================================================================
