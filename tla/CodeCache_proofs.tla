-------------------------- MODULE CodeCache_proofs --------------------------
(* Proofs about the code cache model, for every value of its constants. *)
EXTENDS CodeCache, TLAPS

(* Every code pointer the guest can reach (a descriptor, a patch site,  *)
(* an RSB slot, the block being run) holds an emitted block: the code   *)
(* buffer is only ever written, never given back.                       *)
Emitted == {p \in Ptr : codeLoc[p] # NoLoc}
CodeTargetsEmitted ==
    /\ \A l \in Loc : descriptors[l] \in Emitted \cup {Null}
    /\ \A p \in Ptr : \A s \in Slots : site[p][s] \in Emitted \cup {Null}
    /\ \A i \in RSBIndex : rsbCode[i] \in Emitted \cup {Null}
    /\ ctl \in Emitted \cup {Host, Dispatch}

(* The inductive strengthening of TypeOK: the block run next and every   *)
(* code pointer the guest can jump to hold an emitted block, so that     *)
(* Program[codeLoc[ctl]] is the IR block of a real location.             *)
IInv == TypeOK /\ CodeTargetsEmitted

(* The strengthening for the linking properties, with Unpatch off and   *)
(* the RSB reset on every clear.  Blocks below the cursor are live and   *)
(* hold locations; a descriptor names a live block of its own location;  *)
(* patch_information lists exactly the sites of live blocks that link to *)
(* a location; every RSB code pointer is live; and the block that runs   *)
(* is live.                                                              *)
LiveEmitted == \A q \in Live : codeLoc[q] \in Loc
DescLive ==
    \A l \in Loc : descriptors[l] # Null =>
        descriptors[l] \in Live /\ codeLoc[descriptors[l]] = l
PatchInfoExact ==
    \A h \in Loc, q \in Ptr, s \in Slots :
        <<q, s>> \in patchInfo[h] <=>
            /\ q \in Live
            /\ s \in DOMAIN LinkSites(Program[codeLoc[q]])
            /\ LinkSites(Program[codeLoc[q]])[s] = h
RSBLive == \A i \in RSBIndex : rsbCode[i] # Null => rsbCode[i] \in Live
CtlLive == ctl \in Ptr => ctl \in Live
LInv ==
    /\ IInv /\ LiveEmitted /\ DescLive /\ PatchInfoExact /\ RSBLive /\ CtlLive
    /\ PatchComplete /\ RSBSound /\ EnterAtRightLocation

-----------------------------------------------------------------------------
(* Lemmas on the helpers. *)

(* The leaves of a terminal sit in slots and are leaf terminals. *)
LEMMA LeavesType ==
    ASSUME NEW t \in Terminal
    PROVE  /\ DOMAIN LeavesOf(t) \subseteq {"term", "then", "else"}
           /\ \A s \in DOMAIN LeavesOf(t) : LeavesOf(t)[s] \in LeafTerm
<1>1. Inner(t) \in LeafTerm \cup IfTerm
  <2>1. CASE t \in CheckHaltTerm
    BY <2>1 DEF Inner, CheckHaltTerm
  <2>2. CASE t \in LeafTerm \cup IfTerm
    <3>1. t.kind # "CheckHalt"
      BY <2>2 DEF LeafTerm, IfTerm, NextKinds
    <3>. QED
      BY <2>2, <3>1 DEF Inner
  <2>. QED
    BY <2>1, <2>2 DEF Terminal
<1>2. CASE Inner(t).kind = "If"
  <2>1. Inner(t) \in IfTerm
    BY <1>1, <1>2 DEF LeafTerm, NextKinds
  <2>. QED
    BY <1>2, <2>1 DEF LeavesOf, IfTerm
<1>3. CASE Inner(t).kind # "If"
  <2>1. Inner(t) \in LeafTerm
    BY <1>1, <1>3 DEF IfTerm
  <2>. QED
    BY <1>3, <2>1 DEF LeavesOf
<1>. QED
  BY <1>2, <1>3

(* The sites of a block's code are slots, and each links to a location. *)
LEMMA LinkSitesType ==
    ASSUME NEW ir \in IRBlock
    PROVE  /\ DOMAIN LinkSites(ir) \subseteq Slots
           /\ \A s \in DOMAIN LinkSites(ir) : LinkSites(ir)[s] \in Loc
<1>1. ir.term \in Terminal
  BY DEF IRBlock
<1>2. /\ DOMAIN LeavesOf(ir.term) \subseteq {"term", "then", "else"}
      /\ \A s \in DOMAIN LeavesOf(ir.term) : LeavesOf(ir.term)[s] \in LeafTerm
  BY <1>1, LeavesType
<1>3. \A s \in DOMAIN LeavesOf(ir.term) :
         LeavesOf(ir.term)[s].kind \in {"LinkBlock", "LinkBlockFast"}
           => LeavesOf(ir.term)[s].next \in Loc
  BY <1>2 DEF LeafTerm, NextKinds
<1>4. ir.condFailed \in Loc /\ (ir.pushRSB # NoLoc => ir.pushRSB \in Loc)
  BY DEF IRBlock
<1>5. DOMAIN LinkSites(ir) \subseteq Slots
  BY <1>2 DEF LinkSites, Slots
<1>6. ASSUME NEW s \in DOMAIN LinkSites(ir) PROVE LinkSites(ir)[s] \in Loc
  <2>1. CASE s = "prelude"
    BY <2>1, <1>4 DEF LinkSites
  <2>2. CASE s = "rsb"
    <3>1. ir.pushRSB # NoLoc
      BY <2>2, <1>2 DEF LinkSites
    <3>. QED
      BY <2>2, <3>1, <1>4 DEF LinkSites
  <2>3. CASE s \notin {"prelude", "rsb"}
    <3>1. s \in DOMAIN LeavesOf(ir.term)
          /\ LeavesOf(ir.term)[s].kind \in {"LinkBlock", "LinkBlockFast"}
      BY <2>3 DEF LinkSites
    <3>2. LinkSites(ir)[s] = LeavesOf(ir.term)[s].next
      BY <2>3 DEF LinkSites
    <3>. QED
      BY <3>1, <3>2, <1>3
  <2>. QED
    BY <2>1, <2>2, <2>3
<1>. QED
  BY <1>5, <1>6

(* Patching keeps the site table's type. *)
LEMMA PatchType ==
    ASSUME NEW X, NEW st \in [Ptr -> [Slots -> X]], NEW sites, NEW target \in X
    PROVE  Patch(st, sites, target) \in [Ptr -> [Slots -> X]]
  BY DEF Patch

(* The subtraction of EmitAddCycles stays within the budget. *)
LEMMA AddCyclesType ==
    ASSUME NEW c \in 0..RunCycles, NEW n \in Nat
    PROVE  AddCycles(c, n) \in 0..RunCycles
  BY RunCyclesAssumption DEF AddCycles

(* The JitState's location is a location. *)
LEMMA JsLocType ==
    ASSUME TypeOK PROVE JsLoc \in Loc
  BY DEF TypeOK, JsLoc, Loc

(* A push keeps the ring's types, and stores only code pointers that    *)
(* hold emitted blocks.                                                 *)
LEMMA PushRSBType ==
    ASSUME IInv, NEW p \in Ptr, NEW h \in Loc \cup {NoLoc}
    PROVE  /\ PushRSB(p, h).hash \in [RSBIndex -> Loc \cup {NoLoc}]
           /\ PushRSB(p, h).code \in [RSBIndex -> Emitted \cup {Null}]
           /\ PushRSB(p, h).ptr \in RSBIndex
<1>1. (rsbPtr + 1) % RSBSize \in RSBIndex
  BY RSBSizeAssumption DEF IInv, TypeOK, RSBIndex
<1>2. site[p]["rsb"] \in Emitted \cup {Null}
  BY DEF IInv, CodeTargetsEmitted, Slots
<1>3. rsbCode \in [RSBIndex -> Emitted \cup {Null}]
  BY DEF IInv, TypeOK, CodeTargetsEmitted
<1>. QED
  BY <1>1, <1>2, <1>3 DEF PushRSB, IInv, TypeOK

-----------------------------------------------------------------------------
(* The strengthened invariant holds initially and is kept by every step. *)

LEMMA InitIInv == Init => IInv
<1>. SUFFICES ASSUME Init PROVE IInv
  OBVIOUS
<1>1. TypeOK
  <2>1. rsbPtr \in RSBIndex /\ cycles \in 0..RunCycles /\ cursor \in 1..(MaxCode + 1)
    BY MaxCodeAssumption, RunCyclesAssumption, RSBSizeAssumption DEF Init, RSBIndex
  <2>2. guest \in Loc
    BY DEF Init, Loc
  <2>3. ctl \in Ptr \cup {Host, Dispatch}
    BY DEF Init
  <2>. QED
    BY <2>1, <2>2, <2>3 DEF Init, TypeOK
<1>2. CodeTargetsEmitted
  BY DEF Init, CodeTargetsEmitted
<1>. QED
  BY <1>1, <1>2 DEF IInv

(* The host's and the dispatcher's steps. *)
LEMMA RunIInv == IInv /\ Run => IInv'
<1>. SUFFICES ASSUME IInv, Run PROVE IInv'
  OBVIOUS
<1>1. Emitted' = Emitted
  BY DEF Run, cacheVars, Emitted
<1>2. cycles' \in 0..RunCycles
  BY RunCyclesAssumption DEF Run
<1>. QED
  BY <1>1, <1>2 DEF IInv, TypeOK, CodeTargetsEmitted, Run, cacheVars

LEMMA ReturnToHostIInv == IInv /\ ReturnToHost => IInv'
  BY DEF IInv, TypeOK, CodeTargetsEmitted, Emitted, ReturnToHost, cacheVars, stateVars

LEMMA HaltExecutionIInv == IInv /\ HaltExecution => IInv'
  BY DEF IInv, TypeOK, CodeTargetsEmitted, Emitted, HaltExecution, cacheVars

LEMMA EnterBlockIInv == IInv /\ EnterBlock => IInv'
<1>. SUFFICES ASSUME IInv, EnterBlock PROVE IInv'
  OBVIOUS
<1>1. JsLoc \in Loc
  BY JsLocType DEF IInv
<1>2. ctl' \in Emitted
  BY <1>1 DEF EnterBlock, GetBasicBlock, IInv, CodeTargetsEmitted
<1>. QED
  BY <1>2 DEF IInv, TypeOK, CodeTargetsEmitted, Emitted, EnterBlock, cacheVars, stateVars

LEMMA ClearCacheIInv == IInv /\ ClearCache => IInv'
<1>. SUFFICES ASSUME IInv, ClearCache PROVE IInv'
  OBVIOUS
<1>1. TypeOK'
  BY MaxCodeAssumption DEF IInv, TypeOK, ClearCache
<1>2. CodeTargetsEmitted'
  BY DEF IInv, TypeOK, CodeTargetsEmitted, Emitted, ClearCache
<1>. QED
  BY <1>1, <1>2 DEF IInv

LEMMA UnpatchIInv ==
    ASSUME NEW l \in Loc PROVE IInv /\ Unpatch(l) => IInv'
<1>. SUFFICES ASSUME IInv, Unpatch(l) PROVE IInv'
  OBVIOUS
<1>1. site' \in [Ptr -> [Slots -> Emitted \cup {Null}]]
  <2>1. site \in [Ptr -> [Slots -> Emitted \cup {Null}]]
    BY DEF IInv, TypeOK, CodeTargetsEmitted
  <2>. QED
    BY <2>1, PatchType DEF Unpatch
<1>2. Emitted' = Emitted
  BY DEF Unpatch, Emitted
<1>3. Emitted \subseteq Ptr
  BY DEF Emitted
<1>4. retired' \subseteq Ptr
  BY DEF Unpatch, IInv, TypeOK
<1>. QED
  BY <1>1, <1>2, <1>3, <1>4 DEF IInv, TypeOK, CodeTargetsEmitted, Unpatch, stateVars

(* Emit: the new block's sites link to emitted blocks or to the         *)
(* fallback, and the block itself joins the emitted ones.               *)
LEMMA EmitIInv == IInv /\ Emit => IInv'
<1>. SUFFICES ASSUME IInv, Emit PROVE IInv'
  OBVIOUS
<1>. DEFINE l == JsLoc
            p == cursor
            links == LinkSites(Program[l])
            written == [s \in Slots |-> IF s \in DOMAIN links
                                        THEN GetBasicBlock(links[s]) ELSE Null]
            info == [h \in Loc |-> patchInfo[h]
                        \cup {<<p, s>> : s \in {x \in DOMAIN links : links[x] = h}}]
<1>1. l \in Loc /\ p \in Ptr
  BY JsLocType DEF IInv, TypeOK, Emit, Ptr
<1>2. /\ DOMAIN links \subseteq Slots
      /\ \A s \in DOMAIN links : links[s] \in Loc
  <2>1. Program[l] \in IRBlock
    BY <1>1, ProgramAssumption
  <2>. QED
    BY <2>1, LinkSitesType
<1>3. /\ patchInfo' = info
      /\ site' = Patch([site EXCEPT ![p] = written], info[l], p)
      /\ descriptors' = [descriptors EXCEPT ![l] = p]
      /\ codeLoc' = [codeLoc EXCEPT ![p] = l]
      /\ cursor' = cursor + 1
      /\ UNCHANGED <<stateVars, ctl, guest, retired>>
  BY DEF Emit
<1>4. Emitted' = Emitted \cup {p}
  BY <1>1, <1>3, NoLocAssumption DEF Emitted, IInv, TypeOK
<1>5. Emitted' \subseteq Ptr
  BY <1>1, <1>4 DEF Emitted
<1>6. written \in [Slots -> Emitted \cup {Null}]
  BY <1>2 DEF GetBasicBlock, IInv, CodeTargetsEmitted
<1>7. site' \in [Ptr -> [Slots -> Emitted' \cup {Null}]]
  <2>1. [site EXCEPT ![p] = written] \in [Ptr -> [Slots -> Emitted' \cup {Null}]]
    BY <1>1, <1>4, <1>6 DEF IInv, TypeOK, CodeTargetsEmitted
  <2>2. p \in Emitted' \cup {Null}
    BY <1>4
  <2>. QED
    BY <2>1, <2>2, <1>3, PatchType
<1>8. patchInfo' \in [Loc -> SUBSET (Ptr \X Slots)]
  BY <1>1, <1>2, <1>3 DEF IInv, TypeOK
<1>9. descriptors' \in [Loc -> Emitted' \cup {Null}]
  BY <1>1, <1>3, <1>4 DEF IInv, TypeOK, CodeTargetsEmitted
<1>10. codeLoc' \in [Ptr -> Loc \cup {NoLoc}] /\ cursor' \in 1..(MaxCode + 1)
  <2>1. cursor <= MaxCode
    BY DEF Emit
  <2>2. codeLoc \in [Ptr -> Loc \cup {NoLoc}]
    BY DEF IInv, TypeOK
  <2>3. codeLoc' \in [Ptr -> Loc \cup {NoLoc}]
    <3>1. codeLoc' = [codeLoc EXCEPT ![p] = l]
      BY <1>3
    <3>2. l \in Loc
      BY <1>1
    <3>. QED
      BY <3>1, <3>2, <2>2
  <2>. QED
    BY <1>3, <2>1, <2>3, MaxCodeAssumption DEF IInv, TypeOK
<1>11. /\ rsbCode' \in [RSBIndex -> Emitted' \cup {Null}]
       /\ ctl' \in Emitted' \cup {Host, Dispatch}
  BY <1>3, <1>4 DEF IInv, TypeOK, CodeTargetsEmitted, stateVars
<1>12. TypeOK'
  <2>1. site' \in [Ptr -> [Slots -> Ptr \cup {Null}]]
    BY <1>5, <1>7
  <2>2. descriptors' \in [Loc -> Ptr \cup {Null}]
    BY <1>5, <1>9
  <2>3. rsbCode' \in [RSBIndex -> Ptr \cup {Null}] /\ ctl' \in Ptr \cup {Host, Dispatch}
    BY <1>5, <1>11
  <2>4. /\ jsPC' \in PCs /\ jsT' \in BOOLEAN /\ cycles' \in 0..RunCycles
        /\ halt' \in BOOLEAN /\ rsbHash' \in [RSBIndex -> Loc \cup {NoLoc}]
        /\ rsbPtr' \in RSBIndex /\ guest' \in Loc /\ retired' \subseteq Ptr
    BY <1>3 DEF IInv, TypeOK, stateVars
  <2>. QED
    BY <1>8, <1>10, <2>1, <2>2, <2>3, <2>4 DEF TypeOK
<1>13. CodeTargetsEmitted'
  BY <1>7, <1>9, <1>11 DEF CodeTargetsEmitted
<1>. QED
  BY <1>12, <1>13 DEF IInv

(* The terminals leave the JitState at a location and jump to an emitted *)
(* block or to the dispatcher.                                           *)
TermPost ==
    /\ jsPC' \in PCs /\ jsT' \in BOOLEAN /\ guest' \in Loc
    /\ ctl' \in Emitted \cup {Dispatch}

LEMMA TermLinkBlockType ==
    ASSUME IInv, NEW p \in Ptr, NEW slot \in Slots, NEW leaf, leaf.next \in Loc,
           NEW here \in Loc, NEW nl \in Loc, NEW c,
           TermLinkBlock(p, slot, leaf, here, nl, c)
    PROVE  TermPost
<1>1. site[p][slot] \in Emitted \cup {Null}
  BY DEF IInv, CodeTargetsEmitted
<1>. QED
  BY <1>1 DEF TermLinkBlock, TermPost, Loc

LEMMA TermLinkBlockFastType ==
    ASSUME IInv, NEW p \in Ptr, NEW slot \in Slots, NEW leaf, leaf.next \in Loc,
           NEW here \in Loc, NEW nl \in Loc,
           TermLinkBlockFast(p, slot, leaf, here, nl)
    PROVE  TermPost
<1>1. site[p][slot] \in Emitted \cup {Null}
  BY DEF IInv, CodeTargetsEmitted
<1>. QED
  BY <1>1 DEF TermLinkBlockFast, TermPost, Loc

LEMMA TermPopRSBHintType ==
    ASSUME NEW nl \in Loc, NEW rh, NEW rc \in [RSBIndex -> Emitted \cup {Null}],
           TermPopRSBHint(nl, rh, rc)
    PROVE  TermPost
  BY DEF TermPopRSBHint, TermPost, Loc

LEMMA TermReturnToDispatchType ==
    ASSUME NEW nl \in Loc, TermReturnToDispatch(nl)
    PROVE  TermPost
  BY DEF TermReturnToDispatch, TermPost, Loc

LEMMA TermInterpretType ==
    ASSUME TermInterpret PROVE TermPost
  BY DEF TermInterpret, TermPost, Loc

(* The block that runs is an emitted block of a location. *)
LEMMA RunningBlock ==
    ASSUME IInv, ctl \in Ptr
    PROVE  codeLoc[ctl] \in Loc /\ Program[codeLoc[ctl]] \in IRBlock
<1>1. ctl \in Emitted
  BY DEF IInv, CodeTargetsEmitted, Host, Dispatch, Ptr
<1>2. codeLoc[ctl] \in Loc
  BY <1>1 DEF Emitted, IInv, TypeOK
<1>. QED
  BY <1>2, ProgramAssumption

(* After a terminal, with the cache untouched and the ring's new        *)
(* contents typed, the invariant holds again.                           *)
LEMMA AfterTerm ==
    ASSUME IInv, TermPost, UNCHANGED cacheVars, halt' = halt,
           cycles' \in 0..RunCycles,
           rsbHash' \in [RSBIndex -> Loc \cup {NoLoc}],
           rsbCode' \in [RSBIndex -> Emitted \cup {Null}],
           rsbPtr' \in RSBIndex
    PROVE  IInv'
<1>1. Emitted' = Emitted /\ Emitted \subseteq Ptr
  BY DEF Emitted, cacheVars
<1>. QED
  BY <1>1 DEF IInv, TypeOK, CodeTargetsEmitted, TermPost, cacheVars

(* The condition prelude's failure path. *)
LEMMA CondFailedIInv == IInv /\ CondFailed => IInv' /\ ctl' # Host
<1>. SUFFICES ASSUME IInv, CondFailed PROVE IInv' /\ ctl' # Host
  OBVIOUS
<1>. DEFINE p == ctl
            here == codeLoc[p]
            ir == Program[here]
            c == AddCycles(cycles, ir.condFailedCycles)
<1>1. p \in Ptr /\ here \in Loc /\ ir \in IRBlock
  BY RunningBlock DEF CondFailed
<1>2. c \in 0..RunCycles
  BY <1>1, AddCyclesType DEF IInv, TypeOK, IRBlock
<1>3. /\ cycles' = c
      /\ TermLinkBlock(p, "prelude", [kind |-> "LinkBlock", next |-> ir.condFailed],
                       here, JsLoc, c)
      /\ UNCHANGED <<cacheVars, halt, rsbHash, rsbCode, rsbPtr>>
  BY DEF CondFailed
<1>4. TermPost
  <2>1. [kind |-> "LinkBlock", next |-> ir.condFailed].next \in Loc
    BY <1>1 DEF IRBlock
  <2>2. JsLoc \in Loc
    BY JsLocType DEF IInv
  <2>. QED
    BY <1>1, <1>3, <2>1, <2>2, TermLinkBlockType DEF Slots
<1>5. ctl' # Host
  BY <1>4 DEF TermPost, Emitted, Host, Dispatch, Ptr
<1>. QED
  BY <1>2, <1>3, <1>4, <1>5, AfterTerm DEF IInv, TypeOK, CodeTargetsEmitted

(* A block runs to its terminal. *)
LEMMA ExecBlockIInv == IInv /\ ExecBlock => IInv' /\ ctl' # Host
<1>. SUFFICES ASSUME IInv, ExecBlock PROVE IInv' /\ ctl' # Host
  OBVIOUS
<1>. DEFINE p == ctl
            here == codeLoc[p]
            ir == Program[here]
            c == AddCycles(cycles, ir.cycles)
            r == PushRSB(p, ir.pushRSB)
<1>1. p \in Ptr /\ here \in Loc /\ ir \in IRBlock
  BY RunningBlock DEF ExecBlock
<1>2. c \in 0..RunCycles
  BY <1>1, AddCyclesType DEF IInv, TypeOK, IRBlock
<1>3. /\ r.hash \in [RSBIndex -> Loc \cup {NoLoc}]
      /\ r.code \in [RSBIndex -> Emitted \cup {Null}]
      /\ r.ptr \in RSBIndex
  <2>1. ir.pushRSB \in Loc \cup {NoLoc}
    BY <1>1 DEF IRBlock
  <2>. QED
    BY <1>1, <2>1, PushRSBType
<1>4. UNCHANGED <<cacheVars, halt>>
  BY DEF ExecBlock
<1>5. PICK nl \in (IF ir.writesPC THEN Loc ELSE {JsLoc}),
           slot \in DOMAIN LeavesOf(ir.term) :
        LET leaf == LeavesOf(ir.term)[slot] IN
        /\ cycles' = c
        /\ rsbHash' = r.hash /\ rsbCode' = r.code /\ rsbPtr' = r.ptr
        /\ \/ /\ CheckHaltTaken(ir)
              /\ ctl' = Dispatch
              /\ jsPC' = nl.pc /\ jsT' = nl.t
              /\ guest' = IF leaf.next \in Loc THEN leaf.next ELSE nl
           \/ /\ ~CheckHaltTaken(ir)
              /\ \/ leaf.kind = "LinkBlock" /\ TermLinkBlock(p, slot, leaf, here, nl, c)
                 \/ leaf.kind = "LinkBlockFast" /\ TermLinkBlockFast(p, slot, leaf, here, nl)
                 \/ leaf.kind = "PopRSBHint" /\ TermPopRSBHint(nl, r.hash, r.code)
                 \/ leaf.kind = "ReturnToDispatch" /\ TermReturnToDispatch(nl)
                 \/ leaf.kind = "Interpret" /\ TermInterpret
  BY DEF ExecBlock
<1>. DEFINE leaf == LeavesOf(ir.term)[slot]
<1>6. nl \in Loc
  BY JsLocType DEF IInv
<1>7. slot \in Slots /\ leaf \in LeafTerm
  <2>1. ir.term \in Terminal
    BY <1>1 DEF IRBlock
  <2>. QED
    BY <2>1, LeavesType DEF Slots
<1>8. leaf.kind \in {"LinkBlock", "LinkBlockFast"} => leaf.next \in Loc
  BY <1>7 DEF LeafTerm, NextKinds
<1>9. TermPost
  <2>1. CASE CheckHaltTaken(ir)
    BY <1>5, <1>6, <2>1 DEF TermPost, Loc
  <2>2. CASE leaf.kind = "LinkBlock" /\ TermLinkBlock(p, slot, leaf, here, nl, c)
    BY <1>1, <1>6, <1>7, <1>8, <2>2, TermLinkBlockType
  <2>3. CASE leaf.kind = "LinkBlockFast" /\ TermLinkBlockFast(p, slot, leaf, here, nl)
    BY <1>1, <1>6, <1>7, <1>8, <2>3, TermLinkBlockFastType
  <2>4. CASE TermPopRSBHint(nl, r.hash, r.code)
    BY <1>3, <1>6, <2>4, TermPopRSBHintType
  <2>5. CASE TermReturnToDispatch(nl)
    BY <1>6, <2>5, TermReturnToDispatchType
  <2>6. CASE TermInterpret
    BY <2>6, TermInterpretType
  <2>. QED
    BY <1>5, <2>1, <2>2, <2>3, <2>4, <2>5, <2>6
<1>10. ctl' # Host
  BY <1>9 DEF TermPost, Emitted, Host, Dispatch, Ptr
<1>. QED
  BY <1>2, <1>3, <1>4, <1>5, <1>9, <1>10, AfterTerm

LEMMA NextIInv == IInv /\ [Next]_vars => IInv'
<1>. SUFFICES ASSUME IInv, [Next]_vars PROVE IInv'
  OBVIOUS
<1>1. CASE Run
  BY <1>1, RunIInv
<1>2. CASE ReturnToHost
  BY <1>2, ReturnToHostIInv
<1>3. CASE EnterBlock
  BY <1>3, EnterBlockIInv
<1>4. CASE HaltExecution
  BY <1>4, HaltExecutionIInv
<1>5. CASE Emit
  BY <1>5, EmitIInv
<1>6. CASE ClearCache
  BY <1>6, ClearCacheIInv
<1>7. CASE \E l \in Loc : Unpatch(l)
  BY <1>7, UnpatchIInv
<1>8. CASE CondFailed
  BY <1>8, CondFailedIInv
<1>9. CASE ExecBlock
  BY <1>9, ExecBlockIInv
<1>10. CASE UNCHANGED vars
  BY <1>10 DEF vars, IInv, TypeOK, CodeTargetsEmitted, Emitted
<1>. QED
  BY <1>1, <1>2, <1>3, <1>4, <1>5, <1>6, <1>7, <1>8, <1>9, <1>10 DEF Next

-----------------------------------------------------------------------------
(* Type correctness of the whole cache (block registry, patch tables,    *)
(* code buffer cursor, JitState and RSB) under every Emit, ClearCache,   *)
(* Unpatch, dispatcher step and terminal, for every program the          *)
(* front-end can produce and every size of buffer and ring.              *)
THEOREM TypeCorrect == Spec => []TypeOK
<1>1. IInv => TypeOK
  BY DEF IInv
<1>. QED
  BY InitIInv, NextIInv, <1>1, PTL DEF Spec

-----------------------------------------------------------------------------
(* The linking properties, proved together from one strengthening that  *)
(* contains PatchComplete.  PatchComplete needs the host never to        *)
(* unpatch (Unpatch nulls sites whose target keeps its descriptor); the  *)
(* strengthening also needs the RSB emptied with every clear and the     *)
(* front-end's blocks well formed.  EnterAtRightLocation and RSBSound    *)
(* themselves survive Unpatch, which keeps the descriptor (see the       *)
(* SiteTargetsCurrent section below), but are proved here only under    *)
(* these assumptions.                                                    *)
LinkAssumptions ==
    /\ ~UnpatchEnabled
    /\ ResetRSBOnClear
    /\ \A l \in Loc : WellFormed(Program[l], l)

(* The live blocks are code pointers. *)
LEMMA LiveInPtr ==
    ASSUME TypeOK PROVE Live \subseteq Ptr
  BY MaxCodeAssumption DEF TypeOK, Live, Ptr

LEMMA InitLInv == Init => LInv
<1>. SUFFICES ASSUME Init PROVE LInv
  OBVIOUS
<1>1. IInv
  BY InitIInv
<1>2. Live = {}
  BY DEF Init, Live
<1>3. JsLoc = guest
  BY DEF Init, JsLoc
<1>. QED
  BY <1>1, <1>2, <1>3 DEF Init, LInv, LiveEmitted, DescLive, PatchInfoExact, RSBLive,
        CtlLive, PatchComplete, RSBSound, EnterAtRightLocation, Host, Ptr

(* Steps that leave the cache alone and keep control out of emitted code. *)
LEMMA RunLInv == LInv /\ Run => LInv'
<1>. SUFFICES ASSUME LInv, Run PROVE LInv'
  OBVIOUS
<1>1. IInv'
  BY RunIInv DEF LInv
<1>. QED
  BY <1>1 DEF Run, cacheVars, LInv, LiveEmitted, DescLive, PatchInfoExact, RSBLive,
        CtlLive, PatchComplete, RSBSound, EnterAtRightLocation, Live, JsLoc,
        Dispatch, Ptr

LEMMA ReturnToHostLInv == LInv /\ ReturnToHost => LInv'
<1>. SUFFICES ASSUME LInv, ReturnToHost PROVE LInv'
  OBVIOUS
<1>1. IInv'
  BY ReturnToHostIInv DEF LInv
<1>. QED
  BY <1>1 DEF ReturnToHost, cacheVars, stateVars, LInv, LiveEmitted, DescLive,
        PatchInfoExact, RSBLive, CtlLive, PatchComplete, RSBSound,
        EnterAtRightLocation, Live, JsLoc, Host, Dispatch, Ptr

LEMMA HaltExecutionLInv == LInv /\ HaltExecution => LInv'
<1>. SUFFICES ASSUME LInv, HaltExecution PROVE LInv'
  OBVIOUS
<1>1. IInv'
  BY HaltExecutionIInv DEF LInv
<1>. QED
  BY <1>1 DEF HaltExecution, cacheVars, LInv, LiveEmitted, DescLive,
        PatchInfoExact, RSBLive, CtlLive, PatchComplete, RSBSound,
        EnterAtRightLocation, Live, JsLoc

(* The dispatcher enters the block registered for the JitState's location. *)
LEMMA EnterBlockLInv == LInv /\ EnterBlock => LInv'
<1>. SUFFICES ASSUME LInv, EnterBlock PROVE LInv'
  OBVIOUS
<1>1. IInv'
  BY EnterBlockIInv DEF LInv
<1>2. JsLoc \in Loc /\ JsLoc = guest
  BY JsLocType DEF LInv, IInv, EnterAtRightLocation, EnterBlock
<1>3. ctl' \in Live /\ codeLoc[ctl'] = guest
  BY <1>2 DEF EnterBlock, GetBasicBlock, LInv, DescLive
<1>4. jsT = guest.t
  BY <1>2 DEF JsLoc
<1>5. Live \subseteq Ptr
  BY LiveInPtr DEF LInv, IInv
<1>6. UNCHANGED <<cacheVars, stateVars, guest>>
  BY DEF EnterBlock
<1>7. (CtlLive /\ EnterAtRightLocation)'
  BY <1>3, <1>4, <1>5, <1>6 DEF CtlLive, EnterAtRightLocation, cacheVars,
        stateVars, Live, Host, Dispatch, Ptr
<1>8. (LiveEmitted /\ DescLive /\ PatchInfoExact /\ RSBLive /\ PatchComplete /\ RSBSound)'
  BY <1>6 DEF LInv, LiveEmitted, DescLive, PatchInfoExact, RSBLive, PatchComplete,
        RSBSound, cacheVars, stateVars, Live
<1>. QED
  BY <1>1, <1>7, <1>8 DEF LInv

(* A clear with the RSB reset leaves nothing live. *)
LEMMA ClearCacheLInv == LinkAssumptions /\ LInv /\ ClearCache => LInv'
<1>. SUFFICES ASSUME LinkAssumptions, LInv, ClearCache PROVE LInv'
  OBVIOUS
<1>1. IInv'
  BY ClearCacheIInv DEF LInv
<1>2. Live' = {}
  BY DEF ClearCache, Live
<1>3. rsbCode' = [i \in RSBIndex |-> Null] /\ patchInfo' = [l \in Loc |-> {}]
  BY DEF ClearCache, LinkAssumptions
<1>4. ctl' \notin Ptr /\ JsLoc' = guest'
  BY DEF ClearCache, LInv, EnterAtRightLocation, JsLoc, Host, Dispatch, Ptr
<1>. QED
  BY <1>1, <1>2, <1>3, <1>4 DEF ClearCache, LInv, LiveEmitted, DescLive,
        PatchInfoExact, RSBLive, CtlLive, PatchComplete, RSBSound,
        EnterAtRightLocation

LEMMA UnpatchLInv ==
    ASSUME NEW l \in Loc PROVE LinkAssumptions /\ LInv /\ Unpatch(l) => LInv'
  BY DEF LinkAssumptions, Unpatch

(* Emit: the new block is live, its own sites are written from the      *)
(* registry, and Patch sends every live site linking to its location to  *)
(* it, and no other site.                                                *)
LEMMA EmitLInv == LInv /\ Emit => LInv'
<1>. SUFFICES ASSUME LInv, Emit PROVE LInv'
  OBVIOUS
<1>. DEFINE l == JsLoc
            p == cursor
            links == LinkSites(Program[l])
            written == [s \in Slots |-> IF s \in DOMAIN links
                                        THEN GetBasicBlock(links[s]) ELSE Null]
            info == [h \in Loc |-> patchInfo[h]
                        \cup {<<p, s>> : s \in {x \in DOMAIN links : links[x] = h}}]
            S0 == [site EXCEPT ![p] = written]
<1>1. IInv'
  BY EmitIInv DEF LInv
<1>2. /\ l \in Loc /\ p \in Ptr /\ p \notin Live
      /\ Live' = Live \cup {p}
      /\ Live \subseteq Ptr
  <2>1. l \in Loc /\ cursor \in 1..MaxCode
    BY JsLocType, MaxCodeAssumption DEF LInv, IInv, TypeOK, Emit
  <2>2. Live \subseteq Ptr
    BY LiveInPtr DEF LInv, IInv
  <2>. QED
    BY <2>1, <2>2, MaxCodeAssumption DEF Emit, Live, Ptr
<1>3. /\ patchInfo' = info
      /\ site' = Patch(S0, info[l], p)
      /\ descriptors' = [descriptors EXCEPT ![l] = p]
      /\ codeLoc' = [codeLoc EXCEPT ![p] = l]
      /\ UNCHANGED <<stateVars, ctl, guest, retired>>
  BY DEF Emit
<1>4. descriptors[l] = Null /\ ctl = Dispatch
  BY DEF Emit, GetBasicBlock
<1>5. /\ \A q \in Live : codeLoc'[q] = codeLoc[q]
      /\ codeLoc'[p] = l
  BY <1>2, <1>3 DEF LInv, IInv, TypeOK
<1>6. /\ DOMAIN links \subseteq Slots
      /\ \A s \in DOMAIN links : links[s] \in Loc
  BY <1>2, ProgramAssumption, LinkSitesType
<1>7. LiveEmitted'
  BY <1>2, <1>5 DEF LInv, LiveEmitted
<1>8. DescLive'
  <2>. SUFFICES ASSUME NEW h \in Loc, descriptors'[h] # Null
                PROVE  descriptors'[h] \in Live' /\ codeLoc'[descriptors'[h]] = h
    BY DEF DescLive
  <2>1. CASE h = l
    BY <2>1, <1>2, <1>3, <1>5 DEF LInv, IInv, TypeOK
  <2>2. CASE h # l
    <3>1. descriptors'[h] = descriptors[h]
      BY <2>2, <1>3 DEF LInv, IInv, TypeOK
    <3>2. descriptors[h] \in Live /\ codeLoc[descriptors[h]] = h
      BY <3>1 DEF LInv, DescLive
    <3>. QED
      BY <3>1, <3>2, <1>2, <1>5
  <2>. QED
    BY <2>1, <2>2
<1>9. PatchInfoExact'
  <2>. SUFFICES ASSUME NEW h \in Loc, NEW q \in Ptr, NEW s \in Slots
                PROVE  <<q, s>> \in info[h] <=>
                           /\ q \in Live'
                           /\ s \in DOMAIN LinkSites(Program[codeLoc'[q]])
                           /\ LinkSites(Program[codeLoc'[q]])[s] = h
    BY <1>3 DEF PatchInfoExact
  <2>1. info[h] = patchInfo[h] \cup {<<p, x>> : x \in {y \in DOMAIN links : links[y] = h}}
    OBVIOUS
  <2>2. CASE q = p
    <3>1. <<q, s>> \notin patchInfo[h]
      BY <2>2, <1>2 DEF LInv, PatchInfoExact
    <3>2. <<q, s>> \in info[h] <=> s \in DOMAIN links /\ links[s] = h
      BY <2>1, <2>2, <3>1
    <3>. QED
      BY <3>2, <2>2, <1>2, <1>5
  <2>3. CASE q # p
    <3>1. <<q, s>> \in info[h] <=> <<q, s>> \in patchInfo[h]
      BY <2>1, <2>3
    <3>2. q \in Live' <=> q \in Live
      BY <2>3, <1>2
    <3>. QED
      BY <3>1, <3>2, <1>5 DEF LInv, PatchInfoExact
  <2>. QED
    BY <2>2, <2>3
<1>10. RSBLive' /\ RSBSound'
  <2>1. \A i \in RSBIndex : rsbCode[i] # Null => rsbCode[i] \in Live
    BY DEF LInv, RSBLive
  <2>. QED
    BY <2>1, <1>2, <1>3, <1>5 DEF LInv, RSBLive, RSBSound, stateVars
<1>11. PatchComplete'
  <2>. SUFFICES ASSUME NEW q \in Live', NEW s \in DOMAIN LinkSites(Program[codeLoc'[q]])
                PROVE  site'[q][s] = descriptors'[LinkSites(Program[codeLoc'[q]])[s]]
    BY DEF PatchComplete
  <2>. DEFINE t == LinkSites(Program[codeLoc'[q]])[s]
  <2>1. q \in Ptr /\ codeLoc'[q] \in Loc
    BY <1>2, <1>7 DEF LiveEmitted
  <2>2. s \in Slots /\ t \in Loc
    BY <2>1, ProgramAssumption, LinkSitesType
  <2>3. site'[q][s] = IF <<q, s>> \in info[l] THEN p ELSE S0[q][s]
    BY <1>3, <2>1, <2>2 DEF Patch
  <2>4. <<q, s>> \in info[l] <=> t = l
    BY <1>9, <1>2, <1>3, <2>1, <2>2 DEF PatchInfoExact
  <2>5. CASE t = l
    BY <2>3, <2>4, <2>5, <1>2, <1>3 DEF LInv, IInv, TypeOK
  <2>6. CASE t # l
    <3>1. site'[q][s] = S0[q][s] /\ descriptors'[t] = descriptors[t]
      BY <2>2, <2>3, <2>4, <2>6, <1>3 DEF LInv, IInv, TypeOK
    <3>2. CASE q = p
      <4>1. S0[q][s] = written[s]
        BY <3>2, <1>2 DEF LInv, IInv, TypeOK
      <4>2. t = links[s] /\ s \in DOMAIN links
        BY <3>2, <1>5
      <4>. QED
        BY <3>1, <4>1, <4>2, <2>2 DEF GetBasicBlock
    <3>3. CASE q # p
      <4>1. S0[q][s] = site[q][s]
        BY <3>3, <2>1 DEF LInv, IInv, TypeOK
      <4>2. q \in Live /\ codeLoc'[q] = codeLoc[q]
        BY <3>3, <1>2, <1>5
      <4>. QED
        BY <3>1, <4>1, <4>2 DEF LInv, PatchComplete
    <3>. QED
      BY <3>2, <3>3
  <2>. QED
    BY <2>5, <2>6
<1>12. CtlLive' /\ EnterAtRightLocation'
  BY <1>3, <1>4 DEF CtlLive, EnterAtRightLocation, LInv, stateVars, JsLoc,
        Dispatch, Ptr
<1>. QED
  BY <1>1, <1>7, <1>8, <1>9, <1>10, <1>11, <1>12 DEF LInv

(* Where LinkSites puts the prelude, the PushRSB and a linking leaf. *)
LEMMA LinkSitesSlots ==
    ASSUME NEW ir \in IRBlock
    PROVE  /\ ir.cond # "AL" =>
                 "prelude" \in DOMAIN LinkSites(ir) /\ LinkSites(ir)["prelude"] = ir.condFailed
           /\ ir.pushRSB # NoLoc =>
                 "rsb" \in DOMAIN LinkSites(ir) /\ LinkSites(ir)["rsb"] = ir.pushRSB
           /\ \A s \in DOMAIN LeavesOf(ir.term) :
                 LeavesOf(ir.term)[s].kind \in {"LinkBlock", "LinkBlockFast"} =>
                    /\ s \in DOMAIN LinkSites(ir)
                    /\ LinkSites(ir)[s] = LeavesOf(ir.term)[s].next
<1>1. DOMAIN LeavesOf(ir.term) \subseteq {"term", "then", "else"}
  BY LeavesType DEF IRBlock
<1>. QED
  BY <1>1 DEF LinkSites

(* The JitState location seen as a record of the primed variables. *)
JsLocNext == [pc |-> jsPC', t |-> jsT']

(* What a terminal must leave behind for the linking properties: a jump *)
(* into a live block of the guest's location with T right, or a return  *)
(* to the dispatcher with the JitState at the guest's location.         *)
TermRight ==
    /\ ctl' \in Ptr => ctl' \in Live /\ codeLoc[ctl'] = guest' /\ jsT' = guest'.t
    /\ ctl' \notin Ptr => JsLocNext = guest'

LEMMA LocRecord ==
    ASSUME NEW x \in Loc PROVE [pc |-> x.pc, t |-> x.t] = x
  BY DEF Loc

LEMMA TermLinkBlockRight ==
    ASSUME LInv, NEW p \in Live, NEW slot \in Slots, NEW leaf, leaf.next \in Loc,
           NEW here \in Loc, NEW nl \in Loc, NEW c,
           slot \in DOMAIN LinkSites(Program[codeLoc[p]]),
           LinkSites(Program[codeLoc[p]])[slot] = leaf.next,
           nl.t = here.t,
           TermLinkBlock(p, slot, leaf, here, nl, c)
    PROVE  TermRight
<1>1. jsT' = leaf.next.t /\ guest' = leaf.next
  BY DEF TermLinkBlock, Loc
<1>2. site[p][slot] = descriptors[leaf.next]
  BY DEF LInv, PatchComplete
<1>3. site[p][slot] # Null => site[p][slot] \in Live /\ codeLoc[site[p][slot]] = leaf.next
  BY <1>2 DEF LInv, DescLive
<1>4. CASE c > 0 /\ site[p][slot] # Null
  <2>1. Live \subseteq Ptr
    BY LiveInPtr DEF LInv, IInv
  <2>. QED
    BY <1>1, <1>3, <1>4, <2>1 DEF TermLinkBlock, TermRight
<1>5. CASE ~(c > 0 /\ site[p][slot] # Null)
  <2>1. ctl' = Dispatch /\ jsPC' = leaf.next.pc
    BY <1>5 DEF TermLinkBlock
  <2>. QED
    BY <1>1, <2>1, LocRecord DEF TermRight, JsLocNext, Dispatch, Ptr
<1>. QED
  BY <1>4, <1>5

LEMMA TermLinkBlockFastRight ==
    ASSUME LInv, NEW p \in Live, NEW slot \in Slots, NEW leaf, leaf.next \in Loc,
           NEW here \in Loc, NEW nl \in Loc,
           slot \in DOMAIN LinkSites(Program[codeLoc[p]]),
           LinkSites(Program[codeLoc[p]])[slot] = leaf.next,
           nl.t = here.t,
           TermLinkBlockFast(p, slot, leaf, here, nl)
    PROVE  TermRight
<1>1. jsT' = leaf.next.t /\ guest' = leaf.next
  BY DEF TermLinkBlockFast, Loc
<1>2. site[p][slot] = descriptors[leaf.next]
  BY DEF LInv, PatchComplete
<1>3. site[p][slot] # Null => site[p][slot] \in Live /\ codeLoc[site[p][slot]] = leaf.next
  BY <1>2 DEF LInv, DescLive
<1>4. CASE site[p][slot] # Null
  <2>1. Live \subseteq Ptr
    BY LiveInPtr DEF LInv, IInv
  <2>. QED
    BY <1>1, <1>3, <1>4, <2>1 DEF TermLinkBlockFast, TermRight
<1>5. CASE site[p][slot] = Null
  <2>1. ctl' = Dispatch /\ jsPC' = leaf.next.pc
    BY <1>5 DEF TermLinkBlockFast
  <2>. QED
    BY <1>1, <2>1, LocRecord DEF TermRight, JsLocNext, Dispatch, Ptr
<1>. QED
  BY <1>4, <1>5

LEMMA TermPopRSBHintRight ==
    ASSUME NEW nl \in Loc, NEW rh, NEW rc,
           \A i \in RSBIndex : rc[i] # Null => rc[i] \in Live /\ codeLoc[rc[i]] = rh[i],
           Null \notin Ptr,
           TermPopRSBHint(nl, rh, rc)
    PROVE  TermRight
<1>1. jsPC' = nl.pc /\ jsT' = nl.t /\ guest' = nl
  BY DEF TermPopRSBHint
<1>2. JsLocNext = guest'
  BY <1>1, LocRecord DEF JsLocNext
<1>3. ctl' \in Ptr => ctl' \in Live /\ codeLoc[ctl'] = nl
  BY DEF TermPopRSBHint, Dispatch, Ptr
<1>. QED
  BY <1>1, <1>2, <1>3 DEF TermRight

LEMMA TermReturnToDispatchRight ==
    ASSUME NEW nl \in Loc, TermReturnToDispatch(nl)
    PROVE  TermRight
  BY LocRecord DEF TermReturnToDispatch, TermRight, JsLocNext, Dispatch, Ptr

LEMMA TermInterpretRight ==
    ASSUME TermInterpret PROVE TermRight
  BY LocRecord DEF TermInterpret, TermRight, JsLocNext, Dispatch, Ptr

(* A push keeps every code pointer of the ring live and paired with its *)
(* block's location: the MOV RCX site holds the pushed location's block.*)
LEMMA PushRSBSound ==
    ASSUME LInv, NEW p \in Live, NEW h \in Loc \cup {NoLoc},
           h # NoLoc => /\ "rsb" \in DOMAIN LinkSites(Program[codeLoc[p]])
                        /\ LinkSites(Program[codeLoc[p]])["rsb"] = h
    PROVE  \A i \in RSBIndex : PushRSB(p, h).code[i] # Null =>
              /\ PushRSB(p, h).code[i] \in Live
              /\ codeLoc[PushRSB(p, h).code[i]] = PushRSB(p, h).hash[i]
<1>. DEFINE idx == (rsbPtr + 1) % RSBSize
<1>1. idx \in RSBIndex
  BY RSBSizeAssumption DEF LInv, IInv, TypeOK, RSBIndex
<1>2. \A i \in RSBIndex : rsbCode[i] # Null =>
         rsbCode[i] \in Live /\ codeLoc[rsbCode[i]] = rsbHash[i]
  BY DEF LInv, RSBLive, RSBSound
<1>3. h # NoLoc => (site[p]["rsb"] # Null =>
                      site[p]["rsb"] \in Live /\ codeLoc[site[p]["rsb"]] = h)
  BY DEF LInv, PatchComplete, DescLive
<1>4. rsbHash \in [RSBIndex -> Loc \cup {NoLoc}] /\ rsbCode \in [RSBIndex -> Ptr \cup {Null}]
  BY DEF LInv, IInv, TypeOK
<1>. QED
  BY <1>1, <1>2, <1>3, <1>4 DEF PushRSB

(* A block step that leaves the cache alone, keeps the ring sound and   *)
(* ends in a right terminal keeps the linking invariant.                *)
LEMMA AfterTermLInv ==
    ASSUME LInv, IInv', TermRight, UNCHANGED cacheVars,
           \A i \in RSBIndex : rsbCode'[i] # Null =>
              rsbCode'[i] \in Live /\ codeLoc[rsbCode'[i]] = rsbHash'[i]
    PROVE  LInv'
<1>1. Live' = Live
  BY DEF cacheVars, Live
<1>2. (LiveEmitted /\ DescLive /\ PatchInfoExact /\ PatchComplete)'
  BY <1>1 DEF LInv, LiveEmitted, DescLive, PatchInfoExact, PatchComplete, cacheVars
<1>3. (RSBLive /\ RSBSound)'
  BY <1>1 DEF RSBLive, RSBSound, cacheVars
<1>4. (CtlLive /\ EnterAtRightLocation)'
  BY <1>1 DEF TermRight, CtlLive, EnterAtRightLocation, JsLoc, JsLocNext,
        cacheVars, Host, Dispatch, Ptr
<1>. QED
  BY <1>2, <1>3, <1>4 DEF LInv

(* The condition prelude links to the condition-failed location. *)
LEMMA CondFailedLInv == LInv /\ CondFailed => LInv'
<1>. SUFFICES ASSUME LInv, CondFailed PROVE LInv'
  OBVIOUS
<1>. DEFINE p == ctl
            here == codeLoc[p]
            ir == Program[here]
            c == AddCycles(cycles, ir.condFailedCycles)
            leaf == [kind |-> "LinkBlock", next |-> ir.condFailed]
<1>1. IInv'
  BY CondFailedIInv DEF LInv
<1>2. p \in Live /\ here = guest /\ jsT = guest.t /\ here \in Loc /\ ir \in IRBlock
  BY RunningBlock DEF CondFailed, LInv, CtlLive, EnterAtRightLocation
<1>3. /\ ir.cond # "AL"
      /\ TermLinkBlock(p, "prelude", leaf, here, JsLoc, c)
      /\ UNCHANGED <<cacheVars, halt, rsbHash, rsbCode, rsbPtr>>
  BY DEF CondFailed
<1>4. "prelude" \in DOMAIN LinkSites(ir) /\ LinkSites(ir)["prelude"] = leaf.next
  BY <1>2, <1>3, LinkSitesSlots
<1>5. JsLoc \in Loc /\ JsLoc.t = here.t /\ leaf.next \in Loc
  BY <1>2, JsLocType DEF LInv, IInv, JsLoc, IRBlock
<1>6. TermRight
  BY <1>2, <1>3, <1>4, <1>5, TermLinkBlockRight DEF Slots
<1>7. \A i \in RSBIndex : rsbCode'[i] # Null =>
         rsbCode'[i] \in Live /\ codeLoc[rsbCode'[i]] = rsbHash'[i]
  BY <1>3 DEF LInv, RSBLive, RSBSound
<1>. QED
  BY <1>1, <1>3, <1>6, <1>7, AfterTermLInv

(* A block runs: the push keeps the ring sound, and every terminal it   *)
(* can take lands in the block of the guest's next location or leaves  *)
(* the JitState there.  Well-formedness rules out a LinkBlock after a   *)
(* body that wrote the PC, and a CheckHalt after one that did not.      *)
LEMMA ExecBlockLInv == LinkAssumptions /\ LInv /\ ExecBlock => LInv'
<1>. SUFFICES ASSUME LinkAssumptions, LInv, ExecBlock PROVE LInv'
  OBVIOUS
<1>. DEFINE p == ctl
            here == codeLoc[p]
            ir == Program[here]
            c == AddCycles(cycles, ir.cycles)
            r == PushRSB(p, ir.pushRSB)
<1>1. IInv'
  BY ExecBlockIInv DEF LInv
<1>2. p \in Live /\ here = guest /\ jsT = guest.t /\ here \in Loc /\ ir \in IRBlock
  BY RunningBlock DEF ExecBlock, LInv, CtlLive, EnterAtRightLocation
<1>3. WellFormed(ir, here)
  BY <1>2 DEF LinkAssumptions
<1>4. \A i \in RSBIndex : r.code[i] # Null =>
         r.code[i] \in Live /\ codeLoc[r.code[i]] = r.hash[i]
  <2>1. ir.pushRSB \in Loc \cup {NoLoc}
    BY <1>2 DEF IRBlock
  <2>2. ir.pushRSB # NoLoc => /\ "rsb" \in DOMAIN LinkSites(ir)
                              /\ LinkSites(ir)["rsb"] = ir.pushRSB
    BY <1>2, LinkSitesSlots
  <2>. QED
    BY <1>2, <2>1, <2>2, PushRSBSound
<1>5. UNCHANGED cacheVars
  BY DEF ExecBlock
<1>6. PICK nl \in (IF ir.writesPC THEN Loc ELSE {JsLoc}),
           slot \in DOMAIN LeavesOf(ir.term) :
        LET leaf == LeavesOf(ir.term)[slot] IN
        /\ cycles' = c
        /\ rsbHash' = r.hash /\ rsbCode' = r.code /\ rsbPtr' = r.ptr
        /\ \/ /\ CheckHaltTaken(ir)
              /\ ctl' = Dispatch
              /\ jsPC' = nl.pc /\ jsT' = nl.t
              /\ guest' = IF leaf.next \in Loc THEN leaf.next ELSE nl
           \/ /\ ~CheckHaltTaken(ir)
              /\ \/ leaf.kind = "LinkBlock" /\ TermLinkBlock(p, slot, leaf, here, nl, c)
                 \/ leaf.kind = "LinkBlockFast" /\ TermLinkBlockFast(p, slot, leaf, here, nl)
                 \/ leaf.kind = "PopRSBHint" /\ TermPopRSBHint(nl, r.hash, r.code)
                 \/ leaf.kind = "ReturnToDispatch" /\ TermReturnToDispatch(nl)
                 \/ leaf.kind = "Interpret" /\ TermInterpret
  BY DEF ExecBlock
<1>. DEFINE leaf == LeavesOf(ir.term)[slot]
<1>7. nl \in Loc /\ slot \in Slots /\ leaf \in LeafTerm
  <2>1. JsLoc \in Loc
    BY JsLocType DEF LInv, IInv
  <2>2. ir.term \in Terminal
    BY <1>2 DEF IRBlock
  <2>. QED
    BY <2>1, <2>2, LeavesType DEF Slots
<1>8. (leaf.kind \in {"ReturnToDispatch", "PopRSBHint"}) <=> ir.writesPC
  BY <1>3 DEF WellFormed
<1>9. ASSUME leaf.kind \in {"LinkBlock", "LinkBlockFast"}
      PROVE  /\ nl.t = here.t /\ leaf.next \in Loc
             /\ slot \in DOMAIN LinkSites(Program[codeLoc[p]])
             /\ LinkSites(Program[codeLoc[p]])[slot] = leaf.next
  <2>1. ~ir.writesPC
    BY <1>8, <1>9
  <2>2. nl = JsLoc
    BY <2>1, <1>6
  <2>3. leaf.next \in Loc
    BY <1>7, <1>9 DEF LeafTerm, NextKinds
  <2>. QED
    BY <2>2, <2>3, <1>2, <1>9, LinkSitesSlots DEF JsLoc
<1>10. TermRight
  <2>1. CASE CheckHaltTaken(ir)
    <3>1. ir.writesPC
      BY <2>1, <1>3 DEF CheckHaltTaken, WellFormed
    <3>2. leaf.next = NoLoc
      BY <3>1, <1>7, <1>8 DEF LeafTerm, NextKinds
    <3>3. ctl' = Dispatch /\ jsPC' = nl.pc /\ jsT' = nl.t /\ guest' = nl
      BY <2>1, <3>2, <1>6, NoLocAssumption
    <3>. QED
      BY <3>3, <1>7, LocRecord DEF TermRight, JsLocNext, Dispatch, Ptr
  <2>2. CASE leaf.kind = "LinkBlock" /\ TermLinkBlock(p, slot, leaf, here, nl, c)
    BY <2>2, <1>2, <1>7, <1>9, TermLinkBlockRight
  <2>3. CASE leaf.kind = "LinkBlockFast" /\ TermLinkBlockFast(p, slot, leaf, here, nl)
    BY <2>3, <1>2, <1>7, <1>9, TermLinkBlockFastRight
  <2>4. CASE TermPopRSBHint(nl, r.hash, r.code)
    <3>1. Null \notin Ptr
      BY NullAssumption DEF Ptr
    <3>. QED
      BY <2>4, <3>1, <1>4, <1>7, TermPopRSBHintRight
  <2>5. CASE TermReturnToDispatch(nl)
    BY <2>5, <1>7, TermReturnToDispatchRight
  <2>6. CASE TermInterpret
    BY <2>6, TermInterpretRight
  <2>. QED
    BY <1>6, <2>1, <2>2, <2>3, <2>4, <2>5, <2>6
<1>11. \A i \in RSBIndex : rsbCode'[i] # Null =>
          rsbCode'[i] \in Live /\ codeLoc[rsbCode'[i]] = rsbHash'[i]
  BY <1>4, <1>6
<1>. QED
  BY <1>1, <1>5, <1>10, <1>11, AfterTermLInv

LEMMA NextLInv == LinkAssumptions /\ LInv /\ [Next]_vars => LInv'
<1>. SUFFICES ASSUME LinkAssumptions, LInv, [Next]_vars PROVE LInv'
  OBVIOUS
<1>1. CASE Run
  BY <1>1, RunLInv
<1>2. CASE ReturnToHost
  BY <1>2, ReturnToHostLInv
<1>3. CASE EnterBlock
  BY <1>3, EnterBlockLInv
<1>4. CASE HaltExecution
  BY <1>4, HaltExecutionLInv
<1>5. CASE Emit
  BY <1>5, EmitLInv
<1>6. CASE ClearCache
  BY <1>6, ClearCacheLInv
<1>7. CASE \E l \in Loc : Unpatch(l)
  BY <1>7, UnpatchLInv
<1>8. CASE CondFailed
  BY <1>8, CondFailedLInv
<1>9. CASE ExecBlock
  BY <1>9, ExecBlockLInv
<1>10. CASE UNCHANGED vars
  BY <1>10 DEF vars, LInv, IInv, TypeOK, CodeTargetsEmitted, Emitted,
     LiveEmitted, DescLive, PatchInfoExact, RSBLive, CtlLive, Live,
     PatchComplete, RSBSound, EnterAtRightLocation, JsLoc
<1>. QED
  BY <1>1, <1>2, <1>3, <1>4, <1>5, <1>6, <1>7, <1>8, <1>9, <1>10 DEF Next

(* Patch completeness (EmitX64::Emit registering every jg, jmp and       *)
(* mov rcx site in patch_information, and Patch rewriting them before    *)
(* the descriptor is entered): every patch site of a block emitted since *)
(* the last clear jumps to the block registered for its target, or to    *)
(* the fallback while that target has no block.                           *)
THEOREM PatchCompleteInvariant ==
    ASSUME LinkAssumptions PROVE Spec => []PatchComplete
<1>1. LInv /\ [Next]_vars => LInv'
  BY NextLInv
<1>2. LInv => PatchComplete
  BY DEF LInv
<1>. QED
  BY InitLInv, <1>1, <1>2, PTL DEF Spec

(* Control enters emitted code only at the guest's location (the         *)
(* dispatcher's lookup, LinkBlock's jg, LinkBlockFast's jmp and          *)
(* PopRSBHint's RSB hit), and whenever control is outside emitted code   *)
(* the JitState holds the guest's location, so the dispatcher resumes    *)
(* where ARM semantics says.                                              *)
THEOREM EnterAtRightLocationInvariant ==
    ASSUME LinkAssumptions PROVE Spec => []EnterAtRightLocation
<1>1. LInv /\ [Next]_vars => LInv'
  BY NextLInv
<1>2. LInv => EnterAtRightLocation
  BY DEF LInv
<1>. QED
  BY InitLInv, <1>1, <1>2, PTL DEF Spec

(* RSB soundness (EmitPushRSB storing the hash with the code pointer of  *)
(* its own mov rcx site, at the advanced rsb_ptr, and ResetRSB on every  *)
(* clear): every RSB entry with a code pointer names the block emitted   *)
(* for exactly the location hashed beside it.                             *)
THEOREM RSBSoundInvariant ==
    ASSUME LinkAssumptions PROVE Spec => []RSBSound
<1>1. LInv /\ [Next]_vars => LInv'
  BY NextLInv
<1>2. LInv => RSBSound
  BY DEF LInv
<1>. QED
  BY InitLInv, <1>1, <1>2, PTL DEF Spec

-----------------------------------------------------------------------------
(* SiteTargetsCurrent, with Unpatch enabled and the RSB kept by clears,  *)
(* for every well-typed program.  The strengthening: every site recorded *)
(* in patch_information belongs to a block emitted since the last clear   *)
(* and links to the location it is recorded under.  Unpatch keeps the     *)
(* record, so Emit's Patch still rewrites only sites that link to the     *)
(* new block's location.                                                   *)
PatchInfoSound ==
    \A h \in Loc, q \in Ptr, s \in Slots :
        <<q, s>> \in patchInfo[h] =>
            /\ q \in Live
            /\ s \in DOMAIN LinkSites(Program[codeLoc[q]])
            /\ LinkSites(Program[codeLoc[q]])[s] = h
SInv == IInv /\ LiveEmitted /\ PatchInfoSound /\ SiteTargetsCurrent

(* A live block's sites are slots linking to locations. *)
LEMMA LiveSites ==
    ASSUME IInv, LiveEmitted, NEW q \in Live,
           NEW s \in DOMAIN LinkSites(Program[codeLoc[q]])
    PROVE  q \in Ptr /\ s \in Slots /\ LinkSites(Program[codeLoc[q]])[s] \in Loc
<1>1. q \in Ptr /\ codeLoc[q] \in Loc
  BY LiveInPtr DEF IInv, LiveEmitted
<1>. QED
  BY <1>1, ProgramAssumption, LinkSitesType

LEMMA InitSInv == Init => SInv
<1>. SUFFICES ASSUME Init PROVE SInv
  OBVIOUS
<1>1. IInv
  BY InitIInv
<1>2. Live = {}
  BY DEF Init, Live
<1>. QED
  BY <1>1, <1>2 DEF Init, SInv, LiveEmitted, PatchInfoSound, SiteTargetsCurrent

(* Steps that leave the code cache alone. *)
LEMMA CacheFrameSInv ==
    ASSUME SInv, IInv', UNCHANGED cacheVars PROVE SInv'
  BY DEF cacheVars, SInv, LiveEmitted, PatchInfoSound, SiteTargetsCurrent, Live

(* A clear leaves no live block and no recorded site. *)
LEMMA ClearCacheSInv == SInv /\ ClearCache => SInv'
<1>. SUFFICES ASSUME SInv, ClearCache PROVE SInv'
  OBVIOUS
<1>1. IInv'
  BY ClearCacheIInv DEF SInv
<1>2. Live' = {} /\ patchInfo' = [l \in Loc |-> {}]
  BY DEF ClearCache, Live
<1>. QED
  BY <1>1, <1>2 DEF SInv, LiveEmitted, PatchInfoSound, SiteTargetsCurrent

(* Unpatch only sends recorded sites to the fallback. *)
LEMMA UnpatchSInv ==
    ASSUME NEW l \in Loc PROVE SInv /\ Unpatch(l) => SInv'
<1>. SUFFICES ASSUME SInv, Unpatch(l) PROVE SInv'
  OBVIOUS
<1>1. IInv'
  BY UnpatchIInv DEF SInv
<1>2. UNCHANGED <<codeLoc, descriptors, patchInfo, cursor>>
  BY DEF Unpatch
<1>3. SiteTargetsCurrent'
  <2>. SUFFICES ASSUME NEW q \in Live', NEW s \in DOMAIN LinkSites(Program[codeLoc'[q]])
                PROVE  site'[q][s] \in {Null, descriptors'[LinkSites(Program[codeLoc'[q]])[s]]}
    BY DEF SiteTargetsCurrent
  <2>1. q \in Live /\ q \in Ptr /\ s \in Slots
    BY <1>2, LiveSites DEF SInv, Live
  <2>2. site'[q][s] = IF <<q, s>> \in patchInfo[l] THEN Null ELSE site[q][s]
    BY <2>1 DEF Unpatch, Patch
  <2>. QED
    BY <1>2, <2>1, <2>2 DEF SInv, SiteTargetsCurrent
<1>. QED
  BY <1>1, <1>2, <1>3 DEF SInv, LiveEmitted, PatchInfoSound, Live

(* Emit: the new block's sites are written from the registry, which has  *)
(* no block for its own location; Patch then sends only sites that link  *)
(* to that location to it.                                                *)
LEMMA EmitSInv == SInv /\ Emit => SInv'
<1>. SUFFICES ASSUME SInv, Emit PROVE SInv'
  OBVIOUS
<1>. DEFINE l == JsLoc
            p == cursor
            links == LinkSites(Program[l])
            written == [s \in Slots |-> IF s \in DOMAIN links
                                        THEN GetBasicBlock(links[s]) ELSE Null]
            info == [h \in Loc |-> patchInfo[h]
                        \cup {<<p, s>> : s \in {x \in DOMAIN links : links[x] = h}}]
            S0 == [site EXCEPT ![p] = written]
<1>1. IInv'
  BY EmitIInv DEF SInv
<1>2. /\ l \in Loc /\ p \in Ptr /\ p \notin Live
      /\ Live' = Live \cup {p}
      /\ Live \subseteq Ptr
  <2>1. l \in Loc /\ cursor \in 1..MaxCode
    BY JsLocType, MaxCodeAssumption DEF SInv, IInv, TypeOK, Emit
  <2>2. Live \subseteq Ptr
    BY LiveInPtr DEF SInv, IInv
  <2>. QED
    BY <2>1, <2>2, MaxCodeAssumption DEF Emit, Live, Ptr
<1>3. /\ patchInfo' = info
      /\ site' = Patch(S0, info[l], p)
      /\ descriptors' = [descriptors EXCEPT ![l] = p]
      /\ codeLoc' = [codeLoc EXCEPT ![p] = l]
  BY DEF Emit
<1>4. descriptors[l] = Null
  BY DEF Emit, GetBasicBlock
<1>5. /\ \A q \in Live : codeLoc'[q] = codeLoc[q]
      /\ codeLoc'[p] = l
  BY <1>2, <1>3 DEF SInv, IInv, TypeOK
<1>6. \A h \in Loc : h # l => descriptors'[h] = descriptors[h]
  BY <1>3 DEF SInv, IInv, TypeOK
<1>7. LiveEmitted'
  BY <1>2, <1>5 DEF SInv, LiveEmitted
<1>8. PatchInfoSound'
  <2>. SUFFICES ASSUME NEW h \in Loc, NEW q \in Ptr, NEW s \in Slots, <<q, s>> \in info[h]
                PROVE  /\ q \in Live'
                       /\ s \in DOMAIN LinkSites(Program[codeLoc'[q]])
                       /\ LinkSites(Program[codeLoc'[q]])[s] = h
    BY <1>3 DEF PatchInfoSound
  <2>1. CASE <<q, s>> \in patchInfo[h]
    <3>1. q \in Live /\ s \in DOMAIN LinkSites(Program[codeLoc[q]])
          /\ LinkSites(Program[codeLoc[q]])[s] = h
      BY <2>1 DEF SInv, PatchInfoSound
    <3>. QED
      BY <3>1, <1>2, <1>5
  <2>2. CASE <<q, s>> \notin patchInfo[h]
    <3>1. q = p /\ s \in DOMAIN links /\ links[s] = h
      BY <2>2
    <3>. QED
      BY <3>1, <1>2, <1>5
  <2>. QED
    BY <2>1, <2>2
<1>9. SiteTargetsCurrent'
  <2>. SUFFICES ASSUME NEW q \in Live', NEW s \in DOMAIN LinkSites(Program[codeLoc'[q]])
                PROVE  site'[q][s] \in {Null, descriptors'[LinkSites(Program[codeLoc'[q]])[s]]}
    BY DEF SiteTargetsCurrent
  <2>. DEFINE t == LinkSites(Program[codeLoc'[q]])[s]
  <2>1. q \in Ptr /\ s \in Slots /\ t \in Loc
    <3>1. q \in Ptr /\ codeLoc'[q] \in Loc
      BY <1>2, <1>7 DEF LiveEmitted
    <3>. QED
      BY <3>1, ProgramAssumption, LinkSitesType
  <2>2. site'[q][s] = IF <<q, s>> \in info[l] THEN p ELSE S0[q][s]
    BY <1>3, <2>1 DEF Patch
  <2>3. CASE <<q, s>> \in info[l]
    <3>1. t = l
      BY <2>1, <2>3, <1>2, <1>3, <1>8 DEF PatchInfoSound
    <3>. QED
      BY <3>1, <2>2, <2>3, <1>2, <1>3 DEF SInv, IInv, TypeOK
  <2>4. CASE <<q, s>> \notin info[l]
    <3>1. S0[q][s] \in {Null, descriptors[t]}
      <4>1. CASE q = p
        <5>1. S0[q][s] = written[s]
          BY <4>1, <1>2 DEF SInv, IInv, TypeOK
        <5>2. t = links[s] /\ s \in DOMAIN links
          BY <4>1, <1>5
        <5>. QED
          BY <5>1, <5>2, <2>1 DEF GetBasicBlock
      <4>2. CASE q # p
        <5>1. S0[q][s] = site[q][s]
          BY <4>2, <2>1 DEF SInv, IInv, TypeOK
        <5>2. q \in Live /\ codeLoc'[q] = codeLoc[q]
          BY <4>2, <1>2, <1>5
        <5>. QED
          BY <5>1, <5>2 DEF SInv, SiteTargetsCurrent
      <4>. QED
        BY <4>1, <4>2
    <3>2. CASE t = l
      BY <3>1, <3>2, <2>2, <2>4, <1>4
    <3>3. CASE t # l
      BY <3>1, <3>3, <2>1, <2>2, <2>4, <1>6
    <3>. QED
      BY <3>2, <3>3
  <2>. QED
    BY <2>3, <2>4
<1>. QED
  BY <1>1, <1>7, <1>8, <1>9 DEF SInv

LEMMA NextSInv == SInv /\ [Next]_vars => SInv'
<1>. SUFFICES ASSUME SInv, [Next]_vars PROVE SInv'
  OBVIOUS
<1>1. IInv'
  BY NextIInv DEF SInv
<1>2. CASE Run \/ ReturnToHost \/ EnterBlock \/ HaltExecution \/ CondFailed \/ ExecBlock
  <2>1. UNCHANGED cacheVars
    BY <1>2 DEF Run, ReturnToHost, EnterBlock, HaltExecution, CondFailed, ExecBlock
  <2>. QED
    BY <1>1, <2>1, CacheFrameSInv
<1>3. CASE UNCHANGED vars
  BY <1>1, <1>3, CacheFrameSInv DEF vars, cacheVars
<1>. QED
  BY <1>2, <1>3, EmitSInv, ClearCacheSInv, UnpatchSInv DEF Next

(* With Unpatch enabled and clears that keep the RSB, for every program  *)
(* and cache size: a patch site of a block emitted since the last clear  *)
(* never jumps to a block other than the one now registered for its     *)
(* target.  What EmitX64::Unpatch leaves behind is the fallback, and a   *)
(* later Emit of that target patches only the sites recorded for it.     *)
THEOREM SiteTargetsCurrentInvariant == Spec => []SiteTargetsCurrent
<1>1. SInv => SiteTargetsCurrent
  BY DEF SInv
<1>. QED
  BY InitSInv, NextSInv, <1>1, PTL DEF Spec


=============================================================================
