# Verification of dynarmic's x86-64 backend, IR blocks and decoder matcher

TLA+ models of the x86-64 backend of dynarmic (an ARM-to-x86-64 dynamic
recompiler), TLC runs that check them on small instances, and TLAPS proofs
that hold for every value of their constants.

## The system

dynarmic translates ARM guest code into IR blocks in its front-end
(`src/frontend`, mostly outside this repository's sources), and the backend
`EmitX64` (`src/unnamed/part_000`) turns each IR block into x86-64 code in a
code buffer. The parts, and how they interact:

* **Code cache.** `block_descriptors` maps a location descriptor (guest PC,
  CPSR.T, CPSR.E, FPSCR mode) to the code of its block.
  `patch_information` records, per target location, every place in emitted
  code that jumps to that location:
  * a `jg` of LinkBlock;
  * a `jmp` of LinkBlockFast;
  * a `mov rcx` of PushRSB.

  `Emit` compiles a block. It first writes each site with the target's code
  if `GetBasicBlock` finds it, and otherwise with a fallback. Then it calls
  `Patch(location, entry)`, which rewrites every recorded site of the new
  block's location, and only after that enters the descriptor. `Unpatch`
  resets the sites to the fallback. `ClearCache` drops both maps, and the
  caller moves the buffer's cursor back to its start.
* **Terminals.** Each block ends in an `EmitTerminal` of one of these kinds:
  * Interpret: call the user's interpreter on the next PC, then return.
  * ReturnToDispatch.
  * LinkBlock: fix CPSR.T, then `jg` to the target if cycles remain; otherwise
    write the PC and return.
  * LinkBlockFast: fix T, then `jmp` to the target, or write the PC and return.
  * PopRSBHint: hash the JitState location, scan the return stack buffer (RSB)
    with CMOVE, and jump to what it finds or to the dispatcher.
  * If: pick one of its two terminals.
  * CheckHalt: if `halt_requested` is set, return at once; otherwise run the
    inner terminal.

  A conditional block starts with `EmitCondPrelude`, which links to the
  condition-failed location when the condition fails. `EmitAddCycles`
  subtracts the block's cycles from `cycles_remaining`.
* **Return stack buffer.** `EmitPushRSB` advances `rsb_ptr` (masked with
  `RSBSize-1`). It then stores the hash and the code pointer held by its
  `mov rcx` site, unless the hash is already in the ring.
* **Dispatcher and facade.** `Jit::Run`, the dispatcher loop, `HaltExecution`
  and `ResetRSB` are not under `src/`. They are modelled from the spec
  (`spec_modelled` in PROJECT.json).
  * Run sets the cycle budget.
  * The dispatcher looks the JitState location up. It emits the block on a
    miss and enters it, and returns to the host when the budget is spent or a
    halt is pending.
  * Another thread can set `halt_requested` at any time.
* **IR blocks.** `IR::Block` (`src/src/frontend/ir/basic_block.h`, with
  its implementation in `src/unnamed/part_001`) holds a condition, an
  optional condition-failed location and its cycle count, an intrusive list
  of instructions allocated from a pool, a terminal (set once, under an
  ASSERT) and a cycle count. The front-end builds it through `AppendNewInst`,
  the setters and the mutable cycle-count references.
* **Emit's instruction loop.** `EmitX64::Emit` runs `EmitCondPrelude`, then
  iterates `block.begin()..end()` and calls each instruction's `Emit*`
  member, then `EmitAddCycles(block.CycleCount())`. Flags are IR
  pseudo-ops (`GetCarryFromOp`, `GetOverflowFromOp`, `GetGEFromOp`) that read
  the instruction producing them. The producer's emitter finds each with
  `GetAssociatedPseudoOperation` and erases it from the list being
  iterated (`EraseInstruction`). A pseudo-op that reached the switch would
  hit an emitter that ASSERTs "should never happen".
* **Instruction matcher.** `Matcher` (`src/src/frontend/decoder/matcher.h`)
  holds a name, a mask and an expected value. `Matches` tests
  `(instruction & mask) == expected`, and `call` ASSERTs it. The decoder,
  which is not under `src/`, builds the mask and expected value from a bit
  string (`GetMaskAndExpect`) and calls the first matcher of its table that
  matches.
* **Opcode emitters.** These are ALU, flags, packed, floating-point, memory,
  exclusive-monitor and coprocessor emitters. Each is a pure translation of
  one IR instruction and works on the JitState's registers. They are not yet
  modelled (see the plan).

## Modules

| module | models |
|---|---|
| `CodeCache` | the code cache, the patcher, the terminals, the RSB, the dispatcher and the host |
| `MC_CodeCache` | a four-location program for TLC that uses every terminal kind and a conditional block |
| `MC_CodeCache_checkhalt` | a loop with `CheckHalt{LinkBlock}` in a block that does not write the PC |
| `CodeCache_proofs` | TLAPS proofs of type correctness, `SiteTargetsCurrent` and the three linking invariants |
| `IRBlock` | `IR::Block`, the front-end's calls that build it, and `Emit`'s walk over it |
| `MC_IRBlock` | five opcodes (one per pseudo-op pattern, and one producing no flag), AL/EQ, one terminal |
| `IRBlock_proofs` | TLAPS proofs of every invariant irblock_emit checks |
| `EmitWalk` | the abstract contract of `Emit`'s loop: each ordinary instruction dispatched once, in order, then the end |
| `IRBlockWalk` | the refinement mapping from `IRBlock` to `EmitWalk` |
| `MC_IRBlockWalk` | `MC_IRBlock`'s instance, for checking the refinement |
| `IRBlockWalk_proofs` | the TLAPS proof that `IRBlock` implements `EmitWalk`'s safety part |
| `Matcher` | `Matcher`, `Matches`, `call`, and the decoder's in-order scan over a table of bit strings |
| `MC_Matcher` | a 6-bit table with overlapping entries |

### CodeCache: state

* `codeLoc[p]` is the location whose block sits at code pointer `p`. Pointers
  are `1..MaxCode`. Memory keeps its old blocks after a clear, until they are
  overwritten.
* `site[p][slot]` is where each patch site of the block at `p` jumps. `Null`
  is the fallback: return to the dispatcher, or nullptr. The slots are the
  prelude's LinkBlock, the PushRSB `mov rcx`, and the leaves of the terminal
  (`term`, or `then`/`else` of an If).
* `descriptors` is `block_descriptors`, `patchInfo` is `patch_information`,
  and `cursor` is the buffer's current pointer.
* The JitState fields are `jsPC`, `jsT`, `cycles`, `halt`, `rsbHash`,
  `rsbCode` and `rsbPtr`.
* `ctl` says where control is: `Host`, `Dispatch`, or the code pointer about
  to run.

Two ghost variables support the properties:
* `guest` is the location the guest is at by ARM semantics.
* `retired` holds the blocks unpatched since the last clear.

A block's data is abstracted to what the backend reads of an `IR::Block`
(`IRBlock`): its condition, condition-failed location and cycles, its cycle
count, whether its body writes the PC (BXWritePC), the location it pushes on
the RSB, and its terminal. The outcome of a condition test and the location a
PC-writing body leaves are nondeterministic. The E bit and the FPSCR mode are
handled by the code exactly like T and are left out.

### CodeCache: actions

| action | code |
|---|---|
| `Emit` | `EmitX64::Emit` with `GetBasicBlock`, the `patch_information` records of each terminal, and the trailing `Patch` |
| `ClearCache` | `EmitX64::ClearCache` with the caller's cursor reset and, if `ResetRSBOnClear`, `ResetRSB` |
| `Unpatch(l)` | `EmitX64::Unpatch` = `Patch(l, nullptr)` |
| `CondFailed` | `EmitCondPrelude` when the condition fails: `EmitAddCycles`, then `TermLinkBlock` from the prelude site |
| `ExecBlock` | running a block: its body, `EmitPushRSB`, `EmitAddCycles`, then `EmitTerminal` (CheckHalt, If, and the leaf through `TermLinkBlock`, `TermLinkBlockFast`, `TermPopRSBHint`, `TermReturnToDispatch`, `TermInterpret`) |
| `Run`, `ReturnToHost`, `EnterBlock`, `HaltExecution` | the facade and the dispatcher (spec-modelled) |

### IRBlock: state and actions

The block's fields are variables:
* `cond`, `cond_failed` (`None` for an empty optional),
  `cond_failed_cycle_count`, `terminal` (`"Invalid"` by default) and
  `cycle_count`;
* the pool is `node`, a function from slot ids `1..MaxInsts` to an opcode and
  the id of the instruction a pseudo-op reads. `nextId` is the next slot
  allocated;
* `instructions` is the set of ids on the list. Nodes are only ever appended,
  with increasing ids, and erasing keeps the others' order, so list order is
  id order. `Begin` is the least id, and `NextInList` (`++iter`) is the least
  live id above the current one.

Emit's own state is `phase` (build, prelude, body, done) and `iter`.
Ghost variables record what a property needs:
* `emitted`: the instructions dispatched, in order;
* `standalone`: pseudo-ops that reached the switch;
* `condSub` and `bodySub`: what the two `SUB`s take from `cycles_remaining`.

| action | code |
|---|---|
| `AppendNewInst(op, a)` | `Block::AppendNewInst` (pool allocation and `push_back`). A pseudo-op reads an instruction of the block that produces its flag, at most one per flag (the IR's contract). |
| `SetCondition`, `SetConditionFailedLocation`, `AddConditionFailedCycle`, `AddCycle`, `SetTerminal` | the setters, the `++` through the mutable references, and `SetTerminal`'s ASSERT |
| `HandOff` | the front-end passing a finished block to `Emit` (spec-modelled; guarded by `EmitCondPrelude`'s ASSERTs) |
| `EmitCondPrelude` | `EmitCondPrelude`'s `EmitAddCycles(ConditionFailedCycleCount())`, then `iter = block.begin()` |
| `EmitInst` | one turn of the loop: the emitter of `*iter` erases `Gone` (its associated pseudo-ops of the kinds `ConsumedBy` its opcode), then `++iter` |
| `EmitTail` | `EmitAddCycles(block.CycleCount())` after the loop |
| `Discard` | the caller dropping the block; the front-end starts a new one |

`SubEffect(n)` is the effect of `sub qword [...], static_cast<u32>(n)`: `n`
narrowed to `ImmBits` bits (32 in the code), then sign-extended as the CPU
does for a 64-bit `SUB` with an immediate.

### Matcher

`MatcherOf(entry)` is the object the decoder builds from a table entry:
`MaskOf` and `ExpectOf` are `GetMaskAndExpect` (spec-modelled).
`Matches` is `Matcher::Matches`. `Skip`, `Call` and `Undefined` are the
steps of the decoder's `std::find_if` over the table and of `Matcher::call`.
`RefDecode` is the reference: the first entry whose bit string the opcode
fits, bit by bit.

## Runs

The model-checked instance has these bounds:
* 2 PCs × 2 T states = 4 locations;
* `MaxCode = 3` blocks, so the buffer fills and must be cleared while a
  fourth location is live;
* `RSBSize = 2`, so the ring wraps;
* `RunCycles = 3`, so a run ends by its budget after a chain of links as
  well as by a halt.

`MC_CodeCache`'s program uses every terminal:
* A is conditional and pushes B.
* B writes the PC and ends in `CheckHalt{If{PopRSBHint, ReturnToDispatch}}`.
* C fast-links to D, or links back to A.
* D interprets.

Between them the runs reach cache hits and misses, self-links patched late,
RSB hits, misses and wraps, clears with a full ring, and halts at every
point.

| run | expect | properties | shows |
|---|---|---|---|
| cache_link | pass (~110k states) | TypeOK, PatchComplete, EnterAtRightLocation, RSBSound, HaltStopsRun | see below |
| cache_unpatch | pass (675,418 states) | SiteTargetsCurrent | Unpatch and a clear that keeps the RSB never make a site jump to a block other than its target's current one |
| checkhalt_stale_pc | violation | EnterAtRightLocation | finding 1 |
| unpatch_invalidation | violation | UnpatchedNotEntered | finding 2 |
| rsb_stale_after_clear | violation | EnterAtRightLocation | finding 3 |
| irblock_emit | pass (317,934 states) | TypeOK, NoStandalonePseudoOp, EmittedInOrder | see below |
| irblock_walk | pass (317,934 states) | WalkSpec | IRBlock implements EmitWalk, fairness included (see below) |
| cycles_sign_extension | violation | CyclesSubtracted | finding 4 |
| matcher_decode | pass (274 states) | DecodesAsTable | every 6-bit opcode decodes to the first entry whose bit string it fits, or to undefined |

cache_link shows that every patch site jumps to the block registered for its
target. Control enters a block only at the guest's location, the JitState is
right whenever control leaves emitted code, RSB entries are sound, and a halt
request is honoured.

Every property of a passing run has a mutant in PROJECT.json: a plausible
slip in the code that TLC must catch. The mutants are:
* a wrong sign or a missing EmitAddCycles;
* Patch without its mov_rcx loop;
* a LinkBlock fallback that does not write the PC;
* PushRSB storing at the old index;
* an Unpatch that drops the descriptor instead of patching.

irblock_emit builds every block of up to `MaxInsts = 4` instructions. That is
enough for two producers with their pseudo-ops, an AddWithCarry with both
flags, or a producer whose flag is read by a pseudo-op appended after another
instruction. It uses both conditions. The run shows two things:
* no pseudo-op reaches the switch;
* Emit dispatches every ordinary instruction once, in list order, although
  the emitters erase nodes under its iterator.

Its mutants are:
* AddWithCarry not erasing its overflow pseudo-op;
* the loop resuming after the erased node;
* the condition-failed cycles added to the wrong counter.

The cycle accounting is checked only where it can go wrong: run
cycles_sign_extension lets the counts reach the immediate's sign bit.

irblock_walk checks the refinement on the same instance. `EmitWalk` has
three variables:
* `stage`: idle, emit or done;
* `todo`: the set of ordinary instructions still to dispatch;
* `out`: the sequence dispatched so far.

Its `Dispatch` appends the least member of `todo`. `IRBlockWalk` maps the
state as follows:
* `phase` is the stage: build is idle, prelude and body are emit;
* the ordinary instructions at or after the iterator are `todo` (all of
  them in the prelude);
* `emitted` is `out`.

Under this mapping the front-end's steps and EmitCondPrelude are
stutters. HandOff is `Start`, EmitInst is `Dispatch`, EmitTail is `Finish`
and Discard is `Reset`. `WalkSpec` includes `EmitWalk`'s weak fairness on
`Dispatch \/ Finish`, so the run also shows that emission ends. The mutant
is the loop resuming after the erased node, which skips an instruction.

matcher_decode's mutant is a `Matches` that checks only the expected 1 bits.

**Fairness.** Weak fairness is assumed only of the guest thread's steps
(dispatcher and emitted code: `GuestSteps`). That thread runs without
waiting whenever it has work. The host's choices (Run, ClearCache, Unpatch,
HaltExecution) are not forced.

## Findings

1. **CheckHalt leaves the PC stale.** Source: `part_000:3486`. `CheckHalt`
   returns without writing the PC of the terminal it guards. The spec puts
   CheckHalt "around loops". Around a LinkBlock in a block that does not write
   the PC, Run returns with the PC at the block's start, so the block runs
   again on the next Run.
2. **Unpatch does not invalidate.** Source: `part_000:3512`. `Unpatch` leaves
   `block_descriptors`, so the dispatcher still enters the block. This
   contradicts the spec's "safe invalidation of individual blocks".
3. **ClearCache leaves the RSB.** Source: `part_000:3544`. `ClearCache` does
   not reset the JitState RSB, and the spec does not ask the caller to. After
   the buffer is reused, PopRSBHint enters another location's block.

4. **EmitAddCycles adds large counts.** Source: `part_000:3243`.
   `EmitAddCycles` ASSERTs only `cycles < u32 max`. It then emits
   `sub qword [cycles_remaining], static_cast<u32>(cycles)`. A 64-bit `SUB`
   sign-extends its 32-bit immediate, so a count from 2^31 to 2^32-2 passes
   the ASSERT and increases `cycles_remaining`. The model's 3-bit immediate
   turns a count of 4 into a subtraction of -4.

## Proofs

`CodeCache_proofs` proves the following for every program, `MaxCode`,
`RSBSize ∈ {2,4,8,16}` and budget:
* `TypeCorrect == Spec => []TypeOK`;
* `SiteTargetsCurrentInvariant == Spec => []SiteTargetsCurrent`, with no
  assumption on Unpatch, the RSB policy or the blocks' shape;
* under `LinkAssumptions`:
  * `PatchCompleteInvariant == Spec => []PatchComplete`;
  * `EnterAtRightLocationInvariant == Spec => []EnterAtRightLocation`;
  * `RSBSoundInvariant == Spec => []RSBSound`.

**Type correctness.** `TypeOK` alone is not inductive: `ExecBlock` reads
`Program[codeLoc[ctl]]`, which is meaningful only if the running block was
emitted. The proof therefore uses `IInv == TypeOK /\ CodeTargetsEmitted`
(`CodeTargetsEmitted` is defined in `CodeCache_proofs`): every descriptor,
patch site, RSB code pointer and `ctl` is `Null`, `Host`/`Dispatch` or an
emitted block. This holds because the code buffer is never given back, so
it is an auxiliary of the proof rather than a property of its own. The argument has these parts:
* lemmas on the helpers: `LeavesType`, `LinkSitesType` (sites are slots and
  link to locations), `PatchType`, `AddCyclesType`, `PushRSBType`, and one
  lemma per terminal operator (`TermPost`);
* `InitIInv`, one lemma per action, `NextIInv`;
* the temporal step by PTL.

**Linking.** `LinkAssumptions` is the setting of the cache_link run:
`~UnpatchEnabled`, `ResetRSBOnClear`, and every block `WellFormed`. The three
properties are proved together from one invariant that contains
`PatchComplete`, so all three theorems carry all three assumptions, but
they do not all need them:
* `~UnpatchEnabled` is needed only by `PatchComplete`: Unpatch sends sites
  to the fallback while their target keeps its descriptor. Unpatch keeps
  the descriptor and the code, so it cannot break `EnterAtRightLocation` or
  `RSBSound`; finding 2 breaks only `UnpatchedNotEntered`.
* `ResetRSBOnClear` is needed by `EnterAtRightLocation` and `RSBSound`
  (finding 3).
* `WellFormed` is needed by `EnterAtRightLocation` (finding 1).

None of the three properties is
inductive by itself. For example, `Patch` keeps `PatchComplete` only if
`patchInfo[l]` lists every site linking to `l`, and a clear keeps it only if
no live block remains. The inductive invariant `LInv` adds these to `IInv`:
* `LiveEmitted`: live blocks are emitted, and nothing past the cursor is.
* `DescLive`: a descriptor points to a live block of its own location.
* `PatchInfoExact`: `patchInfo[l]` is exactly the set of (block, slot)
  pairs of live blocks whose slot links to `l`.
* `RSBLive` and `CtlLive`: RSB pointers and the running block are live.

TLC checked `LInv` on the cache_link instance (110,706 states) before it was
proved. The proof has:
* one lemma per action;
* for the terminals, `TermRight`: each terminal operator either jumps to a
  live block of the guest's next location or leaves the JitState there
  (`TermLinkBlockRight` ... `TermInterpretRight`);
* `PushRSBSound`: the code pointer pushed is the `mov rcx` site for the
  hash pushed;
* `AfterTermLInv`, which combines these for `CondFailed` and `ExecBlock`.

`ExecBlockLInv` is where well-formedness enters. A LinkBlock leaf follows
only a body that keeps the PC, so the JitState's T is the block's own.
CheckHalt follows only a body that wrote the PC, so CheckHalt's early
return leaves a correct JitState.

Assumptions used: the named `ASSUME`s of `CodeCache`, chiefly
`ProgramAssumption` (the program is a function to `IRBlock`), the size
assumptions, `NoLoc ∉ Loc` and `Null ∉ Ptr`.

**Sites after Unpatch.** `SiteTargetsCurrent` holds in every
configuration, Unpatch and clears that keep the RSB included. Its inductive
invariant is `SInv == IInv /\ LiveEmitted /\ PatchInfoSound /\
SiteTargetsCurrent`. `PatchInfoSound` is the "only if" half of
`PatchInfoExact`: every site recorded under `l` belongs to a live block and
links to `l`. Unpatch keeps the record but sends its sites to the fallback.
A later Emit of `l` then rewrites only sites that link to `l`. Emit's own
sites are written from the registry, which has no block for `l` at that
point. TLC checked `SInv` on the cache_unpatch instance (675,418 states)
before it was proved. This theorem is what the proofs say about Unpatch. The proof has one lemma each for Emit, ClearCache and
Unpatch (`EmitSInv`, `ClearCacheSInv`, `UnpatchSInv`). A frame lemma covers
the steps that leave the cache alone.

Left to TLC:
* liveness (`HaltStopsRun`): TLAPS cannot handle liveness under fairness or
  ENABLED.

### IRBlock_proofs

`IRBlock_proofs` proves three theorems for every `MaxInsts`, opcode set and
cycle bound:
* `NoStandalonePseudoOpInvariant == Spec => []NoStandalonePseudoOp`;
* `TypeCorrect == Spec => []TypeOK`;
* `EmittedInOrderInvariant == Spec => []EmittedInOrder`.

`NoStandalonePseudoOp` is not inductive by itself. Whether the next turn dispatches a
pseudo-op depends on where its producer is relative to the iterator. The
inductive invariant `WInv` adds two conjuncts:
* `LiveShape`: every pseudo-op on the list reads an ordinary instruction
  that is on the list, has a smaller id, and produces that flag. This holds
  because AppendNewInst only appends, and the emitter erases only
  pseudo-ops.
* `IterAhead`: during the loop, the iterator is on the list or at end(), and
  it is at or before the producer of every pseudo-op still on the list.

TLC checked `WInv` on the irblock_emit instance before it was proved. The
proof of `EmitInstWInv` runs as follows:
1. The node at `iter` is not a pseudo-op: its producer would precede it, and
   `IterAhead` says that the iterator has not passed the producer.
2. By `ConsumesWhatItProduces`, the emitter's `Gone` holds exactly the live
   pseudo-ops that read `iter`.
3. Every pseudo-op left reads a later producer, which is still on the list,
   so `NextInListProp` shows that `++iter` does not pass it.

The lemmas on the list helpers are:
* `LeastIsLeast`: a non-empty set of naturals has a least element, proved
  from `WFMin` and `NatLessThanWellFounded`;
* `NextInListProp`;
* `BeginProp`.

The other two theorems rest on a larger inductive invariant,
`FInv == TypeOK /\ WInv /\ BuildClean /\ EmitOrder`. TLC checked `FInv`
on the irblock_emit instance before it was proved. Its conjuncts are:
* `BuildClean`: while a block is built, nothing is emitted or handed over. Discard restores this.
* `EmitOrder`: from the hand-off on, the list is a subset of the handed
  block and keeps all of its ordinary instructions. `emitted` is strictly
  increasing, and holds exactly the ordinary instructions before the
  iterator (all of them once it is at end()). EmitInst keeps this because
  the node it appends is the least ordinary one not yet emitted, and by
  `NextInListAbove` `++iter` moves forward.
Assumptions used: `MaxInstsAssumption`, `OpcodesAssumption` (IR opcodes are
not pseudo-ops), `SentinelAssumption`, and, for the type of the SUBs' effects,
`ImmBitsAssumption` and `MaxCyclesAssumption`. IRBlock uses no RECURSIVE
operator. The iterator is a least-element choice, not a recursive walk.

Left to TLC:
* `CyclesSubtracted`, which is false once counts reach the immediate's
  sign bit (run cycles_sign_extension); below it the SUB is the count
  itself and the property says nothing;
* the fairness part of `WalkSpec` (emission ends), which is liveness;
* `DecodesAsTable`, because `Matcher` uses `Bitwise`.

### IRBlockWalk_proofs

`IRBlockWalk_proofs` proves `WalkRefinement == Spec => Walk!SafetySpec`
This is the refinement of `EmitWalk`'s initial
condition and next-state relation under `IRBlockWalk`'s mapping, for every
pool size. It uses only `WInv`:
* `Init` maps to `Walk!Init`;
* every step maps to a `Walk!Next` step or a stutter, one lemma per
  action.

The hard step is `EmitInstDispatches`. The node at `iter` is ordinary and
least among those left (`EmitInstFacts`). Hence it is `Walk!First(todo)`,
by `LeastIsLeast` and antisymmetry. The new `todo` is the old one without
it, in both directions:
* `NextInListProp` gives that `++iter`, taken after the erasure, is at or
  before every remaining ordinary node;
* `NextInListAbove` gives that it is past the dispatched one;
* the erased nodes are all pseudo-ops.

## Plan for the remaining work

1. Add pure ALU modules with a word width `W`:
   * `Shifter`: LSL/LSR/ASR/ROR/RRX with carry, checked against the ARM
     pseudocode;
   * `CondEval`: EmitCond on the NZCV nibble;
   * `AddSubCarry`;
   * `Saturation`;
   * `PackedSWAR`.
2. Add an exclusive-monitor state machine.

## Not modelled

* Byte encodings and the sizes of patch sites (`EnsurePatchLocationSize`).
* Floating-point emitters: IEEE-754 is beyond TLC's integers.
* Coprocessor calls and memory callbacks: calls to user code with no backend
  state.
* `DumpBlock`, which only formats a block as text, and the instruction
  arguments other than the producer a pseudo-op reads.
* The decoder's tables themselves (not under `src/`): the matcher is
  checked on a small table in their style.
