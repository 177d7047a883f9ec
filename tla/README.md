# A TLA+ model of the Holy Fitra runtime

Holy Fitra is a language, an ahead-of-time compiler and a runtime for on-device
AI (Android phones with big and little cores first of all). This directory
holds TLA+ specifications of the parts of it that keep state and make
decisions, configurations that check them with TLC on small instances, and
proofs checked by TLAPS. Every definition is translated from the source; the
file `PROJECT.json` maps each to its lines, and lists the hazards of the code,
the runs, the findings and the theorems. Paths below are relative to `src/`.

1. [The system](#the-system)
2. [Modules](#modules)
3. [Runs, bounds and fairness](#runs-bounds-and-fairness)
4. [What is proved](#what-is-proved)
5. [Findings](#findings)
6. [What is not modelled](#what-is-not-modelled)
7. [Plan](#plan)

## The system

### How the parts fit

```
 Java/Kotlin threads
        | 64-bit handles
 holy_fitra_jni.cpp               registries, leases, lifecycle mutex     JniHandles
        |
 holy_fitra_runtime.cpp           requests, batches, receipts             RuntimeRequests
        |                 holy_fitra_ragged_scheduler.cpp  chunk groups   RaggedRequest
        |                  |
 holy_fitra_dispatch.cpp          workers, queues, stealing, thermal      Scheduler : TaskService
        |
 C/NEON kernels, core topology

 holyfitra_residency.py           leases, pins, pressure, rebalance       TieredResidency
        |
 holyfitra_tensor_pool.py         interned tensors, counted handles       SharedTensorPool
        |
 holyfitra_memory.py              first-fit arena, views, alignment       (the same module)

 holyfitra_adapter_residency.py   adapters, lanes, rollback               AdapterResidency \ LruLedger
 holyfitra_kv_residency.py        cache blocks, precision governor        KvResidency      /

 hyperc_speculative.py and two more  draft, verify, commit                SpeculativeDecoding
 holy_fitra_dynamic_prefill.py    packer, page pool                       PrefillPages
 holyfitra_telemetry.py           an appended log and its reader          TelemetryCursor
 holy_fitra_runtime.py            consents, receipts, private values      ConsentedActions
                                  proofs that rest on proofs              ProofGraph

 holyfitra_compiler.py            programs, expressions, names            NativeFrontend
        |                         modules, effects, hybrids               ProgramGraphs, HybridFunctions
        |                         blocks, integers                        EmitterBlocks, NativeIntegers
        |                         text and executables kept               BuildCache
 bootstrap/holyfitra_runtime.c    resources, files, paths                 BootstrapRuntime
 holyfitra_hybrid.py              the same hybrids, run from Python       HybridFunctions
 nibbleflow_*.cpp, _kernel.c      handles and int4 kernels                NibbleFlowBridge
 hyperc_language_core, _hyperir   tensor modules, verified graphs         LanguageCore, HyperIr

 holyfitra_agent, _hd, _campaign  plans applied to a workspace            WorkspaceChange
 holyfitra_ai_system.py           evidence, tools, one run of an agent    EvidenceRuntime
 holyfitra_obsidian.py            an index of notes                       VaultNotes
 holy_fitra_execution_plan, _self_improve  kernels chosen, plans kept     PlanEngine
 holyfitra_model_capsule.py       signed chunks, read as needed           ModelCapsule
 hyperc_quantized_transformer.py  reconstructed weights, kept or not      ReconstructionCache
 holyfitra_learning, _data        parameters, moments, checkpoints, rows  TrainingState
 holyfitra_ai_pipeline, _deploy, _qat  from data to a verified artifact   ModelPipeline
 holyfitra_local_lm.py            counting models of bytes                LocalLanguageModel
 holyfitra_ai_api.py              clients of AI providers                 ProviderClient
```

The native half is concurrent: Java threads, submitters and worker threads
share requests, queues and counters under several mutexes. The Python half is
mostly sequential; what is hard there is the order of legal calls, values that
have become stale between two of them, files that others change or damage, a
process that dies, and a step that fails half way.

### Inventory

**Dispatcher** (`holy_fitra_dispatch.{h,cpp}`). *State*: one bounded deque per
worker, the `accepting` and `stopping` flags, the thermal state, a cursor for
round-robin routing, the clock, counters, and the worker threads themselves.
*Operations*: `submit`, `worker_loop` (pop its own queue, steal, block up to
2 ms), `take_task` with its gates, `set_thermal_state`, `shutdown`. *Calls*: the
task's function and its cancel and deadline callbacks, from a worker or from the
thread that shuts down. *Hard*: owner, thief and drain compete for a task;
notifications are sent without the mutex the predicate is read under; the thermal state is read
again at each decision; shutdown runs while a submit is under way. *Correct
when*: every task taken on gets one outcome, none for one that was refused,
none is lost, and shutdown returns only when all are settled.

**Runtime requests** (`holy_fitra_runtime.{h,cpp}`). *State*: for a request the
count of pending ranges, the worst status so far, `done`, the token; for a
batch its receipt. *Operations*: submit (one range or many), wait, cancel,
destroy, destroy runtime. *Hard*: ranges end while later ones are still being
sent; a refusal in the middle of a batch; workers hold raw pointers to a request
that its submitter deletes. *Correct when*: the receipt accounts for every
range, the result is the worst of them, a request is deleted when all but a
notification is over, and submit and destroy return.

**Ragged attention** (`holy_fitra_ragged_scheduler.{h,cpp}`). *State*: a group
with the number of chunks left and three marks, a token, a flag per task.
*Operations*: submit chunk by chunk, wait, cancel, destroy; a controller of
chunk sizes by thermal state. *Hard and correct* as for runtime requests, and a
request that says Completed has computed every chunk.

**JNI handles** (`holy_fitra_jni.cpp`). *State*: two registries and one counter
of handles, per object a count of leases and a closing flag, per runtime its
lifecycle mutex, global references to Java buffers. *Operations*: every native
method. *Hard*: any thread may close or destroy what another is using; handles
run out. *Correct when*: no native call meets a deleted object, a handle never
denotes two objects, buffers stay referenced while a task may use them, and a
closed runtime leaves nothing behind.

**Unified arena, tensor pool, tiered residency** (`holyfitra_memory.py`,
`holyfitra_tensor_pool.py`, `holyfitra_residency.py`). *State*: free ranges and
counted views; entries by key with handles on each; records with tier, pin,
leases, last access. *Hard*: alignment padding, release in any order, handles
that outlive a `clear`, an admission that fails after it has changed a record,
eviction of what is in use. *Correct when*: ranges partition the buffer, no
handle reads another tensor's bytes, and the manager and the pool agree on what is resident.

**Adapter and KV residency ledgers** (`holyfitra_adapter_residency.py`,
`holyfitra_kv_residency.py`). *State*: an ordered dictionary, a byte count,
active lanes; decisions are returned to the caller. *Hard*: the caller names the
steps and may go backwards; a rollback to a snapshot whose adapters are gone;
two copies of the precision rule. *Correct when*: budgets hold, active and
protected entries stay, eviction follows use.

**Speculative decoders** (`hyperc_speculative.py`,
`hyperc_adaptive_speculative.py`, `hyperc_smooth_runtime.py`). *State*: the cache
of committed tokens, the length of drafts, the thermal level. *Operations*:
`generate`, which repeats `step` (propose, verify, roll back, commit).
*Hard*: the surplus of the last round, a round that the cache cannot hold, drafts
whose length changes between rounds. *Correct when*: a greedy decoder's text is
what the target model writes alone, and the cache holds what was returned.

**Dynamic prefill** (`holy_fitra_dynamic_prefill.py`). *State*: leases, what is
used, a generation. *Operations*: `pack`, `reserve`, `release`. *Hard*: a pack
that fails half way, pages that come back all at once. *Correct when*: each
request is in one batch within the limits, and no two have been given the same
page in a generation.

**Telemetry** (`holyfitra_telemetry.py`). *State*: the log; the cursor's offset,
partial line and events. *Hard*: writers in other processes, lines half written,
truncation between reads. *Correct when*: each event is shown once, in order.

**Consents, receipts, governed memory** (`holy_fitra_runtime.py`). *State*: the
`used` flags of tokens and permits, a file store with receipts, private values
with labels, a memory with expiry. *Hard*: long sequences of legal calls in which a consent is
offered again, a receipt undone late, or a private value remembered and read back.
*Correct when*: each consent backs one effect, undoing restores exactly, and
no label is lowered without a permit.

**Proof graph** (`holy_fitra_runtime.py`). *State*: proofs with dependencies,
evidence and a flag. *Operations*: add, invalidate, repair. *Hard*: the flags are
swept in order of insertion until nothing changes. *Correct when*: a valid proof
rests on valid ones.

**Coding agent, copilot, campaign** (`holyfitra_agent.py`, `holyfitra_hd.py`,
`holyfitra_campaign.py`). *State*: the files, the backups of a plan under way, a
saved packet with the digest of the workspace it was made for. *Operations*:
review, inspect, apply action by action, roll back; improve and rounds of
candidates repeat them. *Hard*: others edit the files at any moment, the process
dies, a write or a check fails in the middle. *Correct when*: a change is whole
or taken back, and a reviewed plan meets what its reviewer saw.

**Compiler** (`holyfitra_compiler.py`). *State*: two caches, in memory and in
files shared by processes; the walks of its passes. *Operations*: build; the
passes from imports to blocks. *Hard*: builders that are killed between a copy
and its hash; programs with circles; names that hide each other; operands that
end in another block than they began in; the least integer. *Correct when*: an
executable is that of its source, a program is accepted when it obeys the rules,
and the code does what the source says.

**HyperIR and language core** (`hyperc_hyperir.py`, `hyperc_language_core.py`).
*State*: values, operations, policy, proof; a cache of verdicts that all graphs
share; the open blocks of a text. *Hard*: a graph edited after it was verified, a
text read back. *Correct when*: what is reported valid is so now.

**Bootstrap runtime, hybrid calls, NibbleFlow** (`bootstrap/holyfitra_runtime.c`,
`holyfitra_hybrid.py`, `nibbleflow_*`). *State*: a table of live blocks by
address and kind, files; futures on a pool of threads; models by handle under
the registry's mutex and one of their own. *Hard*: a handle used after it was freed, failures between a write
and a rename; a cancellation while branches run; a close between the look-up of
a model and its lock; groups and tiles that are not full. *Correct when*: no
resource is taken for another, a file is old or new and never torn, a call
reduces the results of all branches or raises with none left running, and each kernel reads the
weights that were packed, within its buffers.

**Agent runtime** (`holyfitra_ai_system.py`). *State*: a ledger of evidence, the
trace, a cancellation flag. *Operations*: run a plan of retrievals and tools,
cancel. *Hard*: the verdict on a claim depends on what earlier tools returned.
*Correct when*: a tool ran only on a claim its ledger bore out, and everything that
ran is accounted for.

**Vault, execution plans, capsules, reconstruction caches, learning**
(`holyfitra_obsidian.py`; `holy_fitra_execution_plan.py`,
`holy_fitra_self_improve.py`; `holyfitra_model_capsule.py`;
`hyperc_quantized_transformer.py`; `holyfitra_learning.py`). *State*: an index of
notes with links back; plans by their request; chunks by name; weights in one of
three forms; parameters, moments, counts and rows. *Hard*: files that change
between two reads, two threads at one cache, an eviction during a computation,
an update or a load that raises half way. *Correct when*: what is kept is what
would be made afresh, and what belongs together is of one moment.

**Pipeline and deployment, streamed data, local language models**
(`holyfitra_ai_pipeline.py`, `holyfitra_deploy.py`, `holyfitra_qat.py`,
`holyfitra_data.py`, `holyfitra_local_lm.py`). *State*: the dataset, the model and
the file, each of which others may change between two steps of one call; a
buffer of rows; tables of counts. *Operations*: `export_verified` (fingerprint,
evaluate, hash, quantize, write, read back, compare), `export_pipeline_capsule`;
an epoch; fit, generate, evaluate, save and load. *Hard*: each step of the
pipeline looks at the model, the data or the file again; rounding near the
greatest weight; two writers of one temporary file. *Correct when*: a result is
of the model, the data and the report it names, an epoch meets each row once,
and a model has the counts of one corpus.

**Provider clients** (`holyfitra_ai_api.py`). *State*: the environment, read at
each step; the file a generated source is written to. *Operations*: select a
provider, take its key, post, read the answer, extract, validate and write.
*Hard*: four forms of one request, answers out of order or in part, keys that
come and go meanwhile. *Correct when*: each provider is sent its own key and no other, no
message is lost or sent twice, vectors are in the order of the texts, and the
file is a source that was accepted.

**Not candidates for a model**: see [below](#what-is-not-modelled).

## Modules

| Module | Models | Built on |
|---|---|---|
| `TaskService` | what a client of the dispatcher may rely on (abstract) | |
| `Scheduler` | `holy_fitra_dispatch.*` | implements `TaskService` |
| `SchedulerProofs` | theorems about it | `Scheduler`, TLAPS |
| `RuntimeRequests` | `holy_fitra_runtime.*` | `TaskService` |
| `RaggedRequest` | requests of `holy_fitra_ragged_scheduler.*` | `TaskService` |
| `RequestProofs` | theorems about both clients | `MCDispatchClients`, TLAPS |
| `JniHandles` | `holy_fitra_jni.cpp` | |
| `JniProofs` | theorems about it | `JniHandles`, TLAPS |
| `SharedTensorPool` | `holyfitra_tensor_pool.py` and the arena below it, `holyfitra_memory.py` | |
| `SumProofs` | lemmas four proof modules share: least elements, folds, sums over finite sets | TLAPS |
| `PoolProofs` | theorems about pool and arena | `SharedTensorPool`, `SumProofs` |
| `TieredResidency` | `holyfitra_residency.py` | `SharedTensorPool` |
| `LruLedger` | what both ledgers do alike | |
| `AdapterResidency`, `KvResidency` | the two ledgers | `LruLedger` |
| `ResidencyProofs` | lemmas about `LruLedger` (sums, order, room, eviction), theorems about the two ledgers and the tiered manager | `MCResidency`, `PoolProofs` |
| `SpeculativeDecoding` | the three speculative decoders | |
| `PrefillPages` | `holy_fitra_dynamic_prefill.py` | |
| `SpeculativeProofs` | theorems about both | `SpeculativeDecoding`, `PrefillPages`, `SumProofs` |
| `TelemetryCursor` | `holyfitra_telemetry.py` | |
| `ConsentedActions` | consents, the file store with its receipts, values, permits and governed memory of `holy_fitra_runtime.py` | |
| `ProofGraph` | `ProofGraph` of `holy_fitra_runtime.py` | |
| `WorkspaceChange` | plans and workspaces of `holyfitra_agent.py`, `_hd`, `_campaign` | |
| `BuildCache` | `build` and `compile_native_file` of `holyfitra_compiler.py` | |
| `FileProofs` | theorems about consents, workspaces, build caches and the log | `ConsentedActions`, `WorkspaceChange`, `BuildCache`, `TelemetryCursor`, `SumProofs` |
| `NativeFrontend` | its parser of programs and expressions, names and types | |
| `ProgramGraphs` | its checks of imports and effects | |
| `EmitterBlocks`, `NativeIntegers` | its control flow, the literals it folds and the parser of arguments it emits | |
| `HyperIr`, `LanguageCore` | `hyperc_hyperir.py`, `hyperc_language_core.py` | |
| `NibbleFlowBridge` | `nibbleflow_jni.cpp`, `nibbleflow_android.cpp`, `nibbleflow_kernel.c`, the layout of `nibbleflow.py` | |
| `BootstrapRuntime` | `bootstrap/holyfitra_runtime.c` | |
| `HybridFunctions` | hybrids as the compiler checks and emits them, and as `holyfitra_hybrid.py` runs them | |
| `EvidenceRuntime` | `holyfitra_ai_system.py` | |
| `VaultNotes`, `PlanEngine`, `ModelCapsule`, `ReconstructionCache` | the vault, plans, capsules, caches of weights | |
| `TrainingState` | `holyfitra_learning.py`, epochs of `holyfitra_data.py` | |
| `ModelPipeline` | `holyfitra_ai_pipeline.py`, `holyfitra_deploy.py`, the arrays of `holyfitra_qat.py`, the capsule of a result | |
| `LocalLanguageModel`, `ProviderClient` | `holyfitra_local_lm.py`, `holyfitra_ai_api.py` | |
| `MCDispatchClients`, `MCResidency`, `MCLibraries` | instances for TLC (`Scheduler` and `JniHandles` are their own) | |

A definition whose comment says *variant with a fault* belongs to no
specification. It is a bug somebody could have written at that place, kept to
show that a property would notice: with the variant in place of the definition
below or after it, the run it belongs to fails. `PROJECT.json` lists one for each
property. A property that is a conjunction, one conjunct per component, has
one for each component, so that none of them holds for nothing: for
`CodeMeans`, `SameLevel`, `SemiNeeded`, `FloorDivision`, `ReturnsOnOneArm` and
`OverflowsWithoutDigit`; for `ProgramsChecked`, `ActiveInnermost`, `ExcusedBelow`,
`TakesOne`, `Shared` and `FunctionClosed`; for `RuntimesHold`, `LockModelOnly`,
`WholeGroups`, `TakeByPointer`, `KeptNoParents` and `ShutdownAtOnce`; for
`CachesAgree`, `PresentArtifact`, `RefreshFileInPlace` and `KeyOfCandidates`; for
`EvidenceHolds`, `SupportedByAny`, `digestOfMetrics`, `Repairable` and `AsTheyCome`;
for `WeightsAreRead`, `DemotedHot`, `LooksRight` and `Anything`; for `StateAgrees`,
`UpdatedBefore`, `TakenKept` and `BackoffPlain`; for `ChangesReviewed`,
`BackedAgain` and `DigestOfNames`; for `PoolHolds`, `InternKnownUnchecked`,
`HasRoomUnpadded` and `InternedUncounted`; for `AdaptersHold`,
`RollbackUnchecked` and `ExpiredLater`; `CompleteRangeLast` breaks `ReceiptAgrees`,
`FunctionCancelledQuietly` `RaggedHolds`, `RequestDrainedRefsFirst` `UseProtected`.

### State and code, module by module

**Scheduler.** A step is what a thread does between two accesses to shared
state that another thread can observe. A submitter's steps are `SubmitRefuse`
(each early return, in the code's order), `SubmitNumber` (a sequence number and
the check of `accepting`), `SubmitLoadThermal`, `SubmitScan` (one worker of the
routing loop at a time, since each looks at a queue under its own mutex),
`SubmitPush`, `SubmitAccept` (the counter and the answer, after the task is
visible). The whole of it runs under the lifecycle mutex, so `call` is one
record. A worker is at `pc[w]`: it starts (`WorkerStart`), takes from its own
queue or steals from the next victim (`TakeTask`, `offset`), evaluates its wait
predicate and blocks in separate steps so that a notification between them can
be lost, and settles the task it holds (`Classify`, `OnCancel`, `OnDeadlineMissed`,
`FunctionReturns`, `FunctionThrows`, `CountCompleted`). `Shutdown...` closes,
joins, drains and ends. Queues are sets because the order of a deque is that of
the sequence numbers, and both pop and steal search it by priority.

**TaskService** has a status for each task and a phase. `Scheduler` implements
it through `Status` and `Phase`: a task is open from its push until its owner
has been told. Its clients are modelled over it and not over the queues, so that every
order in which the dispatcher could answer or settle is allowed.

**RuntimeRequests.** `req[r].at` is where the request is: its submitter's place
in the loop (`SendRange`, `AdmitRange`, `RefuseRange`), its failure path
(`CancelSent`, `CompleteUnsent`, `WaitFailed`, `DeleteFailed`), or with its owner. `CompleteRange` is the
callback of a task, `Notify` the end of the critical section and the notify that
follows it; `receipt` the counters of the batch.

**RaggedRequest.** One request. `next` is the submission loop, `run[t]` a
worker's place in the function of chunk *t*, `remaining` and `flags` the group,
`finished` the tasks that have already counted themselves off, `verdicts` what
waits returned.

**JniHandles.** One action is one critical section of a call; `call[t]` says
where thread *t* is. The registries are functions from handles to objects.
`runtime` and `request` hold the leases, the closing flag, the global
references and whether the object still exists. A finished native request is
`NativeDone`, which the dispatcher and the kernel decide.

**SharedTensorPool.** The arena is a record with the list of
free ranges in the order the code has it, the live views, the reference count by
offset, the live bytes; `Allocated`, `Aliased`, `Released` and `Coalesce`
return the next arena. The pool adds entries, and the module keeps the bytes
(`memory`) to say what a handle reads.

**TieredResidency.** The pool above with its one client: `AdmitAnew` is `InternNew`
and a record, `AdmitAgain` an intern whose handle (`Spare`) is released at once,
`Rebalance` a fold of `HandleReleased` over the tensors it takes. The code sorts the
candidates by falling score and then by key and takes the first ones; `GoesBefore` is that order, and
`Reclaimed` those that fewer than the limit go before. `KeyRank` gives the keys an order.

**LruLedger, AdapterResidency, KvResidency.** `Victims` and `Expired` are
written as sets with the order that decides; every operation starts with
`EvictExpired` as in the code. `Keep` is what is left of an ordered dictionary when entries
go, `BytesOf` the sum that the count in the code stands for. `decision` is what the caller was told.

**SpeculativeDecoding.** `draft` and `target` map a token to the most likely
next one, so a greedy round is a function of the last token. `Step` is a round
that is committed, `StepRaises` one the cache cannot hold, `Return` the end of
`generate`. The moving average of the adaptive policy is any value: `Adapt`
allows every length that its bounds and the thermal limit do.

**PrefillPages.** `Pack` is a whole call: `Sorted`, `Cut`, and `Reserve` for all
requests or for those before the first that fails. `Sorted` gives each request the
place that is the number of those before it. `issued` remembers the
leases of the generation.

**TelemetryCursor.** A line has two parts, which its writer appends together or
one by one. `Stat` and `ReadRest` are the two halves of `read_new`, so the file may
change between them. `Decoded` reads a text as the loop does, line by line. A second half
may come when its first was cut away, and is then all there is of its line.

**ConsentedActions.** `Consume` is `consume` with an optional token: what it asks
(`Good`) and the mark it leaves are one step, as under its lock. A receipt keeps the
store as it was before and after
(the code keeps hashes) and, as history, its consent and the time. A program holds one value at a time and its provenance is the
set of permits in it. The files and the memory share the consents; the run lets a behaviour
use the one (`StoreNext`) or the other (`MemoryNext`), the proofs are about both together (`ConsentNext`).

**ProofGraph.** `Pass` is one sweep over the nodes in their order, `Invalidated`
what the repeated sweeps end with. `onValid` remembers which proofs were valid
on valid ones when they were added, since the code does not ask.

**WorkspaceChange.** Two files, whose contents have one of three sizes, the greatest
over the limit for a file. `run` is the transaction in memory: the plan, the next
action, the backups. `Act` is one action of `apply_plan` or what follows the
last (`read_file`, `write_file`, `run_check`); each of them may raise, and `Raise` is the rollback.
A review is two steps, since the previews a reviewer sees are read before the digest is taken
(`inspect_review`, `holyfitra_hd.py:317`; `prepare_review_packet`, `:320`); `edited` remembers what others
write between them. The files of a preview are read in one step, and those of a digest too: an
edit in between is one before or after for each file.
`Visible` is what `Workspace.files` lists, which the digest is taken of. `Edit`
is anybody else, `Crash` loses `run` and leaves the files. A round of the
campaign picks the plan most candidates share; `improve` is a round with one.

**BuildCache.** One step of `build` is one access to a file of the cache:
`CopyHit`, `Link`, `CopyBegin`, `CopyEnd`, `Hash`. The output path is the caller's, and several
builds may be given one (`Outputs`), so that what is copied into the cache is what is at the path by then
(`holyfitra_compiler.py:1748`). Text is published by a rename and so at once,
executables are copied in place and are torn meanwhile. `Kill`
and `Damage` happen between any two steps.

**The passes of the compiler.** In `ProgramGraphs`, `Resolve` is the depth-first walk over
modules with its stack, `closure` that over functions with its memo, for programs edited call by
call; `HybridFunctions` one declaration as it is written, with what validation says and what
emission then does; `NativeFrontend` the precedence levels over every text of a few
tokens, beside a definition of what a text means, then programs put together from
declarations, statements and ends of blocks, beside what each piece means, then the stack of
scopes while statements are validated; `NativeIntegers` every pair of
literals, beside the instruction, and the parser of arguments one character per step in words
of six bits; `EmitterBlocks` the blocks emitted for a function, executed with
every sequence of answers of the functions it calls, beside the source's meaning
(`Compiled`, `Meant`). A call has arguments, and "==" stands for comparisons and arithmetic; either
may leave the emitter in another block.

**HyperIr, LanguageCore.** A digest is the graph it is taken of. `verify` takes a
verdict from the shared cache or computes one; `Reload` writes the graph as text
and reads it. `LanguageCore` reads one line per step.

**NibbleFlowBridge.** `registry_lock` is held from `Find` to `lookup_model`, which are two
steps because the second waits for the model's mutex (`lock`); a critical section of
the registry that waits for nothing is one step. A kernel is the
set of (output, group, pair, half) it reads, per shape: all of them are compared with
the packing.

**BootstrapRuntime.** `memory` has what `malloc` gave, `hf_resources` the table;
an address that is freed may be given again. `OpenTemporary`, `WriteTemporary`,
`RenameTemporary` and `RemoveTemporary` are the steps of `hf_write_text`;
`Kept` is one step of the normal form of a path.

**HybridFunctions, when one is called.** The caller submits branches, looks at the event, takes results in
order, and leaves through `Shutdown`; the pool is the library's.

**EvidenceRuntime.** `CheckCancelled`, then `Retrieve` or `Tool`, per action; what a
handler returns is any of `Results`. `effects` remembers each tool with the ledger
it ran on.

**VaultNotes, PlanEngine.** A link is a path or a stem (`_resolve_target`). `RefreshFile` reads one file, `RefreshEnd` publishes;
`handle` is the read tool, `write_note` the write with the refresh that follows. In
`PlanEngine` a thread is between `Get`, `Compile` and `Put`, each under the lock
or outside of it as in the code.

**ModelCapsule, ReconstructionCache, TrainingState.** A capsule's chunks are read
one per step, from the cache or from a file that `Damage` and `Cut` change. The
reconstruction cache sees accesses that are fast, slow or idle. In training a
parameter is the number of updates that went into it, so that a partial update
shows; `Bad` is an array that is not finite. An epoch is the set of rows that are
in the buffer, in the next batch, or trained on.

**ModelPipeline.** A call is one step per read of what others may change:
`Fingerprint`, `evaluate`, `_model_hash`, `export_mlp`, `Replace`, `load_deployment`,
`_verify_deployment_predictions`, `ModelLineage`, `PipelineResult`. The four-bit
arithmetic is exact, in eighths of a step; the error of a model on data is
given. `clean` remembers that nobody touched what the call reads.

**LocalLanguageModel, ProviderClient.** `Count` is one byte of a document.
Probabilities are integers over one denominator (smoothing by one), so that which byte is
preferred is exact. Files are inodes with a name for the temporary and one for the output, as
two writers share the first. A provider's answer is any that its server may give: `Data` for
vectors, fenced blocks or none for a source; the vector of a text is the text. `Redirected` is
what `urlopen` does with a 301 to 303: it asks elsewhere, with the same headers, past `_validate_url`.

Sums of modules: `MCDispatchClients`, `MCResidency` and `MCLibraries` each instantiate modules
that share no state and let a behaviour be that of one of them, chosen in the
initial state. The properties are those of the parts and the state space is the
sum of theirs, not the product. `MCLibraries` extends the modules whose properties are
proved (`SharedTensorPool`, `SpeculativeDecoding`, `TelemetryCursor`, `ConsentedActions`, `WorkspaceChange`), so that
the run checks and the theorems state the very same definitions; while another component
runs these are idle in one of their initial states. The rest it instantiates.

## Runs, bounds and fairness

| Run | Instance | Question and result |
|---|---|---|
| `sched_strict` | one little and one big worker, queues of one, three tasks, one token | Does each accepted task end once, whatever the order of submit, take, steal, cancel, thermal change and shutdown? `ToldOnce`, `NoTaskLost`, `ShutdownSettles`, `NoAcceptAfterStopped`: yes. |
| `sched_timed` | three workers, two tasks, deadlines, clock up to 2 | The invariant of the proofs (`IInv`), the counters (`CountersAgree`) and the refinement (`RefinesTaskService`) hold. |
| `sched_live` | two workers, queues of two, two tasks with strict and preferred classes | Shutdown ends (`ShutdownCompletes`); an accepted task ends if the device stops being Critical (`AcceptedTasksEnd`). |
| `sched_stuck` | one task | Does a cancelled task end? No, see finding 1. |
| `clients` | a batch of up to three ranges; three ragged chunks | `ReceiptAgrees`, `OnlyNotifierLeft`, `DoneIsFinal` for the batch, `RaggedHolds` for the chunks, `ClientsReturn` for both. |
| `jni_race` | three threads, one runtime, three requests, three handles | `RegistriesSound`, `UseProtected` (which says too that buffers outlive the tasks that use them), `NothingLeftBehind` in every race of the native methods. |
| `jni_live` | three threads, one request | Every call returns (`CallsReturn`). |
| `residency` | three adapters over two lanes, three blocks at three precisions, two tensors | `AdaptersHold`, `BlocksHold` (budgets, lanes, precisions, ages, the governor), `PoolHoldsResidents`, `EvictionIsFair`, `DecisionTells`, `ReclaimIsFair`. |
| `libraries` | thirty-three instances of components, one per behaviour | See the next table. |
| `pool_leak` | the tensor pool alone | Does releasing every handle free the arena? No, finding 2. |
| `emitter_phi` | the emitter alone | Is every function compiled to what it means? No, finding 3. |
| `review_stale` | the workspace alone | Does every change after a review reject the apply? No, finding 4. |

What `libraries` finds to hold:

| Property | Over | States |
|---|---|---|
| `PoolHolds`, `ReleaseMerges` | pool and arena | ranges partition the arena, a handle reads what was interned, free neighbours merge |
| `DecodingIsExact` | decoders | the text of a greedy decoder is the target's alone |
| `CursorFaithful` | the log | each event of the log once and in order |
| `PrefillIsExact` | packer and pages | one batch and one span per request |
| `ConsentHolds`, `UndoRestores` | consents, receipts, memory | a consent per private effect, of its action, scope and time, labels lowered by permit only, undo is exact |
| `ChangesReviewed` | workspace | an applied change passed its checks on what it left, a rolled-back one left nothing, a packet meets what was reviewed if the digest reached it and nobody wrote between the view and the digest |
| `CodeMeans` | parser, programs, folding, emitter, arguments | the compiler reads, folds and emits what the source means, but for finding 3 |
| `ProgramsChecked` | imports, effects, hybrids, scopes, tensor modules | accepted exactly when the rules hold |
| `RuntimesHold` | NibbleFlow, bootstrap runtime, hybrid calls | kernels agree with the packing and read buffers that are there; resources, files, paths; calls are whole |
| `CachesAgree` | builds, vault, plans | what is kept is what would be made afresh; builds that met on a digest or an output path excepted |
| `EvidenceHolds`, `RunIsOrderly` | agent runtime, HyperIR, proofs, provider clients | tools run on claims borne out, valid means legal now, valid proofs rest on valid ones, each provider is asked with its own key and messages (a redirect carries the key on); nothing is taken back, nothing starts after a cancellation |
| `WeightsAreRead` | reconstruction, capsules, pipeline | weights within their gate; the bytes that were signed; results that are what they say |
| `StateAgrees` | training, language models | parameters, moments, counts, rows of one moment; the counts of one corpus |

**Bounds.** *Dispatcher*: with queues of one and three tasks, a queue is full,
a task is stolen, one is refused for backpressure and one waits behind another,
at once; two workers are one owner and one thief of each queue, and
`sched_timed` has the third so that the search for a victim has an order.
Sequence numbers and the routing cursor grow with the number of submissions
only. `MaxTime = 2` passes a deadline of 1 before, while and after a worker
looks. `ThermalInputs` keeps the two states that differ for the gates; Warm and
Hot act as Normal or differ in penalties only, and the proofs cover all four.
*Clients*: three ranges or chunks are the least for which one has ended, one is
running and one is refused. *JNI*: three threads are a user, a destroyer and a
closer; three requests and three handles with one used by the runtime make the
handles run out in the middle of a submit. *Pool*: the sizes 1 and 3 with
alignment 2 give a padding, a tail that is too small and a hole that is reused;
six units hold one tensor of each size, and after a release a second one only
if the holes were merged.
*Residency*: three names for two places, so an eviction has a choice and a
protected candidate; ages and steps up to 2 with an age limit of 1, named in any
order, as nothing in the code makes a caller's steps grow; two tensors, one of
which callers may pin (`Pinnable`), and a thermal hint only at low pressure, as
it adds nothing to a pressure that reclaims already. *Decoders*: all pairs of models over two tokens
(drafts right, wrong at once, wrong later), drafts up to two, calls for up to
two tokens, so that a round has a surplus, and a cache of four, so that one does
not fit. *Cursor*: three events and a limit of two, so that one is dropped, one
torn and one appended to the torn line; the log is cut anywhere, at any time. Of the events that occur nowhere the first is written first, as they do not differ, and with all three in sight only one line at a time is half there. *Prefill*: three requests in one bucket
that differ in length, priority and deadline, of which two fit a batch, and one
longer than a batch that takes the whole pool of five; two generations; packs of up to three.
*Consents*: a narrow one, one for everything that ends earlier, one for
something else; two moves over two paths and two contents, at times before and after the end of one; two keys, all four
labels, one permit for one of two uses. *Workspace*: two files and contents of
sizes 1 to 3, with a limit of 2 for one file and for all, so that the digest
misses one for either reason; plans that write a file twice, create one, fail a
check; three providers of which two must agree; a workspace that begins without a file of size 2, which
is written or edited in (`review_stale` begins with any); while a plan is shown, others write that text only. *Builds*: two builders, of which the second builds one program only, to one of
two output paths, and whose cache alone is damaged; two digests, until builds of both have met another;
room for one text in memory. *Compiler*: every if with up to two
statements an arm, loops with breaks and continues, logical operators in an argument or a comparison on either side of another, all programs of four files
and of three functions with two effects (calls are added once the effects are written), texts of six tokens (not
continued after a parenthesis they never opened), words of three and
four bits, arguments of four characters against a six-bit result, four
statements three blocks deep. *NibbleFlow*: last groups and tiles that are full
and not, buffers that suffice and not, a greatest int of 31. *Runtime*: three
addresses, capacities up to two, paths of three segments over names of one and
three bytes. *Hybrids*: three branches on one worker, two and more than there
are; declarations whose components are written last, three of them for one worker and at most one parameter. *Evidence*: plans of three steps over two tools. *Graphs*: three operations,
two policies, two proofs, one verdict kept. *Language modules*: five lines, the fifth of which ends
a block or multiplies. *Plans*: two threads, four requests
under every set of features. *Capsules*: three chunks of which two stay.
*Training*: two parameters, three updates, epochs of three rows in batches of two
through a buffer of two. *Pipeline*: two pipelines on one file; a model that is exact in
four bits, one whose greatest weight is clipped and refused, one that drifts; two datasets; one
change by others. *Language models*: bytes of one bit, contexts of up to two, documents with
more contexts than there may be; two processes, one of which may be writing
where the other writes. *Clients*: two clients, five providers of the four kinds, three
environments of which one names a provider and one allows plain HTTP; a change of it or a death;
one redirect in a call, while the second client is idle.

**Symmetry** is used only in runs that check safety: tasks, threads, handles
and requests are interchangeable (no `CHOOSE` over them, no order). Deadlock is
checked where nothing may stop; a set of clients that have all returned, or a
pool of pages whose requests are all cancelled, is a legitimate end, as is a text
of the greatest length, a program that is compiled, and most tools when they are done;
those runs say so.

**Fairness.** *Dispatcher*: weak fairness for each worker, for the submitter in
its critical section and for shutdown; they are threads that the operating
system schedules, and a blocked worker wakes by its 2 ms limit, so no fairness
of notification is assumed. No fairness for callers: nobody must submit, cancel,
heat or cool the device. The function of a task returns or throws: kernels are
bounded loops. `AcceptedTasksEnd` holds only if the device stops being Critical,
and says so. *Clients*: weak fairness for each submission loop, for each worker
that has a task, and for the deletion by the owner once it has begun. *JNI*: weak fairness
for each thread that is in a call, mutexes not fair, and requests end by
themselves (`NativeDone`), which is what `destroy_request` relies on since it
waits for leases before it cancels.

## What is proved

`SchedulerProofs` proves, for any numbers of little and big workers, any queue
capacity, any finite set of tasks, any kinds, tokens and thermal inputs (the
assumptions of `Scheduler`: at least one worker, a capacity in the naturals, null values outside their sets):

| Theorem | States |
|---|---|
| `Invariance` | `Spec => []IInv` |
| `TypeCorrect` | every variable stays in its type |
| `AtMostOneOutcome` | `ToldOnce`: no owner hears two outcomes, nor one for a refused task |
| `NoTaskIsLost` | `NoTaskLost`: a task taken on and not settled is in a queue, with a worker or among the drained |
| `ShutdownSettlesAll` | `ShutdownSettles`: when shutdown has returned all accepted tasks are settled and no worker is left |
| `NothingAcceptedAfterStopped` | an action property: once any caller was told Stopped nothing is taken on |
| `CountersAlwaysAgree` | `CountersAgree`: counters and outcomes told differ by the workers between a count and its callback |
| `ImplementsTaskService` | `Spec => Service!ServiceSpec` |

**The inductive invariant.** `ToldOnce` is not inductive: that a worker which is
about to tell a task's owner is the only one to do so depends on where tasks
are. `IInv` adds to the types: `CallInv` (the task of the submission under way
has no answer yet, and no shutdown has begun), `HandInv` (a worker's
hand holds a task exactly at the points where the code has one), `OwedInv`
(whatever is in a queue, in a hand or drained is owed an outcome),
`PlacesDisjoint` (no task is in two of these), `PlacesUntold` (a task in one of
them has not been told), `ToldInv` (the count and the kind of outcome agree),
`NoTaskLost` itself, and `ShutdownInv` (every worker has exited before the
drain starts; a queue that was drained stays empty). `ToldOnce` follows from
`PlacesUntold` and `OwedInv`; `ShutdownSettles` from `NoTaskLost` and
`ShutdownInv`. Each conjunct has one lemma with a step per
action; what the actions of a submission and of a worker do to the places of a
task is stated once (`SubmissionEffect`, `WorkerEffect`). `CountersAgree` is inductive
beside `IInv`, in two halves: `RepliesCounted` for what submit answered,
`OutcomesCounted` for what workers told. Each step moves at most one task into a set that is
counted, and `IInv` says that it was not in it: a task whose outcome is
about to be told has none yet. The refinement takes `IInv` for the steps that tell an
outcome (the abstract status must still be open) and for the end of shutdown
(no task may be open).

`RequestProofs` proves, for any set of requests and any bound on the ranges of a
batch (`RangesAssumption`: at least one), over any dispatcher that behaves as
`TaskService`, which `ImplementsTaskService` says of the one in the repository:

| Theorem | States |
|---|---|
| `BatchInvariance` | `Spec => []BatchInv` |
| `Freed` | `OnlyNotifierLeft`: a deleted request has no task the dispatcher could call back, and at most one worker is still to notify, after its unlock |
| `Final` | `DoneIsFinal`, an action property: once done, neither the result nor the counts of what ended change |
| `Balance`, `ResultIsWorst`, `ReceiptAgreement` | `ReceiptBalances`, `ResultMatchesReceipt` and, with the types, `ReceiptAgrees` |

**The inductive invariant.** That a request which is done has no open task is not
inductive: a range may end before its submission is counted, and after a refusal
some ranges run while the submitter closes the slots of those never sent. The
invariant names what is still owed, `Owed(r)`: the ranges the dispatcher has, and
those not sent yet. `SlotInv` says that `pending` is the number of these and `done`
that there is none; `SentInv` says, for each place of the submitter, which ranges
are still new, so that none is counted twice between the dispatcher and the
submitter; `CountInv` ties the counters of the receipt to `pending`. Each step
either leaves `Owed` alone or takes one range out of it (`OneLess`), and touches one
request only (`StepKeeps`, `OwnStep`). `Freed` and `Final` follow because a range
that can still close a slot is owed, and what is owed is not done (`OwedNotDone`).
`ResultInv` and `TypeInv` are proved from `BatchInv` for the result and the types.

The same module proves of the ragged request, for any number of chunks
(`ChunksAssumption`: at least one), `GroupInvariance` (`Ragged!Spec => []GroupIInv`) and
`RaggedIsSound` (`RaggedHolds`). The invariant adds to the count and the types:
`OrderInv` (chunks are submitted in their turn), `RunInv` (a task is finished when its
function has returned or a callback was called, and its function runs only while it
is open), `FlagInv` (a chunk that is refused or gave no result has left a mark),
`VerdictInv` and `GoneInv` (a wait that returned, and a request that is gone, saw a count of
zero). A count of zero means that every chunk is over (`CountTells`), so the marks
no longer change and all waits read one verdict; and a worker inside a chunk is inside
one that is not over, so none is left when the request goes.

`JniProofs` proves, for any finite set of threads, any runtimes and requests and any
number of handles (`HandleAssumption`: at least one; `ThreadAssumption`: a process has finitely
many threads at a time, without which a count of leases is not a number):

| Theorem | States |
|---|---|
| `Invariance` | `Spec => []IInv` |
| `RegistriesStaySound` | `RegistriesSound`: types, and a handle denotes one object |
| `UseIsProtected` | `UseProtected`: no native call on a destroyed object, buffers outlive tasks |
| `CloseLeavesNothing` | `NothingLeftBehind`: a destroyed runtime leaves no request, reference or handle |

**The inductive invariant.** None of the three is inductive: that `hf_runtime_submit` meets a live
runtime depends on a lease taken two critical sections before, and on the close that
waits for it. `IInv` says what a call holds at each of its points. `ShapeInv`: where a
call of each kind can be. `MutexInv`: it has the lifecycle mutex it locked. `LesseeInv`,
`UserInv`: the counters are the numbers of calls with a lease. `LeaseInv`: what is leased
exists. `HandleInv`: a number that was drawn and not yet registered is nowhere else.
`RuntimeInv`, `CloseInv`: a runtime is known by its registration only, and has one
close, after whose `closing` mark the leases can only fall. `RequestInv`, `RegisteredInv`,
`OwnerInv`: a request that holds buffers is in the registry or in exactly one call that will
delete or register it, never in both. `SubjectInv`, `DeletingInv`: what the call that submits
or deletes a request may rely on. The hardest step is the end of a close: that no request of the runtime
is being submitted follows from the count of leases, which the submitter holds until it has
registered; that none is being deleted elsewhere follows from the lifecycle mutex.
The proof has one lemma per action, and states once how a step moves its thread
(`Walks`, `Ends`) and what it leaves to the others.

`SpeculativeProofs` proves, for any vocabulary, draft and target models, capacity of the
cache and bounds on drafts and calls (`DecoderConstants`, a hypothesis of each theorem on
decoders; `LibraryAssumption` says that the constants of the run satisfy it), and of the packer for any
requests of positive lengths, any priorities and deadlines, any positive capacity, bucket width and
limits and any times (`PrefillAssumption`, what the constructors demand):

| Theorem | States |
|---|---|
| `DecodingInvariance` | `DecodingSpec => []DecodingInv` |
| `GreedyIsExact` | `DecodesAsTarget`: a greedy decoder holds what the target model decodes alone |
| `NothingUnreturned` | `CacheIsReturned`: between calls the cache is the prefix and what calls returned |
| `DecodingStaysExact` | `DecodingIsExact`, which is both and the types |
| `PrefillInvariance` | `PrefillSpec => []PrefillInv` |
| `PackingStaysExact` | `PrefillIsExact`: one span per request and generation, within what is used; a pack returns each request once, in order, in batches of one bucket within both limits |

**The inductive invariant.** `DecodesAsTarget` compares
the cache with `Run`, a function defined by recursion. The invariant says the same token by token
(`ChosenByTarget`: each token after the prefix is the target's choice after the one
before it) and adds where the call under way began and what it holds (`CallInv`,
`ReturnedInv`). A round keeps it because an accepted draft token is the target's choice,
and the first that is not is replaced (`AcceptedIsChosen`); cutting off what is too much
keeps it because it takes away a suffix. That the two forms agree is an induction over the text:
the library's induction theorems take an operator and cannot be used, but a set of
naturals has a least element (`HasLeast`, from the well-foundedness of finite sets), so
the least position at which they differ cannot exist; the recursive function exists and
unfolds for the same reason (`WalkExists`).

Of the packer, `LeasesOK` says of *all* leases given out in this generation, released or not, that they lie
end to end below what is used; that is why a lease kept too long cannot meet a
later one. Without those that were released it is not enough, as a release gives no room back.
`BatchesOK` says that what was returned is `Cut(Sorted(given))`; the rest is about these two operators.
The order of due requests is one in which of two that differ every third differs from one of them
(`DueOrders`), so with the places given it is total (`PlacesOrdered`), and counting who comes before each maps the places
one to one onto themselves (`Numbered`): `SortedFacts`. `Cut` and `FlattenSeq` are recursive functions, which exist and are followed
place by place as above; joining a request to the last batch or opening a new one appends it
to what the batches hold and keeps each within its limits (`JoinedKeeps`, `CutFacts`).

`ResidencyProofs` is first about the two ledgers, for any artifacts,
sizes, budgets, ages, steps, lanes and snapshots (the assumptions of `LruLedger` and
`AdapterResidency`: sizes, ages and budgets are positive numbers; for blocks,
`PrecisionAssumption`: a policy allows known precisions, fp16 among them, as its `verify` demands):

| Adapters | Blocks | States |
|---|---|---|
| `Invariance` | `KvInvariance` | the inductive invariant, `IInv` and `KvIInv` |
| `WellTyped` | | types of the adapter ledger, its lanes, snapshots and decisions |
| `BooksAreKept` | `BlocksAreKept` | the bytes counted are those resident, and within the budget with the number of entries (with the types of blocks) |
| `ActiveStayResident` | | `LanesResident`: an active lane is resident, once, and lanes are no more than allowed |
| `NothingOverstays` | `PolicyIsKept` | `AgesHold`, `ResidentWithinPolicy`: after an operation nothing that may be evicted is too old or of a precision that is excluded |
| | `GovernorIsHeard` | `GovernorAgrees`: what the governor passed is not rejected for its precision |
| `AdaptersStaySound` | `BlocksStaySound` | `AdaptersHold` and `BlocksHold`, which the run checks: all of these |
| `EvictionFollowsUse` | `BlockEvictionFollowsUse` | action properties: nothing held is evicted, the rest in order of last use |
| `DecisionsTell` | | `DecisionTells`, an action property: a decision names what its operation made go |

**The inductive invariant.** That the bytes counted stay within the budget depends on their being
the sum of the sizes of exactly the entries that are resident, and what is evicted on the order being that of
last use. `Balanced` says that the order lists every resident entry once and the count is the sum;
`Within` adds the budget. An operation of either ledger is expiry, then eviction, a touch or an
insertion; `Outcome` says what any of these may do to a ledger (who may go, before whom, who may
come), and composes: so each operation of either ledger is proved by naming its
stages (`FreshOutcome`, `RoomOutcome`, `TouchOutcome`, `AdmitOutcome`). What the stages do to the sum rests on facts
about `BytesOf`, a fold over a set: taking an element or a subset out subtracts its bytes
(`BytesWithout`, `BytesSplit`), whatever order the fold takes, because it is a sum (`BytesSum`).
What holds of sums is in `SumProofs`. The definition of a fold is a
function that is chosen to satisfy its own recursion; that one exists (`FoldExists`) and that
what it gives depends on the set only (`CountsAgree`) are inductions over the size
of the set, by the least-element argument of the decoders. `Keep`, a fold over a sequence, is related to
its result position by position in the same way (`KeepIsKept`), and the touches
of a rollback to the number of lanes touched (`TouchAllWalks`). A rollback ends with
nothing about ages: it restores what a snapshot names, however old, which is why `AgesHold` excludes it.

`PoolProofs` is about the arena and the tensor pool over it, for any tensors of any positive
sizes, any keys, any number of handles, any capacity and alignment of the buffer (the
assumptions of `SharedTensorPool`):

| Theorem | States |
|---|---|
| `PoolInvariance` | `PoolSpec => []PoolInv` |
| `PoolStaysSound` | `PoolHolds`: free ranges and live buffers partition the arena, padding included; blocks are aligned and counted once; a handle reads what it was given for; entries count their readers |
| `ReleasesMerge` | `ReleaseMerges`, an action property: after a release that frees bytes no two free ranges touch |

**The inductive invariant.** `ArenaOK` is about ranges: those of the free list, in whatever order,
neither overlap nor touch nor leave the buffer, two views have the same block or blocks that are apart, a byte is free
exactly when no view has it, and the counts are those of the views and the blocks. Each operation of the arena is described byte by byte
(`InFree`, `Holds`): `AllocatedFacts` (the block comes out of one free range, and only its bytes stop being free: the padding before it stays a range), `AliasedFacts`,
`ReleasedShared` and `ReleasedAlone` (the last view of a block gives its bytes back and no other).
Coalescing sorts and then folds, so what it returns depends on the order: a release first makes a
list that is only disjoint (`Loose`), `InOrderSorts` says that sorting orders the starts,
and the fold is followed step by step: merging keeps the bytes, the order and that no two
ranges touch. `PoolOK` adds the pool: `Named` (views belong to entries or handles), `Sealed` and `Readable`
(the bytes under an entry, and under a handle that can be read, are those that were interned),
`Owned` (two entries never share a block, and the handles on the block of an entry were given out for it),
`Counted` (an entry counts no more handles than there are views on its block, which is what keeps a
view from being freed under a reader) and, until a handle that outlived a `clear` is
released on a later entry, `Exact` (it counts exactly those). The last is the defect of finding 2: `Exact` is
lost there and everything else stays. An intern allocates, writes, makes the entry and aliases it; a release is two
releases of a view, the second only for the last handle; a `clear` puts an empty arena in the place of the old one.
Each of these is a lemma (`InternedOK`, `LoweredOK`, `EmptiedOK`, `EmptyOK`), and the bytes of a new block
are of no other, so that writing them spoils nothing.

The second half of `ResidencyProofs` is about the tiered manager, for any finite set of tensors of any positive sizes,
any ranking of their keys, priorities, times, number of leases, choice of those that are pinned, capacity and alignment (`TieredAssumption`: the handles
are those named after the tensors and the spare one, `cold_after_ns` is positive as the constructor demands):

| Theorem | States |
|---|---|
| `TieredInvariance` | `TieredSpec => []TieredInv` |
| `ResidentsStaySound` | `PoolHoldsResidents`: the pool is sound and holds exactly the residents, each under one handle, and their bytes are all the arena counts |
| `LeasesHold` | `LeasedStay`, an action property: what is leased stays resident, and where it is |
| `ColderGoFirst` | `EvictsTheColder`, an action property: evicted are candidates, and none warmer than one spared |
| `ReclaimStaysFair` | `ReclaimIsFair`, which the run checks: these two and the clause for blocks |

**The inductive invariant.** `TieredInv` says what the pool serves (`ServesOK`): `PoolOK` of the pool's own proofs, unspoiled
because the manager never clears; an entry for each resident, of its size and with the one handle named after it; the live bytes as
the sum of their sizes; and that nothing leased is evicted. The manager does not take steps of `PoolNext`: an admission of
a resident is an intern and a release in one, a rebalance any number of releases. So the lemmas are about the operators:
`AnewServes`, `AgainServes` (intern and release of the spare handle leave every view where it was) and `ReleasedServes` (the one
handle and then the entry go; no other view is on that block, by `Owned` and `Exact`). For a rebalance the fold
is unrolled into a function of the subsets (`FoldIsFreed`), and `FreedServes` follows it by the size of the subset. `ColderGoFirst`
needs no sorting: those that go before a tensor go before every one with a lower score, so of two candidates the lower has no fewer before it.

`FileProofs` is about four components that keep files: the store behind consents, the
workspace of the agents, the cache of the compiler, the telemetry log. They share no state; that is why one
module can hold their proofs. Consents: for any tokens, permits, paths, contents, keys and
times (`ConsentConstants`: tokens and permits are told apart and have finite times). Workspaces: for any
plans over any files and texts of any sizes, limits, providers and rounds (`WorkspaceAssumption` says
what a parsed plan may be made of). Builds: for any builders, digests and output paths
(`BuildConstants`: what is not there and what is torn are no executables). The log: for any
finite set of events and any positive limit (`CursorAssumption`). The run
`libraries` checks the four assumptions of its constants.

| Theorem | States |
|---|---|
| `ConsentInvariance` | `ConsentSpec => []ConsentInv` |
| `ConsentIsKept` | `ConsentHolds`: one effect per consent, of its action, in its scope and before it expired; labels lowered by used permits only |
| `UndoIsExact` | `UndoRestores`, an action property: an undo gives back the store its action found |
| `WorkspaceInvariance` | `WorkspaceSpec => []WorkspaceInv` |
| `PlansAreWhole` | `ChangesAreWhole`: an applied plan left what its last check saw, a rolled-back one left every file as it was, save what others wrote or the disk refused |
| `ReviewsHold` | `ReviewHolds`: a reviewed plan begins on the files its reviewer saw, where the digest reached them all, but for those others wrote after they were shown and before the digest |
| `ChangesStayReviewed` | `ChangesReviewed`, which the run checks: both and the types |
| `BuildInvariance` | `BuildSpec => []BuildInv` |
| `BuildsStayOwn` | `BuildsOwnSource`: a build that succeeds gives the executable of its own source, unless a build of it met one of the same digest or output path |
| `CursorInvariance` | `CursorSpec => []CursorInv` |
| `LogIsShown` | `CursorFaithful`: a cursor that has not lost its place shows the last events of the complete lines before its offset, and keeps the rest of them |

**The inductive invariants.** `ConsentInv` adds to `ConsentHolds` the types and `ReceiptsTrue`: the two stores
a receipt remembers are those before and after one move of one file that was there to a
path that was free. `undo` compares the present store with the second and moves the file back;
only because of `ReceiptsTrue` is that the first (`MovedBack`). That a consent backs one effect
follows from its being marked in the step that uses it and from no step taking marks away. A
label stays accounted for because flows compose (`Flows`): a value that was released and then raised
is still above what its permit allowed. Scope and time are kept because a receipt and an entry remember theirs.

`WorkspaceInv` says of the plan under way what holds of every file nobody else wrote
(`Mine`): its backup is what was there when the plan began, and a file without one is still as it was
(`BackupsTrue`); the last write done to it stands (`WritesStand`); a check after that write saw it
(`ChecksStand`). The rollback restores by the first. That what was applied is what was
checked needs the second and third and the review of the plan, by which the last check comes after
the last write (`DoneAsChecked`, with `MaxIsGreatest`). `PreviewOK`: until the digest is taken, a file nobody else wrote is
as it was shown. `DigestOK` and `FromPacket`: a packet keeps the digest of a workspace that differs from what its
reviewer saw in `edited` only, and a plan that came from it began on files of that digest. `ReviewHolds` follows: two
workspaces of one digest show the same files with the same contents.

`BuildInv` speaks of the digests whose builds have met none of their digest or output path: one build is under way at most
(`Alone`), nobody else is at its path, the cached executable is whole, torn or absent and its hash right or absent (`FilesOK`), and what
a build has made so far, at its path too, is its own (`MadeOK`). A kill leaves a torn executable without its hash, which
the next validation refuses; files are damaged only while nobody is building (`Damage`).

`CursorInv` adds to `CursorFaithful` that no part of a line is in the log twice (`Once`), which bounds
the offset. What is shown is defined over the whole text before the offset, but `read_new` decodes
only what is new behind what was left over; that both agree is `ReadsOn`. It rests on two lemmas
about the operators: a text that ends with a line is decoded apart from what follows it
(`DecodedSplits`, by the least place at which it is not), and cutting to the limit once or after each
read is the same (`LastNTwice`). A truncation above the offset, and every write, leaves what precedes the offset
(`StillShowing`); one below it takes away the assumption `seen`, until a `Stat` sees it and starts the log again.

**Only model-checked.** Liveness (`sched_live`, `clients`, `jni_live`): TLAPS
has no rule here for fairness and ENABLED. The other modules. In `CachesAgree` the clauses
for the vault and the plans, as the one for builds is `BuildsOwnSource`, which is proved. Those that walk over syntax (`NativeFrontend`,
`EmitterBlocks`, `ProgramGraphs`) declare recursive operators, which
put them out of the prover's reach.

## Findings

1. `sched_stuck`: a BigOnly task that was queued before the device became
   Critical is not taken from its queue when it is cancelled, because
   `can_take` (`holy_fitra_dispatch.cpp:154`) refuses a big worker in Critical
   before it looks at the token. Its cancel callback is not called while the
   device stays Critical. `holyfitra_android_runtime_integration.md:117` promises
   that a request "cannot remain permanently unfinished". A batch whose last
   range is refused waits on such a range without a limit
   (`holy_fitra_runtime.cpp:254`).
2. `pool_leak`: `SharedTensorPool.release` (`holyfitra_tensor_pool.py:119`)
   finds the entry by key only. A handle from before a `clear` takes away the
   entry that a later handle stands on, whose release then raises, and its bytes
   are never freed.
3. `emitter_phi`: for `f() || g() && h()` the emitter writes a phi that names the
   block in which the right operand began (`holyfitra_compiler.py:1370`), but the
   right operand, a short-circuit operator too, ended in its own merge block. So it does
   when the inner operator is an argument of a call or an operand of a comparison or of
   arithmetic, as in `f() && id(g() && h())`. The
   text is not valid LLVM. `HOLY_FITRA_V1_RELEASE_SPEC.md:15` lists short-circuit
   operators and direct calls in the contract. `SimpleCodeIsMeant` says what holds of the
   functions the run compiles: they mean what the source does, unless the right operand of a
   short-circuit operator holds one, at any depth, that is not folded.
4. `review_stale`: the digest that binds a reviewed plan to its workspace
   (`holyfitra_hd.py:252`) is taken of the files that `Workspace.files` lists, which
   leaves out a file above `max_file_bytes` and every file from the first that brings
   the total above `MAX_CONTEXT_BYTES` (`holyfitra_agent.py:223`, `:225`). A change
   there does not reject the apply, as `HOLY_FITRA_HD.md:30` promises; the plan may
   write that very file. `ReviewHolds` says what holds; it also leaves out what others write
   between the previews (`holyfitra_hd.py:317`) and the digest (`:320`), which is in the digest
   though the reviewer never saw it.

Remarks that no run states as a property: a `pack` that the pool cannot serve
raises after earlier requests got leases, which no batch names; packing them
again raises until they are released. `generate` that raises because the cache
is full leaves its earlier rounds in the cache though it returned none of them, so
`DecodingIsExact` compares cache and output only until a call has raised. An adapter that a rollback takes out
of the lanes may be over age until the next operation, as expiry runs first
(`holyfitra_adapter_residency.py:349`; `AgesHold` excepts rollbacks). A
function or callback that calls `submit` from a worker while another thread
shuts down waits for a lifecycle mutex whose holder joins that worker. Within a
priority an owner takes its newest task, so an old one may wait for as long as
newer ones arrive. A hot tensor in the tiered manager is never demoted by time
alone, only by a rebalance. `nativeClose` destroys the requests and then the
runtime (`holy_fitra_jni.cpp:344`), the reverse of
`holyfitra_android_runtime_integration.md:70`, and so waits for each request to
end by itself. `TelemetryCursor.read_new` (`holyfitra_telemetry.py:77`) knows a
truncated log by a size below its offset only: one that has grown again before
the next read is taken for the old one and its first part never shown, which
`HOLY_FITRA_FULL_EXPLANATION.md:264` excludes; `CursorFaithful` says what holds.
With big workers only, a LittlePreferred task is accepted and nobody takes it
(`holy_fitra_dispatch.cpp:148`).

The last worker of a request unlocks it and then calls `notify_all` on it
(`holy_fitra_runtime.cpp:97`, `:98`). Whoever polls and sees `done`, or waits and wakes, may delete the
request in between, the failed path of a submit included (`:254`, `:255`), so that the notification is of
an object that is gone. The model keeps that worker in `notifying`, and `OnlyNotifierLeft` says that
there is no second one, nor a task the dispatcher could still call back. `HOLY_FITRA_STRESS_MATRIX_2026-08-22.md:22` reports no use after free, from runs; no run
of this project claims there is none.

Of the compiler: of two builds of one digest at the same time, one may hash the
cached executable while the other copies into it, and a third then takes a torn file whose
hash fits; if the copying builder is killed, so does every later build
(`BuildsOwnSource` excepts builds that met;
`HOLY_FITRA_FULL_EXPLANATION.md:120` speaks of atomic publication). Of two builds of different sources with one
`-o` path, one may copy the other's executable into the cache under its own digest and hash it
(`holyfitra_compiler.py:1742`, `:1748`, `:1749`), where it is valid for every later build. Validation of a parallel hybrid compares the declared
inputs with those of its first branch only, and emission raises for the others; a
hybrid that returns nothing passes validation and raises in emission. An
immutable `let` that hides a mutable variable may be assigned
(`holyfitra_compiler.py:1058`).

Of the tools: two operations of a HyperIR graph may give one value when both were
added before it, and the text of such a graph cannot be read again; a cache
transaction left open is valid; `verify` raises a `KeyError` for an output without a value. In the
reconstruction cache the access that ends an idle time counts as a fast one, and
demoting what is in half precision already reports an error of 0. After a refresh
that failed, the vault's read tool gives the old digest with new notes. Filtering
duplicates before the gates may hide the one candidate that would have passed
(`PlansAsCompiled` excepts it). An open block inside another is accepted by the
language core, one brace closes both, and what a function allows goes to the
policy around it. A proof may be added as valid on one that is not, and
invalidating what is invalid already does not reach it. In a parallel hybrid call a
cancellation is not seen while the caller waits for a branch.

Of the runtimes: `require_direct` divides a capacity that is in elements already, which
refuses more than it must; `lookup_model` keeps the registry while it waits for one
model, so a running product blocks every look-up; a batch looks for values that
are not finite in the padding between rows too. In the bootstrap runtime a stale handle passes when
its address was given again to the same kind; the check that it is live and its use are two
critical sections; two writers of one path share its temporary file, which is
renamed without being synced.

Of models and providers: a redirect of a post is followed with its `Authorization` or
`x-api-key` header to any host, in the clear too, as only the first address is validated
(`holyfitra_ai_api.py:102`, `:113`; `PostsHold` says what holds). A pipeline whose prediction check fails has replaced the file
already, so that the file may be of a model whose export did not succeed
(`holyfitra_ai_pipeline.py:274`; `FilesHold` says what holds). A model trained by
another thread between two steps gives a result that names one model and
carries another (`ResultsHold` excepts it); a weight that is near the greatest is off by up to a
whole step, as the greatest code has no place for it (`StepsAreHalved`). Two
writers of a language model or of a generated source share one temporary file: a torn
checkpoint is refused when it is loaded, a torn source is not looked at again
(`OutputHolds` excepts it). The clients never compare the number of vectors with the
number of texts, so that an answer that leaves one out shifts the others.

## What is not modelled

Of the modelled parts: CPU affinity, the per-worker copies of statistics, shapes,
dtypes, digests, schemas, JSON and receipts that only serialise, waits with a
limit (they change no state), the high-water counters of the arena, the choice
of ragged chunk sizes and its thermal controller, the syntax of single tokens,
the linking of executables, the wording of prompts, options of a request that
are passed on, branches of git, the scores of searches, gradients and losses,
the module names and the single `main` that are checked after a program's modules are gathered (`holyfitra_compiler.py:703`),
an output path inside the cache, a clang that outlives the driver that started it, snapshots of lanes under another
policy (refused as those whose adapters are gone), the payload and the method of a redirected request, splits of datasets, prediction of a bundle and training with fake quantization, rounding elsewhere
than in the four-bit arrays. Of `holy_fitra_runtime.py` the energy policies (which may keep a
profile that uses the network for their dwell when the device goes offline), the intent firewall and the replay log.

Of the system, because there is no state or control to check: the ragged and streamed
kernels, the other quantization and training numerics (floats), the attention language model and
tensor contracts, contracts (validators of
records), packages and safety helpers (digest
checks over files), terminal tools and benchmarks (the device benchmark is one more client
of the dispatcher, and reads its counters before the workers have counted), core topology (parses sysfs;
its result is the number of workers), the bootstrap compiler and self-hosting
stages (pure functions over text), the Android
application's user interface, scripts. `PROJECT.json` gives the reason for each.

## Plan

Done, in this order: the dispatcher with its abstract specification and proofs;
its two clients; the JNI layer; arena, pool and tiered residency; the ledgers;
decoders, prefill, telemetry, consents and receipts; the workspace and the agent
runtime; the compiler's caches and passes; what programs run on; HyperIR and the
language core; vault, plans, capsules, reconstruction caches, training; whole programs,
streamed data, the pipeline, language models, provider clients.

To extend the model: the energy policies and the intent firewall of
`holy_fitra_runtime.py`; the choice of ragged chunk sizes, whose products of
lengths are cut at an overflow; composition of
the JNI layer with `RuntimeRequests`, whose requests `JniHandles` takes as ending
by themselves.

To prove more: `BuffersKept` of `NibbleFlowBridge`, `ToolsAccounted` and `LedgerGrows` of
`EvidenceRuntime`, each from a strengthened invariant that TLC has checked first.
