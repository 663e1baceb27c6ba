# A verification project for ffx

ffx is a header-only C++ library on top of alpaka (memory pools, buffers,
structure-of-arrays containers, parallel algorithms and neural-network kernels
for CPUs and GPUs) together with an ahead-of-time compiler, written in Python,
that turns an ONNX model into a C++ program using that library.  This directory
holds TLA+ models of the parts of it that carry logic, the TLC configurations
that check them on small instances and TLAPS proofs for all instances.

Line numbers below and in `PROJECT.json` refer to the files under `src/`.
`PROJECT.json` maps every definition that models code to the lines it models.

## 1. The system

| component | where | state | operations |
|---|---|---|---|
| caching allocator | `include/ffx/core/mem/alloc/caching_alloc.h`, one instance per device (`device_caching_alloc.h`) and one per queue's host/device pair (`host_caching_alloc.h`) | `mutex_`, `cached_bytes_`, `cached_blocks_` (multimap bin -> block), `live_blocks_` (map pointer -> block) | `allocate`, `free`, `free_all_cached`, destructor |
| cached buffers, policy | `alloc_cached_buf.h`, `alloc_policy.h` | shared ownership of one pointer | construction calls `allocate`, the last release calls `free` |
| buffers and views | `core/mem/buf/*`, `core/mem/view/*` | none of their own | factories that pick the cached, pinned or pageable allocation at compile time |
| alpaka wrappers | `core/alpaka/*` | static lists of devices and platforms | `host`, `devices`, `divide_up_by`, `round_up_by`, `make_workdiv` |
| parallel algorithms | `algorithm/*` | none | `scan`, `reduce`, `sort`, `copy_if`, ... on a queue or without one |
| nn kernels | `nn/*`, `nn/functional/*` | none | one kernel per layer, indexed by global thread |
| structure of arrays | `soa/*` | the column pointers and sizes of a layout or a view | `computeDataSize`, layout from a buffer, views from columns, `deepCopy`, blocks |
| portable collections | `soa/portable/*` | a buffer and the layout on it | construction on host or device, `zeroInitialise`, `deepCopy`, `copyAsync` |
| ONNX front end | `python/.../frontend/onnx/*` | `value_map`, `tensor_meta`, the nodes so far | one converter per ONNX operator |
| middle end | `python/.../middle_end/*` | the IR graph | passes selected by `-O`, sorted by level and order |
| back end | `python/.../backend/ffx_runtime/*` | symbol table, aliases, weight blob | emits `model.h`, `main.cc`, `model.data` |
| compiler driver | `compiler.py`, `main.py` | the output directory | check or clear the workspace, compile, write artefacts |
| framework utilities | `framework/fw_core/*` | none | environment report, demangling |

How they interact.  With the caching policy every pinned buffer comes from a
caching allocator (the device allocator cannot be reached from
`make_device_buffer`, which rejects that policy with a `static_assert`); a
buffer's deleter calls `free` from whichever thread drops the last reference.  Kernels, algorithms and copies are enqueued on alpaka queues and run
asynchronously, in order within a queue, so a buffer may be freed on the host
while work on it is still pending on the device: the allocator closes that gap
with events.  SoA collections place all their columns in one such buffer and
copy column by column between host and device through a queue.  The compiler
runs once, front end to back end, handing over an IR graph whose nodes refer to
each other *by name*; the generated `Model` owns one buffer per node and
enqueues one kernel per node in graph order.

What is hard.

* Allocator: any number of host threads against one mutex that is *not* held
  across driver calls; blocks handed on before the device is done with them;
  exceptions between any two steps; flush and retry when memory runs out;
  waiting for the device with the mutex held.
* Compiler: names are the only edges of the graph, and they are lower-cased,
  extended by suffixes, aliased, sanitised and dropped on the way; a pass
  renames nodes while it iterates over them.
* SoA: pointer arithmetic that must agree in three places (size computation,
  placement, strides), copies between collections of different sizes.
* Kernels and algorithms: index arithmetic at boundaries, ordering within a
  queue, temporaries freed while in use.

What makes each component correct, in one sentence: the allocator never gives
one buffer to two owners whose work can overlap, loses none and counts them
exactly; the compiler's program computes what the ONNX graph computes; every SoA
column is aligned, inside the buffer and apart from the others, and a copy
reproduces every element; a kernel writes each output exactly once from the
inputs its definition names.

## 2. Plan

The order was that of what is hardest to test: interleavings first, then the
compiler, then arithmetic that has to agree in several places.

1. `CachingAllocator`, `MemoryPool`, `CachingAllocatorProofs` (section 3).
2. `FfxIR`, `KernelFusion`, `KernelFusionProofs`, and the compiler around it:
   `OnnxModel` (the reference), `OnnxFrontend`, `FfxBackend` with the packing of
   the weights, composed in `FfxCompiler`, `FfxCompilerProofs` (section 4).
3. `SoALayout`, `StructOfArrays`, `SoATable`, `StructOfArraysProofs`
   (section 5).
4. `NNKernels`, `LayerSemantics`, `LayerCodegen`, `KernelLaunch`, `KernelProofs`
   (section 6).
5. `QueuePrograms`, `QueueProgramsProofs`, `QueueMemory`, `QueueMemoryProofs`:
   buffers, collections, copies and algorithms on queues (section 7).

Left:

6. The driver's workspace, with failures and a second compiler between steps.

## 3. The caching allocator

### Model

`CachingAllocator.tla` is one allocator shared by `Threads` host threads, with
the parties around it that decide whether it is right: the clients that submit
work on the buffers they hold, the driver that hands out memory, and the device
that executes every queue in order.

| TLA+ | code |
|---|---|
| `mutex_` | the thread that holds `mutex_`, or `None` |
| `cached_bytes_` | `struct CachedBytes` |
| `cached_blocks_` | the multimap `cached_blocks_`, as the sequence of its blocks in insertion order: `equal_range(bin)` visits the blocks of a bin in that order, `begin()` is the oldest block of the smallest bin (`IsFirstCached`) |
| `live_blocks_` | the map `live_blocks_`, as a function from addresses to a block or `None` |
| `block[t]`, `iblock[t]` | the local `BlockDescriptor` and the scan iterator of the call that thread `t` is in |
| `pc[t]` | where in `allocate`, `free` or `free_all_cached` thread `t` is |
| `held` | what the client was promised at each address: size and queue |
| `memory`, `queue` | the driver's allocations; the operations submitted and not yet executed |

One action is one step between two points where another party can interfere.
Code under one `lock_guard` that calls nothing that blocks is one action
(`InsertLive`, `Recache`, `FreeNotLive`); the scan of the cached blocks is one
action per block (`SkipCached`, `ReuseCached`) because the device may complete
events between two tests; each flushed block is one action (`FlushOne`) because
releasing it waits for the device.  Exceptions are actions of their own:
`AllocateTooLarge` (`findBin`), `ReuseThrows` and `CreateEventThrows` (creating
an event), `OutOfMemory` (the driver), `Drop` (no room in the cache, or enqueueing
the event throws), and `Unwind` releases what the local descriptor owns.
`MemoryPool.tla` is the abstract specification: a queue-ordered pool with
nothing in it but owners and pending work.

The device allocator is the instance with `ReuseSameQueue = TRUE` and one
device; the pinned host allocator the one with `ReuseSameQueue = FALSE`, whose
queues may belong to several devices.

### What is checked

| run | question | instance |
|---|---|---|
| `allocator_device` | Do threads that allocate, fail, flush, free and destroy in every interleaving ever share, lose or misaccount a buffer, or miss a reusable block? | 2 threads, 3 addresses, 2 queues, 2 bins (2 and 4 bytes), 6 bytes of memory, 4 bytes of cache; 3.0 million states |
| `allocator_pool` | Is the allocator the memory pool its clients rely on? | 2 threads, 2 addresses, 2 queues, 1 bin |
| `allocator_host` | Do events follow their queue's device, is no work pending at a hand-over, is the mutex always released again? | 2 threads, 2 addresses, 2 queues of 2 devices, 1 bin |
| `allocator_requested` | Is `cache_status().requested` what its comment says? (It is not.) | 1 thread, 1 address, 1 queue |

The properties: `SoleOwner` (an allocated buffer has exactly one owner among the
live blocks, the cached blocks and the calls in progress, and a released one has
none), `AccountingExact`, `CacheWithinLimit`, `EventGuardsWork` (pending work on
a cached buffer is followed by its event in the same queue), `HandOver` and
`HeldBlockServes` (what a client gets is free of other owners' work, large
enough, and carries an event of its queue's device), `HeldFreeSucceeds`,
`SameQueueBlockFound`, `DestructorReleasesAll`, `MutexReleased` (liveness) and
`ImplementsPool` (refinement).

Bounds.  Two bins whose sizes do not fit together in memory or in the cache make
every branch happen: a request that fits only after a flush, one that never
fits, a block dropped because the cache is full, a scan that skips another bin.
Requests fall inside a bin, on its boundary and beyond the largest.  Two threads
are enough for every pair of critical sections; three addresses let two be live
or cached while a third is in a call.  `QueueBound` caps the work clients submit
to a queue (2): one use and one event, or two uses, may be pending at once.
Addresses and threads are symmetric where no liveness is checked.

Fairness.  `FairSpec` assumes weak fairness of the steps of each thread that is
in a call, because the operating system schedules it, and of each queue, because
the device executes what it was given.  It does *not* assume that a thread
waiting for the mutex ever gets it - `std::mutex` does not promise that - and
clients owe nothing.  `MutexReleased` needs no more: whoever holds the mutex
waits at most for the device.

Finding.  On reuse, `block = iBlock->second` (line 285) overwrites the requested
size of the new client with that of the block's earlier client, and line 300
adds it to `cached_bytes_.requested`.  The statistic documented at line 104 as
"total bytes requested and currently in use on this device" then counts stale
requests.  `RequestedIsInUse` states the comment; TLC refutes it with one thread
and one buffer.  `AccountingExact` shows that the counter is otherwise
consistent: it is what the live descriptors say.

### What is proved

`CachingAllocatorProofs.tla`, for any threads, addresses, queues, devices, bins,
sizes and limits.  Assumptions: `BinsAssumption` (there are bins and their sizes
grow), `LimitsAssumption` (the limits are numbers and every queue has a device)
and `NoneAssumption` (`None` is no thread, address, queue, device or block).

The inductive invariant `IInv` is `TypeOK`, `SoleOwner` and `EventGuardsWork`
together with what they need:

* `MutexHeld`: the mutex is held exactly in the critical sections that span
  several actions, so no two threads are in them at once and a thread that takes
  the mutex finds nobody half-way.
* `LocalBlock`: what a call's descriptor holds at each point, so an exception
  releases exactly what the call owns.
* `WellFiled`: a live block is filed under its own address, its size is its
  bin's, its event belongs to its queue's device.
* `HeldIsLive`, `FreeingIsLive`: between `free`'s entry and its lookup nothing
  removes the block, because only the client that held it could free it.
* `ShutDown`: after the destructor was entered only the flush is left.

`EventGuardsWork` is what makes the refinement go through: an event that tests
complete has everything before it in its queue executed, hence no pending work.
From `IInv` follow, each as a theorem: `TypeCorrect`, `BuffersHaveOneOwner`,
`PendingWorkIsGuarded`, `HeldBlocksServe`, `FreeFindsHeldBlocks`,
`DestructorLeaksNothing`, `CacheStaysWithinLimit`, the action properties
`HandOverWaitsForWork` and `SameQueueBlockIsFound`, and
`AllocatorImplementsPool`: every step of the allocator is a step of the memory
pool or leaves it alone.

`AccountingIsExact` is proved beside `IInv`.  The counters are sums over finite
functions, computed by a recursion the provers cannot follow by induction; the
laws of sums it needs - an index more, an index less, a list without one of its
elements - are proved from a minimal counterexample instead (`MinimalSubset`): a
least set for which the law fails is refuted by the law for the set without one
element.  That no block is counted twice when it becomes live comes from
`SoleOwner`, that a freed block takes out what it put in from `WellFiled`; that the
live blocks are finitely many (`FinitelyLive`) is part of the invariant, since
nothing bounds `Addr`.

Only model-checked: `MutexReleased` (liveness under fairness) and
`RequestedIsInUse`.

### Not modelled

`std::bad_alloc` from the containers; the tracing output; the computation of the
default cache limit in `cache_size` and of the bin sizes by `power` (they enter
as constants); the choice of the allocator at static-initialisation time; two
frees of the same pointer at once, which no client that goes through
`AllocCachedBuf` can issue.  `CanRelease` models
`cudaFree`, `cudaFreeHost` and their HIP counterparts, which wait for the device:
the caching policy is selected for these back ends only (`alloc_policy.h`).

## 4. The compiler

### Model

| module | models | corresponds to |
|---|---|---|
| `FfxIR` | names, operators, nodes | `ir/node.py`, `ir/ops.py` |
| `OnnxModel` | checked ONNX models and the values of their tensors; external, the reference | what `onnx.checker` guarantees, what the operators mean |
| `OnnxFrontend` | the walk over inputs, nodes and outputs, one action per node | `parser.py`, `ops.py`, `graph_context.py` |
| `KernelFusion` | the pass, one action per iteration of its loop | `opt.py` 43-131, `kernel_fusion.py` |
| `FfxBackend` | the loop over the nodes, one action per node, then the packing of the parameters into the blob, one action per node | `codegen.py`, `codegen_ops.py`, `symbol_lookup_table.py`, `model_data_utilities.py`, `model.h.j2` |
| `FfxCompiler` | the three in sequence, at `-O0` or above; the generated program as the C++ compiler and the device see it | `compiler.py`, `optimizer.py` |

The state is the code's: `value_map` and the list under construction in the
front end, `graph.nodes`, `nodes_to_remove` and `fused_count` in the pass, the
kernel calls (`nodes_ctx`), the blob (`bytes_buffer`) and its metadata in the back end, and
`position`, the index of the loop that is running.

A name is the sequence of the words that underscores join, because what the
compiler does to names is all that connects a node to its readers: lower case
(`LowerWord`), the suffix fusion adds (`Append`), the characters C++ does not
allow (`Identifier` splits a word at them).  Attributes are abstracted to what
the kernels implement, a converter refuses, or neither; shapes, types and
numbers are left out.  The value of a tensor is the term of operators over
inputs and initializers that computes it.

`ProgramCompiles` reads the calls as the template prints them: every variable
declared once, every buffer declared, a kernel of that name in the library with
that many operands.  It does not look for clashes between the fixed parts of
names (`device_`, `_output_`) and the names of nodes.  `Memory` runs the calls
in order; a parameter is what the blob holds at the offset and for the size that
the metadata says, or garbage if no initializer's data is there.  `ProgramComputesModel` compares the outputs with `OnnxValues`.

### What is checked

| run | question | instance |
|---|---|---|
| `fusion` | Does the pass keep what the graph computes while it rewrites the list it iterates over? | every graph of one input, four operators (a convolution, an addition, an activation) that read any node before them, and one or two outputs; 380160 states |
| `compiler` | Does a supported model become a program that compiles and computes it, at every level? | 9688 models: three nodes of a convolution, an addition, an activation or a reshape with any operands, in five ways of naming; structural, custom, refused and unknown operators among them; two inputs, an upper-case input, an input that is an initializer; two outputs, of two nodes or of one; parameters of one to three cells in a blob aligned to two; 375416 states |
| `compiler_value_map` | Does `value_map` name IR values, as `graph_context.py:22` says? (It does not for inputs with an upper-case letter.) | the same models |
| `compiler_levels` | Is `-O1` the same as `-O0`, as `main.py:49` says? (It is not.) | the same models |

Kernel fusion: `ReferencesResolve`, `RemovesWhatItFused`, `NothingLeftToFuse`
(one sweep is enough) and `MeaningPreserved` (an action property: every iteration
keeps the value of every output).  The graphs it may be
given (`GraphsAssumption`) have distinct names, none of which is another one
with a word added; the front end promises neither, and the hazards list what
happens otherwise.

The compiler: `SupportedIsCompiled` (no supported model is refused by a later
stage), `GeneratedCodeCompiles`, `GeneratedCodeComputes`, `FusionGetsWhatItNeeds`
(what the front end lists satisfies the assumptions of the pass, which is how
the `fusion` run and the proofs apply to it) and `DanglingIsCaught`: the front end
refuses neither an input with an upper-case letter, whose readers then refer to
no node, nor an output that no kernel computes, but a model that is outside
`SupportedModel` for no other reason is never compiled into a program that
silently computes something else - the C++ compiler rejects it, or it is right.

`SupportedModel` is the precondition, in the terms of the ONNX model alone, and
the result of this part as much as the properties are: nothing in the
repository says which models the compiler is right about.  Each of its five
parts is needed: in the `compiler` instance there are, for each, models that
satisfy the other four and are refused, do not compile or compute something
else.  5014 of the 19376 pairs of model and level satisfy all five; 1100 are those
`DanglingIsCaught` is about.

* `LowerCaseInputs`: readers of an input use the name as written, its node has
  the lower-case one.
* `ClearNames`: nothing makes names unique or keeps identifiers apart.  With
  `-O1` the output's own name counts too: a node without a name is called after
  its tensor, so an activation that produces an output has the output's name,
  and when it is fused the output is removed with it.
* `KernelsExist`: a layer without a bias reads a buffer nothing fills; a fused
  addition, `Identity`, and normalisation layers have no kernel, no emitter or
  one that fails; so has a node with a second output (the indices of a `MaxPool`),
  which `OnnxValues` tells from the first and the compiler does not.
* `OperandsFlow`: operators have operands; initializers are dropped as operands;
  structural operators stand for their first operand.
* `OutputsComputed`: an output is copied from a kernel's buffer, and several
  outputs are told apart only when there are several inputs; without any output
  the program may have no kernel.

It is sufficient, not exact: some models outside it are compiled correctly,
mainly at `-O1`, where it excludes every clash of names and every model with
both an addition and an activation.

Bounds.  Four operators let a fusion follow a fusion, a producer be read by two
and a fused node be read by an operand twice; two outputs make a value be read
besides the activation.  Three nodes in the pipeline are an alias of an alias
and a reader, or a layer, its activation and a reader.  Larger graphs repeat
these situations; the proofs cover fusion on graphs of any size.

No fairness is stated and no liveness checked: the compiler is one sequential
process of loops over finite lists.  It stops when it is done or an exception ends
it, so deadlock is not checked.

Findings.  `parser.py:25` names an input's node in lower case, line 27 maps its
tensor to the name as written, so that the readers of `X` refer to nothing; the
comment at `graph_context.py:22` says that `value_map` gives IR value names.  And
`kernel_fusion` runs from `-O1` on, while the help text calls `-O1` to `-O3`
"reserved for future passes (currently same as -O0)".

### What is proved

`KernelFusionProofs.tla`, for graphs of any size, from `NameAssumption`,
`NoneAssumption` and `GraphsAssumption`.  The inductive invariant says, while
the pass runs, that names stay distinct and none extends another unfused one,
that readers stay behind what they read, that a fused activation is detached
(nobody reads it), that the number of fused operators is `fused_count`, and that
no producer the loop has passed can be fused any more.  From it follow
`FusionTypeOK`, `ReferencesAlwaysResolve`, `OnlyFusedAreRemoved` and
`OneSweepSuffices`: the loop may rewrite the list while iterating over it.

`FusionPreservesMeaning` is `MeaningPreserved`: no iteration, and not the removal,
changes what an output computes.  The value of a node is a recursive function of the
nodes before it; that there is such a function (`ValuesExist`), and that two lists
have the same values (`FusionMeans`, `RemovalMeans`), follow from a least position at
which it would not be so.  Names are distinct and none is captured, so the value of a
node is a function of the values of the nodes it names (`ValueReads`), and a fusion
gives the layer the value the activation had and every reader the layer instead.  It
needs of the graphs that an activation is plain, with one operand and no
parameters of its own (`Unfused`): the pass keeps its type only.  That the front end
lists them so is part of what `FfxCompilerProofs` proves.

`FfxCompilerProofs.tla`, for models of any size at any level, from
`ModelsAssumption` (models are what `onnx.checker` lets through: every tensor
defined once and before it is read, operators with the operands of their schema),
`LevelsAssumption`, `NameAssumption`, `NoneAssumption`, `IdentifierAssumption`,
`SizeAssumption` (initializers have data) and `WordAssumption` (indices are written
apart and begin with a digit; the lower-case name of an activation, the suffix
fusion appends, is an identifier as it is, and is not `input`).  The front end drops an
operand it does not know without an error, so that what it needs to be right is a
statement about everything it has walked over.  `Walked` says, in the middle of
the walk over a supported model: every tensor defined so far is known to
`value_map`, is an initializer or describes a shape (`NothingForgotten`); what is
known goes by the name of a listed node and is no initializer (`MapsToNodes`);
the names listed are those of inputs and of nodes passed (`NamesSoFar`); and the
list so far is in order, unfused and, where fusion will run, without a name
twice.  `NothingForgotten` and `MapsToNodes` need each other: an activation ends
up with exactly one operand because its first is known and its others are not.
After the walk the same three properties hold of the whole list
(`ReadyForFusion`), and at `-O1` the first step of the pass establishes the
invariant of `KernelFusionProofs`, which is instantiated with the lists that
satisfy them; its lemmas carry it from there.  `Emittable` follows the types of
operators through all stages.  The results are `CompilerTypeOK`,
`FusionAlwaysGetsWhatItNeeds`, `SupportedAlwaysCompiled`, and
`FusionIsRightInCompiler`: of the list the front end made, whatever the model,
references resolve, only fused activations are removed and one sweep suffices.

`GeneratedCodeAlwaysCompiles` says that what comes out is a program.  The back end
looks names up in tables and follows aliases without a check, so the argument is
about what every stage leaves in the list, `CInv`:

* `IdentifiersApart`: no two nodes but outputs become one identifier.  Sanitizing a
  name and fusing into it commute (`IdentifierAppends`, about the concatenation of
  a list of any length), so a fused layer is called as before with a word more, and
  `IdentifiersUnextended` says that no other node is called that.
* `Connected`: what a node reads is listed before it and will stay.  Hence
  following aliases terminates, within as many steps as the code allows itself,
  at a kernel or an input (`AliasesEnd`, `ReadsResolve`).
* `OutputsGrounded`: a set of transforms exists that leads every output to a
  kernel, never to an input, which has no buffer to copy from.  During the walk
  `ValuesGrounded` says the same of every tensor whose ONNX value is computed: a
  reshape has the value of its first operand (`ReshapedValue`, from the
  recursion that evaluates a model), so a reshaped input is no exception.
* `WellOperated`: kernels the library has, with as many inputs as they take,
  activations in layers only; `AdditionsStandAlone` keeps additions from being
  fused, for which there is no kernel.
* `OutputsNumbered`: the parameters for outputs have different names.
* `Called`, `Stored`: from code generation on there is one call for each kernel
  node passed and no other, it reads declared inputs and members, and parameters
  are copied into layers.

The hard step is the one in the middle of the pass (`FusionKeepsSound`): the
activation that is being fused stays in the list, detached, until the sweep is
over, under a name that the removal will look for.  `Staying` is the list without
it, and everything above is said of `Staying`; the invariant of
`KernelFusionProofs` supplies that the fused pair has no other reader.

`GeneratedCodeAlwaysComputes` says that the program is the right one: what it leaves
in the output buffers is what ONNX says of the model's outputs.  Two recursions are
compared, of the model over its nodes (`OnnxValues`) and of the program over its
calls (`Memory`), through a list that is built, rewritten and read in between.  `VInv`
carries the one to the other:

* `Computes`: there are values `V` for the nodes of the list such that each is what
  its operator makes of the values of the nodes it reads (`Carried`).  During the
  walk these are the ONNX values of what `value_map` knows (`ValueMapRight`), from then
  on those of the outputs (`OutputsRight`).  A new node gets the value of its ONNX
  operator (`NodeMeant`, from what every converter makes of type and operands), a
  dropped node none (`PassMeant`: what it produced has the value of its first
  operand).  Fusion replaces `V` at the fused layer by the activation's value there
  (`FuseCarries`), and the removal renumbers it (`RemovalMeant`).
* `OutputsComplete`, `InputsRead`, `LayersStored`: every output has a node, every
  input is read by one number, weights and biases are initializers.
* `VarsOffInputs`: no kernel's member is called like a parameter of `infer`.
* `CallsExact`, `CallsOrdered`: the calls are those the emitters make of the nodes,
  and in the order of the list.
* `Stowed`: the entries of the metadata are where in the blob their data is, and
  each parameter of a node passed has one.  The alignment of later data moves none
  of it (`GoesOn`), and an entry finds the data of its own parameter and no other's
  (`DataFound`), so that a parameter buffer holds the initializer (`ParameterStored`).

Then, by the first call for which it would not be so, every call finds in its buffers
the values of the nodes it stands for (`CallsCompute`): an operand is an input or the
buffer of a kernel called before, behind any number of aliases (`ReadValue`), and no
later call writes that buffer.

Only model-checked: `DanglingIsCaught`, which is about models the proofs do not
assume supported.

### Not modelled

The passes without a body (`shape_folding`, which only fills `folded_shape`, is
part of section 6); types;
number formats; the program `main.cc`; the IR summary; the files of the workspace:
they are written only after the pipeline has ended, and nothing in the repository
says what a compilation that fails half-way, or a second one in the same
directory, may leave behind, so that there is no promise to check yet.  Shapes, batch sizes and the layout of weights are
left out here and modelled layer by layer in section 6.

## 5. Structures of arrays

### Model

A layout is generated by macros that expand once per column, in three loops:
`computeDataSize` sums the bytes a client has to allocate,
`organizeColumnsFromBuffer` places the columns, the stream operator prints where
they should be.  The three repeat the same arithmetic and nothing but review
keeps them equal.

| module | models | corresponds to |
|---|---|---|
| `SoALayout` | the three loops, one step per macro expansion, over any number of blocks; construction from a buffer and its alignment checks | `struct_of_arrays.h`, `struct_of_arrays_blocks.h` |
| `StructOfArrays` | memory as bytes; views of a storage, views made of columns of several storages, element access, element assignment and `deepCopy`, one step per column | the view macros, `struct_of_arrays_common.h` |
| `SoATable` | the abstract specification: tables with independent cells | what the library's users count on |

The state is `sizes_`, `buffer` and `layout` of each storage, the loop in
progress with its locals (`loop`), the columns of each view, and `memory`.  A
byte has an identity only (bytes nobody wrote are all different, bytes written by
a call carry that call), so that one out of place is noticed.  `from`, which no
operation reads, remembers which column of which storage an address came from:
it gives the refinement to `SoATable` its mapping.

### What is checked

| run | question | instance |
|---|---|---|
| `soa` | Do the loops agree, are the columns apart, aligned and inside the buffer, do accesses, merges and copies touch the cells they name and no others? | two storages, two views, two blocks: a scalar, a column of 2-byte elements and an Eigen vector of 2 components; one column; 225585 states |
| `soa_deep_copy` | Does `deepCopy` copy the rows of an Eigen column when the destination has another stride? (It does not.) | the same, three rows or one |

`OffsetsAgree` (the running sums of the two other loops are where the placement
put each column and its end), `OnlyMisalignedThrows` (the constructor's check of
its own end pointer can never fail), `PlacementSound`, `DeepCopyCopies` (an
action property) and `ImplementsTable` (refinement: no access through a view,
whatever columns it was made of, shows or changes a cell but the one it names).

Bounds.  Element counts 2 and 1, 1 and 2, 1 and 0: odd counts leave padding,
counts 1 and 2 have the same stride and differ in rows, and a block may be
empty.  `Alignment` is 2; a buffer may start on an odd address or an even one;
one type of storage and one of view enforce the alignment, the others do not.
Three views are made (`MaxMade`), so one is made of columns of both storages;
after that one read, write or copy (`MaxCalls`): calls keep no state but the
memory, whose every content with different bytes is like every other, and the
refinement judges each call by itself.  Everything is sequential, so no fairness
is stated; a run of calls ends, so deadlock is not checked.

Finding.  `deepCopy` of an Eigen column copies one run of bytes whose length is
counted with the *destination's* stride, from a source whose components lie the
*source's* stride apart.  `deepCopy` requires no more than that the destination
holds at least as many rows; with more rows to spare than one unit of alignment
the components end up in the wrong rows.  `soa_deep_copy` shows it; `soa` keeps
clients to equal strides (`AnyStride = FALSE`).

### What is proved

`StructOfArraysProofs.tla`, for any blocks, columns, sizes, alignments, buffers
and views, from `BlocksAssumption`, `AlignmentAssumption`, `ClientsAssumption`,
`NoneAssumption` and `BoundsAssumption`.  `AlignSizeRoundsUp` and `EigenFits` are
the arithmetic.

*Placement.*  The invariant says that there is one table of offsets
`o[s][b][c]` which the client's sum made and which the placement, the check and
the printout all follow.  The table is existentially quantified: it grows a
column at a time, so that no induction over the columns is needed.  From it
follow `StructOfArraysType`, `LoopsAgree`, `OnlyMisalignedBuffersThrow` and
`ColumnsSound`.

*Access.*  `UseInv` adds what the views rely on: buffers share no byte
(`BuffersApart`, the client's allocator's promise, kept by `Allocate` and
`Clone`), every column of a view is a column of a complete storage with the
view's rows (`ShowsColumn`; for a merged view this is what its constructor's
comparison with the first column buys), a copying loop stands at a column that
is there, between rows that are there, and no byte is one a client has yet to
write.  From it and the placement, two different cells have no byte in common:
`PlacementsApart` for two columns, `OffsetInjective` for two elements of one,
the components of an Eigen element included.

* `DeepCopyArrives` (`DeepCopyCopies`): `CopiedSoFar` says that the columns the
  loop has passed hold the view's rows; a step copies the next (`ColumnArrives`)
  and leaves those behind and the view's own columns alone (`CopyLeavesRegions`).
* `TableImplemented` (`ImplementsTable`): one lemma per operation (`LookRefines`,
  `MergeRefines`, `GetRefines`, `SetRefines`, `AssignColumnRefines`,
  `CopyColumnRefines`, ...) shows that its step is a step of `SoATable` or a
  stutter: the cells it names change as it says (`ElementShown`, `WriteArrives`)
  and no others do (`CellsChanged`, `SpreadAt`).

Both theorems assume `AnyStride = FALSE`, that Eigen columns are only copied
between equal strides; the code does not check it, and without it
`DeepCopyCopies` is false (the finding above).  Every other theorem holds for
both values.

### Not modelled

Const and mutable views differ in types only; range checking is taken as
enabled (without it an index out of range is undefined behaviour); the text of
the stream operator; overflow of `size_t`.

## 6. Kernels and launches

### Model

| module | models | corresponds to |
|---|---|---|
| `NNKernels` | for each kernel, what one iteration of its loop writes and what it reads, by offset | `nn/*.h`, `nn/functional/*.h` |
| `LayerSemantics` | what a layer means, by coordinates; the reference | ONNX operators, PyTorch modules |
| `LayerCodegen` | the kernel type and buffer size the compiler writes for a layer, from shapes as they are (`-O0`) or folded (`-O1`) | `ops.py`, `parser.py` 95-103, `opt.py` 134-159, `codegen_ops.py`, `codegen.py` |
| `KernelLaunch` | a layer compiled or called directly, a work division, and every thread of the grid striding over the elements in any order | `workdivision.h`, the launches in `model.h.j2` |

Values are symbolic: the sum of these products, the maximum of these cells.  A
kernel computes the layer when it applies the same operation to the same cells.
Floating-point arithmetic is out of scope.  What is computed in `size_t` and can
be negative on the way, an output extent and the end of an average's window, is
taken modulo `WordSize` (1024 in the run); offsets into buffers are not, because
no buffer is that large.

### What is checked

Run `kernels`: 10961 states over layers of every operator, plain and at their
edges (padding, strides, fused activations, dynamic and static batches, shapes
folded or not, attributes the front end does not read, kernels
only callers of the library use), and every small combination of input,
window, stride and padding of the convolutions and pools, on grids of one
thread, of more threads than elements, of chunks that divide nothing, and the
grids the generated code makes for GPU and CPU.

`InBounds`, `OutputsAreTheLayers`, `WrittenOnce` and `LaunchFinishes` (liveness,
under weak fairness of the launch and of *some* thread taking a step: the
accelerator runs its threads, in whatever order).  The launch ends, so deadlock
is not checked.

As in section 4 the preconditions are part of the result.  `SameExtents` is what
keeps accesses inside their buffers: symmetric pads, no dilation, no `auto_pad` but one that
pads nothing, no `transA` (the front end reads two of four pads and none of the
others and compiles the layer all the same), a dynamic batch of this layer if
that of any input of the model is (`BatchSize` is one for the whole model),
explicit axes of a `ReduceMean`, operands of one shape.  `Supported` adds what
makes the values right: a batch of one image or a dynamic one, a bias, weights
stored by output row (`transB`), `alpha` and `beta` of one, one group, padding counted in averages and not
wider than the window, the softmax of a matrix, the clip of a ReLU6.  Layers
outside are in the run, each is compiled, and each condition is needed for one.

Bounds.  Two images, two channels and extents up to 6: more do not change which
cells a window covers, and the theorems hold for all extents.

### What is proved

`KernelProofs.tla`, for any layers, grids and order of threads, from

* `LaunchAssumption` and `LayersAssumption`: extents are numbers and the rows of a
  row kernel are apart (`ContiguousRowsApart` proves the latter of the softmax over
  the last dimension);
* `BuffersAssumption`, what comes in from outside the program.  For a node of a
  model, what `check_model(full_check=True)` and `infer_shapes` leave (`parser.py`
  85-86): ranks that fit the operator, positive extents except a dynamic batch,
  weights that match the input, windows that leave an output, padded extents that
  a `size_t` holds, and an activation only where the middle end fuses one
  (`WellFormed`).  For a caller who names a kernel himself, that the buffers of the call are as
  long as the kernel's extents and strides reach (`BuiltFor`).

The invariant gives every element an owner, the
thread `(i \div E) % NT` in whose chunks it lies: a thread has computed its own
elements up to where it stands and no others.  From it `LaunchType`,
`LaunchWritesOnce`, `LaunchComputesAll` (when the launch is done no element was
left out).  About single kernels, for all extents: `AdaptiveWindowOverlaps`,
`TapsAreCovered`, `ClampedIsCovered` (the windows are the cells their definitions
name) and `ConvStaysInside`, `PoolsStayInside`.

`LaunchStaysInBounds` is `InBounds` itself, in two halves.  `StepWithin`: a step of
any kernel reads and writes inside the buffers the kernel is `BuiltFor` - divisions
and remainders of an index give coordinates, and coordinates below their extents
a flat offset below the product.  `KernelFits`: the compiler builds the kernel of a
node for the node's tensors; the emitters' argument lists are followed through the
binding of template arguments by position and by default (`BindIs`) to the
extents, and these are compared with the shapes the buffers are allocated from.  It
is where `SameExtents` is needed: `OutExtent` of the kernel is `Spatial` of ONNX
(`SpatialIs`) exactly because the pads are symmetric and nothing is dilated.
The assumption says nothing of the kernel of a node: that it fits is the result.
`OutExtent` is computed modulo `WordSize`, which `SpatialIs` discharges from
the window fitting into a padded image whose extents are below it.
`Size` is a recursive function, so what it yields for matrices and images is
unfolded (`Size2`, `Size4`), and for a softmax of any rank, whose vector is the last
factor of its size (`LastFactor`) and at `-O1` the folded volume (`FoldedIs`), follows
from a least counterexample (`SizeOfTail`).

`CompiledOutputsAreTheLayers` is `OutputsAreTheLayers` for every layer the compiler
builds: whatever extents, batch, grid and order of the threads, an output that has
been written is the ONNX operator's value at its coordinates.  The argument goes by
operator (`ConvMeaning`, `PoolMeaning`, `AdaptiveMeaning`, `GemmMeaning`,
`SoftmaxMeaning`, `ElementWiseMeaning`, joined in `CompiledSteps`), each in three
parts: what the alias binds (`ConvEmitted` and its like, which `KernelFits` rests on
too); the decoding of a loop index gives the coordinates whose offset it is, and
there is one such coordinate (`TensorElement`, `ImageOutput`: `Meaning` names the
coordinate by `CHOOSE`, so uniqueness is what has to be shown); and the cells the
kernel's window visits are the cells the operator's window covers (`TapsAre`,
`AveragedCells`, `GlobalWindow`), so that the reads, by offsets, are the elements, by
coordinates.  The average over a window also compares divisors, which is a count of
cells: without padding the cells are as many as the window has (`WindowSize`).

`OutputsFollowTheCalls` extends this to `OutputsAreTheLayers` whole: for a caller who
names a kernel himself it assumes that each step of that kernel, taken alone, is what
the call means (`CallsMeanTheLayer`; TLC checks it on the calls of the run, where
`OutputsAreTheLayers` covers every step), and the threads and grids are proved away.

Only model-checked: `LaunchFinishes` (liveness), and the steps of the kernels no
compiled node reaches (norms, `MatMul`, the softmax over another dimension, ...), whose
extents are the caller's.

### Not modelled

Tensors of other ranks than `WellFormed` names: convolutions and max pools of
another rank are refused or do not compile, averages over three spatial dimensions
are compiled as if they were two and left out.  The extra cells `ceil_mode` adds
count as padding, so that an average with `ceil_mode` and one that includes its
padding are not told apart.  A bias of a shape that is broadcast, work divisions
of several dimensions, shared memory, and numbers.

## 7. Programs on queues

### Model

`QueuePrograms.tla` is a host thread that makes collections, fills them, copies
between them, calls algorithms and destroys them, on several queues that run
their tasks later and know memory by address only.  `slot` holds the
collections, `memory` the blocks, `queue` the outstanding tasks, `host` what the
thread waits for.  `meant` is the specification: what the same calls would have
left behind had each been done at once.  A buffer returned while a task still
uses it, a task that keeps the address of a dead buffer, a call that reads a
result before the queue has produced it make `memory` and `meant` differ.

A build is a back end and an allocation policy; together they decide, as
`alloc_policy.h` and the buffer factories do at compile time, which buffers go
back in the order of their queue (`QueueOrdered`) and which calls wait
(`WithQueue`: CUDA's `par_nosync` against HIP's `par`, the CPU's wait before the
host runs the algorithm).  A blocking CPU queue is a schedule in which each task
runs at once.  The allocator enters by what section 3 shows of it: a block given
back on a queue is handed out again on that queue, or after its release ran.

The model states what clients have to see to, which no comment in the code says:
two calls that use the same memory, one of them writing, are on one queue or
separated by a wait (`ClearOf`), and a device buffer returned in queue order is
used on its queue only (`OwnQueue`), or without a queue once that one is idle
(`OwnQueueIdle`).  The last is easily missed.  A new collection may get the block
of one whose tasks have not run; the order of its own queue protects it from
them, but not when an overload without a queue writes it, which on any memory
of its own would be safe.  Without the rule programs of six calls go right, and
one of seven goes wrong.

### What is checked

Run `queue`: 1753224 states.  `MemoryFollowsTheProgram` (once nothing that
writes a collection is outstanding its columns hold what was meant),
`AnswersFollowTheProgram` (an algorithm that returns a value returns it for the
data meant at its place in the program, although it is computed later) and
`TypeOK` (no block has two owners, nor is one that is owned on its way back).

Bounds.  Six calls, one of them an algorithm, three collections of two columns,
two queues, four builds (every back end and every policy), two device blocks,
one pinned, one pageable.  Six calls are enough to make, fill and copy to the
device, destroy, make anew in the same block and read back; blocks are scarce so
that they are reused at once.  Queues, collections and device blocks are
symmetric; only safety is checked, without fairness.  Programs end, so deadlock
is not checked.

### What is proved

All three, for any number of queues, collections, columns, blocks and calls, from
`QueueAssumption` (kinds of buffers do not share memory, there is some, a CPU
build allocates synchronously).

`QueueProgramsProofs.tla`: `BlocksHaveOneOwner`, that is `TypeOK`.  The steps are of
three kinds, those that neither touch a collection nor queue a release, those
that give a collection a block, and the destructor; `Counts`, `Owned` and `Shapes`
are the parts of the invariant.

`QueueMemoryProofs.tla`: `MemoryAlwaysFollows` and `AnswersAlwaysFollow`.  Neither
property is inductive: both are silent while tasks are outstanding.  The
invariant, `World` of `QueueMemory.tla`, says that there are, for each queue, a
sequence of stores `G[q][0]`, ..., `G[q][n]`, what the collections are meant to hold
before the first and after each of the `n` tasks, and for each collection a block
`be`, the one it has or had when its tasks were queued, such that

- each task does to `G` what its call means (`Chain`), is bound to the blocks of
  `be` (`Tasks`) and is meant to return what it finds in `G` (`Answers`); the queue
  ends with what is meant now (`Ends`, `Keeps`);
- memory is as good as `G[q][0]` for what the tasks of `q` use (`Starts`) and as good
  as `meant` for what none of them writes (`Holds`), where what is undefined may be
  anything;
- tasks of two queues share nothing that one writes (`Separate`);
- when a block has a second owner while tasks of the first wait, the second is
  a device collection of the same queue, no task up to the last of the first
  uses it, and until then nothing is meant to be in it (`ReusedLater`,
  `UsedInTurn`, `OwnQueues`); if it has none, a release waits behind the tasks
  (`ReleasedLater`).

`QueueMemory.tla` proves what running a first task, appending, an operation of the
host, taking a block and giving it up do to `World`, for any stores and queues;
`QueueMemoryProofs.tla` has one lemma per kind of action, and treats what the host
does after a wait as one more task of the queue it waits for (`Lined`), because
nothing can be queued while it waits.  That the last clause of `ReusedLater` has
to hold is how `OwnQueueIdle` was found.

Only model-checked: nothing of this section; the run covers small programs and
shows that the invariants are not vacuous.

### Not modelled

Moves of collections, `size_cast`, portable objects, the temporary storage
inside Thrust, threads that share a queue.  `copyAsync` of a whole collection or object
passes its arguments in an order no constructor takes: it does not compile when
it is instantiated, so there is nothing to model (that of a single buffer is
`CopyToDevice`; on a CPU queue, where the model has no device buffers, it is left
out: its copy would be one more buffer without a queue, for which `ClearOf` makes
the client answer).
