# A verification project for hmCUDA

hmCUDA lets CUDA programs in a QEMU guest use the GPU of the host. Stub
libraries in the guest turn every CUDA call into a request; a kernel driver
carries the request over a virtqueue; a vhost-user daemon on the host makes the
real CUDA call and answers. This directory holds TLA+ models of that path, TLC
configurations that check them on small instances, and proofs that TLAPS checks
for every instance.

- [Inventory](#inventory): the parts of the system, and what makes each correct
- [Modules](#modules): what models what
- [Runs](#runs): what is checked, with which bounds, under which fairness
- [Proofs](#proofs): what is proved and how
- [Findings](#findings): where the code and its comments disagree
- [Limits](#limits) and [Plan](#plan): what is left out, and what comes next

To check a configuration: `tlc -config Channel.cfg MCChannel.tla`. To check the
proofs: `tlapm HmcudaChannelProofs.tla`. Paths below are relative to `src/`.

## Inventory

| Part | State | Operations | Talks to |
|---|---|---|---|
| Guest libraries, `guest/intercept/` | registered kernels (`g_func_map`), live device addresses (`g_device_handles`), last error | one function per CUDA call; kernel registration at load; routing of copies | transport, by calls; two libraries in one process share the transport |
| Guest transport, `guest/transport/` | file descriptor; registry of `cuMemHostAlloc` buffers with `gpu_dirty` | init, fini, dispatch (one ioctl per request), mark/clear/sync of a buffer | kernel driver, by ioctl |
| Kernel driver, `driver/virtio_hmcuda_main.c` | one mutex, one completion, one virtqueue; per call: two buffers, pinned pages | ioctl (simple command or copy in batches), interrupt callback, probe, remove | daemon, by virtqueue, kick and interrupt |
| Size tables, `driver/cmd_*.c` | none | request and response lengths of a command | driver |
| Daemon loop, `host/vhost/vhost_user_hmcuda.c` | the popped element | pop, dispatch, respond, push, notify; exit when the connection ends | driver; handlers |
| Handlers, `host/vhost/cmd_*.c`, `core_*.c` | `g_guest_mem_registered`; CUDA's own state | one per command | resource table; CUDA |
| Resource table, `host/vhost/resource.c` | contexts, handles to CUDA objects | add, look up (by range for memory), remove, destroy all | handlers |
| Wire format, `common/include/` | none | structures of requests and responses | all |
| NVML stub, scripts, samples | none | | |

What is hard here, part by part, and the property that would catch it:

- **Request channel.** Any number of guest threads and processes share one
  mutex, one completion and one virtqueue. The driver never looks at what
  `virtqueue_get_buf` returns, so it relies on the used element being its own;
  it frees its buffers and unpins pages right after waking up, so it relies on
  the daemon being finished; it waits uninterruptibly with the mutex held, so
  it relies on the wakeup coming; it takes a zero in `resp_buf` for success, so
  it relies on the response having been written there. Properties: own answer, buffers outlive the
  daemon's use, pins balance on every error path, calls return, and the ioctl
  as a whole executes each request once and in order.
- **Life of the device.** `remove` frees what every call works on, and nothing
  but the module's use count keeps it away; each of two libraries closes the
  file the other uses; the device node exists before the ring does; the daemon
  may exit with a request in its hand. Properties: the device outlives every
  call, nothing is left behind, calls return as long as the daemon lives.
- **Copy data path.** A copy is split into batches of pages, adjacent pages are
  joined into one scatter-gather entry, and the daemon may see an entry cut in
  pieces; what goes to a `cuMemHostAlloc` buffer it searches, piece by piece,
  for pointers. Of the five kinds a copy can have, driver and daemon know two.
  Properties: at every moment a prefix of the range has been moved, byte to
  byte, and its words searched where they are to be; what is reported is so.
- **Routing.** CUDA knows which pointers are the device's; the guest libraries
  go by the kind they are given or by a set of addresses, and that chooses
  between different handlers. Property: a copy that succeeds has moved what the program
  sees.
- **Asynchrony.** The daemon queues copies on CUDA streams and answers. What
  has really happened when a library call returns, or a synchronization does,
  depends on whether guest RAM is page-locked. Properties: what is over when.
- **Host memory in two copies.** A `cuMemHostAlloc` buffer exists in the guest
  and in the daemon, and `gpu_dirty` says which is newer. Property: CPU, copy and
  kernel never read the older one.
- **Resource table.** Handles, CUDA objects and contexts are created and
  destroyed by different paths (INIT of another process, reset of the primary
  context). Properties: a handle never resolves to a dead object nor to another
  object than the one it was given for; ranges of device memory stay apart; no
  object is forgotten or destroyed twice.
- **Kernel calls.** A launch is three calls, over one stack of configurations
  for everybody, into a list of functions that loads, unloads and INITs of many
  processes have left. Properties: the right function, the configuration asked
  for, an error if nothing was launched.
- **Sizes.** Five lists of commands and lengths must agree: library, transport,
  first and second pass of the driver, handler. Properties: nobody reads or writes
  beyond what the others provide, a successful answer is whole, a kernel gets as
  many arguments as it has parameters.

`PROJECT.json` lists every hazard at its line with the property that covers it,
or the reason why none does.

## Modules

```
MCChannel   --> HmcudaChannel --INSTANCE--> HmcudaRpc     (abstract ioctl)
                    ^-- HmcudaChannelProofs               (TLAPS)
MCLifecycle --> HmcudaLifecycle                           (driver, files, daemon)
                    ^-- HmcudaRoutingLifecycleProofs      (TLAPS)
MCCopy      --> HmcudaCopy --INSTANCE--> HmcudaTransfer   (abstract copy)
                    ^-- HmcudaCopyProofs                  (TLAPS)
MCDma       --> HmcudaDma                                 (CUDA streams and pins)
                    ^-- HmcudaDmaProofs                   (TLAPS)
MCRouting   --> HmcudaRouting                             (which way a copy goes)
                    ^-- HmcudaRoutingLifecycleProofs      (TLAPS)
MCHostMem   --> HmcudaHostMem                             (gpu_dirty)
                    ^-- HmcudaHostMemProofs               (TLAPS)
MCResource  --> HmcudaResource                            (handles and CUDA objects)
                    ^-- HmcudaResourceProofs              (TLAPS)
MCLaunch    --> HmcudaLaunch                              (kernel calls)
                    ^-- HmcudaLaunchProofs                (TLAPS)
MCSizes     --> HmcudaSizes --> HmcudaWire, HmcudaParams  (lengths)
                    ^-- HmcudaSizesProofs                 (TLAPS)
```

All look at the same requests, at different scales. `HmcudaChannel` has every
step of the ioctl and of the daemon's loop, and no data: a request is known by
its owner and batch number. `HmcudaCopy` has every byte of one copy and no other
thread, which `HmcudaChannel` justifies: a batch's buffers and pages belong to
that batch alone until it is reaped. The others take an ioctl as at most send,
serve and return, which `HmcudaRpc` justifies; what is between the calls of a
library function, and what happens after the answer, they keep.

**HmcudaRpc** is what an ioctl promises its caller. A call consists of `plan`
requests (one for a simple command, one per batch for a copy, none for a copy of
zero bytes). The host serves them in order, each at most once, only inside the
call, and none after a failure that was heard; "ok" means all were served and no
failure was heard. Every failure is heard but those of a *stray* copy: a
`cudaMemcpy` whose kind is neither 1 (to the device) nor 2 (back). The host fails
each of its requests, and the call goes on to the last one and returns "ok".

**HmcudaTransfer** is what a copy promises the library that asks for it. It moves
bytes from the start of the range on, each from or to where it lies in guest
memory; after an error of the daemon it moves nothing more; it returns "ok" only
when everything has been moved, and CUDA's error exactly if the daemon had one.
A stray copy moves nothing and never returns CUDA's error, although the daemon
fails it.

**HmcudaChannel** is the ioctl (`driver/virtio_hmcuda_main.c:191-420`), the
interrupt, and `hmcuda_process_vq` (`host/vhost/vhost_user_hmcuda.c:85-183`).

| State | In the code |
|---|---|
| `pc`, `kind`, `plan`, `batch` | where a thread is; simple, copy or stray copy; the number of batches; `byte_offset`, counted in batches |
| `pinned`, `resp` | the batch's pages are pinned; contents of `resp_buf` (which request it answers, `cuda_error`) |
| `lock`, `done` | `hdev->lock`, `hdev->completion` |
| `avail`, `used`, `kick`, `irq`, `handler` | the two halves of the ring; the two eventfds; `vring_interrupt` between its check of the ring and the callback |
| `host` | the loop's step, the popped element, its `cuda_error` |
| `served`, `failed` | history: requests of the call executed, and whether the last one failed |

`Refuse`, `Begin`, `CopyOut`, `ReturnErrno` enter and leave the ioctl.
`PinPages`, `PinFails`, `LoopDone`, `Unpin` are the batch loop; `Lock`,
`AddAndKick`, `AddFails`, `Wake`, `GetBuf` are one request under the mutex, the
same for a batch and for a simple command. `InterruptEnter` and `VqCallback` are
the interrupt in its two steps. `HostWake` ... `HostNotify` are the daemon.
`HostRespond` writes the response where the code does: into `resp_buf`, or, for a
stray copy, into the data pages (`vhost_user_hmcuda.c:161-170`), which leaves
`resp` as `kzalloc` made it. `Heard` tells the two apart.

**HmcudaLifecycle** is what surrounds the ioctl: `virtio_hmcuda_probe` and
`virtio_hmcuda_remove` in their steps, the use count of the module (`InUse`),
`hmcuda_transport_init` and `_fini`, the daemon's `main` up to its one `accept`,
its exit, and `panic_cb`. A call is `Dispatch`, `Submit`, `Return`; `hdev`
numbers the devices that probes have made, so that a file of an earlier one
would show. Module loading, files and QEMU's device are the kernel's and QEMU's
and external.

**HmcudaCopy** is the arithmetic and the loops of `hmcuda_do_memcpy_gup` and of
the daemon's segment loops. A copy is a record: command, kind, whether its device
side is a `cuMemHostAlloc` buffer, user address, length and page table. `StartBatch` sizes and pins a batch, `Coalesce` is one turn of
the coalescing loop, `Submit` puts the request on the ring, `HostChunk` moves
one segment, `Reap` ends the batch. `moved` records which physical byte went to
or came from which offset of the device buffer; the direction makes no
difference to that. An entry that crosses a boundary of the daemon's memory map,
which lies between pages, is handed to it in pieces; any page boundary may be
one. `scanned` records at which words `hmcuda_patch_embedded_host_ptrs` looks,
which is in what `CU_MEMCPY` takes to a `cuMemHostAlloc` buffer and nowhere else
(`Searched`; `core_driver.c:431`): the handler of `cudaMemcpy` to the device
(`core_runtime.c:163-179`) and those of copies back do not search. The daemon
fails each batch of a `Stray` copy, and `HostRespond` writes its response over the
first `HeaderSize` bytes of the batch (`spoiled`); `resp` is `cuda_error` in
`resp_buf`, by which `Reap` goes on or ends.
`Offsets` gives, for a list of entries, where in the batch each of them ends.

**HmcudaDma** has one state variable for CUDA: per stream, the queue of
operations that are not over. An entry is a transfer that still needs its
owner's pages, or an event. A thread has one event; recording it again moves it
and leaves a `PastEvent` in its old place, which nobody can wait for. `ServeCopy` queues; `ServeCopyAtOnce` is every case
in which the pages are not needed any more when the daemon answers (an error, a
copy by the CPU from or to `cuMemHostAlloc` memory, a staged pageable source).
`ServeRetain` is the one attempt to register guest RAM. `ServeWait` and `Waited`
are requests that block the daemon.

**HmcudaRouting** is `cuMemcpyAsync` of the guest's driver library, `cudaMemcpy`
of its runtime library, the driver's choice of which pointer to pin, and the
daemon's lookups (`resolve_any_mem`). `handles` is `g_device_handles`; `mem` and
`host` are the daemon's lists; `device`, `guest` and `real` are contents. `Route` and `RouteOf` are the decisions of the two libraries; `Push`, `Pull` and
`Between` are the three handlers that copy, and `Spoil` is what becomes of a
`cudaMemcpy` of another kind: its destination has `Response` where the response
was written. A program may give any of `Kinds` with any two pointers; `CopyFails`
is a copy that fails by accident.
`last` remembers a copy together with what its caller saw at the source before.

**HmcudaHostMem** is the registry of `guest/transport/hmcuda_transport.cpp:215-283`,
everything in both libraries that uses it, and the daemon's `HOST_MEM` list.

| State | In the code |
|---|---|
| `size`, `dirty` | `g_host_mem_map`: `size` and `gpu_dirty` |
| `guest`, `host` | memory at `guest_va`; entries of the list, with the memory at `real_ptr` |
| `call` | the `cudaLaunchKernel` a thread is in, and the arguments it has still to sync |
| `queue` | external: operations of the stream that have not run |
| `newest`, `known` | history: what one memory would hold; where failures and lost sessions have not made that unknown |

Contents are versions: the higher is the newer. The comments of the code promise
the program one memory, but no code can keep that promise for every program. So
the properties are stated for programs that keep **the discipline** (`Careful`):

1. a program does not access memory that one of its own calls, or a queued
   operation, is working on;
2. its CPU does not touch a buffer that a kernel has had as an argument, until a
   copy from or to the buffer has cleared `gpu_dirty`;
3. it copies such a buffer as a whole and with the driver API, and from it only
   when the kernels are over;
4. it passes buffers to kernels by their own start address, each to one launch at
   a time, and none that a queued copy is still to fill.

Rules 2 to 4 are not CUDA's. What happens to programs that break them, and that a
comment of the code speaks of, is under [Findings](#findings).

**HmcudaResource** is `host/vhost/resource.c` and the handlers that create and
destroy what it lists. The daemon serves one request at a time and all guest
processes under one session number, so a handler is one action and there is one
table.

| State | In the code |
|---|---|
| `up`, `table` | the `Context`, and its lists, newest entry first |
| `next` | `g_next_handle`, which outlives contexts |
| `live` | external: the objects CUDA has |
| `attempted`, `ram` | `g_guest_mem_registered`; external: whether guest RAM is page-locked |
| `lost`, `stale` | history: objects the table gave up; whether CUDA was given a pointer to an object that is gone |

`Create`, `Allocate` and `RegisterFunction` add an entry with the three kinds of
handles there are: a counter's value, a device address, a guest address.
`Release` is look up, destroy, remove, in that order and whatever CUDA answers.
`InitSession` is INIT, which every library sends when it is loaded;
`Retain` and `RetainResets` are `primary_ctx_retain` without and with the device
reset. Handlers that only look an object up change nothing and are not actions:
what a lookup finds in any state is what `EntriesAreLive` and `RangesDisjoint`
say.

**HmcudaLaunch** is registration, launch configuration and launch, in
`guest/intercept/hmcuda_runtime.cpp` and `host/vhost/core_runtime.c`. `table` is
`g_func_map` and remembers of which image it counted the parameters; `modules`,
`functions` and `streams` are the daemon's lists; `stack` is CUDA's, of the
daemon's one thread. Every call may fail before or after the daemon has executed
it. `RegisterFatBinary`, `RegisterFunction`, `Unload` are what a library does at
load and unload; `Push`, `Pop`, `LaunchKernel` are the three calls that nvcc
makes of one kernel call; `Start` is a process that ends at any point and the
INIT of the next. `accepted`, `asked`, `disturbed`, `ran` are history.

**HmcudaWire** computes the length of every structure from its members (`Ends`,
`SizeOf`: the rules of the x86-64 ABI);
**HmcudaParams** is `count_params_from_mangled`, against what the demangler makes
of a signature (`Demangled`; a name is a sequence of `Tokens`, and `IsType` says
how a type is written); **HmcudaSizes** takes one call of every command through the
libraries, the transport, both passes of the driver, the daemon's lookup of the
handler and back. Each list of commands is written down as its own file has it;
`List` gives the lengths, and `Together` joins the lists of several files.

Modules also hold *seeded faults*: variants of single definitions, each a
plausible slip (a forgotten `mutex_unlock`, a missing page-frame comparison).
They are not part of any specification. Putting one in place of the definition
it varies must make a property fail, which shows the property has teeth.

## Runs

| Run | Instance | Shows |
|---|---|---|
| `Channel.cfg` | 2 threads, copies and stray copies of 0 to 2 batches | safety of the channel and its inductive invariant; refinement of `HmcudaRpc`; every call returns |
| `Lifecycle.cfg` | 3 threads of 2 processes, 2 probes, 2 exits | the device outlives calls; nothing is left behind; calls return while the first daemon lives |
| `Copy.cfg` | 4-byte pages of 2 words, 3 to a batch, a response of 3 bytes; 4 addresses, 8 lengths, 5 page tables, all commands and kinds | a copy moves a prefix; it implements `HmcudaTransfer`; no aligned pointer in what is searched is overlooked; it ends |
| `CopyResponse.cfg` | 2 addresses, 2 lengths, 5 page tables | **violated**: the driver reads a `cuda_error` that the daemon has not written |
| `Dma.cfg` | 2 threads, 2 streams, 2 queued operations each | synchronizations cover what came before them |
| `DmaUnpin.cfg` | the same | **violated**: pages are unpinned before the device is done |
| `Routing.cfg` | 2 device addresses of 2 cells, 1 plain and 1 page-locked host buffer, kinds 1, 2 and 4 | copies of kind 1 and 2, and between starts, move what the program sees |
| `HostMem.cfg` | 2 threads, 2 words, 3 versions, 2 queued operations, 2 entries | with the discipline, two copies act as one |
| `Resource.cfg` | 2 pointers (symmetric), 2 device addresses, 2 handles, 1 function | table and live objects agree; a handle never switches objects |
| `ResourceReset.cfg` | the same | **violated**: what a reset has destroyed is destroyed again |
| `Launch.cfg` | 2 threads of 2 processes, 1 stub, 2 images, 2 configurations, 2 handles, 2 on the stack | right function, right configuration, an error if nothing ran |
| `Sizes.cfg` | every command, 5 counts, 6 text lengths, 630 signatures with up to 2 parameters | the lists of lengths agree; answers are whole; ordinary kernels get their arguments |

Further configurations, each of which TLC refutes with the behaviour told under
[Findings](#findings):

| Configuration | Property |
|---|---|
| `DmaSync.cfg` | `CuMemcpyIsSynchronous` |
| `CopyHostAlloc.cfg` | `HostAllocIsBacked` |
| `ResourceRam.cfg` | `RamStaysRegistered` |
| `HostMemPush.cfg` | `CpuWritesPushed` |
| `HostMemOverwrite.cfg` | `KernelDataNotOverwritten` |
| `SizesText.cfg` | `TextDelivered` |
| `SizesVoid.cfg` | `KernelsGetArguments` |
| `RoutingSuccess.cfg` | `SuccessMeansCopied` |
| `RoutingDevice.cfg` | `DeviceToDeviceServed` |
| `LifecycleReload.cfg` | `ReloadRecovers` |

Every inductive invariant that is proved is also checked: `ChannelInv`,
`LifecycleInv`, `DmaInv`, `ResourceInv` and `HostMemInv` in the runs above,
`CopyInv`, `LaunchInv`, `SizesInv` and the `TypeOK` of `HmcudaRouting`, which is
inductive as it stands, by `CopyTypes.cfg`, `LaunchTypes.cfg`, `SizesInv.cfg` and
`RoutingTypes.cfg`. The type invariants are parts of them, or follow. `CopyTypes.cfg`
also checks `Reported` and `OkMeansAll`.

**Bounds.** `Channel.cfg`: two threads are enough for a thread to find another's
request on the ring, and its safety is proved for any number. Two batches are
enough for the batches of two copies to interleave and for an error between
batches; 0 and 1 are the boundary cases. `Lifecycle.cfg`: two threads of one
process and one of another give calls behind calls on the mutex, and a file
closed under either; two probes give a device after a removed or failed one; two
exits give a daemon restarted under a running guest, and a guest restarted under
a running daemon. `Copy.cfg`: the lengths cover nothing, part of a page, ending
on and one past a page and a batch boundary, and three batches; the page tables
are all adjacent, none adjacent, descending, adjacent in pairs, and a run in the
middle; a response is longer than the shortest copy and shorter than a page.
`Dma.cfg`: two queued operations allow a transfer before and an event
after it on the same stream, and a transfer of the other thread in between on
another; `MaxQueued` is a bound of the model, CUDA's queues are longer.
`Routing.cfg`: two addresses allow both ends on the device and memory of both
APIs; the second cell is every pointer that is not a start; two values tell a
copy made from one not made, and `Response` is one of them, as it may equal what
was there; kind 4 stands for every kind but 1 and 2, which the code does not tell
apart (`RoutingDevice.cfg` has kind 3). `HostMem.cfg`: two
words are one buffer of two words, of which a failing copy moves one, or two
buffers, or one that comes to lie over the rest of another; three versions
tell a CPU write, a kernel's and a copy's apart; two entries allow a left-over
one under or over a live one. `Resource.cfg`: two pointers and two handles let
an object be destroyed and its pointer come back under the next handle while
another object lives; two addresses allow two adjacent ranges, one range with an
interior pointer, and either after the other. `MaxHandles` bounds the counter,
which in the code is 64 bits wide and cannot wrap in practice. `Launch.cfg`: two
handles are a module and a stream, or one stream after another; two on the stack
are a left-over configuration under a live one; two images are a library loaded
in the place of another. `Sizes.cfg`: one call at a time, since calls share no
lengths; counts and texts lie at 0, 1 and around the 256 bytes of the buffers.

**Fairness.** Properties of safety assume none. `CallReturns` assumes that a
thread inside the ioctl keeps running (weak fairness of `Proceed`), that raised
interrupts are delivered, that the daemon lives and runs, and that a thread
waiting for the mutex gets it if it is free again and again (strong fairness of
`Lock`: the kernel's mutex hands itself over to a waiter that keeps losing it).
No thread is obliged to make a call, and no failure is obliged to happen or not
to. `Terminates` of `HmcudaCopy` assumes only that driver and daemon keep
running. `ServedWhileConnected` assumes that a probe that has registered the
device finishes, that the daemon's loop runs while it lives, and that a woken
thread returns; nothing obliges a daemon to be started, to be connected, or not
to die. `ReloadRecovers` adds the user who follows the advice of
`scripts/check_vhost.sh` whenever that is possible, and programs that end when
they can; it is violated all the same.

**Deadlock** is checked in every run. A finished copy stutters explicitly
(`Finished`); everywhere else there is always something that can happen.

## Proofs

`HmcudaChannelProofs` proves, for any set of threads and any `MaxBatches` >= 1,
from `ChannelAssumption` (a bound that is a positive number, and an "owner" for
the free mutex that is no thread):

| Theorem | Statement |
|---|---|
| `Invariance` | `Spec => []ChannelInv` |
| `TypeCorrect`, `OwnAnswer`, `BuffersSafe`, `Pins` | `Spec => []` of `TypeOK`, `ReapsOwnAnswer`, `BuffersOutliveHost`, `PinsBalanced` |
| `Refinement` | `Spec => ImplementsRpc` |

None of the safety properties is inductive alone. That the used element a thread
reaps is its own depends on where that element has been before, and on nobody
having been woken by a completion meant for another. `ChannelInv` says it as a
token game. Its parts:

- `LockInv`: the mutex is owned by a thread exactly between `Lock` and unlock.
  So at most one thread is *outstanding* (waiting or about to reap): lemma
  `OneOutstanding`.
- `StageInv`: if a thread is outstanding, its request is in exactly one place
  (the ring, the daemon, the used ring), and once pushed, its one wakeup is in
  exactly one place (not raised, eventfd, handler, completion, consumed). If no
  thread is outstanding, ring, daemon and interrupt path are empty.
- `CallInv`: what a thread's locals say about the requests executed for it.
- `PinsBalanced` and `TypeOK`, which are used by the steps of the others.

There is one lemma per action. A step of a thread that is not outstanding leaves
every stage alone (`StageFrame`, `OutsideStep`). A step of the interrupt or of
the daemon leaves the driver's state alone (`DriverFrame`), can only be one of
the outstanding thread's stage (`HostOwner`), and moves its request or wakeup to
the next (`StageMoves`). The properties follow from the invariant. For the
refinement every action is shown to be a step of `HmcudaRpc` or a stutter:
`Begin` is `Invoke`, `HostExecute` is `Serve`, leaving is `Return`, `Refuse` is
itself, and all others leave the abstract variables alone; `HostExecute` and
`CopyOut` need the invariant (that the request's call is still there and no
failure of it was heard; that `resp_buf` tells the truth about it, or of a stray
copy holds zeros).

The second half of `HmcudaRoutingLifecycleProofs` proves, for any processes,
threads and bounds, from `LifecycleAssumption` (every thread has a process, and
`None` is no thread). The module extends both components, which share no state;
`HmcudaLifecycle` calls its specification `LSpec` for that reason:

| Theorem | Statement |
|---|---|
| `LifeInvariance` | `LSpec => []LifecycleInv` |
| `CallsAreSafe`, `LeavesNothing`, `LifeTypeCorrect` | `LSpec => []` of `DeviceOutlivesCalls`, `NothingLeftBehind`, `LTypeOK` |

`DeviceOutlivesCalls` is not inductive: that `FreeDevice` takes the device from nobody
is decided three steps earlier, when `Rmmod` finds no file. `LifecycleInv` says
what exists at each step of the device's life, and that from `Rmmod` on nobody
has a file; `TransportInit` and `Dispatch` are the steps that could break it, and
need the module to be loaded, and a file to come from the device that is there.

`HmcudaCopyProofs` proves, for any page, word, batch and response size, addresses,
lengths and page tables, from `CopyAssumption` (pages, words and batches are not
empty and words fill a page; a page table covers the range and has no frame
twice):

| Theorem | Statement |
|---|---|
| `CopyHolds` | `Spec => []CopyInv` |
| `CopyIsTransfer` | `Spec => ImplementsTransfer` |
| `EveryByteToItsPlace`, `EveryWordSearched`, `OkIsComplete`, `OnlyPinnedPages` | `Spec => []` of `MovesPrefix`, `EmbeddedPointersFound`, `OkMeansAll`, `DescriptorsInsidePins` |

That the daemon moves a prefix depends on what the driver's coalescing loop has
put into the entries, a batch earlier. `CopyInv` follows the copy through both:

- `Gathered`: the entries hold the physical bytes of the batch so far in the
  order of the user's range, and each ends at the end of a page or of the copy.
  `PageByPage` is the loop's own state: after `i` turns it stands at a page
  boundary, so that one more page can be joined or begun.
- `Position`: entry, place in it and `hoff` agree; `resp` is the error of the
  batch unless the copy is stray; and the daemon that reports no
  error has come to the end of what the driver asked for.
- `Aligned`: the daemon stops between words only, because entries end with pages
  and words fill pages. This is what `EmbeddedPointersFound` needs.

The lemmas are about the division of a range into pages (`BatchFacts`,
`EndOfPage`), about appending an entry or prolonging the last one (`AppendEntry`,
`LongerEntry`), and about `Offsets` (`OffsetFacts`). `Offsets` is a recursive function, and the library's induction
principle takes an operator, so that such a function exists, and that two are
equal, is shown by looking at the least place where it would fail
(`Solution`, `OneSolution`, from `LeastOf`). Cardinalities are counted by a bijection (`CountOf`).

For the refinement, `off + hoff` is what `HmcudaTransfer` has moved and `err` its
failure. `HostChunk` is `Move`, `HostFails` is `Fail`, the ends of the call are
`Return`, and the rest stutters: that a new batch goes on where the daemon has
stopped, and that the first look at a request does not refuse it, needs the
invariant; that an error of one batch is not forgotten in the next is `Reported`.

`HmcudaDmaProofs` proves, for any threads, streams and lengths of queues, from
`DmaAssumption` (the "nobody" of the daemon is no thread, the NULL stream is none
of the others, a queue has room for one operation):

| Theorem | Statement |
|---|---|
| `StreamsInOrder` | `Spec => []DmaInv` |
| `ToHostIsSynchronous`, `StreamSyncIsEnough`, `EventSyncIsEnough` | `Spec =>` `[]CudaMemcpyDtoHDone`, `StreamSyncMakesValid`, `EventSyncMakesValid` |

An event says something about other operations only by where it stands:
`EventIsBehind` says that behind every transfer that its owner's event was recorded
after, this event still stands, on the same stream. `StreamIsSynced` and
`EventIsSynced` carry what was true when the daemon answered to the moment the
library returns, while other threads queue; a thread in a synchronization queues
nothing itself. `CopyIsServed`: a transfer of `cudaMemcpy` to the host is there
only while the daemon is in that request.

The first half of `HmcudaRoutingLifecycleProofs` proves, for any memories, cells,
buffers and values, from `RoutingAssumption` (the three kinds of memory are apart):

| Theorem | Statement |
|---|---|
| `RoutingTypeCorrect` | `Spec => []TypeOK` |
| `Starts`, `HostKinds` | `Spec => []` of `StartsCopied`, `KindsCopied` |

What the routing relies on is the first part of `TypeOK`: the set of addresses
holds the starts of memory of the driver API that is allocated now, exactly. The
proof then takes each route. One that pins delivers whatever the pointers are,
since it is taken only where the pinned end is the guest's and the other is known
to the daemon (`PinnedDelivers`), and is refused, for pointers that fit, only for
memory that is not known (`PinnedRefused`). Between two places on the device the
daemon finds both (`DeviceCopy`).

`HmcudaHostMemProofs` proves, for any threads, addresses, lengths of list and
queue, and versions, from `HostMemAssumption` (the bounds are natural numbers):

| Theorem | Statement |
|---|---|
| `CopiesFit` | `Spec => []HostMemInv` |
| `OwnEntryFound` | `Spec => []LookupFindsOwn` |
| `KernelsReadNewest`, `CopiesReadNewest`, `CpuReadNewest` | `Careful => (Spec => [] of KernelReadsNewest, CopyReadsNewest, CpuReadsNewest)` |

`OwnEntryFound` holds for every program. The other three are about programs that
keep the discipline (`Careful`), which is a constant of the specification and
restricts `CpuWrite`, `LaunchKernel` and the copies; without it
(`Careful = FALSE` in `HostMem.cfg`) TLC refutes each of them. The proof has to say, at every moment between the
steps of any number of launches and copies, where the newest value of a word is
and why whoever comes next will find it there: in the daemon if a kernel is queued
(`KernelsInOrder`), in the guest, or on the way there, if a copy is
(`CopiesInOrder`), and otherwise where the flag says, or will say at the end of a
call that is under way (`FlagTells`). `LaunchesApart`, `QueueInBuffers` and
`NoCopyInto` keep the owners of buffers out of each other's way.

`HmcudaResourceProofs` proves, for any pointers, addresses, stubs and bounds, from
`ResourceAssumption` (addresses are positive numbers, since 0 stands for no
handle):

| Theorem | Statement |
|---|---|
| `TableAndCuda` | `Spec => []ResourceInv` |
| `NothingStaleListed`, `OneRangePerAddress`, `NoLeakNoDoubleFree` | `Spec => []` of `EntriesAreLive`, `RangesDisjoint`, `ListedOnce` |
| `HandlesNameOneObject` | `Spec => HandlesNeverSwitch` |

`ListedOnce` is not inductive: when an object is destroyed, the other entries must
not have been about it. `Distinct` says that entries of one list stand for
different objects, `LostUnlisted` that what a failed destroy has left behind is
not listed, `LiveListed` that everything else is. That a handle never comes to
mean another object rests on the counter: every handle in the table is at most
`next` (in `TypeOK`), and no step lowers it.

`HmcudaLaunchProofs` proves, for any processes, threads, stubs, libraries and
bounds, from `LaunchAssumption` (every thread has a process, `None` is no stub,
library or grid, the bounds are natural numbers):

| Theorem | Statement |
|---|---|
| `LaunchesHold` | `Spec => []LaunchInv` |
| `AcceptedStubsFound`, `KernelsAsAsked`, `NoSilentLaunchFailure` | `Spec => []` of `AcceptedIsFound`, `UndisturbedAsAsked`, `LaunchErrorReported` |

`LaunchInv` says that the counter is
ahead of every handle anybody has (`HandlesBehind`), that the module a process
registers stubs with is of the library it has loaded (`ModuleIsLoaded`), that an
accepted stub has an entry and no newer one is in its way (`NewestIsLoaded`), and
that an undisturbed thread's configuration lies on top until it pops it, and is
what it then has (`OnTop`, `AsPopped`).

`HmcudaSizesProofs` proves, for any counts, texts, scopes, template arguments,
types and number of parameters, from `SizesAssumption` (counts and text lengths
are natural numbers) and `ParamsAssumption` (names are made of `Tokens`; a type
is at least a word, its brackets match, and it has commas within brackets only,
which is how the ABI's demangler writes types):

| Theorem | Statement |
|---|---|
| `SizesInvariance` | `Spec => []SizesInv` |
| `DriverIsInside`, `HandlerIsInside`, `CommandsKnown` | `Spec => []` of `DriverStaysInside`, `HandlerStaysInside`, `NoCommandUnknown` |
| `AnswersArrive`, `PlainKernels` | `Spec => []` of `AnswerDelivered`, `PlainKernelsGetArguments` |
| `SizesTypeCorrect` | `Spec => []TypeOK`, if every text fits `resp_payload` behind its length word |

The hypothesis of the last one is there because it is needed: `TypeOK` says that a
response fits the 2048 bytes that the daemon has for it, and the handlers append
CUDA's error texts without looking at the end of that buffer. CUDA's texts are
some tens of bytes long. All other theorems hold for texts of any length.

`SizesInv` says at each step of a call what the four programs have computed:
after the first pass the lengths of the structures (`Once`), after the second one
exactly what the library has laid out (`Twice`), and in the end what the handler
made of it (`Served`). That the steps preserve it rests on three groups of lemmas:

- *The lists agree* (`ListsAgree`). For every command of the libraries the two
  lists of the driver and the list of the daemon have its lengths; the one
  difference is that the handler of `device_synchronize` reads no request. No name
  is in two lists (`Apart`), so it does not matter in which order they are asked.
- *Lengths* (`EndsAre`, `SizeIs`, `SmallSize`, `PropSize`): a structure ends
  behind its last member, and none is longer than 433 bytes but `DeviceProp`, which
  has at most 2000. The same data is counted behind the structure by library,
  second pass and handler (`Behind`); and every command with such data has a
  request structure (`LeadingStructure`), without which the second pass would skip
  it.
- *Counting parameters* (`PlainCount`): the brackets of a text are balanced, and
  the commas outside of them are those of its parts, when it is put together of
  texts of which the first is balanced (`DepthConcat`, `CommasConcat`); so the
  list of parameters has one such comma between each two types (`CommasListed`),
  and it is what lies between the first opening and the last closing parenthesis
  if nothing before it has one (`BetweenText`).

`Ends`, `Depth` and `Joined` are recursive functions, solved as `Offsets` above, at
the least place where they would fail (`Recursion`).

Only model-checked, not proved: `CallReturns`, `Terminates` and
`ServedWhileConnected`, since liveness is out of this prover's reach. Every
invariant and action property of a passing run is proved.

## Findings

- **Pages are unpinned while the device may still use them.** `driver/virtio_hmcuda_main.c:320`
  says the host is done with the pages. For `CU_MEMCPY` the daemon has only
  queued the copy, and since guest RAM is registered with CUDA
  (`host/vhost/core_driver.c:92-93`) the device touches the pages later. `DmaUnpin.cfg`
  shows it in six states. Until a synchronization, nothing in the guest keeps the
  page where it is.
- **Synchronous driver-API copies are asynchronous.** `cuMemcpyDtoH` and
  `cuMemcpyHtoD` pass `.stream = 0  /* synchronous */`; the daemon queues on the
  NULL stream and does not synchronize. The caller of `cuMemcpyDtoH` may read
  its buffer before the data is there. `DmaSync.cfg`. The runtime API's
  `cudaMemcpy` to the host does synchronize (`CudaMemcpyDtoHDone` holds).
- **A zero-byte `cuMemHostAlloc` succeeds without the daemon.** The batch loop
  runs no turn. The pointer cannot be freed with `cuMemFreeHost`, which takes a
  size of 0 for "not registered". `CopyHostAlloc.cfg`.
- **After a reset, objects are destroyed a second time.** `core_driver.c:75-76`
  says that all handles are invalid after `cudaDeviceReset`, and then calls
  `hmcuda_ctx_destroy`, which gives each of the pointers to CUDA's destroy calls.
  `ResourceReset.cfg`. The table itself is right afterwards (`EntriesAreLive`).
- **After a reset, guest RAM is not registered again.** `cmd_driver.c:113-114`
  relies on the registration made at context creation. A reset ends it,
  `g_guest_mem_registered` stays set, and the next context does without:
  copies still work, but are staged. `ResourceRam.cfg`.
- **A kernel whose only parameter is a `void*` is launched without it.**
  `guest/intercept/hmcuda_runtime.cpp:41` says that parameters are counted by
  demangling; line 76 takes one parameter that begins with "void" for an empty
  list. An empty list is `()` in demangled names. Names with an earlier
  parenthesis (unnamed namespaces, enumerators as template arguments) are
  miscounted too. `SizesVoid.cfg`.
- **What the CPU writes after a first kernel is not pushed.**
  `hmcuda_runtime.cpp:170-171` says a launch pushes CPU-written data and clears
  `gpu_dirty`; `guest/transport/hmcuda_transport.cpp:271` returns while the flag
  is set and clears nothing. `HostMemPush.cfg`.
- **A kernel's results can be overwritten by old data.** The comment at
  `hmcuda_transport.cpp:269-270` rules this out; the flag is set only for
  arguments equal to the start of a buffer (line 246). `HostMemOverwrite.cfg`.
- **Names and error texts of the driver API are cut.** `driver/cmd_driver.c:152`
  and `driver/virtio_hmcuda_main.c:77-78` speak of room for a string; neither pass
  makes it, and line 106 keeps only the request length. The caller gets zeros.
  `SizesText.cfg`. Those of the runtime API arrive (`AnswerDelivered`).
- **`cuMemcpyAsync` takes the wrong route for some pointers.**
  `guest/intercept/hmcuda_driver.cpp:427` says the last route is for two device
  handles. An interior pointer, or memory of `cudaMalloc`, together with a
  `cuMemHostAlloc` buffer goes there too, and the copy reads or writes the
  daemon's copy of the buffer. `RoutingSuccess.cfg`.
- **A copy of an unknown kind reports success and copies nothing.**
  `driver/virtio_hmcuda_main.c:188-189` says that on success or a CUDA error
  `resp_buf` is populated. `cudaMemcpy` hands on the kind it is given
  (`guest/intercept/hmcuda_runtime.cpp:115-124`), also `cudaMemcpyDefault` (4)
  and `cudaMemcpyHostToHost` (0). For these the driver pins the destination and
  puts it before `resp_buf` (lines 173, 302). The daemon takes the last branch of
  its handler (`host/vhost/cmd_runtime.c:149`), fails
  (`core_runtime.c:160`), and writes the response to the first writable
  descriptor (`vhost_user_hmcuda.c:169`): over the first bytes of the data.
  `resp_buf` keeps its zeros, the driver goes on to the next batch, and if the
  destination is host memory the call succeeds. `CopyResponse.cfg`.
- **`cudaMemcpy` between device memories fails.** The last branch of
  `host/vhost/cmd_runtime.c:149` is meant for it, but a copy of kind 3 onto the
  device never gets there: the driver pins its destination as
  if it were the guest's (`driver/virtio_hmcuda_main.c:173`), `EFAULT`.
  `RoutingDevice.cfg`.
- **A restarted daemon is not found again.** `scripts/check_vhost.sh:35-37` says
  QEMU reconnects and tells to reload the driver. `scripts/qemu_boot.sh:98` asks
  for no reconnection, and a call that was waiting keeps the module in use for
  ever. `LifecycleReload.cfg`.

## Limits

- QEMU does not reconnect, as its options in `scripts/` have it, so no request
  is executed twice and no interrupt is spurious. Under this condition
  `reinit_completion` has no effect in the model, as in the code. The device is
  removed by unloading the module only: unbinding or unplugging it is done by
  nothing in the repository.
- Allocation failures before a request is sent are one action (`Refuse`).
- A program passes `cudaMemcpy` one of CUDA's five kinds. The pages of a stray copy
  are pinned for reading only (`driver/virtio_hmcuda_main.c:199`); that such a page
  may be shared with other memory is not modelled.
- The daemon's branches for malformed elements (short header, missing data
  buffers) are unreachable from this driver and left out.
- Lengths are small numbers: overflow of 64-bit lengths is not modelled; a
  length near 2^64 fails at the pin.
- CUDA is external. Streams are independent queues in `HmcudaDma`, so the implicit
  ordering between the NULL stream and others, which only removes behaviours, is
  not assumed; `HmcudaHostMem` has one stream.
- `HmcudaResource` has one device, and the runtime API's hold on the primary
  context is permanent, so `primary_ctx_release` changes nothing. Allocations of
  zero bytes and the list `HOST_DEV_PTR` are left out. That `cudaDeviceReset` ends
  all objects and registrations is taken from CUDA's documentation, not from this
  code.
- `HmcudaHostMem`: what a failed push, copy or allocation did not reach counts as
  unknown from then on, and nothing is claimed about it.
- `HmcudaRouting` and `HmcudaLaunch` have no contents of kernels: what an argument
  points to, and structures passed by value (which the guest reads as 8 bytes
  each), are data.
- `g_device_handles` and `g_func_map` have no lock. A race inside a C++ container
  has no outcomes to enumerate; each access is one step.
- *Not modelled*: memset, what a pointer embedded in copied data is replaced by,
  mapping and multicast binding (passed through to CUDA), the lookup of entry
  points by name, the NVML stub (constant answers), build files and samples. Logging, log levels and timing are left out.

## Plan

1. `HmcudaRouting` and `HmcudaHostMem` in terms of `HmcudaTransfer`, which they
   use without naming it; an abstract map from handles to objects, implemented by
   `HmcudaResource`.
2. What the properties of the refuted configurations become under the
   conditions that make them true (a program that synchronizes before it unpins,
   a context that is never reset), as properties and theorems.
