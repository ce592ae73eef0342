---------------------------- MODULE HmcudaHostMem ----------------------------
(***************************************************************************)
(* A buffer of cuMemHostAlloc exists twice: at guest_va, where the guest's *)
(* CPU reads and writes, and at real_ptr in the daemon, where kernels do.  *)
(* The guest libraries push the first to the second before a launch, pull  *)
(* the second to the first before a copy from the buffer, and keep one     *)
(* flag, gpu_dirty, to know which is newer (hmcuda_transport.cpp:215-283,  *)
(* hmcuda_driver.cpp, hmcuda_runtime.cpp:136-193).                         *)
(*                                                                         *)
(* Memory is words with a version for content: the higher is the newer.    *)
(* One guest process with several threads, and one CUDA stream.  A request *)
(* is served within one step; a launch is several requests.  A pin, a copy *)
(* or an allocation can fail after any number of words, a word being the   *)
(* unit that a batch moves.  When Careful, the guest program keeps to what *)
(* README.md calls the discipline, and then two copies act as one.         *)
(***************************************************************************)
EXTENDS Naturals, Sequences, FiniteSets, FiniteSetsExt

CONSTANTS
  Threads,     (* threads of the guest process                             *)
  Size,        (* guest addresses that malloc hands out: 1..Size           *)
  Careful,     (* the program keeps to the discipline                      *)
  MaxVersion,  (* bound on writes                                          *)
  MaxQueued,   (* bound on operations queued on the stream                 *)
  MaxEntries   (* bound on the HOST_MEM list                               *)

ASSUME HostMemAssumption ==
  /\ Size \in Nat /\ MaxVersion \in Nat /\ MaxQueued \in Nat /\ MaxEntries \in Nat
  /\ Careful \in BOOLEAN

Addresses == 1..Size

VARIABLES
  up,      (* the daemon has a Context                                     *)
  guest,   (* guest[a]: content of guest memory                            *)
  size,    (* g_host_mem_map: size of the buffer registered at a, or 0     *)
  dirty,   (* g_host_mem_map: gpu_dirty                                    *)
  host,    (* ctx->resources[RES_TYPE_HOST_MEM], oldest first, with memory *)
  call,    (* call[t]: the cudaLaunchKernel t is in                        *)
  queue,   (* CUDA: operations of the stream that have not run             *)
  clock,   (* the newest version                                           *)
  newest,  (* history: what address a holds for a program that knows of    *)
           (* one memory only                                              *)
  known    (* history: where no failure or lost session made it unknown    *)

vars == <<up, guest, size, dirty, host, call, queue, clock, newest, known>>
registry == <<size, dirty>>
history  == <<newest, known>>

(* Room for one more write, when every queued operation makes one.         *)
Room == clock + Len(queue) < MaxVersion

Operation(op, words, lost) == [op |-> op, words |-> words, lost |-> lost]

Idle == [at |-> "idle", args |-> {}, todo |-> {}]

------------------------------------------------------------------------------
Span(a, n) == a..(a + n - 1)
Buffers    == {b \in Addresses : size[b] # 0}
Words(b)   == Span(b, size[b])
WordsOf(B) == UNION {Words(b) : b \in B}

(* hmcuda_res_get(HOST_MEM) stops at the newest entry with the address.    *)
Holders(a) == {i \in DOMAIN host : a \in DOMAIN host[i].data}

(* The seeded fault of the lookup: new entries go to the end of the list.  *)
OldestHolder(a) == Min(Holders(a))

Holder(a) == Max(Holders(a))
Real(a)   == host[Holder(a)].data[a]

(* The daemon's memory when the words T of it have got new content.        *)
Stored(T, content) ==
  [i \in DOMAIN host |->
     [host[i] EXCEPT !.data =
        [a \in DOMAIN @ |-> IF a \in T /\ Holder(a) = i THEN content[a] ELSE @[a]]]]

(* The words of S that a memcpy, which a failure may cut short, reaches.   *)
Reached(S) ==
  {T \in SUBSET S : \A a \in T, b \in S : b < a => b \in T}

------------------------------------------------------------------------------
(* What the program may do.                                                *)

InCall == UNION {WordsOf(call[t].args \cap Buffers) : t \in Threads}
Queued(op) == UNION {queue[i].words : i \in {j \in DOMAIN queue : queue[j].op = op}}

(* It never accesses memory one of its own calls is working on.            *)
MayAccess(b) ==
  /\ Words(b) \cap (InCall \cup Queued("kernel") \cup Queued("htod") \cup Queued("dtoh")) = {}
  /\ Careful => ~dirty[b]

(* It copies to and from a dirty buffer as a whole and with the driver     *)
(* API, and from it only when the kernels are over.                        *)
MayCopy(b, S, lib) ==
  Careful => /\ Words(b) \cap InCall = {}
             /\ dirty[b] => lib = "driver" /\ S = Words(b)

(* It passes buffers by their own address, each to one launch at a time,   *)
(* and none that a copy is still to fill.                                  *)
MayLaunch(A) ==
  Careful => /\ A \subseteq Buffers
             /\ WordsOf(A) \cap (InCall \cup Queued("dtoh")) = {}

------------------------------------------------------------------------------
Init ==
  /\ up = FALSE
  /\ guest = [a \in Addresses |-> 0] /\ newest = guest /\ known = {}
  /\ size = [a \in Addresses |-> 0] /\ dirty = [a \in Addresses |-> FALSE]
  /\ host = <<>> /\ queue = <<>> /\ clock = 0
  /\ call = [t \in Threads |-> Idle]

(* INIT of a library loaded now, or of another process: the Context goes   *)
(* with all its memory, once the device is done with it.                   *)
InitSession ==
  /\ queue = <<>>
  /\ up' = TRUE /\ host' = <<>> /\ known' = {}
  /\ UNCHANGED <<guest, registry, call, queue, clock, newest>>

(* hmcuda_core_cu_mem_host_alloc_vq for each batch: the first allocates.   *)
Arrived(b, n, T) ==
  Append(host, [va |-> b, data |-> [a \in Span(b, n) |-> IF a \in T THEN guest[a] ELSE 0]])

(* cuMemHostAlloc: the words arrive batch by batch.  Unless all arrive the *)
(* caller gets an error and the daemon keeps what it has.                  *)
MemHostAlloc(b, n) ==
  /\ up /\ Len(host) < MaxEntries
  /\ Span(b, n) \subseteq Addresses \ WordsOf(Buffers)
  /\ \E T \in Reached(Span(b, n)) :
       /\ T # {}
       /\ host' = Arrived(b, n, T)
       /\ IF T = Span(b, n)
          THEN /\ size'   = [size EXCEPT ![b] = n]
               /\ dirty'  = [dirty EXCEPT ![b] = FALSE]
               /\ newest' = [a \in Addresses |-> IF a \in T THEN guest[a] ELSE newest[a]]
               /\ known'  = known \cup T
          ELSE UNCHANGED <<registry, history>>
  /\ UNCHANGED <<up, guest, call, queue, clock>>

(* hmcuda_core_cu_mem_free_host, if the lookup finds an entry: the newest  *)
(* with exactly this handle goes.                                          *)
Freed(b) ==
  LET I == {i \in DOMAIN host : host[i].va = b}
  IN IF I = {} THEN host
     ELSE [i \in 1..(Len(host) - 1) |-> IF i < Max(I) THEN host[i] ELSE host[i + 1]]

(* The seeded fault of the registry: the flag outlives the registration.   *)
KeepsFlag(b) == dirty

(* hmcuda_transport_host_mem_unregister: size and flag go.                 *)
Unflagged(b) == [dirty EXCEPT ![b] = FALSE]

(* cuMemFreeHost: the registration goes first, whether the request (sent,  *)
(* and a Context left to serve it) finds the entry or not.  CUDA waits for *)
(* the device.                                                             *)
MemFreeHost(b) ==
  /\ b \in Buffers /\ queue = <<>>
  /\ Careful => Words(b) \cap InCall = {}
  /\ size'  = [size EXCEPT ![b] = 0]
  /\ dirty' = Unflagged(b)
  /\ known' = known \ Words(b)
  /\ newest' = [a \in Addresses |-> IF a \in Words(b) THEN 0 ELSE newest[a]]
  /\ \/ UNCHANGED host
     \/ Holders(b) # {} /\ host' = Freed(b)
  /\ UNCHANGED <<up, guest, call, queue, clock>>

(* The guest's CPU writes a word.                                          *)
CpuWrite(b, a) ==
  /\ b \in Buffers /\ a \in Words(b) /\ MayAccess(b) /\ Room
  /\ clock'  = clock + 1
  /\ guest'  = [guest EXCEPT ![a] = clock + 1]
  /\ newest' = [newest EXCEPT ![a] = clock + 1]
  /\ known'  = known \cup {a}
  /\ UNCHANGED <<up, registry, host, call, queue>>

------------------------------------------------------------------------------
(* cudaLaunchKernel: a request per pointer argument, the launch, the marks.*)

LaunchKernel(t, A) ==
  /\ call[t] = Idle /\ A # {} /\ A \subseteq WordsOf(Buffers) /\ MayLaunch(A)
  /\ call' = [call EXCEPT ![t] = [at |-> "sync", args |-> A, todo |-> A]]
  /\ UNCHANGED <<up, guest, registry, host, queue, clock, history>>

(* The seeded fault of the sync: gpu_dirty is not looked at.               *)
PushesRegistered(p) == p \in Buffers

(* hmcuda_transport_sync_host_mem_arg returns early for what is no buffer  *)
(* and for what the GPU has written.                                       *)
Pushes(p) == p \in Buffers /\ ~dirty[p]

(* A push of the whole buffer.  Its result is not looked at.               *)
SyncHostMemArg(t, p) ==
  /\ call[t].at = "sync" /\ p \in call[t].todo
  /\ call' = [call EXCEPT ![t].todo = @ \ {p}]
  /\ IF Pushes(p)
     THEN \E T \in Reached({a \in Words(p) : Holders(a) # {}}) :
            /\ host'  = Stored(T, guest)
            /\ known' = known \ (Words(p) \ T)
     ELSE UNCHANGED <<host, known>>
  /\ UNCHANGED <<up, guest, registry, queue, clock, newest>>

(* The daemon translates the arguments by range and CUDA queues the        *)
(* kernel, which may access all of the memory behind each; or it fails.    *)
Launch(t) ==
  /\ call[t].at = "sync" /\ call[t].todo = {}
  /\ call' = [call EXCEPT ![t].at = "mark"]
  /\ \/ UNCHANGED queue
     \/ /\ Len(queue) < MaxQueued /\ Room
        /\ LET found == {p \in call[t].args : Holders(p) # {}}
           IN queue' = Append(queue,
                Operation("kernel", UNION {DOMAIN host[Holder(p)].data : p \in found}, {}))
  /\ UNCHANGED <<up, guest, registry, host, clock, history>>

(* The seeded fault of the marks.                                          *)
NothingMarked(p) == FALSE

(* hmcuda_transport_mark_gpu_dirty finds a buffer by its own address.      *)
Marked(p) == p \in Buffers

MarkGpuDirty(t) ==
  /\ call[t].at = "mark"
  /\ dirty' = [b \in Addresses |-> dirty[b] \/ (b \in call[t].args /\ Marked(b))]
  /\ call'  = [call EXCEPT ![t] = Idle]
  /\ UNCHANGED <<up, guest, size, host, queue, clock, history>>

------------------------------------------------------------------------------
(* Copies.                                                                 *)

(* The seeded fault of the copies from a buffer: that of cudaMemcpy, which *)
(* knows nothing of gpu_dirty.                                             *)
NothingPulled(a, lib) == FALSE

(* is_gpu_dirty, before hmcuda_sync_dirty_host_src_to_guest.               *)
Pulled(a, lib) == lib = "driver" /\ a \in Buffers /\ dirty[a]

(* hmcuda_sync_dirty_host_src_to_guest, when T arrives: the daemon copies  *)
(* by CPU, at once.                                                        *)
Refreshed(T) == [w \in Addresses |-> IF w \in T THEN Real(w) ELSE guest[w]]

(* A copy of S, from address a on, to device memory: cuMemcpyHtoD and      *)
(* cuMemcpyAsync pull a dirty buffer first, in a request served at once,   *)
(* and give up when that fails; then the pages are sent.                   *)
CopyToDevice(b, a, S, lib) ==
  /\ b \in Buffers /\ S \subseteq Words(b) /\ MayCopy(b, S, lib)
  /\ Careful /\ dirty[b] => S \cap Queued("kernel") = {}
  /\ Len(queue) < MaxQueued /\ Room
  /\ IF Pulled(a, lib)
     THEN \E T \in Reached({w \in S : Holders(w) # {}}) :
            /\ guest' = Refreshed(T)
            /\ dirty' = [dirty EXCEPT ![a] = T # S]
            /\ queue' = IF T = S THEN Append(queue, Operation("htod", S, {})) ELSE queue
     ELSE /\ queue' = Append(queue, Operation("htod", S, {}))
          /\ UNCHANGED <<guest, dirty>>
  /\ UNCHANGED <<up, size, host, call, clock, history>>

(* cuMemcpyDtoH and cuMemcpyAsync clear the flag of the buffer at a even   *)
(* when the copy has failed; cudaMemcpy does not know of it.               *)
Cleared(a, lib) == IF lib = "driver" THEN [dirty EXCEPT ![a] = FALSE] ELSE dirty

(* A copy of device memory to S, from address a on, may fail on its way.   *)
CopyToHost(b, a, S, lib) ==
  /\ b \in Buffers /\ S \subseteq Words(b) /\ MayCopy(b, S, lib)
  /\ Len(queue) < MaxQueued /\ Room
  /\ \E T \in Reached(S) : queue' = Append(queue, Operation("dtoh", S, S \ T))
  /\ dirty' = Cleared(a, lib)
  /\ UNCHANGED <<up, guest, size, host, call, clock, history>>

------------------------------------------------------------------------------
(* The device runs the next operation: a kernel writes some of its words,  *)
(* a copy to the host all that it was not stopped before.                  *)
Run ==
  /\ queue # <<>>
  /\ queue' = Tail(queue)
  /\ LET op == Head(queue).op  words == Head(queue).words  lost == Head(queue).lost
     IN \E W \in SUBSET words :
          /\ op = "htod" => W = {}
          /\ op = "dtoh" => W = words \ lost
          /\ clock' = IF W = {} THEN clock ELSE clock + 1
          /\ newest' = [a \in Addresses |-> IF a \in W THEN clock' ELSE newest[a]]
          /\ known' = (known \cup W) \ lost
          /\ IF op = "kernel"
             THEN host'  = Stored(W, newest') /\ UNCHANGED guest
             ELSE guest' = [a \in Addresses |-> IF a \in W THEN clock' ELSE guest[a]] /\ UNCHANGED host
  /\ UNCHANGED <<up, registry, call>>

------------------------------------------------------------------------------
Next ==
  \/ InitSession \/ Run
  \/ \E b \in Addresses :
       \/ MemFreeHost(b)
       \/ \E n \in Addresses :
            \/ MemHostAlloc(b, n)
            \/ \E a \in Addresses, lib \in {"driver", "runtime"} :
                 \/ CopyToDevice(b, a, Span(a, n), lib)
                 \/ CopyToHost(b, a, Span(a, n), lib)
       \/ \E a \in Addresses : CpuWrite(b, a)
  \/ \E t \in Threads :
       \/ \E A \in SUBSET Addresses : LaunchKernel(t, A)
       \/ \E p \in Addresses : SyncHostMemArg(t, p)
       \/ Launch(t) \/ MarkGpuDirty(t)

Spec == Init /\ [][Next]_vars

------------------------------------------------------------------------------
Versions == 0..clock

Entries    == [va : Addresses, data : UNION {[D -> Versions] : D \in SUBSET Addresses}]
Operations == [op : {"kernel", "htod", "dtoh"}, words : SUBSET Addresses, lost : SUBSET Addresses]
Calls      == [at : {"idle", "sync", "mark"}, args : SUBSET Addresses, todo : SUBSET Addresses]

(* Type correctness: no content is newer than the clock, the flag is that  *)
(* of a buffer, and the buffers lie apart from each other.                 *)
TypeOK ==
  /\ up \in BOOLEAN /\ clock \in 0..MaxVersion
  /\ guest \in [Addresses -> Versions] /\ newest \in [Addresses -> Versions]
  /\ size \in [Addresses -> 0..Size] /\ dirty \in [Addresses -> BOOLEAN]
  /\ \A b \in Addresses : dirty[b] => b \in Buffers
  /\ \A b, c \in Buffers : b # c => Words(b) \cap Words(c) = {}
  /\ WordsOf(Buffers) \subseteq Addresses
  /\ known \subseteq Addresses
  /\ host \in Seq(Entries)
  /\ queue \in Seq(Operations) /\ clock + Len(queue) <= MaxVersion
  /\ call \in [Threads -> Calls]
  /\ \A t \in Threads : /\ call[t].todo \subseteq call[t].args
                        /\ call[t].at = "idle" => call[t] = Idle
                        /\ call[t].at = "mark" => call[t].todo = {}

(* Whatever failed allocations and frees have left in the daemon's list,   *)
(* and wherever malloc puts a new buffer: every word of a buffer that the  *)
(* lookup finds is found in the entry made for this very buffer.           *)
LookupFindsOwn ==
  \A b \in Buffers : \A a \in Words(b) :
    Holders(a) # {} => /\ host[Holder(a)].va = b
                       /\ DOMAIN host[Holder(a)].data = Words(b)

(* When a kernel runs, every word it may read has what the program, or the *)
(* device, wrote there last, unless a failed request or a lost session     *)
(* made the content unknown.                                               *)
KernelReadsNewest ==
  (queue # <<>> /\ Head(queue).op = "kernel") =>
    \A a \in Head(queue).words \cap known : Real(a) = newest[a]

(* The same for a copy to the device, which reads the guest's pages.       *)
CopyReadsNewest ==
  (queue # <<>> /\ Head(queue).op = "htod") =>
    \A a \in Head(queue).words \cap known : guest[a] = newest[a]

(* The same for the program's own reads.                                   *)
CpuReadsNewest ==
  \A b \in Buffers : MayAccess(b) => \A a \in Words(b) \cap known : guest[a] = newest[a]

(* What keeps these three.  A launch has its buffers to itself, and        *)
(* operations stay within buffers;                                         *)
LaunchesApart ==
  \A t \in Threads : /\ call[t].args \subseteq Buffers
                     /\ \A u \in Threads \ {t} : call[t].args \cap call[u].args = {}
QueueInBuffers == \A k \in DOMAIN queue : queue[k].words \subseteq WordsOf(Buffers)

(* no copy is to fill a buffer that a launch has, or a dirty one;          *)
InLaunch(b) == \E t \in Threads : b \in call[t].args
Launched(b) == \E t \in Threads : b \in call[t].args /\ call[t].at = "mark"
NoCopyInto ==
  \A b \in Buffers : dirty[b] \/ InLaunch(b) => Words(b) \cap Queued("dtoh") = {}

(* a queued kernel finds the newest content in the daemon, and its buffers *)
(* get the flag unless a copy after it fills the guest's memory;           *)
FilledAfter(k, a) == \E j \in DOMAIN queue : k < j /\ queue[j].op = "dtoh" /\ a \in queue[j].words
KernelsInOrder ==
  \A k \in DOMAIN queue : queue[k].op = "kernel" => \A a \in queue[k].words :
    /\ Holders(a) # {} /\ (a \in known => Real(a) = newest[a])
    /\ \A j \in DOMAIN queue : j < k /\ queue[j].op = "dtoh" => a \notin queue[j].words
    /\ \A b \in Buffers : a \in Words(b) => dirty[b] \/ Launched(b) \/ FilledAfter(k, a)

(* a queued copy to the device finds it in the guest, once the copies in   *)
(* front of it have run;                                                   *)
Between(i, k, a) == \E j \in DOMAIN queue : i < j /\ j < k /\ queue[j].op = "dtoh" /\ a \in queue[j].words
CopiesInOrder ==
  \A k \in DOMAIN queue : queue[k].op = "htod" => \A a \in queue[k].words :
    /\ a \in known => guest[a] = newest[a] \/ Between(0, k, a)
    /\ \A i \in DOMAIN queue : i < k /\ queue[i].op = "kernel" /\ a \in queue[i].words => Between(i, k, a)

(* and the flag, or a call that is to set it, says where it is.            *)
FlagTells ==
  \A b \in Buffers : \A a \in Words(b) \cap known :
    /\ (dirty[b] \/ \E t \in Threads : b \in call[t].args \ call[t].todo) /\ Holders(a) # {} =>
         Real(a) = newest[a]
    /\ ~dirty[b] /\ ~Launched(b) /\ a \notin Queued("kernel") \cup Queued("dtoh") =>
         guest[a] = newest[a]

(* The inductive invariant, of any program and of a careful one.           *)
Orderly ==
  /\ LaunchesApart /\ QueueInBuffers /\ NoCopyInto
  /\ KernelsInOrder /\ CopiesInOrder /\ FlagTells
HostMemInv == TypeOK /\ LookupFindsOwn /\ (Careful => Orderly)

(* hmcuda_transport.cpp:269-270: "If a GPU kernel wrote to real_ptr after  *)
(* the last sync, real_ptr is authoritative - do not overwrite it with     *)
(* stale guest_va content."  So the content of real_ptr is never replaced  *)
(* by an older one while the session lasts and no request has failed.      *)
KernelDataNotOverwritten ==
  [][Len(host') = Len(host) =>
       \A i \in DOMAIN host : \A a \in DOMAIN host[i].data \cap known :
         host'[i].data[a] >= host[i].data[a]]_vars

(* hmcuda_runtime.cpp:170-171: "Before launching, sync any cuMemHostAlloc  *)
(* buffers passed as args: push CPU-written guest_va -> real_ptr".  So     *)
(* after the sync of an argument that did not fail, nothing of the buffer  *)
(* is newer in the guest.                                                  *)
CpuWritesPushed ==
  [][\A t \in Threads : \A p \in (call[t].todo \ call'[t].todo) \cap Buffers :
       \A a \in Words(p) \cap known' : Holders(a) # {} => guest[a] <= Real(a)']_vars
=============================================================================
