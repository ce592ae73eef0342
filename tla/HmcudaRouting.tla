----------------------------- MODULE HmcudaRouting -----------------------------
(***************************************************************************)
(* Which way a copy goes.  CUDA tells device from host memory by itself;   *)
(* here cudaMemcpy goes by its kind, and cuMemcpyAsync by a set of the     *)
(* device addresses this library has been given (g_device_handles,         *)
(* guest/intercept/hmcuda_driver.cpp).  One route pins guest pages, the    *)
(* other leaves both addresses to the daemon, which looks into its lists   *)
(* of device memory and of cuMemHostAlloc's buffers.  Such a buffer exists *)
(* twice: as the guest's memory and as real_ptr in the daemon.             *)
(*                                                                         *)
(* One thread of one process; another process may start and send INIT.  A  *)
(* copy is one step (its parts are in HmcudaCopy, its time in HmcudaDma)   *)
(* and moves one cell.  No kernel runs, so gpu_dirty stays clear.          *)
(***************************************************************************)
EXTENDS Naturals

CONSTANTS
  Device,     (* device addresses at which memory is allocated             *)
  Cells,      (* offsets into it                                           *)
  Plain,      (* host memory of the guest                                  *)
  Pinned,     (* buffers of cuMemHostAlloc                                 *)
  Values, Zero,
  Response,   (* what a response of the daemon makes of a cell             *)
  Kinds       (* of cudaMemcpyKind: 1 is from host to device, 2 the way    *)
              (* back, 0 within host and 3 within device memory; 4 leaves  *)
              (* it to CUDA to tell                                        *)

ASSUME RoutingAssumption ==
  /\ 0 \in Cells /\ Cells \subseteq Nat /\ Zero \in Values /\ Response \in Values
  /\ Kinds \subseteq 0..4
  /\ Device \cap (Plain \cup Pinned) = {} /\ Plain \cap Pinned = {}

VARIABLES
  handles,   (* g_device_handles: starts of device memory                  *)
  owner,     (* of device memory: the API it was allocated with, or "free" *)
  mem, host, (* the daemon's lists of device memory and of buffers         *)
  device, guest, real,  (* contents: of device memory, of the guest's      *)
                        (* memory, and of the daemon's copy of buffers     *)
  last       (* what the last step was: a copy, its call, kind, pointers,  *)
             (* result, and what was to be copied; [call |-> "none"] after *)
             (* any other step and after a copy that failed by accident    *)

vars == <<handles, owner, mem, host, device, guest, real, last>>

Hosts    == Plain \cup Pinned
Pointers == (Device \X Cells) \cup (Hosts \X {0})

OnDevice(x) == x[1] \in Device
Start(d)    == <<d, 0>>

(* What a program sees at a pointer.                                       *)
Seen(x) == IF OnDevice(x) THEN device[x] ELSE guest[x[1]]

NoCopy == [call |-> "none"]

------------------------------------------------------------------------------
Init ==
  /\ handles = {} /\ owner = [d \in Device |-> "free"]
  /\ mem = {} /\ host = Pinned
  /\ device = [x \in Device \X Cells |-> Zero]
  /\ guest = [h \in Hosts |-> Zero] /\ real = [b \in Pinned |-> Zero]
  /\ last = NoCopy

(* cuMemAlloc and cuMemAddressReserve; cudaMalloc does not know of the set. *)
Listed(d, api) == IF api = "driver" THEN handles \cup {Start(d)} ELSE handles

Allocate(d, api) ==
  /\ owner[d] = "free" /\ d \notin mem
  /\ mem' = mem \cup {d}
  /\ owner' = [owner EXCEPT ![d] = api]
  /\ handles' = Listed(d, api)
  /\ last' = NoCopy
  /\ UNCHANGED <<host, device, guest, real>>

(* cuMemFree, cuMemAddressFree and cudaFree: the driver API forgets the    *)
(* address before it asks the daemon, which may fail.                      *)
Free(d) ==
  /\ owner[d] # "free"
  /\ handles' = IF owner[d] = "driver" THEN handles \ {Start(d)} ELSE handles
  /\ owner' = [owner EXCEPT ![d] = "free"]
  /\ mem' \in {mem, mem \ {d}}
  /\ last' = NoCopy
  /\ UNCHANGED <<host, device, guest, real>>

(* INIT of another process: the daemon forgets, this library does not.     *)
InitSession ==
  /\ mem' = {} /\ host' = {}
  /\ last' = NoCopy
  /\ UNCHANGED <<handles, owner, device, guest, real>>

CpuWrite(h, v) ==
  /\ guest' = [guest EXCEPT ![h] = v] /\ last' = NoCopy
  /\ UNCHANGED <<handles, owner, mem, host, device, real>>

(* What a kernel or a memset left in device memory.                        *)
DeviceWrite(x, v) ==
  /\ x[1] \in mem
  /\ device' = [device EXCEPT ![x] = v] /\ last' = NoCopy
  /\ UNCHANGED <<handles, owner, mem, host, guest, real>>

------------------------------------------------------------------------------
(* The seeded faults of the daemon and of the guest: memory is found by    *)
(* its start only; a destination is not looked up.                         *)
StartOnly(x) == x[1] \in mem /\ x[2] = 0
SourceOnly(x, y) == IF x \in handles THEN "pull" ELSE "push"

(* hmcuda_res_get in the list of device memory.                            *)
InMem(x) == x[1] \in mem

(* The driver pins the pages of the pointer that its kind says is the      *)
(* guest's; only there are the guest's pages.                              *)
Pinnable(x) == ~OnDevice(x)

Write(y, v) ==
  IF OnDevice(y) THEN device' = [device EXCEPT ![y] = v] /\ UNCHANGED <<guest, real>>
                 ELSE guest' = [guest EXCEPT ![y[1]] = v] /\ UNCHANGED <<device, real>>

(* CU_MEMCPY and MEMCPY of kind 1 and 2.                                   *)
Push(x, y) == Pinnable(x) /\ InMem(y) /\ Write(y, guest[x[1]])
Pull(x, y) == Pinnable(y) /\ InMem(x) /\ Write(y, device[x])

(* MEMCPY of another kind: the daemon fails it, writes its response into   *)
(* the pinned destination, and the driver takes that for success.          *)
Spoil(y) == Pinnable(y) /\ Write(y, Response)

(* CU_MEMCPY_ASYNC: resolve_any_mem for both.                              *)
Resolved(x) == InMem(x) \/ x[1] \in host
Inside(x)   == IF InMem(x) THEN device[x] ELSE real[x[1]]

Between(x, y) ==
  /\ Resolved(x) /\ Resolved(y)
  /\ IF InMem(y) THEN device' = [device EXCEPT ![y] = Inside(x)] /\ UNCHANGED real
                 ELSE real' = [real EXCEPT ![y[1]] = Inside(x)] /\ UNCHANGED device
  /\ UNCHANGED guest

(* cuMemcpyAsync looks for both pointers, exactly.                         *)
Route(x, y) ==
  IF x \notin handles /\ y \in handles THEN "push"
  ELSE IF x \in handles /\ y \notin handles THEN "pull"
  ELSE "between"

Taken(route, x, y) ==
  CASE route = "push" -> Push(x, y)
    [] route = "pull" -> Pull(x, y)
    [] route = "stray" -> Spoil(y)
    [] route = "between" -> Between(x, y)

Refused(route, x, y) ==
  CASE route = "push" -> ~(Pinnable(x) /\ InMem(y))
    [] route = "pull" -> ~(Pinnable(y) /\ InMem(x))
    [] route = "stray" -> ~Pinnable(y)
    [] route = "between" -> ~(Resolved(x) /\ Resolved(y))

(* A program copies between memory it has.                                 *)
MayCopy(x, y) ==
  /\ x[1] # y[1]
  /\ \A z \in {x, y} : OnDevice(z) => owner[z[1]] # "free"

Copy(call, kind, route, x, y) ==
  /\ MayCopy(x, y)
  /\ \E result \in {"ok", "refused"} :
       /\ result = "ok" => Taken(route, x, y)
       /\ result = "refused" => Refused(route, x, y) /\ UNCHANGED <<device, guest, real>>
       /\ last' = [call |-> call, kind |-> kind, src |-> x, dst |-> y, result |-> result,
                   value |-> Seen(x)]
  /\ UNCHANGED <<handles, owner, mem, host>>

(* Any copy may fail for want of memory or of room on the ring, or in CUDA. *)
CopyFails ==
  /\ last' = NoCopy
  /\ UNCHANGED <<handles, owner, mem, host, device, guest, real>>

(* cuMemcpyAsync has no kind: it leaves it to CUDA to tell.                *)
CuMemcpyAsync(x, y) == Copy("cuMemcpyAsync", 4, Route(x, y), x, y)

(* cudaMemcpy hands on the kind it is given, whatever the pointers are.    *)
(* The driver pins the source for kind 1 and the destination for all the   *)
(* others; the daemon's handler knows 1 and 2.                             *)
RouteOf(kind) == CASE kind = 1 -> "push" [] kind = 2 -> "pull" [] OTHER -> "stray"

CudaMemcpy(kind, x, y) == Copy("cudaMemcpy", kind, RouteOf(kind), x, y)

Next ==
  \/ InitSession \/ CopyFails
  \/ \E d \in Device : Free(d) \/ \E api \in {"driver", "runtime"} : Allocate(d, api)
  \/ \E v \in Values : \/ \E h \in Hosts : CpuWrite(h, v)
                       \/ \E x \in Device \X Cells : DeviceWrite(x, v)
  \/ \E x, y \in Pointers : CuMemcpyAsync(x, y) \/ \E kind \in Kinds : CudaMemcpy(kind, x, y)

Spec == Init /\ [][Next]_vars

------------------------------------------------------------------------------
(* Type correctness; the set has starts of memory of the driver API only.  *)
TypeOK ==
  /\ handles = {Start(d) : d \in {e \in Device : owner[e] = "driver"}}
  /\ owner \in [Device -> {"free", "driver", "runtime"}]
  /\ mem \subseteq Device /\ host \subseteq Pinned
  /\ device \in [Device \X Cells -> Values] /\ guest \in [Hosts -> Values]
  /\ real \in [Pinned -> Values]

Copied     == last.call # "none" /\ last.result = "ok"
WasRefused == last.call # "none" /\ last.result = "refused"
Delivered  == Seen(last.dst) = last.value

(* The daemon has not forgotten the memory.                                *)
Known(x) == OnDevice(x) => x[1] \in mem

Proper(x) == OnDevice(x) => owner[x[1]] = "driver" /\ x[2] = 0

(* cuMemcpyAsync to or from the device moves what the program sees at the  *)
(* source to what it sees at the destination, and refuses nothing the      *)
(* daemon knows, when every device pointer is the start of memory of the   *)
(* driver API; the other end is any host memory.                           *)
StartsCopied ==
  (/\ last.call = "cuMemcpyAsync" /\ Proper(last.src) /\ Proper(last.dst)
   /\ OnDevice(last.src) \/ OnDevice(last.dst)) =>
    /\ Copied => Delivered
    /\ WasRefused => ~(Known(last.src) /\ Known(last.dst))

(* The pointers are what kind 1 or 2 says of them.                         *)
Fits(kind, x, y) == OnDevice(x) = (kind = 2) /\ OnDevice(y) = (kind = 1)

(* cudaMemcpy of kind 1 and 2 never reports success without having moved   *)
(* what the program sees, whatever it is given; and of pointers that fit   *)
(* the kind, into whatever place of any device memory, it refuses only     *)
(* what the daemon has forgotten.                                          *)
KindsCopied ==
  (last.call = "cudaMemcpy" /\ last.kind \in {1, 2}) =>
    /\ Copied => Delivered
    /\ WasRefused => ~(/\ Fits(last.kind, last.src, last.dst)
                       /\ Known(last.src) /\ Known(last.dst))

(* guest/intercept/hmcuda_driver.cpp:427: "D2D: both are device handles,   *)
(* backend calls cuMemcpyAsync directly."  So a copy that succeeds has     *)
(* moved what the program sees, whatever its pointers.                     *)
SuccessMeansCopied == Copied => Delivered

(* host/vhost/cmd_runtime.c:149: "DeviceToDevice".  The daemon serves the  *)
(* kind, so such a copy is not refused.                                    *)
DeviceToDeviceServed ==
  (/\ last.call = "cudaMemcpy" /\ last.kind = 3 /\ OnDevice(last.src) /\ OnDevice(last.dst)
   /\ Known(last.src) /\ Known(last.dst)) => ~WasRefused
=============================================================================
