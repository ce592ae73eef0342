-------------------- MODULE HmcudaRoutingLifecycleProofs --------------------
(***************************************************************************)
(* The theorems of two components that share no state: what HmcudaRouting  *)
(* promises of copies, for any memory, cells, buffers and values, and what *)
(* HmcudaLifecycle promises of the device, for any processes, threads and  *)
(* bounds.                                                                 *)
(***************************************************************************)
EXTENDS HmcudaRouting, HmcudaLifecycle, TLAPS

(* What the two pointers of a copy can be.                                 *)
LEMMA PointerKinds ==
  ASSUME NEW x \in Pointers
  PROVE  /\ OnDevice(x) => x \in Device \X Cells
         /\ ~OnDevice(x) => x[1] \in Hosts /\ x = <<x[1], 0>>
<1>1. CASE x \in Device \X Cells
  BY <1>1 DEF OnDevice
<1>2. CASE x \in Hosts \X {0}
  <2>1. x[1] \in Hosts /\ x = <<x[1], 0>>
    BY <1>2
  <2>2. x[1] \notin Device
    BY <2>1, RoutingAssumption DEF Hosts
  <2>3. QED
    BY <2>1, <2>2 DEF OnDevice
<1>3. QED
  BY <1>1, <1>2 DEF Pointers

(* The library's set tells, of pointers to the start of memory of the      *)
(* driver API and to host memory, exactly the former.                      *)
LEMMA HandlesTell ==
  ASSUME TypeOK, NEW x \in Pointers, Proper(x)
  PROVE  x \in handles <=> OnDevice(x)
<1>1. CASE OnDevice(x)
  <2>1. x[1] \in Device /\ x[2] = 0 /\ owner[x[1]] = "driver" /\ x = <<x[1], x[2]>>
    BY <1>1, PointerKinds DEF Proper, OnDevice
  <2>2. QED
    BY <1>1, <2>1 DEF TypeOK, Start
<1>2. CASE ~OnDevice(x)
  <2>1. x[1] \notin Device
    BY <1>2 DEF OnDevice
  <2>2. QED
    BY <1>2, <2>1 DEF TypeOK, Start
<1>3. QED
  BY <1>1, <1>2

------------------------------------------------------------------------------
(* Type correctness.                                                       *)

LEMMA InitType == Init => TypeOK
  BY RoutingAssumption DEF Init, TypeOK

LEMMA WriteType ==
  ASSUME TypeOK, NEW y \in Pointers, NEW v \in Values, Write(y, v)
  PROVE  /\ device' \in [Device \X Cells -> Values] /\ guest' \in [Hosts -> Values]
         /\ real' \in [Pinned -> Values]
         /\ Seen(y)' = v
  BY PointerKinds DEF TypeOK, Write, Seen, OnDevice

(* Both pointers of a copy in the daemon are in its lists.                 *)
LEMMA InsideType ==
  ASSUME TypeOK, NEW x \in Pointers, Resolved(x)
  PROVE  /\ Inside(x) \in Values
         /\ ~InMem(x) => x[1] \in Pinned
  BY PointerKinds DEF TypeOK, Resolved, Inside, InMem, OnDevice

LEMMA BetweenType ==
  ASSUME TypeOK, NEW x \in Pointers, NEW y \in Pointers, Between(x, y)
  PROVE  /\ device' \in [Device \X Cells -> Values] /\ guest' \in [Hosts -> Values]
         /\ real' \in [Pinned -> Values]
  BY InsideType, PointerKinds DEF TypeOK, Between, InMem, OnDevice

LEMMA CopyType ==
  ASSUME TypeOK, NEW x \in Pointers, NEW y \in Pointers,
         NEW call, NEW kind, NEW route \in {"push", "pull", "stray", "between"},
         Copy(call, kind, route, x, y)
  PROVE  TypeOK'
<1>1. UNCHANGED <<handles, owner, mem, host>>
  BY DEF Copy
<1>2. /\ device' \in [Device \X Cells -> Values] /\ guest' \in [Hosts -> Values]
      /\ real' \in [Pinned -> Values]
  <2>1. CASE UNCHANGED <<device, guest, real>>
    BY <2>1 DEF TypeOK
  <2>2. CASE Push(x, y)
    <3>1. guest[x[1]] \in Values
      BY <2>2, PointerKinds DEF TypeOK, Push, Pinnable
    <3>2. QED
      BY <2>2, <3>1, WriteType DEF Push
  <2>3. CASE Pull(x, y)
    <3>1. device[x] \in Values
      BY <2>3, PointerKinds DEF TypeOK, Pull, InMem, OnDevice
    <3>2. QED
      BY <2>3, <3>1, WriteType DEF Pull
  <2>4. CASE Between(x, y)
    BY <2>4, BetweenType
  <2>5. CASE Spoil(y)
    BY <2>5, WriteType, RoutingAssumption DEF Spoil
  <2>6. QED
    BY <2>1, <2>2, <2>3, <2>4, <2>5 DEF Copy, Taken
<1>3. QED
  BY <1>1, <1>2 DEF TypeOK

LEMMA NextType == TypeOK /\ [Next]_vars => TypeOK'
<1> SUFFICES ASSUME TypeOK, [Next]_vars PROVE TypeOK'
  OBVIOUS
<1>1. CASE InitSession
  BY <1>1 DEF InitSession, TypeOK
<1>2. ASSUME NEW d \in Device, Free(d) PROVE TypeOK'
  <2>1. handles' = {Start(e) : e \in {c \in Device : owner'[c] = "driver"}}
    BY <1>2 DEF Free, TypeOK, Start
  <2>2. QED
    BY <1>2, <2>1 DEF Free, TypeOK
<1>3. ASSUME NEW d \in Device, NEW api \in {"driver", "runtime"}, Allocate(d, api) PROVE TypeOK'
  <2>1. handles' = {Start(e) : e \in {c \in Device : owner'[c] = "driver"}}
    BY <1>3 DEF Allocate, Listed, TypeOK, Start
  <2>2. QED
    BY <1>3, <2>1 DEF Allocate, TypeOK
<1>4. ASSUME NEW v \in Values, NEW h \in Hosts, CpuWrite(h, v) PROVE TypeOK'
  BY <1>4 DEF CpuWrite, TypeOK
<1>5. ASSUME NEW v \in Values, NEW x \in Device \X Cells, DeviceWrite(x, v) PROVE TypeOK'
  BY <1>5 DEF DeviceWrite, TypeOK
<1>6. ASSUME NEW x \in Pointers, NEW y \in Pointers, CuMemcpyAsync(x, y) PROVE TypeOK'
  BY <1>6, CopyType DEF CuMemcpyAsync, Route
<1>7. ASSUME NEW x \in Pointers, NEW y \in Pointers, NEW kind \in Kinds,
             CudaMemcpy(kind, x, y)
      PROVE  TypeOK'
  <2>1. RouteOf(kind) \in {"push", "pull", "stray", "between"}
    BY DEF RouteOf
  <2>2. QED
    BY <1>7, <2>1, CopyType DEF CudaMemcpy
<1>8. CASE CopyFails
  BY <1>8 DEF CopyFails, TypeOK
<1>9. CASE UNCHANGED vars
  BY <1>9 DEF vars, TypeOK
<1>10. QED
  BY <1>1, <1>2, <1>3, <1>4, <1>5, <1>6, <1>7, <1>8, <1>9 DEF Next

(* The state has its type at all times, and the library's set is what it   *)
(* has been given by the driver API, whatever the daemon has forgotten.    *)
THEOREM RoutingTypeCorrect == Spec => []TypeOK
  BY InitType, NextType, PTL DEF Spec

------------------------------------------------------------------------------
(* Where a route is the right one.                                         *)

(* A copy that pins one end and succeeds has delivered what was seen at   *)
(* the source, whatever the two pointers are.                              *)
LEMMA PinnedDelivers ==
  ASSUME TypeOK, NEW x \in Pointers, NEW y \in Pointers, NEW call, NEW kind,
         NEW route \in {"push", "pull"}, Copy(call, kind, route, x, y), Copied'
  PROVE  Delivered'
<1>1. Taken(route, x, y) /\ last'.dst = y /\ last'.value = Seen(x)
  BY DEF Copy, Copied
<1>2. CASE route = "push"
  <2>1. Write(y, guest[x[1]]) /\ Seen(x) = guest[x[1]] /\ guest[x[1]] \in Values
    BY <1>1, <1>2, PointerKinds DEF Taken, Push, Pinnable, Seen, TypeOK
  <2>2. QED
    BY <1>1, <2>1, WriteType DEF Delivered, Seen
<1>3. CASE route = "pull"
  <2>1. OnDevice(x)
    BY <1>1, <1>3 DEF Taken, Pull, InMem, OnDevice, TypeOK
  <2>2. Write(y, device[x]) /\ Seen(x) = device[x] /\ device[x] \in Values
    BY <1>1, <1>3, <2>1, PointerKinds DEF Taken, Pull, Seen, TypeOK
  <2>3. QED
    BY <1>1, <2>2, WriteType DEF Delivered, Seen
<1>4. QED
  BY <1>2, <1>3

(* With the host end where the route has it, it is refused only for device *)
(* memory the daemon does not know.                                        *)
LEMMA PinnedRefused ==
  ASSUME TypeOK, NEW x \in Pointers, NEW y \in Pointers, NEW call, NEW kind,
         NEW route \in {"push", "pull"}, Copy(call, kind, route, x, y), WasRefused',
         OnDevice(x) <=> route = "pull", OnDevice(y) <=> route = "push"
  PROVE  ~(Known(x)' /\ Known(y)')
<1>1. Refused(route, x, y) /\ mem' = mem
  BY DEF Copy, WasRefused
<1>2. CASE route = "push"
  BY <1>1, <1>2 DEF Refused, Pinnable, InMem, Known, OnDevice
<1>3. CASE route = "pull"
  BY <1>1, <1>3 DEF Refused, Pinnable, InMem, Known, OnDevice
<1>4. QED
  BY <1>2, <1>3

(* So does a copy the daemon makes between two places in device memory.    *)
LEMMA DeviceCopy ==
  ASSUME TypeOK, NEW x \in Pointers, NEW y \in Pointers, NEW call, NEW kind,
         Copy(call, kind, "between", x, y), OnDevice(x), OnDevice(y)
  PROVE  /\ Copied' => Delivered'
         /\ WasRefused' => ~(Known(x)' /\ Known(y)')
<1>1. x[1] \notin host /\ y[1] \notin host /\ x \in Device \X Cells /\ y \in Device \X Cells
  BY RoutingAssumption, PointerKinds DEF OnDevice, TypeOK
<1>2. ASSUME Copied' PROVE Delivered'
  <2>1. Between(x, y) /\ last'.dst = y /\ last'.value = Seen(x)
    BY <1>2 DEF Copy, Copied, Taken
  <2>2. device' = [device EXCEPT ![y] = device[x]]
    BY <1>1, <2>1 DEF Between, Resolved, Inside, InMem
  <2>3. QED
    BY <1>1, <2>1, <2>2 DEF Delivered, Seen, TypeOK
<1>3. ASSUME WasRefused' PROVE ~(Known(x)' /\ Known(y)')
  BY <1>3 DEF Copy, WasRefused, Refused, Resolved, InMem, Known
<1>4. QED
  BY <1>2, <1>3

------------------------------------------------------------------------------
(* A step that is not a copy leaves nothing to be said of the last copy.   *)
LEMMA OtherStep ==
  ASSUME [Next]_vars,
         \A x, y \in Pointers : /\ ~CuMemcpyAsync(x, y)
                                /\ \A kind \in Kinds : ~CudaMemcpy(kind, x, y)
  PROVE  last' = NoCopy \/ UNCHANGED vars
  BY DEF Next, CopyFails, InitSession, Free, Allocate, CpuWrite, DeviceWrite

LEMMA StartsStep == TypeOK /\ StartsCopied /\ [Next]_vars => StartsCopied'
<1> SUFFICES ASSUME TypeOK, StartsCopied, [Next]_vars PROVE StartsCopied'
  OBVIOUS
<1>1. ASSUME NEW x \in Pointers, NEW y \in Pointers, CuMemcpyAsync(x, y)
      PROVE  StartsCopied'
  <2>1. last'.src = x /\ last'.dst = y /\ owner' = owner
    BY <1>1 DEF CuMemcpyAsync, Copy
  <2> SUFFICES ASSUME Proper(x), Proper(y), OnDevice(x) \/ OnDevice(y)
               PROVE  /\ Copied' => Delivered'
                      /\ WasRefused' => ~(Known(x)' /\ Known(y)')
    BY <2>1 DEF StartsCopied, Proper, Known, OnDevice
  <2>2. /\ x \in handles <=> OnDevice(x)
        /\ y \in handles <=> OnDevice(y)
    BY HandlesTell
  <2>3. CASE OnDevice(x) /\ OnDevice(y)
    BY <1>1, <2>2, <2>3, DeviceCopy DEF CuMemcpyAsync, Route
  <2>4. CASE OnDevice(x) /\ ~OnDevice(y)
    BY <1>1, <2>2, <2>4, PinnedDelivers, PinnedRefused DEF CuMemcpyAsync, Route
  <2>5. CASE ~OnDevice(x) /\ OnDevice(y)
    BY <1>1, <2>2, <2>5, PinnedDelivers, PinnedRefused DEF CuMemcpyAsync, Route
  <2>6. QED
    BY <2>3, <2>4, <2>5
<1>2. ASSUME NEW x \in Pointers, NEW y \in Pointers, NEW kind \in Kinds,
             CudaMemcpy(kind, x, y)
      PROVE  StartsCopied'
  BY <1>2 DEF CudaMemcpy, Copy, StartsCopied
<1>3. CASE last' = NoCopy
  BY <1>3 DEF StartsCopied, NoCopy
<1>4. CASE UNCHANGED vars
  BY <1>4 DEF vars, StartsCopied, Proper, Copied, WasRefused, Delivered, Known, Seen, OnDevice
<1>5. QED
  BY <1>1, <1>2, <1>3, <1>4, OtherStep

(* cuMemcpyAsync is right for pointers to the start of memory of the       *)
(* driver API, whichever sessions, frees and failures came before.         *)
THEOREM Starts == Spec => []StartsCopied
<1>1. Init => StartsCopied
  BY DEF Init, StartsCopied, NoCopy
<1>2. QED
  BY <1>1, StartsStep, RoutingTypeCorrect, PTL DEF Spec

LEMMA KindsStep == TypeOK /\ KindsCopied /\ [Next]_vars => KindsCopied'
<1> SUFFICES ASSUME TypeOK, KindsCopied, [Next]_vars PROVE KindsCopied'
  OBVIOUS
<1>1. ASSUME NEW x \in Pointers, NEW y \in Pointers, NEW kind \in Kinds,
             CudaMemcpy(kind, x, y)
      PROVE  KindsCopied'
  <2>1. last'.src = x /\ last'.dst = y /\ last'.kind = kind
    BY <1>1 DEF CudaMemcpy, Copy
  <2> SUFFICES ASSUME kind \in {1, 2}
               PROVE  /\ Copied' => Delivered'
                      /\ WasRefused' => ~(/\ Fits(kind, x, y)
                                          /\ Known(x)' /\ Known(y)')
    BY <2>1 DEF KindsCopied, Known, Fits, OnDevice
  <2>2. CASE kind = 1
    <3>1. RouteOf(kind) = "push"
      BY <2>2 DEF RouteOf
    <3>2. Copy("cudaMemcpy", kind, "push", x, y)
      BY <1>1, <3>1 DEF CudaMemcpy
    <3>3. Copied' => Delivered'
      BY <3>2, PinnedDelivers
    <3>4. ASSUME Fits(kind, x, y), WasRefused' PROVE ~(Known(x)' /\ Known(y)')
      <4>1. (OnDevice(x) <=> "push" = "pull") /\ (OnDevice(y) <=> "push" = "push")
        BY <2>2, <3>4 DEF Fits, OnDevice
      <4>2. QED
        BY <3>2, <3>4, <4>1, PinnedRefused
    <3>5. QED
      BY <3>3, <3>4
  <2>3. CASE kind = 2
    <3>1. RouteOf(kind) = "pull"
      BY <2>3 DEF RouteOf
    <3>2. Copy("cudaMemcpy", kind, "pull", x, y)
      BY <1>1, <3>1 DEF CudaMemcpy
    <3>3. Copied' => Delivered'
      BY <3>2, PinnedDelivers
    <3>4. ASSUME Fits(kind, x, y), WasRefused' PROVE ~(Known(x)' /\ Known(y)')
      <4>1. (OnDevice(x) <=> "pull" = "pull") /\ (OnDevice(y) <=> "pull" = "push")
        BY <2>3, <3>4 DEF Fits, OnDevice
      <4>2. QED
        BY <3>2, <3>4, <4>1, PinnedRefused
    <3>5. QED
      BY <3>3, <3>4
  <2>4. QED
    BY <2>2, <2>3
<1>2. ASSUME NEW x \in Pointers, NEW y \in Pointers, CuMemcpyAsync(x, y)
      PROVE  KindsCopied'
  BY <1>2 DEF CuMemcpyAsync, Copy, KindsCopied
<1>3. CASE last' = NoCopy
  BY <1>3 DEF KindsCopied, NoCopy
<1>4. CASE UNCHANGED vars
  BY <1>4 DEF vars, KindsCopied, Copied, WasRefused, Delivered, Known, Seen, OnDevice
<1>5. QED
  BY <1>1, <1>2, <1>3, <1>4, OtherStep

(* cudaMemcpy of kind 1 and 2 has moved what the program sees whenever it  *)
(* reports success, for every two pointers; it is served when the kind     *)
(* fits them.                                                              *)
THEOREM HostKinds == Spec => []KindsCopied
<1>1. Init => KindsCopied
  BY DEF Init, KindsCopied, NoCopy
<1>2. QED
  BY <1>1, KindsStep, RoutingTypeCorrect, PTL DEF Spec

------------------------------------------------------------------------------
(* The device: LifecycleInv is inductive, and what follows from it.        *)

LEMMA LifeInit == LInit => LifecycleInv
<1> SUFFICES ASSUME LInit PROVE LifecycleInv
  OBVIOUS
<1>1. /\ fd = [p \in Processes |-> 0]
      /\ file = [t \in Threads |-> 0] /\ pc = [t \in Threads |-> "out"]
  BY DEF LInit, Closed, Out, NoFile
<1>2. /\ fd \in [Processes -> Hdevs]
      /\ file \in [Threads -> Hdevs]
      /\ pc \in [Threads -> {"out", "locking", "waiting"}]
  BY <1>1, LifecycleAssumption DEF Hdevs
<1>3. LTypeOK
  <2>1. 0 \in Hdevs /\ 0 \in 0..MaxExits
    BY LifecycleAssumption DEF Hdevs
  <2>2. QED
    BY <1>2, <2>1 DEF LInit, LTypeOK
<1>4. DeviceOutlivesCalls
  BY <1>1 DEF DeviceOutlivesCalls
<1>5. QED
  BY <1>3, <1>4 DEF LInit, LifecycleInv

(* Daemon and ring: the device is as it was, and so is who uses it.          *)
LEMMA HostStep ==
  ASSUME LifecycleInv,
         Listen \/ Accept \/ Exit \/ Pop \/ Serve
  PROVE  LifecycleInv'
<1>1. UNCHANGED <<driver, calls, ready>>
  BY DEF Listen, Accept, Exit, Pop, Serve, driver, calls, ring, outside
<1>2. /\ {avail', popped', used'} \subseteq Threads \cup {None}
      /\ daemon' \in {"down", "listening", "serving"} /\ exits' \in 0..MaxExits
      /\ qemu' \in {"off", "connected", "lost"}
      /\ daemon' = "serving" <=> qemu' = "connected"
  BY LifecycleAssumption DEF LifecycleInv, LTypeOK, Listen, Accept, Exit,
     Pop, Serve, ring, outside
<1>3. LTypeOK'
  BY <1>1, <1>2 DEF LifecycleInv, LTypeOK, driver, calls
<1>4. DeviceOutlivesCalls'
  BY <1>1 DEF LifecycleInv, DeviceOutlivesCalls, driver, calls
<1>5. QED
  BY <1>1, <1>3, <1>4 DEF LifecycleInv, InUse, driver, calls

(* Power off is as before the first boot, but for the daemon.                *)
LEMMA PowerOffStep ==
  ASSUME LifecycleInv, PowerOff
  PROVE  LifecycleInv'
<1>1. /\ fd' = [p \in Processes |-> 0]
      /\ file' = [t \in Threads |-> 0] /\ pc' = [t \in Threads |-> "out"]
  BY DEF PowerOff, Closed, Out, NoFile
<1>2. /\ fd' \in [Processes -> Hdevs]
      /\ file' \in [Threads -> Hdevs]
      /\ pc' \in [Threads -> {"out", "locking", "waiting"}]
  BY <1>1, LifecycleAssumption DEF Hdevs
<1>3. /\ daemon' \in {"down", "listening", "serving"} /\ exits' \in 0..MaxExits
      /\ daemon' # "serving"
  BY LifecycleAssumption DEF LifecycleInv, LTypeOK, PowerOff, Panic
<1>4. LTypeOK'
  <2>1. 0 \in Hdevs
    BY LifecycleAssumption DEF Hdevs
  <2>2. QED
    BY <1>2, <1>3, <2>1 DEF PowerOff, LTypeOK, Hdevs
<1>5. DeviceOutlivesCalls'
  BY <1>1 DEF DeviceOutlivesCalls
<1>6. QED
  BY <1>4, <1>5 DEF PowerOff, LifecycleInv

(* A probe begins when nobody has a file: there was no device to open.       *)
LEMMA ProbeStep ==
  ASSUME LifecycleInv,
         \/ Modprobe \/ Probe \/ ProbeFails
         \/ Register \/ Ready
  PROVE  LifecycleInv'
<1>1. CASE Modprobe
  BY <1>1 DEF LifecycleInv, LTypeOK, DeviceOutlivesCalls, InUse, Modprobe,
     calls, ring, outside
<1>2. CASE Probe
  BY <1>2, LifecycleAssumption DEF LifecycleInv, LTypeOK, Hdevs,
     DeviceOutlivesCalls, InUse, Probe, calls, ring, outside
<1>3. CASE ProbeFails
  BY <1>3 DEF LifecycleInv, LTypeOK, DeviceOutlivesCalls, InUse, ProbeFails,
     calls, ring, outside
<1>4. CASE Register
  BY <1>4 DEF LifecycleInv, LTypeOK, DeviceOutlivesCalls, InUse, Register,
     calls, ring, outside
<1>5. CASE Ready
  BY <1>5 DEF LifecycleInv, LTypeOK, DeviceOutlivesCalls, InUse, Ready,
     calls, outside
<1>6. QED
  BY <1>1, <1>2, <1>3, <1>4, <1>5

(* A module goes only when no file holds it, and none is opened meanwhile.   *)
LEMMA RemoveStep ==
  ASSUME LifecycleInv,
         Rmmod \/ Deregister \/ Reset \/ FreeDevice
  PROVE  LifecycleInv'
<1>1. CASE Rmmod
  BY <1>1 DEF LifecycleInv, LTypeOK, DeviceOutlivesCalls, InUse, Rmmod,
     calls, ring, outside
<1>2. CASE Deregister
  BY <1>2, LifecycleAssumption DEF LifecycleInv, LTypeOK, Hdevs,
     DeviceOutlivesCalls, InUse, Deregister, calls, ring, outside
<1>3. CASE Reset
  BY <1>3 DEF LifecycleInv, LTypeOK, DeviceOutlivesCalls, InUse, Reset,
     calls, outside
<1>4. CASE FreeDevice
  BY <1>4 DEF LifecycleInv, LTypeOK, DeviceOutlivesCalls, InUse, FreeDevice,
     calls, ring, outside
<1>5. QED
  BY <1>1, <1>2, <1>3, <1>4

(* A process comes by a file only from the device that is there now, and a   *)
(* call by its hdev only from such a file.                                   *)
LEMMA FileStep ==
  ASSUME LifecycleInv, NEW p \in Processes,
         TransportInit(p) \/ TransportFini(p)
  PROVE  LifecycleInv'
<1>1. CASE TransportInit(p)
  <2>1. /\ fd' = [fd EXCEPT ![p] = hdev] /\ module # "going"
        /\ UNCHANGED <<driver, pc, file, ring, outside>>
    BY <1>1 DEF LifecycleInv, TransportInit
  <2>2. hdev \in live /\ step \in {"registered", "bound"} /\ hdev \in Hdevs
    BY <1>1 DEF LifecycleInv, LTypeOK, TransportInit
  <2>3. LTypeOK'
    BY <2>1, <2>2 DEF LifecycleInv, LTypeOK, driver, ring, outside
  <2>4. DeviceOutlivesCalls'
    BY <2>1, <2>2 DEF LifecycleInv, LTypeOK, DeviceOutlivesCalls, driver
  <2>5. QED
    BY <2>1, <2>2, <2>3, <2>4 DEF LifecycleInv, driver, ring
<1>2. CASE TransportFini(p)
  <2>1. /\ fd' = [fd EXCEPT ![p] = 0]
        /\ UNCHANGED <<driver, pc, file, ring, outside>>
    BY <1>2 DEF TransportFini
  <2>2. 0 \in Hdevs
    BY LifecycleAssumption DEF Hdevs
  <2>3. LTypeOK'
    BY <2>1, <2>2 DEF LifecycleInv, LTypeOK, driver, ring, outside
  <2>4. fd \in [Processes -> Hdevs] /\ \A q \in Processes : fd'[q] \in {fd[q], 0}
    BY <2>1 DEF LifecycleInv, LTypeOK
  <2>5. DeviceOutlivesCalls'
    BY <2>1, <2>4 DEF LifecycleInv, DeviceOutlivesCalls, driver
  <2>6. InUse' => InUse
    BY <2>1, <2>4 DEF InUse
  <2>7. QED
    BY <2>1, <2>3, <2>5, <2>6 DEF LifecycleInv, driver, ring
<1>3. QED
  BY <1>1, <1>2

LEMMA CallStep ==
  ASSUME LifecycleInv, NEW t \in Threads,
         Dispatch(t) \/ Submit(t) \/ Return(t)
  PROVE  LifecycleInv'
<1>1. CASE Dispatch(t)
  <2>1. fd[ProcessOf[t]] = hdev /\ module # "going"
    BY <1>1, LifecycleAssumption DEF LifecycleInv, DeviceOutlivesCalls,
       InUse, Dispatch
  <2>2. hdev \in live /\ step \in {"registered", "bound"} /\ hdev \in Hdevs
    <3>1. fd[ProcessOf[t]] \in {fd[p] : p \in Processes} /\ fd[ProcessOf[t]] # 0
      BY <1>1, LifecycleAssumption DEF Dispatch
    <3>2. QED
      BY <2>1, <3>1 DEF LifecycleInv, LTypeOK, DeviceOutlivesCalls
  <2>3. /\ file' = [file EXCEPT ![t] = hdev] /\ pc' = [pc EXCEPT ![t] = "locking"]
        /\ UNCHANGED <<driver, fd, ring, outside>>
    BY <1>1, <2>1 DEF Dispatch
  <2>4. LTypeOK'
    BY <2>2, <2>3 DEF LifecycleInv, LTypeOK, driver, ring, outside
  <2>5. DeviceOutlivesCalls'
    BY <2>2, <2>3 DEF LifecycleInv, LTypeOK, DeviceOutlivesCalls, driver
  <2>6. QED
    BY <2>1, <2>3, <2>4, <2>5 DEF LifecycleInv, driver, ring
<1>2. CASE Submit(t)
  <2>1. /\ UNCHANGED <<driver, fd, file>>
        /\ pc[t] = "locking" /\ pc' = [pc EXCEPT ![t] = "waiting"]
    BY <1>2 DEF Submit
  <2>2. LTypeOK'
    BY <1>2, <2>1 DEF LifecycleInv, LTypeOK, Submit, driver, outside
  <2>3. DeviceOutlivesCalls'
    BY <2>1 DEF LifecycleInv, LTypeOK, DeviceOutlivesCalls, driver
  <2>4. QED
    BY <1>2, <2>1, <2>2, <2>3 DEF LifecycleInv, InUse, Submit, driver,
       outside
<1>3. CASE Return(t)
  <2>1. /\ file' = [file EXCEPT ![t] = 0] /\ pc' = [pc EXCEPT ![t] = "out"]
        /\ used' = None
        /\ UNCHANGED <<driver, fd, ready, avail, popped, outside>>
    BY <1>3 DEF Return
  <2>2. 0 \in Hdevs
    BY LifecycleAssumption DEF Hdevs
  <2>3. LTypeOK'
    BY <2>1, <2>2 DEF LifecycleInv, LTypeOK, driver, outside
  <2>4. \A u \in Threads : file'[u] \in {file[u], 0}
    BY <2>1 DEF LifecycleInv, LTypeOK
  <2>5. DeviceOutlivesCalls'
    BY <2>1, <2>4 DEF LifecycleInv, DeviceOutlivesCalls, driver
  <2>6. InUse' => InUse
    BY <2>1, <2>4 DEF InUse
  <2>7. QED
    BY <2>1, <2>3, <2>5, <2>6 DEF LifecycleInv, driver
<1>4. QED
  BY <1>1, <1>2, <1>3

LEMMA LifeNext == LifecycleInv /\ [LNext]_lvars => LifecycleInv'
<1> SUFFICES ASSUME LifecycleInv, [LNext]_lvars PROVE LifecycleInv'
  OBVIOUS
<1>1. CASE UNCHANGED lvars
  BY <1>1 DEF lvars, driver, calls, ring, outside, LifecycleInv, LTypeOK,
     DeviceOutlivesCalls, InUse
<1>2. CASE LNext
  BY <1>2, HostStep, PowerOffStep, ProbeStep, RemoveStep, FileStep, CallStep
     DEF LNext
<1>3. QED
  BY <1>1, <1>2

(* At each step of its life the device has what that step says.              *)
THEOREM LifeInvariance == LSpec => []LifecycleInv
BY LifeInit, LifeNext, PTL DEF LSpec

(* However many processes and threads open, close and call, and however the  *)
(* driver is loaded and removed meanwhile: whoever has the device open or is *)
(* inside a call has its hdev.                                               *)
THEOREM CallsAreSafe == LSpec => []DeviceOutlivesCalls
<1>1. LifecycleInv => DeviceOutlivesCalls
  BY DEF LifecycleInv
<1>2. QED
  BY <1>1, LifeInvariance, PTL

(* Failed probes and finished removals leave nothing behind.                 *)
THEOREM LeavesNothing == LSpec => []NothingLeftBehind
<1>1. LifecycleInv => NothingLeftBehind
  BY DEF LifecycleInv, DeviceOutlivesCalls, NothingLeftBehind, InUse
<1>2. QED
  BY <1>1, LifeInvariance, PTL

(* Type correctness, and one daemon to a connection.                         *)
THEOREM LifeTypeCorrect == LSpec => []LTypeOK
<1>1. LifecycleInv => LTypeOK
  BY DEF LifecycleInv
<1>2. QED
  BY <1>1, LifeInvariance, PTL

==============================================================================
