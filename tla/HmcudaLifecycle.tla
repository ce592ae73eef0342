---------------------------- MODULE HmcudaLifecycle ----------------------------
(***************************************************************************)
(* When the device is there: the driver is loaded, probed and removed      *)
(* (driver/virtio_hmcuda_main.c), guest processes open and close it while  *)
(* their threads are inside calls (guest/transport/hmcuda_transport.cpp),  *)
(* and the daemon is started, stopped and started again                    *)
(* (host/vhost/vhost_user_hmcuda.c, scripts/).                             *)
(*                                                                         *)
(* A call has one request, and its buffers and interrupt are left to       *)
(* HmcudaChannel.  What the kernel does with a module in use, and QEMU     *)
(* with its device, is external: QEMU connects once, when it starts, as    *)
(* scripts/qemu_boot.sh asks it to.  Removal is by rmmod only.             *)
(* LInit, LNext and LSpec, so that one module can extend this one and      *)
(* HmcudaRouting.                                                          *)
(***************************************************************************)
EXTENDS Naturals

CONSTANTS
  Processes, Threads, ProcessOf,
  None,
  MaxProbes, MaxExits  (* bounds on the probes of a boot and on the exits  *)
                       (* of the daemon                                    *)

ASSUME LifecycleAssumption ==
  /\ ProcessOf \in [Threads -> Processes]
  /\ None \notin Threads
  /\ MaxProbes \in Nat /\ MaxExits \in Nat

VARIABLES
  module,    (* "none", "loaded", or "going" from rmmod on                 *)
  step,      (* how far probe or remove has come                           *)
  hdev,      (* probes so far: the number of the last hdev                 *)
  live,      (* the hdevs that have been allocated and not freed           *)
  node,      (* the hdev that opening the device gives, or 0               *)
  fd,        (* of a process: the hdev of the file g_fd, or 0 for -1       *)
  pc, file,  (* of a thread: where its call is, and the hdev of its file   *)
  ready,     (* the daemon has been told of the ring (DRIVER_OK)           *)
  avail, popped, used,  (* whose request is where, or None                 *)
  daemon, qemu, exits

driver  == <<module, step, hdev, live, node>>
calls   == <<fd, pc, file>>
ring    == <<ready, avail, popped, used>>
outside == <<daemon, qemu, exits>>
lvars   == <<driver, calls, ring, outside>>

Closed == [p \in Processes |-> 0]
Out    == [t \in Threads |-> "out"]
NoFile == [t \in Threads |-> 0]

LInit ==
  /\ module = "none" /\ step = "unbound" /\ hdev = 0 /\ live = {} /\ node = 0
  /\ fd = Closed /\ pc = Out /\ file = NoFile
  /\ ready = FALSE /\ avail = None /\ popped = None /\ used = None
  /\ daemon = "down" /\ qemu = "off" /\ exits = 0

------------------------------------------------------------------------------
(* The daemon and QEMU.                                                    *)

(* main, up to accept.                                                     *)
Listen ==
  /\ daemon = "down" /\ daemon' = "listening"
  /\ UNCHANGED <<driver, calls, ring, qemu, exits>>

(* The one accept of main; the listening socket is not looked at again.    *)
Accept ==
  /\ daemon = "listening" /\ qemu = "off"
  /\ daemon' = "serving" /\ qemu' = "connected"
  /\ UNCHANGED <<driver, calls, ring, exits>>

(* "vhost stop", or the daemon crashes: what it has popped is gone with it. *)
Exit ==
  /\ daemon # "down" /\ exits < MaxExits
  /\ daemon' = "down" /\ exits' = exits + 1
  /\ qemu' = IF qemu = "connected" THEN "lost" ELSE qemu
  /\ popped' = None
  /\ UNCHANGED <<driver, calls, ready, avail, used>>

(* panic_cb, when the connection ends; a daemon that QEMU never connected  *)
(* to does not notice.                                                     *)
Panic == daemon' = IF qemu = "connected" THEN "down" ELSE daemon

(* QEMU ends with its guest.                                               *)
PowerOff ==
  /\ qemu # "off" /\ exits < MaxExits
  /\ qemu' = "off" /\ exits' = exits + 1
  /\ Panic
  /\ module' = "none" /\ step' = "unbound" /\ hdev' = 0 /\ live' = {} /\ node' = 0
  /\ fd' = Closed /\ pc' = Out /\ file' = NoFile
  /\ ready' = FALSE /\ avail' = None /\ popped' = None /\ used' = None

(* hmcuda_process_vq.                                                      *)
Pop ==
  /\ daemon = "serving" /\ ready /\ avail # None /\ popped = None
  /\ popped' = avail /\ avail' = None
  /\ UNCHANGED <<driver, calls, ready, used, outside>>

(* The seeded fault of the loop: an element is freed and not pushed.       *)
ServeDropped ==
  /\ daemon = "serving" /\ popped # None
  /\ popped' = None
  /\ UNCHANGED <<driver, calls, ready, avail, used, outside>>

Serve ==
  /\ daemon = "serving" /\ popped # None
  /\ used' = popped /\ popped' = None
  /\ UNCHANGED <<driver, calls, ready, avail, outside>>

------------------------------------------------------------------------------
(* The module and its device.                                              *)

(* The seeded fault of the file operations: they do not name their owner.  *)
InUseUnowned == FALSE

(* .owner = THIS_MODULE: a file holds the module until it is closed and no *)
(* thread is inside one of its operations any more.                        *)
InUse == (\E p \in Processes : fd[p] # 0) \/ (\E t \in Threads : file[t] # 0)

Modprobe ==
  /\ qemu # "off" /\ module = "none" /\ module' = "loaded"
  /\ UNCHANGED <<step, hdev, live, node, calls, ring, outside>>

Rmmod ==
  /\ module = "loaded" /\ step \in {"unbound", "bound"} /\ ~InUse
  /\ module' = IF step = "bound" THEN "going" ELSE "none"
  /\ UNCHANGED <<step, hdev, live, node, calls, ring, outside>>

(* virtio_hmcuda_probe: allocate, find the queue, register, get ready.     *)
Probe ==
  /\ module = "loaded" /\ step = "unbound" /\ hdev < MaxProbes
  /\ step' = "allocated"
  /\ hdev' = hdev + 1 /\ live' = live \cup {hdev'}
  /\ UNCHANGED <<module, node, calls, ring, outside>>

(* The seeded fault of its error path: the label err_free is missed.       *)
ProbeFailsUnfreed ==
  /\ step = "allocated" /\ step' = "unbound"
  /\ UNCHANGED <<module, hdev, live, node, calls, ring, outside>>

(* No queue, or no device node.                                            *)
ProbeFails ==
  /\ step = "allocated" /\ step' = "unbound"
  /\ live' = live \ {hdev}
  /\ UNCHANGED <<module, hdev, node, calls, ring, outside>>

Register ==
  /\ step = "allocated" /\ step' = "registered"
  /\ node' = hdev
  /\ UNCHANGED <<module, hdev, live, calls, ring, outside>>

(* virtio_device_ready: calls may have come before.                        *)
Ready ==
  /\ step = "registered" /\ step' = "bound"
  /\ ready' = (qemu = "connected")
  /\ UNCHANGED <<module, hdev, live, node, calls, avail, popped, used, outside>>

(* The seeded fault of removal: the device node stays.                     *)
DeregisterForgotten ==
  /\ module = "going" /\ step = "bound" /\ step' = "deregistered"
  /\ UNCHANGED <<module, hdev, live, node, calls, ring, outside>>

(* virtio_hmcuda_remove.                                                   *)
Deregister ==
  /\ module = "going" /\ step = "bound" /\ step' = "deregistered"
  /\ node' = 0
  /\ UNCHANGED <<module, hdev, live, calls, ring, outside>>

Reset ==
  /\ step = "deregistered" /\ step' = "reset"
  /\ ready' = FALSE /\ avail' = None /\ popped' = None /\ used' = None
  /\ UNCHANGED <<module, hdev, live, node, calls, outside>>

FreeDevice ==
  /\ step = "reset" /\ step' = "unbound"
  /\ live' = live \ {hdev} /\ module' = "none"
  /\ UNCHANGED <<hdev, node, calls, ring, outside>>

------------------------------------------------------------------------------
(* Guest processes.                                                        *)

(* hmcuda_transport_init, by each library of a process, and hmcuda_open;   *)
(* the kernel opens nothing of a module that is going.                     *)
TransportInit(p) ==
  /\ fd[p] = 0 /\ node # 0 /\ module = "loaded"
  /\ fd' = [fd EXCEPT ![p] = node]
  /\ UNCHANGED <<driver, pc, file, ring, outside>>

(* hmcuda_transport_fini, by the first library that goes, while threads of *)
(* the process may be inside calls.                                        *)
TransportFini(p) ==
  /\ fd[p] # 0 /\ fd' = [fd EXCEPT ![p] = 0]
  /\ UNCHANGED <<driver, pc, file, ring, outside>>

(* hmcuda_transport_dispatch, which returns at once without a file, and    *)
(* hmcuda_ioctl up to the mutex.                                           *)
Dispatch(t) ==
  /\ pc[t] = "out" /\ fd[ProcessOf[t]] # 0
  /\ pc' = [pc EXCEPT ![t] = "locking"]
  /\ file' = [file EXCEPT ![t] = fd[ProcessOf[t]]]
  /\ UNCHANGED <<driver, fd, ring, outside>>

(* The mutex is held exactly while its owner waits.                        *)
Submit(t) ==
  /\ pc[t] = "locking"
  /\ \A u \in Threads : pc[u] = "waiting" => file[u] # file[t]
  /\ pc' = [pc EXCEPT ![t] = "waiting"]
  /\ avail' = t
  /\ UNCHANGED <<driver, fd, file, ready, popped, used, outside>>

(* The thread cannot be interrupted or killed before.                      *)
Return(t) ==
  /\ pc[t] = "waiting" /\ used = t
  /\ pc' = [pc EXCEPT ![t] = "out"] /\ file' = [file EXCEPT ![t] = 0]
  /\ used' = None
  /\ UNCHANGED <<driver, fd, ready, avail, popped, outside>>

LNext ==
  \/ Listen \/ Accept \/ Exit \/ PowerOff \/ Pop \/ Serve
  \/ Modprobe \/ Rmmod \/ Probe \/ ProbeFails \/ Register \/ Ready
  \/ Deregister \/ Reset \/ FreeDevice
  \/ \E p \in Processes : TransportInit(p) \/ TransportFini(p)
  \/ \E t \in Threads : Dispatch(t) \/ Submit(t) \/ Return(t)

LSpec == LInit /\ [][LNext]_lvars

(* What has begun goes on: the probe, the daemon's loop, a woken thread.   *)
Fairness ==
  /\ WF_lvars(Ready) /\ WF_lvars(Pop) /\ WF_lvars(Serve)
  /\ \A t \in Threads : WF_lvars(Return(t))

(* Whoever follows the advice reloads the driver as soon as that can be    *)
(* done, for which programs end when they can.                             *)
ReloadFairness ==
  /\ WF_lvars(Rmmod) /\ WF_lvars(Modprobe) /\ WF_lvars(Accept)
  /\ WF_lvars(Deregister) /\ WF_lvars(Reset) /\ WF_lvars(FreeDevice)
  /\ \A p \in Processes : WF_lvars(TransportFini(p))

FairSpec   == LSpec /\ Fairness
ReloadSpec == FairSpec /\ ReloadFairness

------------------------------------------------------------------------------
Hdevs == 0..MaxProbes

(* Type correctness; the daemon serves as long as its connection lasts.    *)
LTypeOK ==
  /\ module \in {"none", "loaded", "going"}
  /\ step \in {"unbound", "allocated", "registered", "bound", "deregistered", "reset"}
  /\ hdev \in Hdevs /\ live \subseteq Hdevs \ {0} /\ node \in Hdevs
  /\ fd \in [Processes -> Hdevs] /\ file \in [Threads -> Hdevs]
  /\ pc \in [Threads -> {"out", "locking", "waiting"}] /\ ready \in BOOLEAN
  /\ {avail, popped, used} \subseteq Threads \cup {None}
  /\ daemon \in {"down", "listening", "serving"} /\ exits \in 0..MaxExits
  /\ qemu \in {"off", "connected", "lost"}
  /\ daemon = "serving" <=> qemu = "connected"

(* A thread inside the driver, waiting for the mutex or for the daemon,    *)
(* and a file that may bring one there, have their hdev until they leave:  *)
(* nothing is reset or freed under them, closing the file does not matter, *)
(* and files of an earlier load of the driver do not come back.            *)
DeviceOutlivesCalls ==
  \A h \in {fd[p] : p \in Processes} \cup {file[t] : t \in Threads} : h # 0 =>
    h = hdev /\ h \in live /\ step \in {"registered", "bound"}

(* The device node, the ring and the memory go together: a probe that      *)
(* failed and a removal that is over leave nothing behind.                 *)
NothingLeftBehind ==
  /\ step = "unbound" => live = {} /\ node = 0 /\ ~ready /\ ~InUse
  /\ node # 0 => node \in live

(* The inductive invariant of the proofs: what is there at each step of    *)
(* the device's life, and that nothing is in use once the module goes.     *)
LifecycleInv ==
  /\ LTypeOK /\ DeviceOutlivesCalls
  /\ live = IF step = "unbound" THEN {} ELSE {hdev}
  /\ node = IF step \in {"registered", "bound"} THEN hdev ELSE 0
  /\ step # "unbound" => hdev # 0
  /\ ready => step \in {"bound", "deregistered"}
  /\ step \in {"deregistered", "reset"} => module = "going"
  /\ module = "going" => step \in {"bound", "deregistered", "reset"} /\ ~InUse
  /\ module = "none" => step = "unbound"

(* As long as its first daemon lives every call returns, also one made     *)
(* before the device was ready.                                            *)
ServedWhileConnected ==
  \A t \in Threads : pc[t] = "waiting" ~> (pc[t] = "out" \/ qemu = "lost")

(* scripts/check_vhost.sh:35-37, after a restart: "QEMU will reconnect     *)
(* automatically (reconnect=1)", "In the VM, reload the driver".  So once  *)
(* the daemon runs again and the advice is followed, no call waits for     *)
(* ever.                                                                   *)
ReloadRecovers ==
  \A t \in Threads :
    (pc[t] = "waiting" /\ daemon = "listening") ~> (pc[t] = "out" \/ daemon = "down")

==============================================================================
