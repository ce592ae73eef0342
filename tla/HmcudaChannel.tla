---------------------------- MODULE HmcudaChannel ----------------------------
(***************************************************************************)
(* The request channel of hmCUDA: guest threads inside the ioctl of the    *)
(* kernel driver (driver/virtio_hmcuda_main.c), the one virtqueue with its *)
(* kick and interrupt, and the request loop of the host daemon             *)
(* (host/vhost/vhost_user_hmcuda.c).                                       *)
(*                                                                         *)
(* All threads share ONE mutex and ONE completion: a request is on the     *)
(* ring, in the daemon or waiting to be reaped only while its thread holds *)
(* the mutex.  A copy is split into batches; each takes the mutex anew, so *)
(* the batches of two copies interleave.                                   *)
(*                                                                         *)
(* cudaMemcpy hands the program's kind through.  The driver and the daemon *)
(* know kinds 1 and 2 only; a "stray" copy, of any other kind, is pinned   *)
(* and sent like a copy back, always fails in the daemon, and its response *)
(* goes to the first writable descriptor, which is the program's page.     *)
(***************************************************************************)
EXTENDS Naturals, Sequences

CONSTANTS
  Threads,     (* guest threads that may be inside the ioctl              *)
  NoThread,    (* the owner of the mutex when it is free                  *)
  MaxBatches   (* bound on the batches of one copy                        *)

ASSUME ChannelAssumption ==
  /\ MaxBatches \in Nat \ {0}
  /\ NoThread \notin Threads

VARIABLES
  (* the kernel driver *)
  pc,       (* pc[t]: where thread t is in the ioctl                      *)
  kind,     (* kind[t]: "simple", "copy" or "stray"                       *)
  plan,     (* plan[t]: requests of the call: 1, or the copy's batches    *)
  batch,    (* batch[t]: batches already completed (byte_offset)          *)
  pinned,   (* pinned[t]: the user pages of the current batch are pinned  *)
  resp,     (* resp[t]: contents of resp_buf                              *)
  result,   (* result[t]: what the last ioctl returned                    *)
  lock,     (* hdev->lock: its owner                                      *)
  done,     (* hdev->completion: its count                                *)
  (* the virtqueue *)
  avail,    (* requests added by the driver and not popped                *)
  used,     (* requests pushed by the daemon and not reaped               *)
  kick,     (* the kick eventfd                                           *)
  irq,      (* the call eventfd: an interrupt on its way                  *)
  handler,  (* vring_interrupt found used entries, will call back         *)
  (* the daemon *)
  host,     (* step of the loop, element popped, its CUDA result          *)
  (* history *)
  served,   (* served[t]: requests of t's call the daemon has executed    *)
  failed    (* failed[t]: the last of them returned a CUDA error          *)

driverVars == <<pc, kind, plan, batch, pinned, resp, result, lock, done>>
callVars   == <<kind, plan, batch, result>>
ringVars   == <<avail, used, kick, irq, handler>>
histVars   == <<served, failed>>
vars       == <<driverVars, ringVars, host, histVars>>

------------------------------------------------------------------------------
(* A descriptor chain: whose buffers it points to, and for which batch.    *)
Request(t) == [owner |-> t, batch |-> batch[t] + 1]
Requests   == [owner : Threads, batch : 1..MaxBatches]
NoElem     == [owner |-> NoThread, batch |-> 0]

(* resp_buf straight from kzalloc: cuda_error is 0 and answers no request. *)
ZeroedResp == [batch |-> 0, err |-> FALSE]
Responses  == [batch : 0..MaxBatches, err : BOOLEAN]

Steps == {"idle", "loop", "lock", "add", "wait", "getbuf", "unpin",
          "copyout", "fail"}
HostSteps == {"idle", "pop", "exec", "respond", "push", "notify"}

Kinds == {"simple", "copy", "stray"}

(* The daemon's response to t's requests reaches resp_buf.                 *)
Heard(t) == kind[t] # "stray"

Goto(t, from, to) == pc[t] = from /\ pc' = [pc EXCEPT ![t] = to]

Init ==
  /\ pc      = [t \in Threads |-> "idle"]
  /\ kind    = [t \in Threads |-> "simple"]
  /\ plan    = [t \in Threads |-> 0]
  /\ batch   = [t \in Threads |-> 0]
  /\ pinned  = [t \in Threads |-> FALSE]
  /\ resp    = [t \in Threads |-> ZeroedResp]
  /\ result  = [t \in Threads |-> "none"]
  /\ lock    = NoThread
  /\ done    = 0
  /\ avail   = <<>>
  /\ used    = <<>>
  /\ kick    = FALSE
  /\ irq     = FALSE
  /\ handler = FALSE
  /\ host    = [step |-> "idle", elem |-> NoElem, err |-> FALSE]
  /\ served  = [t \in Threads |-> 0]
  /\ failed  = [t \in Threads |-> FALSE]

------------------------------------------------------------------------------
(* Seeded faults: variants of the actions below that the checks must tell  *)
(* from the code.  Next uses none of them.                                 *)

(* The error branch of virtqueue_add_sgs forgets unpin_user_pages.         *)
AddFailsPinned(t) ==
  /\ Goto(t, "add", "fail")
  /\ lock' = NoThread
  /\ UNCHANGED <<callVars, pinned, resp, done, ringVars, host, histVars>>

(* The same branch forgets mutex_unlock.                                   *)
AddFailsLocked(t) ==
  /\ Goto(t, "add", "fail")
  /\ pinned' = [pinned EXCEPT ![t] = FALSE]
  /\ UNCHANGED <<callVars, resp, lock, done, ringVars, host, histVars>>

(* The mutex is dropped before the wait.                                   *)
UnlockedKick(t) ==
  /\ Goto(t, "add", "wait")
  /\ avail' = Append(avail, Request(t))
  /\ kick'  = TRUE
  /\ lock'  = NoThread
  /\ UNCHANGED <<callVars, pinned, resp, done, used, irq, handler, host, histVars>>

(* The wait can be interrupted and its result is not looked at.            *)
InterruptedWait(t) ==
  /\ Goto(t, "wait", "getbuf")
  /\ done' = IF done > 0 THEN done - 1 ELSE done
  /\ UNCHANGED <<callVars, pinned, resp, lock, ringVars, host, histVars>>

(* cuda_error does not end the batch loop.                                 *)
UnpinAndGoOn(t) ==
  /\ Goto(t, "unpin", "loop")
  /\ pinned' = [pinned EXCEPT ![t] = FALSE]
  /\ batch'  = [batch EXCEPT ![t] = @ + 1]
  /\ UNCHANGED <<kind, plan, result, resp, lock, done, ringVars, host, histVars>>

(* The daemon raises the interrupt but does not push.                      *)
HostDropsElement ==
  /\ host.step = "push"
  /\ host' = [host EXCEPT !.step = "notify", !.elem = NoElem]
  /\ UNCHANGED <<driverVars, ringVars, histVars>>

------------------------------------------------------------------------------
(* Entering and leaving the ioctl.                                         *)

(* Unknown command, no memory, or the request cannot be copied in: the     *)
(* driver returns an errno before anything is sent.                        *)
Refuse(t) ==
  /\ pc[t] = "idle"
  /\ result' = [result EXCEPT ![t] = "errno"]
  /\ UNCHANGED <<pc, kind, plan, batch, pinned, resp, lock, done,
                 ringVars, host, histVars>>

(* Sizes are found, both buffers are allocated, resp_buf is zeroed (Leave  *)
(* left it so).                                                            *)
Begin(t) ==
  /\ \E k \in Kinds, n \in 0..MaxBatches :
       /\ k = "simple" => n = 1
       /\ kind' = [kind EXCEPT ![t] = k]
       /\ plan' = [plan EXCEPT ![t] = n]
       /\ Goto(t, "idle", IF k = "simple" THEN "lock" ELSE "loop")
  /\ result' = [result EXCEPT ![t] = "none"]
  /\ UNCHANGED <<batch, pinned, resp, lock, done, ringVars, host, histVars>>

(* Both buffers are freed and the locals of the ioctl are gone.            *)
Leave(t, from, r) ==
  /\ Goto(t, from, "idle")
  /\ result' = [result EXCEPT ![t] = r]
  /\ plan'   = [plan   EXCEPT ![t] = 0]
  /\ batch'  = [batch  EXCEPT ![t] = 0]
  /\ resp'   = [resp   EXCEPT ![t] = ZeroedResp]
  /\ kind'   = [kind   EXCEPT ![t] = "simple"]
  /\ served' = [served EXCEPT ![t] = 0]
  /\ failed' = [failed EXCEPT ![t] = FALSE]
  /\ UNCHANGED <<pinned, lock, done, ringVars, host>>

(* ret = 0: resp_buf goes to the caller, who reads cuda_error from it,     *)
(* unless copy_to_user faults.                                             *)
CopyOut(t) ==
  \E r \in {IF resp[t].err THEN "cuda" ELSE "ok", "errno"} : Leave(t, "copyout", r)

ReturnErrno(t) == Leave(t, "fail", "errno")

------------------------------------------------------------------------------
(* The batch loop of a copy.                                               *)

PinPages(t) ==
  /\ batch[t] < plan[t]
  /\ Goto(t, "loop", "lock")
  /\ pinned' = [pinned EXCEPT ![t] = TRUE]
  /\ UNCHANGED <<callVars, resp, lock, done, ringVars, host, histVars>>

(* A partial pin is undone and the copy gives up; batches already sent     *)
(* stay done.                                                              *)
PinFails(t) ==
  /\ batch[t] < plan[t]
  /\ Goto(t, "loop", "fail")
  /\ UNCHANGED <<callVars, pinned, resp, lock, done, ringVars, host, histVars>>

LoopDone(t) ==
  /\ batch[t] = plan[t]
  /\ Goto(t, "loop", "copyout")
  /\ UNCHANGED <<callVars, pinned, resp, lock, done, ringVars, host, histVars>>

(* A CUDA error ends the loop with ret = 0 and this batch's response.      *)
Unpin(t) ==
  /\ Goto(t, "unpin", IF resp[t].err THEN "copyout" ELSE "loop")
  /\ pinned' = [pinned EXCEPT ![t] = FALSE]
  /\ batch'  = [batch EXCEPT ![t] = IF resp[t].err THEN @ ELSE @ + 1]
  /\ UNCHANGED <<kind, plan, result, resp, lock, done, ringVars, host, histVars>>

------------------------------------------------------------------------------
(* One request under the mutex: the same steps for a simple command and    *)
(* for a batch.                                                            *)

Lock(t) ==
  /\ lock = NoThread
  /\ Goto(t, "lock", "add")
  /\ lock' = t
  /\ done' = 0                                     \* reinit_completion
  /\ UNCHANGED <<callVars, pinned, resp, ringVars, host, histVars>>

AddAndKick(t) ==
  /\ Goto(t, "add", "wait")
  /\ avail' = Append(avail, Request(t))
  /\ kick'  = TRUE
  /\ UNCHANGED <<callVars, pinned, resp, lock, done, used, irq, handler,
                 host, histVars>>

(* virtqueue_add_sgs finds no room: unlock, unpin, give up.                *)
AddFails(t) ==
  /\ Goto(t, "add", "fail")
  /\ lock'   = NoThread
  /\ pinned' = [pinned EXCEPT ![t] = FALSE]
  /\ UNCHANGED <<callVars, resp, done, ringVars, host, histVars>>

(* wait_for_completion returns.                                            *)
Wake(t) ==
  /\ done > 0
  /\ Goto(t, "wait", "getbuf")
  /\ done' = done - 1
  /\ UNCHANGED <<callVars, pinned, resp, lock, ringVars, host, histVars>>

(* virtqueue_get_buf, whose result the driver does not look at, then       *)
(* mutex_unlock.                                                           *)
GetBuf(t) ==
  /\ Goto(t, "getbuf", IF kind[t] = "simple" THEN "copyout" ELSE "unpin")
  /\ used' = IF used = <<>> THEN used ELSE Tail(used)
  /\ lock' = NoThread
  /\ UNCHANGED <<callVars, pinned, resp, done, avail, kick, irq, handler,
                 host, histVars>>

------------------------------------------------------------------------------
(* The interrupt: vring_interrupt calls the driver back only when it finds *)
(* used entries, and the callback completes the completion a moment later. *)

InterruptEnter ==
  /\ irq /\ ~handler
  /\ irq' = FALSE
  /\ handler' = (used # <<>>)
  /\ UNCHANGED <<driverVars, avail, used, kick, host, histVars>>

VqCallback ==
  /\ handler
  /\ handler' = FALSE
  /\ done' = done + 1
  /\ UNCHANGED <<callVars, pc, pinned, resp, lock, avail, used, kick, irq,
                 host, histVars>>

------------------------------------------------------------------------------
(* The daemon: one thread, one element at a time, until the ring is empty. *)

HostGoto(from, to) == host.step = from /\ host' = [host EXCEPT !.step = to]

HostWake ==
  /\ kick
  /\ kick' = FALSE
  /\ HostGoto("idle", "pop")
  /\ UNCHANGED <<driverVars, avail, used, irq, handler, histVars>>

HostPop ==
  /\ avail # <<>>
  /\ avail' = Tail(avail)
  /\ host.step = "pop"
  /\ host' = [host EXCEPT !.step = "exec", !.elem = Head(avail)]
  /\ UNCHANGED <<driverVars, used, kick, irq, handler, histVars>>

HostDrained ==
  /\ avail = <<>>
  /\ HostGoto("pop", "idle")
  /\ UNCHANGED <<driverVars, ringVars, histVars>>

(* The handler of the command runs, reading or writing the pinned pages.   *)
(* None copies for a stray request.                                        *)
HostExecute ==
  /\ host.step = "exec"
  /\ \E err \in BOOLEAN :
       /\ ~Heard(host.elem.owner) => err
       /\ host'   = [host EXCEPT !.step = "respond", !.err = err]
       /\ failed' = [failed EXCEPT ![host.elem.owner] = err]
  /\ served' = [served EXCEPT ![host.elem.owner] = @ + 1]
  /\ UNCHANGED <<driverVars, ringVars>>

(* The response goes to the last descriptor, resp_buf, when the handler    *)
(* said that the data came back by the virtqueue, and else from the first  *)
(* writable one on: resp_buf again, but for a stray request the data page. *)
HostRespond ==
  /\ HostGoto("respond", "push")
  /\ resp' = [resp EXCEPT ![host.elem.owner] =
                IF Heard(host.elem.owner)
                THEN [batch |-> host.elem.batch, err |-> host.err] ELSE @]
  /\ UNCHANGED <<callVars, pc, pinned, lock, done, ringVars, histVars>>

HostPush ==
  /\ host.step = "push"
  /\ used' = Append(used, host.elem)
  /\ host' = [host EXCEPT !.step = "notify", !.elem = NoElem]
  /\ UNCHANGED <<driverVars, avail, kick, irq, handler, histVars>>

HostNotify ==
  /\ HostGoto("notify", "pop")
  /\ irq' = TRUE
  /\ UNCHANGED <<driverVars, avail, used, kick, handler, histVars>>

------------------------------------------------------------------------------
Proceed(t) ==
  \/ CopyOut(t) \/ ReturnErrno(t)
  \/ PinPages(t) \/ PinFails(t) \/ LoopDone(t) \/ Unpin(t)
  \/ AddAndKick(t) \/ AddFails(t) \/ Wake(t) \/ GetBuf(t)

Interrupt == InterruptEnter \/ VqCallback

Host == HostWake \/ HostPop \/ HostDrained \/ HostExecute \/ HostRespond
          \/ HostPush \/ HostNotify

Next ==
  \/ \E t \in Threads : Refuse(t) \/ Begin(t) \/ Lock(t) \/ Proceed(t)
  \/ Interrupt
  \/ Host

Spec == Init /\ [][Next]_vars

(* A thread inside the ioctl is scheduled, interrupts are delivered, the   *)
(* daemon lives.  The kernel's mutex hands itself to a waiter that keeps   *)
(* losing it, hence strong fairness for Lock.  Nobody has to make a call.  *)
Fairness ==
  /\ \A t \in Threads : WF_vars(Proceed(t)) /\ SF_vars(Lock(t))
  /\ WF_vars(InterruptEnter) /\ WF_vars(VqCallback)
  /\ WF_vars(Host)

FairSpec == Spec /\ Fairness

------------------------------------------------------------------------------
(* Type correctness of driver, ring and daemon state.                      *)
TypeOK ==
  /\ pc      \in [Threads -> Steps]
  /\ kind    \in [Threads -> Kinds]
  /\ plan    \in [Threads -> 0..MaxBatches]
  /\ batch   \in [Threads -> 0..MaxBatches]
  /\ pinned  \in [Threads -> BOOLEAN]
  /\ resp    \in [Threads -> Responses]
  /\ result  \in [Threads -> {"none", "ok", "cuda", "errno"}]
  /\ lock    \in Threads \cup {NoThread}
  /\ done    \in Nat
  /\ avail   \in Seq(Requests)
  /\ used    \in Seq(Requests)
  /\ kick    \in BOOLEAN
  /\ irq     \in BOOLEAN
  /\ handler \in BOOLEAN
  /\ host    \in [step : HostSteps, elem : Requests \cup {NoElem}, err : BOOLEAN]
  /\ served  \in [Threads -> 0..MaxBatches]
  /\ failed  \in [Threads -> BOOLEAN]

Holds(t)       == pc[t] \in {"add", "wait", "getbuf"}
Outstanding(t) == pc[t] \in {"wait", "getbuf"}

(* The daemon's error, where t can hear of it.                             *)
Told(t) == failed[t] /\ Heard(t)

(* What resp_buf holds of the request executed last: it names the batch    *)
(* and the CUDA result; the zeros of kzalloc if the answer was stray.      *)
Answer(t) == [batch |-> IF Heard(t) THEN served[t] ELSE 0, err |-> Told(t)]

(* The driver ignores what virtqueue_get_buf returns and reads resp_buf    *)
(* right after it: when it gets there, the one used entry is its own       *)
(* request, just executed, and resp_buf holds the answer to it, of no      *)
(* earlier batch and of no other thread.  Only a stray copy finds none.    *)
ReapsOwnAnswer ==
  \A t \in Threads :
    pc[t] = "getbuf" =>
      /\ used = <<Request(t)>>
      /\ served[t] = batch[t] + 1
      /\ kind[t] # "stray" => resp[t] = [batch |-> served[t], err |-> failed[t]]
      /\ kind[t] = "stray" => resp[t] = ZeroedResp

(* While the daemon has an element, its thread sleeps in the ioctl with    *)
(* both buffers allocated, holds the mutex, and the pages of a batch are   *)
(* still pinned; nothing else is on the ring.                              *)
BuffersOutliveHost ==
  host.elem # NoElem =>
    /\ pc[host.elem.owner] = "wait"
    /\ lock = host.elem.owner
    /\ kind[host.elem.owner] # "simple" => pinned[host.elem.owner]
    /\ avail = <<>> /\ used = <<>>

(* Pages are pinned exactly from before a batch waits for the mutex until  *)
(* it is unpinned or fails to be added: no path of the loop leaks a pin or *)
(* unpins twice.                                                           *)
PinsBalanced ==
  \A t \in Threads :
    pinned[t] <=> kind[t] # "simple" /\ pc[t] \in {"lock", "add", "wait", "getbuf", "unpin"}

(* The ioctl as its callers see it: each request executed at most once, in *)
(* order, inside the call, and "ok" only when all of them were executed    *)
(* and, unless the copy is stray, succeeded.                               *)
Rpc == INSTANCE HmcudaRpc
         WITH phase <- [t \in Threads |-> IF pc[t] = "idle" THEN "idle" ELSE "called"],
              heard <- [t \in Threads |-> Heard(t)]

ImplementsRpc == Rpc!Spec

(* No ioctl sleeps for ever: not in wait_for_completion, not on the mutex. *)
CallReturns == \A t \in Threads : pc[t] # "idle" ~> pc[t] = "idle"

------------------------------------------------------------------------------
(* The inductive invariant.                                                *)

(* The mutex is owned by the thread between Lock and unlock, and nobody    *)
(* else is there.                                                          *)
LockInv == \A t \in Threads : Holds(t) <=> lock = t

(* What the locals of a call say about the requests it has had executed.   *)
CallOf(t) ==
  /\ pc[t] = "idle" => batch[t] = 0 /\ kind[t] = "simple"
  /\ pc[t] \in {"idle", "loop", "lock", "add"} =>
       served[t] = batch[t] /\ ~Told(t) /\ resp[t] = Answer(t)
  /\ pc[t] = "loop" => batch[t] <= plan[t] /\ kind[t] # "simple"
  /\ pc[t] \in {"lock", "add", "wait", "getbuf", "unpin"} => batch[t] < plan[t]
  /\ pc[t] = "unpin" =>
       served[t] = batch[t] + 1 /\ resp[t] = Answer(t) /\ kind[t] # "simple"
  /\ pc[t] = "copyout" => resp[t] = Answer(t) /\ (Told(t) \/ served[t] = plan[t])
  /\ kind[t] = "simple" => plan[t] = 1 \/ pc[t] = "idle"
  /\ ~Heard(t) => resp[t] = ZeroedResp

CallInv == \A t \in Threads : CallOf(t)

Quiet == ~irq /\ ~handler /\ done = 0

(* An outstanding request is in exactly one place: on its way to the       *)
(* daemon, in the daemon, or pushed; and then its one wakeup is in exactly *)
(* one place: not sent yet, the eventfd, the interrupt handler, the        *)
(* completion, or consumed.                                                *)
SentStage(t) ==
  /\ avail = <<Request(t)>> /\ used = <<>>
  /\ host.elem = NoElem /\ host.step \in {"idle", "pop"}
  /\ Quiet /\ pc[t] = "wait"
  /\ served[t] = batch[t] /\ ~Told(t)

HostStage(t) ==
  /\ avail = <<>> /\ used = <<>>
  /\ host.elem = Request(t) /\ host.step \in {"exec", "respond", "push"}
  /\ Quiet /\ pc[t] = "wait"
  /\ host.step = "exec" => served[t] = batch[t] /\ ~Told(t)
  /\ host.step # "exec" => served[t] = batch[t] + 1 /\ host.err = failed[t]
  /\ host.step = "push" => resp[t] = Answer(t)

UsedStage(t) ==
  /\ avail = <<>> /\ used = <<Request(t)>>
  /\ host.elem = NoElem /\ host.step \in {"idle", "pop", "notify"}
  /\ served[t] = batch[t] + 1 /\ resp[t] = Answer(t)
  /\ \/ host.step = "notify" /\ Quiet /\ pc[t] = "wait"
     \/ host.step # "notify" /\ pc[t] = "wait" /\ irq /\ ~handler /\ done = 0
     \/ host.step # "notify" /\ pc[t] = "wait" /\ ~irq /\ handler /\ done = 0
     \/ host.step # "notify" /\ pc[t] = "wait" /\ ~irq /\ ~handler /\ done = 1
     \/ host.step # "notify" /\ pc[t] = "getbuf" /\ Quiet

StageInv ==
  /\ \A t \in Threads : Outstanding(t) => SentStage(t) \/ HostStage(t) \/ UsedStage(t)
  /\ (\A t \in Threads : ~Outstanding(t)) =>
       /\ avail = <<>> /\ used = <<>> /\ Quiet
       /\ host.elem = NoElem /\ host.step \in {"idle", "pop"}

ChannelInv == TypeOK /\ LockInv /\ PinsBalanced /\ CallInv /\ StageInv

==============================================================================
