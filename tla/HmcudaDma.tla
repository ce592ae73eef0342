------------------------------ MODULE HmcudaDma ------------------------------
(***************************************************************************)
(* When the device is really done with the guest's pages.  The daemon only *)
(* queues copies on CUDA streams (core_runtime.c, core_driver.c); the      *)
(* guest's driver unpins the pages and the guest's libraries return as     *)
(* soon as the daemon has answered.  Here an ioctl is one request, pinned  *)
(* before it is sent and unpinned after the answer (HmcudaChannel has the  *)
(* steps in between), and the daemon serves one request at a time.         *)
(*                                                                         *)
(* CUDA is external: a stream runs its operations in order, some time      *)
(* after they were queued; a copy from pageable memory is staged before    *)
(* the call returns, one to pageable memory is over when it returns.       *)
(***************************************************************************)
EXTENDS Naturals, Sequences, SequencesExt

CONSTANTS
  Threads,     (* guest threads, each copying from or to a buffer of its own *)
  NoThread,
  Streams,     (* stream handles the guest holds, besides 0               *)
  MaxQueued    (* bound on the operations queued on a stream              *)

ASSUME DmaAssumption ==
  /\ NoThread \notin Threads
  /\ 0 \notin Streams
  /\ MaxQueued \in Nat \ {0}

VARIABLES
  pc,          (* pc[t]: idle, sent, answered                             *)
  call,        (* call[t]: the request of t, while it is in one           *)
  pinned,      (* pinned[t]: t's pages are pinned                         *)
  serving,     (* whose request the daemon is serving                     *)
  attempted,   (* g_guest_mem_registered                                  *)
  registered,  (* guest RAM is page-locked memory to CUDA                 *)
  queue        (* queue[s]: operations of stream s that are not over      *)

vars == <<pc, call, pinned, serving, attempted, registered, queue>>

AllStreams == Streams \cup {0}

(* cudaMemcpy, cuMemcpyHtoD/DtoH and cuMemcpyAsync.                        *)
Copies ==
  [op : {"cudaMemcpy", "cuMemcpy"}, dir : {"HtoD", "DtoH"}, stream : {0}]
    \cup [op : {"cuMemcpyAsync"}, dir : {"HtoD", "DtoH"}, stream : AllStreams]
Others ==
  [op : {"retain", "eventSync"}] \cup [op : {"streamSync", "eventRecord"}, stream : AllStreams]
NoCall == [op |-> "none"]

IsCopy(c) == c \in Copies

(* Entries of a stream: a transfer that will still read or write the pages *)
(* of its owner, an event, or what was one until it was recorded again.    *)
(* `recorded` (history): the owner has recorded its event after the        *)
(* transfer.                                                               *)
Transfer(t, c) == [owner |-> t, op |-> c.op, dir |-> c.dir, recorded |-> FALSE]
Event(t)       == [owner |-> t, op |-> "event"]
PastEvent      == [op |-> "past event"]

IsTransfer(x)  == x.op \notin {"event", "past event"}

Queued    == UNION {ToSet(queue[s]) : s \in AllStreams}
Transfers == {x \in Queued : IsTransfer(x)}

Init ==
  /\ pc         = [t \in Threads |-> "idle"]
  /\ call       = [t \in Threads |-> NoCall]
  /\ pinned     = [t \in Threads |-> FALSE]
  /\ serving    = NoThread
  /\ attempted  = FALSE
  /\ registered = FALSE
  /\ queue      = [s \in AllStreams |-> <<>>]

------------------------------------------------------------------------------
(* The guest.                                                              *)

(* A library call: the request is made and, for a copy, its pages are      *)
(* pinned.                                                                 *)
Call(t) ==
  /\ pc[t] = "idle"
  /\ \E c \in Copies \cup Others :
       /\ call'   = [call EXCEPT ![t] = c]
       /\ pinned' = [pinned EXCEPT ![t] = IsCopy(c)]
  /\ pc' = [pc EXCEPT ![t] = "sent"]
  /\ UNCHANGED <<serving, attempted, registered, queue>>

(* The ioctl wakes up, unpins and returns, and so does the library call.   *)
Return(t) ==
  /\ pc[t] = "answered"
  /\ pc'     = [pc EXCEPT ![t] = "idle"]
  /\ call'   = [call EXCEPT ![t] = NoCall]
  /\ pinned' = [pinned EXCEPT ![t] = FALSE]
  /\ UNCHANGED <<serving, attempted, registered, queue>>

------------------------------------------------------------------------------
(* The daemon.  Some requests are answered at once, others only when what  *)
(* they wait for is over; until then the daemon serves nothing else.       *)

Answer(t) == pc' = [pc EXCEPT ![t] = "answered"]
Room(s)   == Len(queue[s]) < MaxQueued

------------------------------------------------------------------------------
(* Seeded faults: variants of definitions below that the checks must tell  *)
(* from the code.                                                          *)

(* cudaMemcpy to the host leaves out the stream synchronization.           *)
OnlyPageableWaits(c) == c.dir = "DtoH" /\ ~registered

(* A stream synchronization asks for the state and does not wait.          *)
OverAtOnce(t) == call[t].op = "eventSync" => Event(t) \notin Queued

(* Every event is recorded on the NULL stream.                             *)
OnNullStream(t) == 0

(* The daemon answers and stays busy.                                      *)
WaitedAndBusy(t) ==
  /\ serving = t
  /\ Answer(t)
  /\ UNCHANGED <<call, pinned, serving, attempted, registered, queue>>

------------------------------------------------------------------------------
(* cudaMemcpy to the host synchronizes the stream; CUDA itself waits when  *)
(* the destination is pageable.                                            *)
CopyWaits(c) == c.dir = "DtoH" /\ (c.op = "cudaMemcpy" \/ ~registered)

ServeCopy(t) ==
  /\ pc[t] = "sent" /\ serving = NoThread /\ IsCopy(call[t])
  /\ registered \/ call[t].dir = "DtoH"
  /\ Room(call[t].stream)
  /\ queue' = [queue EXCEPT ![call[t].stream] = Append(@, Transfer(t, call[t]))]
  /\ IF CopyWaits(call[t]) THEN serving' = t /\ UNCHANGED pc
                           ELSE Answer(t) /\ UNCHANGED serving
  /\ UNCHANGED <<call, pinned, attempted, registered>>

(* The pages are not needed any more when the daemon answers: the handle   *)
(* is unknown or CUDA refuses; the other end is memory of cuMemHostAlloc,  *)
(* which the CPU copies; or the source is pageable and has been staged.    *)
ServeCopyAtOnce(t) ==
  /\ pc[t] = "sent" /\ serving = NoThread /\ IsCopy(call[t])
  /\ Answer(t)
  /\ UNCHANGED <<call, pinned, serving, attempted, registered, queue>>

(* primary_ctx_retain: the registration is tried once, whether or not any  *)
(* region could be registered.                                             *)
ServeRetain(t) ==
  /\ pc[t] = "sent" /\ serving = NoThread /\ call[t].op = "retain"
  /\ Answer(t)
  /\ attempted' = TRUE
  /\ IF attempted THEN UNCHANGED registered ELSE registered' \in BOOLEAN
  /\ UNCHANGED <<call, pinned, serving, queue>>

RecordStream(t) == call[t].stream

(* Stream s when t records its event on stream `on`, behind all of it.     *)
Recorded(t, s, on) ==
  [k \in DOMAIN queue[s] |->
     LET x == queue[s][k]
     IN IF x = Event(t) THEN PastEvent
        ELSE IF x.op # "past event" /\ x.owner = t THEN [x EXCEPT !.recorded = (s = on)]
        ELSE x]

(* Recording again moves the event.                                        *)
ServeRecord(t) ==
  /\ pc[t] = "sent" /\ serving = NoThread /\ call[t].op = "eventRecord"
  /\ Room(RecordStream(t))
  /\ Answer(t)
  /\ LET old(s) == Recorded(t, s, call[t].stream)
     IN queue' = [s \in AllStreams |->
                    IF s = RecordStream(t) THEN Append(old(s), Event(t)) ELSE old(s)]
  /\ UNCHANGED <<call, pinned, serving, attempted, registered>>

ServeWait(t) ==
  /\ pc[t] = "sent" /\ serving = NoThread /\ call[t].op \in {"streamSync", "eventSync"}
  /\ serving' = t
  /\ UNCHANGED <<pc, call, pinned, attempted, registered, queue>>

(* What the daemon waits for in a request it is serving.                   *)
Over(t) == IF call[t].op = "eventSync" THEN Event(t) \notin Queued
                                       ELSE queue[call[t].stream] = <<>>

Waited(t) ==
  /\ serving = t /\ Over(t)
  /\ serving' = NoThread
  /\ Answer(t)
  /\ UNCHANGED <<call, pinned, attempted, registered, queue>>

------------------------------------------------------------------------------
(* The device finishes the oldest operation of a stream.                   *)
Run(s) ==
  /\ queue[s] # <<>>
  /\ queue' = [queue EXCEPT ![s] = Tail(@)]
  /\ UNCHANGED <<pc, call, pinned, serving, attempted, registered>>

Next ==
  \/ \E t \in Threads :
       \/ Call(t) \/ Return(t)
       \/ ServeCopy(t) \/ ServeCopyAtOnce(t) \/ ServeRetain(t) \/ ServeRecord(t) \/ ServeWait(t) \/ Waited(t)
  \/ \E s \in AllStreams : Run(s)

Spec == Init /\ [][Next]_vars

------------------------------------------------------------------------------
Entries ==
  [owner : Threads, op : {"cudaMemcpy", "cuMemcpy", "cuMemcpyAsync"},
   dir : {"HtoD", "DtoH"}, recorded : BOOLEAN]
    \cup [owner : Threads, op : {"event"}] \cup {PastEvent}

(* Type correctness; a call is known, its pages pinned, exactly while its  *)
(* thread is in it, and the daemon serves only a call not answered yet.    *)
TypeOK ==
  /\ pc     \in [Threads -> {"idle", "sent", "answered"}]
  /\ call   \in [Threads -> Copies \cup Others \cup {NoCall}]
  /\ \A t \in Threads : call[t] = NoCall <=> pc[t] = "idle"
  /\ pinned = [t \in Threads |-> IsCopy(call[t])]
  /\ serving \in {t \in Threads : pc[t] = "sent"} \cup {NoThread}
  /\ attempted \in BOOLEAN /\ registered \in BOOLEAN
  /\ queue \in [AllStreams -> Seq(Entries)] /\ \A s \in AllStreams : Len(queue[s]) <= MaxQueued

Returns(t, op) == call[t].op = op /\ pc[t] = "answered" /\ pc'[t] = "idle"

(* When cudaMemcpy to the host returns, no transfer of it, on any stream,  *)
(* can still write the caller's buffer.                                    *)
CudaMemcpyDtoHDone ==
  \A x \in Transfers :
    x.op = "cudaMemcpy" /\ x.dir = "DtoH" => serving = x.owner

(* handle_cu_memcpy: the data of an asynchronous copy is valid after the   *)
(* guest synchronizes the stream.                                          *)
StreamSyncMakesValid ==
  [][\A t \in Threads : Returns(t, "streamSync") =>
       \A x \in Transfers \cap ToSet(queue[call[t].stream]) : x.owner # t]_vars

(* The same for an event recorded after the copy.                          *)
EventSyncMakesValid ==
  [][\A t \in Threads : Returns(t, "eventSync") =>
       \A x \in Transfers : x.owner = t => ~x.recorded]_vars

(* What keeps these: a cudaMemcpy to the host is on the NULL stream and    *)
(* the daemon is in it;                                                    *)
CopyIsServed ==
  \A s \in AllStreams : \A k \in DOMAIN queue[s] :
    (queue[s][k].op = "cudaMemcpy" /\ queue[s][k].dir = "DtoH") =>
      /\ s = 0 /\ serving = queue[s][k].owner
      /\ call[queue[s][k].owner].op = "cudaMemcpy"

(* what is answered to a synchronization stays true until it returns;      *)
StreamIsSynced ==
  \A t \in Threads : (pc[t] = "answered" /\ call[t].op = "streamSync") =>
    \A k \in DOMAIN queue[call[t].stream] : LET x == queue[call[t].stream][k] IN
      IsTransfer(x) => x.owner # t
EventIsSynced ==
  \A t \in Threads : (pc[t] = "answered" /\ call[t].op = "eventSync") =>
    \A s \in AllStreams : \A k \in DOMAIN queue[s] : LET x == queue[s][k] IN
      (IsTransfer(x) /\ x.owner = t) => ~x.recorded

(* and the event stands behind every transfer it was recorded after.       *)
EventIsBehind ==
  \A s \in AllStreams : \A k \in DOMAIN queue[s] : LET x == queue[s][k] IN
    (IsTransfer(x) /\ x.recorded) =>
      \E j \in DOMAIN queue[s] : k < j /\ queue[s][j] = Event(x.owner)

(* The inductive invariant.                                                *)
DmaInv ==
  TypeOK /\ CopyIsServed /\ StreamIsSynced /\ EventIsSynced /\ EventIsBehind

(* driver/virtio_hmcuda_main.c:320, after the answer: "Host is done with   *)
(* the pages; safe to unpin."                                              *)
DoneBeforeUnpin == \A x \in Transfers : pinned[x.owner]

(* guest/intercept/hmcuda_driver.cpp:454 and :473, of the stream 0 that    *)
(* cuMemcpyHtoD and cuMemcpyDtoH ask for: "synchronous".                   *)
CuMemcpyIsSynchronous ==
  [][\A t \in Threads : Returns(t, "cuMemcpy") =>
       \A x \in Transfers : x.owner = t => x.op # "cuMemcpy"]_vars
==============================================================================
