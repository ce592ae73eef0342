--------------------------- MODULE HmcudaDmaProofs ---------------------------
(***************************************************************************)
(* When copies are over, for any threads and streams and queues of any     *)
(* length.                                                                 *)
(***************************************************************************)
EXTENDS HmcudaDma, SequenceTheorems, TLAPS

(* The entries of every stream are typed.                                  *)
LEMMA EntryTypes ==
  ASSUME TypeOK, NEW s \in AllStreams
  PROVE  /\ queue[s] \in Seq(Entries) /\ Len(queue[s]) \in Nat
         /\ DOMAIN queue[s] = 1..Len(queue[s])
         /\ \A k \in DOMAIN queue[s] : queue[s][k] \in Entries
<1>1. queue[s] \in Seq(Entries)
  BY DEF TypeOK
<1>2. QED
  BY <1>1, LenProperties, ElementOfSeq

(* What can be asked of a transfer, and of an event.                       *)
LEMMA TransferTypes ==
  ASSUME NEW x \in Entries
  PROVE  /\ IsTransfer(x) => x.owner \in Threads /\ x.recorded \in BOOLEAN
         /\ IsTransfer(x) =>
              x \in [owner : Threads, op : {"cudaMemcpy", "cuMemcpy", "cuMemcpyAsync"},
                    dir : {"HtoD", "DtoH"}, recorded : BOOLEAN]
         /\ x.op = "event" => x.owner \in Threads /\ x = Event(x.owner)
         /\ x.op \notin {"event", "past event"} <=> IsTransfer(x)
         /\ x.op = "past event" => x = PastEvent
<1>1. CASE x \in [owner : Threads, op : {"cudaMemcpy", "cuMemcpy", "cuMemcpyAsync"},
                 dir : {"HtoD", "DtoH"}, recorded : BOOLEAN]
  BY <1>1 DEF IsTransfer
<1>2. CASE x \in [owner : Threads, op : {"event"}]
  BY <1>2 DEF IsTransfer, Event
<1>3. CASE x = PastEvent
  BY <1>3 DEF IsTransfer, PastEvent
<1>4. QED
  BY <1>1, <1>2, <1>3 DEF Entries

LEMMA CallTypes ==
  ASSUME TypeOK, NEW t \in Threads
  PROVE  /\ pc[t] \in {"idle", "sent", "answered"}
         /\ call[t] \in Copies \cup Others \cup {NoCall}
         /\ pc[t] # "idle" => call[t] \in Copies \cup Others
         /\ IsCopy(call[t]) => call[t].stream \in AllStreams
         /\ call[t].op \in {"streamSync", "eventRecord"} => call[t].stream \in AllStreams
         /\ call[t].op = "cudaMemcpy" => call[t].stream = 0
         /\ 0 \in AllStreams /\ t # NoThread
<1>1. /\ pc[t] \in {"idle", "sent", "answered"}
      /\ call[t] \in Copies \cup Others \cup {NoCall}
      /\ pc[t] # "idle" => call[t] # NoCall
  BY DEF TypeOK
<1>2. 0 \in AllStreams /\ t # NoThread
  BY DmaAssumption DEF AllStreams
<1>3. \A c \in Copies : c.stream \in AllStreams
  BY <1>2 DEF Copies
<1>4. \A c \in Copies \cup Others \cup {NoCall} :
        c.op \in {"streamSync", "eventRecord"} => c.stream \in AllStreams
  BY DEF Copies, Others, NoCall
<1>5. \A c \in Copies \cup Others \cup {NoCall} : c.op = "cudaMemcpy" => c.stream = 0
  BY DEF Copies, Others, NoCall
<1>6. QED
  BY <1>1, <1>2, <1>3, <1>4, <1>5 DEF IsCopy

LEMMA Appended ==
  ASSUME NEW S, NEW s \in Seq(S), NEW e \in S
  PROVE  /\ Append(s, e) \in Seq(S) /\ Len(Append(s, e)) = Len(s) + 1
         /\ Len(s) \in Nat
         /\ DOMAIN s = 1..Len(s) /\ DOMAIN Append(s, e) = 1..(Len(s) + 1)
         /\ \A k \in 1..Len(s) : Append(s, e)[k] = s[k]
         /\ Append(s, e)[Len(s) + 1] = e
  BY AppendProperties, LenProperties

------------------------------------------------------------------------------
(* Steps that leave the streams alone.                                     *)

LEMMA QueueKept ==
  ASSUME DmaInv, UNCHANGED queue,
         \A t \in Threads : serving = t => serving' = t /\ call'[t] = call[t],
         \A t \in Threads : pc'[t] = "answered" /\ call'[t].op \in {"streamSync", "eventSync"} =>
                              pc[t] = "answered" /\ call'[t] = call[t]
  PROVE  CopyIsServed' /\ StreamIsSynced' /\ EventIsSynced' /\ EventIsBehind'
<1>1. \A s \in AllStreams : \A k \in DOMAIN queue[s] : queue[s][k] \in Entries
  BY EntryTypes DEF DmaInv
<1>2. \A x \in Entries : x.op = "cudaMemcpy" => x.owner \in Threads
  BY TransferTypes DEF IsTransfer
<1>3. CopyIsServed'
  BY <1>1, <1>2 DEF DmaInv, CopyIsServed
<1>4. StreamIsSynced' /\ EventIsSynced'
  BY DEF DmaInv, StreamIsSynced, EventIsSynced
<1>5. EventIsBehind'
  BY DEF DmaInv, EventIsBehind
<1>6. QED
  BY <1>3, <1>4, <1>5

LEMMA CallStep ==
  ASSUME DmaInv, NEW t \in Threads, Call(t)
  PROVE  DmaInv'
<1>1. PICK c \in Copies \cup Others :
        call' = [call EXCEPT ![t] = c] /\ pinned' = [pinned EXCEPT ![t] = IsCopy(c)]
  BY DEF Call
<1>2. /\ pc[t] = "idle" /\ pc' = [pc EXCEPT ![t] = "sent"]
      /\ UNCHANGED <<serving, attempted, registered, queue>>
  BY DEF Call
<1>3. TypeOK /\ t # NoThread /\ serving # t
  BY <1>2, CallTypes DEF DmaInv, TypeOK
<1>4. /\ pc \in [Threads -> {"idle", "sent", "answered"}]
      /\ call \in [Threads -> Copies \cup Others \cup {NoCall}]
      /\ pinned = [u \in Threads |-> IsCopy(call[u])]
      /\ serving \in {u \in Threads : pc[u] = "sent"} \cup {NoThread}
      /\ \A u \in Threads : call[u] = NoCall <=> pc[u] = "idle"
  BY <1>3 DEF TypeOK
<1>5. c # NoCall
  BY DEF Copies, Others, NoCall
<1>6. TypeOK'
  <2>1. /\ pc' \in [Threads -> {"idle", "sent", "answered"}]
        /\ call' \in [Threads -> Copies \cup Others \cup {NoCall}]
    BY <1>1, <1>2, <1>4
  <2>2. pinned' = [u \in Threads |-> IsCopy(call'[u])]
    BY <1>1, <1>4 DEF IsCopy
  <2>3. \A u \in Threads : call'[u] = NoCall <=> pc'[u] = "idle"
    BY <1>1, <1>2, <1>4, <1>5
  <2>4. serving' \in {u \in Threads : pc'[u] = "sent"} \cup {NoThread}
    BY <1>2, <1>4
  <2>5. QED
    BY <1>2, <1>3, <2>1, <2>2, <2>3, <2>4 DEF TypeOK
<1>7. CopyIsServed' /\ StreamIsSynced' /\ EventIsSynced' /\ EventIsBehind'
  BY <1>1, <1>2, <1>3, <1>4, QueueKept
<1>8. QED
  BY <1>6, <1>7 DEF DmaInv

LEMMA ReturnStep ==
  ASSUME DmaInv, NEW t \in Threads, Return(t)
  PROVE  DmaInv'
<1>1. /\ pc[t] = "answered" /\ pc' = [pc EXCEPT ![t] = "idle"]
      /\ call' = [call EXCEPT ![t] = NoCall] /\ pinned' = [pinned EXCEPT ![t] = FALSE]
      /\ UNCHANGED <<serving, attempted, registered, queue>>
  BY DEF Return
<1>2. TypeOK /\ t # NoThread /\ serving # t
  BY <1>1, CallTypes DEF DmaInv, TypeOK
<1>3. /\ pc \in [Threads -> {"idle", "sent", "answered"}]
      /\ call \in [Threads -> Copies \cup Others \cup {NoCall}]
      /\ pinned = [u \in Threads |-> IsCopy(call[u])]
      /\ serving \in {u \in Threads : pc[u] = "sent"} \cup {NoThread}
      /\ \A u \in Threads : call[u] = NoCall <=> pc[u] = "idle"
  BY <1>2 DEF TypeOK
<1>4. ~IsCopy(NoCall)
  BY DEF IsCopy, Copies, NoCall
<1>5. TypeOK'
  <2>1. /\ pc' \in [Threads -> {"idle", "sent", "answered"}]
        /\ call' \in [Threads -> Copies \cup Others \cup {NoCall}]
    BY <1>1, <1>3
  <2>2. pinned' = [u \in Threads |-> IsCopy(call'[u])]
    <3>1. call'[t] = NoCall /\ \A u \in Threads : u # t => call'[u] = call[u]
      BY <1>1, <1>3
    <3>2. pinned' = [u \in Threads |-> IF u = t THEN FALSE ELSE IsCopy(call[u])]
      BY <1>1, <1>3
    <3>4. \A u \in Threads : (IF u = t THEN FALSE ELSE IsCopy(call[u])) = IsCopy(call'[u])
      <4>1. TAKE u \in Threads
      <4>2. CASE u = t
        <5>1. ~(call'[t] \in Copies)
          BY <3>1, <1>4 DEF IsCopy
        <5>2. (call'[t] \in Copies) = FALSE
          BY <5>1
        <5>3. QED
          BY <4>2, <5>2 DEF IsCopy
      <4>3. CASE u # t
        BY <3>1, <4>3
      <4>4. QED
        BY <4>2, <4>3
    <3>3. QED
      BY <3>2, <3>4
  <2>3. \A u \in Threads : call'[u] = NoCall <=> pc'[u] = "idle"
    BY <1>1, <1>3
  <2>4. serving' \in {u \in Threads : pc'[u] = "sent"} \cup {NoThread}
    BY <1>1, <1>2, <1>3
  <2>5. QED
    BY <1>1, <1>2, <2>1, <2>2, <2>3, <2>4 DEF TypeOK
<1>6. CopyIsServed' /\ StreamIsSynced' /\ EventIsSynced' /\ EventIsBehind'
  BY <1>1, <1>2, <1>3, QueueKept
<1>7. QED
  BY <1>5, <1>6 DEF DmaInv

(* An answer to what is no synchronization, and leaves the streams alone.  *)
LEMMA AnswerStep ==
  ASSUME DmaInv, NEW t \in Threads, pc[t] = "sent", serving = NoThread, Answer(t),
         call[t].op \notin {"streamSync", "eventSync"},
         UNCHANGED <<call, pinned, serving, queue>>, attempted' \in BOOLEAN, registered' \in BOOLEAN
  PROVE  DmaInv'
<1>1. TypeOK /\ t # NoThread
  BY CallTypes DEF DmaInv
<1>2. /\ pc \in [Threads -> {"idle", "sent", "answered"}]
      /\ \A u \in Threads : call[u] = NoCall <=> pc[u] = "idle"
  BY <1>1 DEF TypeOK
<1>3. pc' = [pc EXCEPT ![t] = "answered"]
  BY DEF Answer
<1>4. TypeOK'
  <2>1. pc' \in [Threads -> {"idle", "sent", "answered"}]
    BY <1>2, <1>3
  <2>2. \A u \in Threads : call'[u] = NoCall <=> pc'[u] = "idle"
    BY <1>2, <1>3
  <2>3. QED
    BY <1>1, <2>1, <2>2 DEF TypeOK, IsCopy
<1>5. CopyIsServed' /\ StreamIsSynced' /\ EventIsSynced' /\ EventIsBehind'
  BY <1>1, <1>2, <1>3, QueueKept
<1>6. QED
  BY <1>4, <1>5 DEF DmaInv

LEMMA ServeWaitStep ==
  ASSUME DmaInv, NEW t \in Threads, ServeWait(t)
  PROVE  DmaInv'
<1>1. /\ pc[t] = "sent" /\ serving = NoThread /\ serving' = t
      /\ UNCHANGED <<pc, call, pinned, attempted, registered, queue>>
  BY DEF ServeWait
<1>2. TypeOK /\ NoThread \notin Threads
  BY DmaAssumption DEF DmaInv
<1>3. TypeOK'
  BY <1>1, <1>2 DEF TypeOK, IsCopy
<1>4. CopyIsServed' /\ StreamIsSynced' /\ EventIsSynced' /\ EventIsBehind'
  BY <1>1, <1>2, QueueKept
<1>5. QED
  BY <1>3, <1>4 DEF DmaInv

LEMMA ServeCopyAtOnceStep ==
  ASSUME DmaInv, NEW t \in Threads, ServeCopyAtOnce(t)
  PROVE  DmaInv'
<1>1. /\ pc[t] = "sent" /\ serving = NoThread /\ IsCopy(call[t]) /\ Answer(t)
      /\ UNCHANGED <<call, pinned, serving, attempted, registered, queue>>
  BY DEF ServeCopyAtOnce
<1>2. call[t].op \notin {"streamSync", "eventSync"}
  BY <1>1 DEF IsCopy, Copies
<1>3. attempted' \in BOOLEAN /\ registered' \in BOOLEAN
  BY <1>1 DEF DmaInv, TypeOK
<1>4. QED
  BY <1>1, <1>2, <1>3, AnswerStep

LEMMA ServeRetainStep ==
  ASSUME DmaInv, NEW t \in Threads, ServeRetain(t)
  PROVE  DmaInv'
<1>1. /\ pc[t] = "sent" /\ serving = NoThread /\ call[t].op = "retain" /\ Answer(t)
      /\ UNCHANGED <<call, pinned, serving, queue>>
  BY DEF ServeRetain
<1>2. attempted' \in BOOLEAN /\ registered' \in BOOLEAN
  BY DEF ServeRetain, DmaInv, TypeOK
<1>3. QED
  BY <1>1, <1>2, AnswerStep

(* Waiting is over: the stream is empty, or the event is gone and so is    *)
(* every transfer in front of it.                                          *)
LEMMA WaitedStep ==
  ASSUME DmaInv, NEW t \in Threads, Waited(t)
  PROVE  DmaInv'
<1>1. /\ serving = t /\ Over(t) /\ serving' = NoThread /\ pc' = [pc EXCEPT ![t] = "answered"]
      /\ UNCHANGED <<call, pinned, attempted, registered, queue>>
  BY DEF Waited, Answer
<1>2. TypeOK /\ t # NoThread
  BY CallTypes DEF DmaInv
<1>3. /\ pc \in [Threads -> {"idle", "sent", "answered"}]
      /\ \A u \in Threads : call[u] = NoCall <=> pc[u] = "idle"
      /\ serving \in {u \in Threads : pc[u] = "sent"} \cup {NoThread}
  BY <1>2 DEF TypeOK
<1>4. pc[t] = "sent"
  BY <1>1, <1>2, <1>3
<1>5. TypeOK'
  <2>1. pc' \in [Threads -> {"idle", "sent", "answered"}]
    BY <1>1, <1>3
  <2>2. \A u \in Threads : call'[u] = NoCall <=> pc'[u] = "idle"
    BY <1>1, <1>3, <1>4
  <2>3. QED
    BY <1>1, <1>2, <2>1, <2>2 DEF TypeOK, IsCopy
<1>6. \A u \in Threads : pc'[u] = "answered" /\ u # t => pc[u] = "answered"
  BY <1>1, <1>3
<1>7. CopyIsServed'
  <2>1. SUFFICES ASSUME NEW s \in AllStreams, NEW k \in DOMAIN queue[s],
                        queue[s][k].op = "cudaMemcpy", queue[s][k].dir = "DtoH"
                 PROVE  FALSE
    BY <1>1 DEF CopyIsServed
  <2>2. s = 0 /\ serving = queue[s][k].owner /\ call[serving].op = "cudaMemcpy"
    BY <2>1 DEF DmaInv, CopyIsServed
  <2>3. call[t].stream = 0 /\ call[t].op # "eventSync"
    BY <1>1, <1>2, <2>2, CallTypes
  <2>4. queue[0] = <<>>
    BY <1>1, <2>3 DEF Over
  <2>5. QED
    BY <2>2, <2>4
<1>8. StreamIsSynced'
  <2>1. SUFFICES ASSUME NEW u \in Threads, pc'[u] = "answered", call[u].op = "streamSync",
                        NEW k \in DOMAIN queue[call[u].stream]
                 PROVE  IsTransfer(queue[call[u].stream][k]) => queue[call[u].stream][k].owner # u
    BY <1>1 DEF StreamIsSynced
  <2>2. CASE u = t
    BY <1>1, <2>1, <2>2 DEF Over
  <2>3. CASE u # t
    BY <1>6, <2>1, <2>3 DEF DmaInv, StreamIsSynced
  <2>4. QED
    BY <2>2, <2>3
<1>9. EventIsSynced'
  <2>1. SUFFICES ASSUME NEW u \in Threads, pc'[u] = "answered", call[u].op = "eventSync",
                        NEW s \in AllStreams, NEW k \in DOMAIN queue[s],
                        IsTransfer(queue[s][k]), queue[s][k].owner = u
                 PROVE  ~queue[s][k].recorded
    BY <1>1 DEF EventIsSynced
  <2>2. CASE u = t
    <3>1. Event(t) \notin Queued
      BY <1>1, <2>1, <2>2 DEF Over
    <3>2. SUFFICES ASSUME queue[s][k].recorded PROVE FALSE
      OBVIOUS
    <3>3. PICK j \in DOMAIN queue[s] : queue[s][j] = Event(queue[s][k].owner)
      BY <2>1, <3>2 DEF DmaInv, EventIsBehind
    <3>4. QED
      <4>1. queue[s][j] \in ToSet(queue[s])
        BY DEF ToSet
      <4>2. QED
        BY <2>1, <2>2, <3>1, <3>3, <4>1 DEF Queued
  <2>3. CASE u # t
    BY <1>6, <2>1, <2>3 DEF DmaInv, EventIsSynced
  <2>4. QED
    BY <2>2, <2>3
<1>10. EventIsBehind'
  BY <1>1 DEF DmaInv, EventIsBehind
<1>11. QED
  BY <1>5, <1>7, <1>8, <1>9, <1>10 DEF DmaInv

------------------------------------------------------------------------------
(* Steps that change the streams.                                          *)

LEMMA ServeCopyStep ==
  ASSUME DmaInv, NEW t \in Threads, ServeCopy(t)
  PROVE  DmaInv'
<1> DEFINE on == call[t].stream
<1> DEFINE e == Transfer(t, call[t])
<1>1. /\ pc[t] = "sent" /\ serving = NoThread /\ IsCopy(call[t])
      /\ Len(queue[on]) < MaxQueued
      /\ queue' = [queue EXCEPT ![on] = Append(@, e)]
      /\ \/ CopyWaits(call[t]) /\ serving' = t /\ pc' = pc
         \/ ~CopyWaits(call[t]) /\ pc' = [pc EXCEPT ![t] = "answered"] /\ serving' = serving
      /\ UNCHANGED <<call, pinned, attempted, registered>>
  BY DEF ServeCopy, Room, Answer
<1>2. TypeOK /\ t # NoThread /\ on \in AllStreams /\ (call[t].op = "cudaMemcpy" => on = 0)
  BY <1>1, CallTypes DEF DmaInv
<1>3. /\ pc \in [Threads -> {"idle", "sent", "answered"}]
      /\ \A u \in Threads : call[u] = NoCall <=> pc[u] = "idle"
      /\ serving \in {u \in Threads : pc[u] = "sent"} \cup {NoThread}
      /\ queue \in [AllStreams -> Seq(Entries)]
      /\ \A s \in AllStreams : Len(queue[s]) <= MaxQueued
  BY <1>2 DEF TypeOK
<1>4. /\ call[t].op \in {"cudaMemcpy", "cuMemcpy", "cuMemcpyAsync"}
      /\ call[t].dir \in {"HtoD", "DtoH"}
  BY <1>1 DEF IsCopy, Copies
<1>5. /\ e \in Entries /\ e.owner = t /\ e.op = call[t].op /\ e.dir = call[t].dir
      /\ e.recorded = FALSE
  BY <1>4 DEF Transfer, Entries
<1> HIDE DEF e, on
<1>6. /\ queue' \in [AllStreams -> Seq(Entries)]
      /\ queue'[on] = Append(queue[on], e)
      /\ \A s \in AllStreams : s # on => queue'[s] = queue[s]
  BY <1>1, <1>2, <1>3, <1>5, AppendProperties
<1>7. /\ DOMAIN queue[on] = 1..Len(queue[on])
      /\ Len(queue[on]) \in Nat /\ Len(queue'[on]) = Len(queue[on]) + 1
      /\ DOMAIN queue'[on] = 1..(Len(queue[on]) + 1)
      /\ \A k \in 1..Len(queue[on]) : queue'[on][k] = queue[on][k]
      /\ queue'[on][Len(queue[on]) + 1] = e
  <2>1. queue[on] \in Seq(Entries)
    BY <1>2, <1>3
  <2>2. QED
    BY <1>5, <1>6, <2>1, Appended
<1>8. \A s \in AllStreams :
        /\ \A k \in DOMAIN queue[s] : k \in DOMAIN queue'[s] /\ queue'[s][k] = queue[s][k]
        /\ \A k \in DOMAIN queue'[s] : k \in DOMAIN queue[s] \/ (s = on /\ queue'[s][k] = e)
  <2>1. TAKE s \in AllStreams
  <2>2. CASE s = on
    <3>1. \A k \in 1..(Len(queue[on]) + 1) : k \in 1..Len(queue[on]) \/ k = Len(queue[on]) + 1
      BY <1>7
    <3>2. QED
      BY <1>7, <2>2, <3>1
  <2>3. CASE s # on
    BY <1>6, <2>3
  <2>4. QED
    BY <2>2, <2>3
<1>9. TypeOK'
  <2>1. pc' \in [Threads -> {"idle", "sent", "answered"}]
    BY <1>1, <1>3
  <2>2. \A u \in Threads : call'[u] = NoCall <=> pc'[u] = "idle"
    BY <1>1, <1>3
  <2>3. serving' \in {u \in Threads : pc'[u] = "sent"} \cup {NoThread}
    BY <1>1, <1>3
  <2>4. \A s \in AllStreams : Len(queue'[s]) <= MaxQueued
    BY <1>1, <1>3, <1>6, <1>7, DmaAssumption
  <2>5. QED
    BY <1>1, <1>2, <1>6, <2>1, <2>2, <2>3, <2>4 DEF TypeOK, IsCopy
<1>10. \A u \in Threads : pc'[u] = "answered" /\ call[u].op \in {"streamSync", "eventSync"} =>
                            u # t /\ pc[u] = "answered"
  BY <1>1, <1>3, <1>4
<1>11. \A s \in AllStreams : \A k \in DOMAIN queue[s] :
         ~(queue[s][k].op = "cudaMemcpy" /\ queue[s][k].dir = "DtoH")
  <2>1. SUFFICES ASSUME NEW s \in AllStreams, NEW k \in DOMAIN queue[s],
                        queue[s][k].op = "cudaMemcpy", queue[s][k].dir = "DtoH"
                 PROVE  FALSE
    OBVIOUS
  <2>2. serving = queue[s][k].owner
    BY <2>1 DEF DmaInv, CopyIsServed
  <2>3. queue[s][k].owner \in Threads
    BY <1>2, <2>1, EntryTypes, TransferTypes DEF IsTransfer
  <2>4. QED
    BY <1>1, <2>2, <2>3, DmaAssumption
<1>12. CopyIsServed'
  <2>1. e.op = "cudaMemcpy" /\ e.dir = "DtoH" => on = 0 /\ serving' = t
    BY <1>1, <1>2, <1>5 DEF CopyWaits
  <2>2. QED
    BY <1>1, <1>5, <1>8, <1>11, <2>1 DEF CopyIsServed
<1>13. StreamIsSynced'
  <2>1. SUFFICES ASSUME NEW u \in Threads, pc'[u] = "answered", call[u].op = "streamSync",
                        NEW k \in DOMAIN queue'[call[u].stream], IsTransfer(queue'[call[u].stream][k])
                 PROVE  queue'[call[u].stream][k].owner # u
    BY <1>1 DEF StreamIsSynced
  <2>2. u # t /\ pc[u] = "answered" /\ call[u].stream \in AllStreams
    BY <1>2, <1>10, <2>1, CallTypes
  <2>3. QED
    BY <1>5, <1>8, <2>1, <2>2 DEF DmaInv, StreamIsSynced
<1>14. EventIsSynced'
  BY <1>1, <1>5, <1>8, <1>10 DEF DmaInv, EventIsSynced
<1>15. EventIsBehind'
  <2>1. SUFFICES ASSUME NEW s \in AllStreams, NEW k \in DOMAIN queue'[s],
                        IsTransfer(queue'[s][k]), queue'[s][k].recorded
                 PROVE  \E j \in DOMAIN queue'[s] : k < j /\ queue'[s][j] = Event(queue'[s][k].owner)
    BY DEF EventIsBehind
  <2>2. k \in DOMAIN queue[s] /\ queue'[s][k] = queue[s][k]
    BY <1>5, <1>8, <2>1
  <2>3. QED
    BY <1>8, <2>1, <2>2 DEF DmaInv, EventIsBehind
<1>16. QED
  BY <1>9, <1>12, <1>13, <1>14, <1>15 DEF DmaInv

LEMMA EventFields == \A u : Event(u).op = "event" /\ Event(u).owner = u
  BY DEF Event

(* Recording an event again changes the marks of its owner's transfers and *)
(* retires the event it was; nothing of other threads.                     *)
LEMMA RecordedEntry ==
  ASSUME TypeOK, NEW t \in Threads, NEW s \in AllStreams, NEW on, NEW k \in DOMAIN queue[s]
  PROVE  /\ Recorded(t, s, on)[k] \in Entries
         /\ IsTransfer(Recorded(t, s, on)[k]) =>
              /\ IsTransfer(queue[s][k]) /\ Recorded(t, s, on)[k].owner = queue[s][k].owner
              /\ Recorded(t, s, on)[k].op = queue[s][k].op
              /\ Recorded(t, s, on)[k].dir = queue[s][k].dir
              /\ queue[s][k].owner # t => Recorded(t, s, on)[k] = queue[s][k]
              /\ queue[s][k].owner = t => Recorded(t, s, on)[k].recorded = (s = on)
         /\ \A u \in Threads : u # t /\ queue[s][k] = Event(u) => Recorded(t, s, on)[k] = queue[s][k]
<1> DEFINE x == queue[s][k]
<1> DEFINE y == Recorded(t, s, on)[k]
<1>1. x \in Entries
  BY EntryTypes
<1>2. y = IF x = Event(t) THEN PastEvent
          ELSE IF x.op # "past event" /\ x.owner = t THEN [x EXCEPT !.recorded = (s = on)]
          ELSE x
  BY DEF Recorded
<1> HIDE DEF x, y
<1>3. CASE x \in [owner : Threads, op : {"cudaMemcpy", "cuMemcpy", "cuMemcpyAsync"},
                 dir : {"HtoD", "DtoH"}, recorded : BOOLEAN]
  <2>1. x # Event(t) /\ x.op # "past event" /\ IsTransfer(x) /\ \A u \in Threads : x # Event(u)
    <3>1. x.op # "event" /\ x.op # "past event"
      BY <1>3
    <3>2. QED
      BY <3>1, EventFields DEF IsTransfer
  <2>2. y = IF x.owner = t THEN [x EXCEPT !.recorded = (s = on)] ELSE x
    BY <1>2, <2>1
  <2>3. CASE x.owner = t
    <3>1. y = [x EXCEPT !.recorded = (s = on)] /\ (s = on) \in BOOLEAN
      BY <2>2, <2>3
    <3>2. y \in Entries
      BY <1>3, <3>1 DEF Entries
    <3>3. y.owner = x.owner /\ y.op = x.op /\ y.dir = x.dir /\ y.recorded = (s = on)
      BY <1>3, <3>1
    <3>4. QED
      BY <2>1, <2>3, <3>2, <3>3 DEF x, y
  <2>4. CASE x.owner # t
    BY <1>1, <2>1, <2>2, <2>4 DEF x, y
  <2>5. QED
    BY <2>3, <2>4
<1>4. CASE x \in [owner : Threads, op : {"event"}]
  <2>1. ~IsTransfer(x) /\ x.op # "past event" /\ x = Event(x.owner)
    BY <1>4 DEF Event, IsTransfer
  <2>2. CASE x.owner = t
    <3>1. y = PastEvent /\ ~IsTransfer(y) /\ y \in Entries
      BY <1>2, <2>1, <2>2 DEF PastEvent, IsTransfer, Entries
    <3>2. \A u \in Threads : u # t => x # Event(u)
      BY <2>2, EventFields
    <3>3. QED
      BY <3>1, <3>2 DEF x, y
  <2>3. CASE x.owner # t
    <3>1. x # Event(t)
      BY <2>3, EventFields
    <3>2. y = x
      BY <1>2, <2>3, <3>1
    <3>3. QED
      BY <1>1, <2>1, <3>2 DEF x, y
  <2>4. QED
    BY <2>2, <2>3
<1>5. CASE x = PastEvent
  <2>1. ~IsTransfer(x) /\ x.op = "past event" /\ x # Event(t)
    BY <1>5 DEF PastEvent, IsTransfer, Event
  <2>2. y = x
    BY <1>2, <2>1
  <2>3. QED
    BY <1>1, <2>1, <2>2 DEF x, y
<1>6. QED
  BY <1>1, <1>3, <1>4, <1>5 DEF Entries

LEMMA ServeRecordStep ==
  ASSUME DmaInv, NEW t \in Threads, ServeRecord(t)
  PROVE  DmaInv'
<1> DEFINE on == call[t].stream
<1> DEFINE old(s) == Recorded(t, s, on)
<1> DEFINE e == Event(t)
<1>1. /\ pc[t] = "sent" /\ serving = NoThread /\ call[t].op = "eventRecord"
      /\ Len(queue[on]) < MaxQueued
      /\ pc' = [pc EXCEPT ![t] = "answered"]
      /\ queue' = [s \in AllStreams |-> IF s = on THEN Append(old(s), e) ELSE old(s)]
      /\ UNCHANGED <<call, pinned, serving, attempted, registered>>
  BY DEF ServeRecord, Room, Answer, RecordStream
<1>2. TypeOK /\ t # NoThread /\ on \in AllStreams
  BY <1>1, CallTypes DEF DmaInv
<1>3. /\ pc \in [Threads -> {"idle", "sent", "answered"}]
      /\ \A u \in Threads : call[u] = NoCall <=> pc[u] = "idle"
      /\ serving \in {u \in Threads : pc[u] = "sent"} \cup {NoThread}
      /\ queue \in [AllStreams -> Seq(Entries)]
      /\ \A s \in AllStreams : Len(queue[s]) <= MaxQueued
  BY <1>2 DEF TypeOK
<1>4. e \in Entries /\ ~IsTransfer(e) /\ e.op # "cudaMemcpy"
  BY DEF Event, Entries, IsTransfer
<1>5. \A s \in AllStreams :
        /\ DOMAIN queue[s] = 1..Len(queue[s]) /\ Len(queue[s]) \in Nat
        /\ DOMAIN old(s) = DOMAIN queue[s]
        /\ \A k \in DOMAIN queue[s] :
             /\ old(s)[k] \in Entries
             /\ IsTransfer(old(s)[k]) =>
                  /\ IsTransfer(queue[s][k]) /\ old(s)[k].owner = queue[s][k].owner
                  /\ old(s)[k].op = queue[s][k].op /\ old(s)[k].dir = queue[s][k].dir
                  /\ queue[s][k].owner # t => old(s)[k] = queue[s][k]
                  /\ queue[s][k].owner = t => old(s)[k].recorded = (s = on)
             /\ \A u \in Threads : u # t /\ queue[s][k] = Event(u) => old(s)[k] = queue[s][k]
  <2>1. TAKE s \in AllStreams
  <2>2. DOMAIN queue[s] = 1..Len(queue[s]) /\ Len(queue[s]) \in Nat
    BY <1>2, EntryTypes
  <2>3. DOMAIN old(s) = DOMAIN queue[s]
    BY DEF Recorded
  <2> HIDE DEF on
  <2>4. ASSUME NEW k \in DOMAIN queue[s]
        PROVE  /\ old(s)[k] \in Entries
               /\ IsTransfer(old(s)[k]) =>
                    /\ IsTransfer(queue[s][k]) /\ old(s)[k].owner = queue[s][k].owner
                    /\ old(s)[k].op = queue[s][k].op /\ old(s)[k].dir = queue[s][k].dir
                    /\ queue[s][k].owner # t => old(s)[k] = queue[s][k]
                    /\ queue[s][k].owner = t => old(s)[k].recorded = (s = on)
               /\ \A u \in Threads : u # t /\ queue[s][k] = Event(u) => old(s)[k] = queue[s][k]
    BY <1>2, RecordedEntry DEF old
  <2>5. QED
    BY <2>2, <2>3, <2>4
<1> HIDE DEF e, old, on
<1>6. \A s \in AllStreams : old(s) \in Seq(Entries) /\ Len(old(s)) = Len(queue[s])
  <2>1. TAKE s \in AllStreams
  <2>2. old(s) \in [1..Len(queue[s]) -> Entries]
    <3>1. old(s) = [k \in DOMAIN old(s) |-> old(s)[k]]
      BY DEF old, Recorded
    <3>2. QED
      BY <1>5, <3>1
  <2>3. old(s) \in Seq(Entries)
    BY <1>5, <2>2, SeqDef
  <2>4. QED
    BY <1>5, <2>3, LenProperties
<1>7. \A s \in AllStreams :
        /\ s = on => queue'[s] = Append(old(s), e)
        /\ s # on => queue'[s] = old(s)
  BY <1>1
<1>8. \A s \in AllStreams :
        /\ \A k \in DOMAIN queue[s] : k \in DOMAIN queue'[s] /\ queue'[s][k] = old(s)[k]
        /\ \A k \in DOMAIN queue'[s] : k \in DOMAIN queue[s] \/ (s = on /\ queue'[s][k] = e)
        /\ queue'[s] \in Seq(Entries) /\ Len(queue'[s]) <= MaxQueued
  <2>1. TAKE s \in AllStreams
  <2>2. CASE s = on
    <3>1. /\ queue'[s] \in Seq(Entries) /\ Len(queue'[s]) = Len(queue[s]) + 1
          /\ DOMAIN queue'[s] = 1..(Len(queue[s]) + 1)
          /\ \A k \in 1..Len(queue[s]) : queue'[s][k] = old(s)[k]
          /\ queue'[s][Len(queue[s]) + 1] = e
      BY <1>4, <1>6, <1>7, <2>2, Appended
    <3>2. \A k \in 1..(Len(queue[s]) + 1) : k \in 1..Len(queue[s]) \/ k = Len(queue[s]) + 1
      BY <1>5
    <3>3. Len(queue'[s]) <= MaxQueued
      BY <1>1, <1>5, <2>2, <3>1, DmaAssumption
    <3>4. \A k \in 1..Len(queue[s]) : k \in 1..(Len(queue[s]) + 1)
      BY <1>5
    <3>5. QED
      BY <1>5, <2>2, <3>1, <3>2, <3>3, <3>4
  <2>3. CASE s # on
    BY <1>3, <1>5, <1>6, <1>7, <2>3
  <2>4. QED
    BY <2>2, <2>3
<1>9. TypeOK'
  <2>1. pc' \in [Threads -> {"idle", "sent", "answered"}]
    BY <1>1, <1>3
  <2>2. \A u \in Threads : call'[u] = NoCall <=> pc'[u] = "idle"
    BY <1>1, <1>3
  <2>3. serving' \in {u \in Threads : pc'[u] = "sent"} \cup {NoThread}
    BY <1>1, <1>3
  <2>4. queue' \in [AllStreams -> Seq(Entries)]
    BY <1>1, <1>8
  <2>5. QED
    BY <1>1, <1>2, <1>8, <2>1, <2>2, <2>3, <2>4 DEF TypeOK, IsCopy
<1>10. \A u \in Threads : pc'[u] = "answered" /\ call[u].op \in {"streamSync", "eventSync"} =>
                            u # t /\ pc[u] = "answered"
  BY <1>1, <1>3
(* A transfer that is there was there before.                              *)
<1>11. ASSUME NEW s \in AllStreams, NEW k \in DOMAIN queue'[s], IsTransfer(queue'[s][k])
       PROVE  /\ k \in DOMAIN queue[s] /\ IsTransfer(queue[s][k])
              /\ queue'[s][k].owner = queue[s][k].owner
              /\ queue'[s][k].op = queue[s][k].op /\ queue'[s][k].dir = queue[s][k].dir
              /\ queue[s][k].owner # t => queue'[s][k] = queue[s][k]
              /\ queue[s][k].owner = t => queue'[s][k].recorded = (s = on)
  <2>1. k \in DOMAIN queue[s] /\ queue'[s][k] = old(s)[k]
    BY <1>4, <1>8, <1>11
  <2>2. QED
    BY <1>5, <1>11, <2>1
<1>12. CopyIsServed'
  <2>1. SUFFICES ASSUME NEW s \in AllStreams, NEW k \in DOMAIN queue'[s],
                        queue'[s][k].op = "cudaMemcpy", queue'[s][k].dir = "DtoH"
                 PROVE  FALSE
    BY DEF CopyIsServed
  <2>2. IsTransfer(queue'[s][k])
    BY <2>1 DEF IsTransfer
  <2>3. /\ k \in DOMAIN queue[s] /\ IsTransfer(queue[s][k])
        /\ queue[s][k].op = "cudaMemcpy" /\ queue[s][k].dir = "DtoH"
    BY <1>11, <2>1, <2>2
  <2>4. serving = queue[s][k].owner
    BY <2>3 DEF DmaInv, CopyIsServed
  <2>5. queue[s][k].owner \in Threads
    BY <1>2, <2>3, EntryTypes, TransferTypes
  <2>6. QED
    BY <1>1, <2>4, <2>5, DmaAssumption
<1>13. StreamIsSynced'
  <2>1. SUFFICES ASSUME NEW u \in Threads, pc'[u] = "answered", call[u].op = "streamSync",
                        NEW k \in DOMAIN queue'[call[u].stream], IsTransfer(queue'[call[u].stream][k])
                 PROVE  queue'[call[u].stream][k].owner # u
    <3>1. call' = call
      BY <1>1
    <3>2. QED
      BY <3>1 DEF StreamIsSynced
  <2>2. u # t /\ pc[u] = "answered" /\ call[u].stream \in AllStreams
    BY <1>2, <1>10, <2>1, CallTypes
  <2>3. /\ k \in DOMAIN queue[call[u].stream] /\ IsTransfer(queue[call[u].stream][k])
        /\ queue'[call[u].stream][k].owner = queue[call[u].stream][k].owner
    BY <1>11, <2>1, <2>2
  <2>4. QED
    BY <2>1, <2>2, <2>3 DEF DmaInv, StreamIsSynced
<1>14. EventIsSynced'
  <2>1. SUFFICES ASSUME NEW u \in Threads, pc'[u] = "answered", call[u].op = "eventSync",
                        NEW s \in AllStreams, NEW k \in DOMAIN queue'[s],
                        IsTransfer(queue'[s][k]), queue'[s][k].owner = u
                 PROVE  ~queue'[s][k].recorded
    BY <1>1 DEF EventIsSynced
  <2>2. u # t /\ pc[u] = "answered"
    BY <1>10, <2>1
  <2>3. k \in DOMAIN queue[s] /\ IsTransfer(queue[s][k]) /\ queue'[s][k] = queue[s][k]
    BY <1>11, <2>1, <2>2
  <2>4. QED
    BY <2>1, <2>2, <2>3 DEF DmaInv, EventIsSynced
<1>15. EventIsBehind'
  <2>1. SUFFICES ASSUME NEW s \in AllStreams, NEW k \in DOMAIN queue'[s],
                        IsTransfer(queue'[s][k]), queue'[s][k].recorded
                 PROVE  \E j \in DOMAIN queue'[s] : k < j /\ queue'[s][j] = Event(queue'[s][k].owner)
    BY DEF EventIsBehind
  <2>2. /\ k \in DOMAIN queue[s] /\ IsTransfer(queue[s][k])
        /\ queue'[s][k].owner = queue[s][k].owner /\ queue[s][k].owner \in Threads
    BY <1>2, <1>11, <2>1, EntryTypes, TransferTypes
  <2>3. CASE queue[s][k].owner = t
    <3>1. s = on
      BY <1>11, <2>1, <2>3
    <3>2. /\ Len(queue[s]) + 1 \in DOMAIN queue'[s]
          /\ queue'[s][Len(queue[s]) + 1] = e
      <4>1. queue'[s] = Append(old(s), e) /\ old(s) \in Seq(Entries) /\ Len(old(s)) = Len(queue[s])
        BY <1>6, <1>7, <3>1
      <4>2. DOMAIN queue'[s] = 1..(Len(queue[s]) + 1) /\ queue'[s][Len(queue[s]) + 1] = e
        BY <1>4, <4>1, Appended
      <4>3. QED
        BY <1>5, <4>2
    <3>3. k < Len(queue[s]) + 1
      BY <1>5, <2>2
    <3>4. QED
      BY <2>2, <2>3, <3>2, <3>3 DEF e
  <2>4. CASE queue[s][k].owner # t
    <3>1. queue'[s][k] = queue[s][k]
      BY <1>11, <2>1, <2>4
    <3>2. PICK j \in DOMAIN queue[s] : k < j /\ queue[s][j] = Event(queue[s][k].owner)
      BY <2>1, <2>2, <3>1 DEF DmaInv, EventIsBehind
    <3>3. j \in DOMAIN queue'[s] /\ queue'[s][j] = queue[s][j]
      BY <1>5, <1>8, <2>2, <2>4, <3>2
    <3>4. QED
      BY <3>1, <3>2, <3>3
  <2>5. QED
    BY <2>3, <2>4
<1>16. QED
  BY <1>9, <1>12, <1>13, <1>14, <1>15 DEF DmaInv

LEMMA RunStep ==
  ASSUME DmaInv, NEW d \in AllStreams, Run(d)
  PROVE  DmaInv'
<1>1. /\ queue[d] # <<>> /\ queue' = [queue EXCEPT ![d] = Tail(@)]
      /\ UNCHANGED <<pc, call, pinned, serving, attempted, registered>>
  BY DEF Run
<1>2. /\ TypeOK /\ queue \in [AllStreams -> Seq(Entries)]
      /\ \A s \in AllStreams : Len(queue[s]) <= MaxQueued
  BY DEF DmaInv, TypeOK
<1>3. /\ queue'[d] \in Seq(Entries) /\ Len(queue[d]) \in Nat /\ Len(queue'[d]) = Len(queue[d]) - 1
      /\ DOMAIN queue[d] = 1..Len(queue[d]) /\ DOMAIN queue'[d] = 1..(Len(queue[d]) - 1)
      /\ \A k \in 1..(Len(queue[d]) - 1) : queue'[d][k] = queue[d][k + 1]
  <2>1. queue[d] \in Seq(Entries) /\ queue'[d] = Tail(queue[d])
    BY <1>1, <1>2
  <2>2. QED
    BY <1>1, <2>1, HeadTailProperties, LenProperties
<1>4. \A s \in AllStreams : s # d => queue'[s] = queue[s]
  BY <1>1, <1>2
<1>5. TypeOK'
  <2>1. queue' \in [AllStreams -> Seq(Entries)]
    BY <1>1, <1>2, <1>3
  <2>2. \A s \in AllStreams : Len(queue'[s]) <= MaxQueued
    <3>1. Len(queue'[d]) <= MaxQueued
      <4>1. Len(queue[d]) <= MaxQueued /\ MaxQueued \in Nat
        BY <1>2, DmaAssumption
      <4>2. QED
        BY <1>3, <4>1
    <3>2. QED
      BY <1>2, <1>4, <3>1
  <2>3. QED
    BY <1>1, <1>2, <2>1, <2>2 DEF TypeOK, IsCopy
(* What is left was there, one place further back.                         *)
<1>6. \A s \in AllStreams : \A k \in DOMAIN queue'[s] : \E i \in DOMAIN queue[s] : queue'[s][k] = queue[s][i]
  <2>1. \A k \in 1..(Len(queue[d]) - 1) : k + 1 \in 1..Len(queue[d])
    BY <1>3
  <2>2. QED
    BY <1>3, <1>4, <2>1
<1>7. CopyIsServed'
  BY <1>1, <1>6 DEF DmaInv, CopyIsServed
<1>8. StreamIsSynced'
  <2>1. \A u \in Threads : call[u].op = "streamSync" => call[u].stream \in AllStreams
    BY <1>2, CallTypes
  <2>2. SUFFICES ASSUME NEW u \in Threads, pc[u] = "answered", call[u].op = "streamSync",
                        NEW k \in DOMAIN queue'[call[u].stream], IsTransfer(queue'[call[u].stream][k])
                 PROVE  queue'[call[u].stream][k].owner # u
    BY <1>1 DEF StreamIsSynced
  <2>3. PICK i \in DOMAIN queue[call[u].stream] : queue'[call[u].stream][k] = queue[call[u].stream][i]
    BY <1>6, <2>1, <2>2
  <2>4. QED
    BY <2>2, <2>3 DEF DmaInv, StreamIsSynced
<1>9. EventIsSynced'
  BY <1>1, <1>6 DEF DmaInv, EventIsSynced
<1>10. EventIsBehind'
  <2>1. SUFFICES ASSUME NEW s \in AllStreams, NEW k \in DOMAIN queue'[s],
                        IsTransfer(queue'[s][k]), queue'[s][k].recorded
                 PROVE  \E j \in DOMAIN queue'[s] : k < j /\ queue'[s][j] = Event(queue'[s][k].owner)
    BY DEF EventIsBehind
  <2>2. CASE s = d
    <3>1. k \in 1..(Len(queue[d]) - 1) /\ k + 1 \in 1..Len(queue[d]) /\ queue'[d][k] = queue[d][k + 1]
      BY <1>3, <2>1, <2>2
    <3>2. PICK j \in 1..Len(queue[d]) : k + 1 < j /\ queue[d][j] = Event(queue[d][k + 1].owner)
      <4>1. /\ k + 1 \in DOMAIN queue[d] /\ IsTransfer(queue[d][k + 1])
            /\ queue[d][k + 1].recorded
        BY <1>3, <2>1, <2>2, <3>1
      <4>2. PICK j \in DOMAIN queue[d] : k + 1 < j /\ queue[d][j] = Event(queue[d][k + 1].owner)
        BY <4>1 DEF DmaInv, EventIsBehind
      <4>3. QED
        BY <1>3, <4>2
    <3>3. j - 1 \in 1..(Len(queue[d]) - 1) /\ k < j - 1 /\ (j - 1) + 1 = j
      BY <1>3, <3>1, <3>2
    <3>4. queue'[d][j - 1] = queue[d][j] /\ j - 1 \in DOMAIN queue'[d]
      BY <1>3, <3>3
    <3>5. QED
      BY <2>2, <3>1, <3>2, <3>3, <3>4
  <2>3. CASE s # d
    BY <1>4, <2>1, <2>3 DEF DmaInv, EventIsBehind
  <2>4. QED
    BY <2>2, <2>3
<1>11. QED
  BY <1>5, <1>7, <1>8, <1>9, <1>10 DEF DmaInv

------------------------------------------------------------------------------
LEMMA DmaInit == Init => DmaInv
<1> SUFFICES ASSUME Init PROVE DmaInv
  OBVIOUS
<1>1. ~IsCopy(NoCall)
  BY DEF IsCopy, Copies, NoCall
<1>2. TypeOK
  <2>1. \A t \in Threads : FALSE = IsCopy(call[t])
    <3>1. \A t \in Threads : ~(call[t] \in Copies)
      BY <1>1 DEF Init, IsCopy
    <3>2. QED
      BY <3>1 DEF IsCopy
  <2>2. pinned = [t \in Threads |-> IsCopy(call[t])]
    BY <2>1 DEF Init
  <2>3. queue \in [AllStreams -> Seq(Entries)] /\ \A s \in AllStreams : Len(queue[s]) <= MaxQueued
    <3>1. <<>> \in Seq(Entries) /\ Len(<<>>) = 0
      OBVIOUS
    <3>2. QED
      BY <3>1, DmaAssumption DEF Init
  <2>4. QED
    BY <2>2, <2>3 DEF Init, TypeOK
<1>3. \A s \in AllStreams : DOMAIN queue[s] = {}
  BY DEF Init
<1>4. CopyIsServed /\ EventIsBehind
  BY <1>3 DEF CopyIsServed, EventIsBehind
<1>5. StreamIsSynced /\ EventIsSynced
  BY DEF Init, StreamIsSynced, EventIsSynced
<1>6. QED
  BY <1>2, <1>4, <1>5 DEF DmaInv

LEMMA DmaNext == DmaInv /\ [Next]_vars => DmaInv'
<1> SUFFICES ASSUME DmaInv, [Next]_vars PROVE DmaInv'
  OBVIOUS
<1>1. CASE UNCHANGED vars
  BY <1>1 DEF vars, DmaInv, TypeOK, IsCopy, CopyIsServed, StreamIsSynced, EventIsSynced, EventIsBehind
<1>2. ASSUME NEW t \in Threads, Call(t) PROVE DmaInv'
  BY <1>2, CallStep
<1>3. ASSUME NEW t \in Threads, Return(t) PROVE DmaInv'
  BY <1>3, ReturnStep
<1>4. ASSUME NEW t \in Threads, ServeCopy(t) PROVE DmaInv'
  BY <1>4, ServeCopyStep
<1>5. ASSUME NEW t \in Threads, ServeCopyAtOnce(t) PROVE DmaInv'
  BY <1>5, ServeCopyAtOnceStep
<1>6. ASSUME NEW t \in Threads, ServeRetain(t) PROVE DmaInv'
  BY <1>6, ServeRetainStep
<1>7. ASSUME NEW t \in Threads, ServeRecord(t) PROVE DmaInv'
  BY <1>7, ServeRecordStep
<1>8. ASSUME NEW t \in Threads, ServeWait(t) PROVE DmaInv'
  BY <1>8, ServeWaitStep
<1>9. ASSUME NEW t \in Threads, Waited(t) PROVE DmaInv'
  BY <1>9, WaitedStep
<1>10. ASSUME NEW s \in AllStreams, Run(s) PROVE DmaInv'
  BY <1>10, RunStep
<1>11. QED
  BY <1>1, <1>2, <1>3, <1>4, <1>5, <1>6, <1>7, <1>8, <1>9, <1>10 DEF Next

(* Calls, pinned pages and the daemon's work agree; a device-to-host       *)
(* cudaMemcpy in flight is being served, an answered synchronization stays *)
(* true, and an event stands behind what it was recorded after.            *)
THEOREM StreamsInOrder == Spec => []DmaInv
<1>1. QED
  BY DmaInit, DmaNext, PTL DEF Spec

(* A cudaMemcpy to the host is over, on every stream, before the daemon    *)
(* answers it: the guest's program never sees a half-written buffer.       *)
THEOREM ToHostIsSynchronous == Spec => []CudaMemcpyDtoHDone
<1>1. DmaInv => CudaMemcpyDtoHDone
  <2>1. SUFFICES ASSUME DmaInv, NEW x \in Transfers, x.op = "cudaMemcpy", x.dir = "DtoH"
                 PROVE  serving = x.owner
    BY DEF CudaMemcpyDtoHDone
  <2>2. PICK s \in AllStreams : x \in ToSet(queue[s])
    BY DEF Transfers, Queued
  <2>3. PICK k \in DOMAIN queue[s] : x = queue[s][k]
    BY <2>2 DEF ToSet
  <2>4. QED
    BY <2>1, <2>3 DEF DmaInv, CopyIsServed
<1>2. QED
  BY <1>1, StreamsInOrder, PTL

(* When a synchronization of a stream returns, no copy of the caller is    *)
(* left on it.                                                             *)
THEOREM StreamSyncIsEnough == Spec => StreamSyncMakesValid
<1>1. ASSUME DmaInv
      PROVE  \A t \in Threads : Returns(t, "streamSync") =>
               \A x \in Transfers \cap ToSet(queue[call[t].stream]) : x.owner # t
  <2>1. SUFFICES ASSUME NEW t \in Threads, Returns(t, "streamSync"),
                        NEW x \in Transfers \cap ToSet(queue[call[t].stream])
                 PROVE  x.owner # t
    OBVIOUS
  <2>2. PICK k \in DOMAIN queue[call[t].stream] : x = queue[call[t].stream][k]
    BY <2>1 DEF ToSet
  <2>3. QED
    BY <1>1, <2>1, <2>2 DEF DmaInv, StreamIsSynced, Returns, Transfers
<1>2. QED
  BY <1>1, StreamsInOrder, PTL DEF StreamSyncMakesValid

(* When a synchronization of an event returns, every copy the caller had   *)
(* queued before it recorded the event is over.                            *)
THEOREM EventSyncIsEnough == Spec => EventSyncMakesValid
<1>1. ASSUME DmaInv
      PROVE  \A t \in Threads : Returns(t, "eventSync") =>
               \A x \in Transfers : x.owner = t => ~x.recorded
  <2>1. SUFFICES ASSUME NEW t \in Threads, Returns(t, "eventSync"),
                        NEW x \in Transfers, x.owner = t
                 PROVE  ~x.recorded
    OBVIOUS
  <2>2. PICK s \in AllStreams : x \in ToSet(queue[s])
    BY DEF Transfers, Queued
  <2>3. PICK k \in DOMAIN queue[s] : x = queue[s][k]
    BY <2>2 DEF ToSet
  <2>4. QED
    BY <1>1, <2>1, <2>3 DEF DmaInv, EventIsSynced, Returns, Transfers
<1>2. QED
  BY <1>1, StreamsInOrder, PTL DEF EventSyncMakesValid
==============================================================================
