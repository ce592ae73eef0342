------------------------- MODULE HmcudaChannelProofs -------------------------
EXTENDS HmcudaChannel, TLAPS

(* Only the owner of the mutex has a request outstanding.                   *)
LEMMA OneOutstanding ==
  ASSUME ChannelInv, NEW t \in Threads, NEW u \in Threads,
         Outstanding(t), Holds(u)
  PROVE  t = u
BY ChannelAssumption DEF ChannelInv, LockInv, Holds, Outstanding

(* The element in the daemon is the request of a sleeping thread.           *)
LEMMA HostOwner ==
  ASSUME ChannelInv, host.step \in {"exec", "respond", "push"}
  PROVE  /\ host.elem \in Requests
         /\ \E t \in Threads : Outstanding(t) /\ HostStage(t) /\ host.elem = Request(t)
<1>1. PICK t \in Threads : Outstanding(t) /\ HostStage(t)
  BY DEF ChannelInv, StageInv, SentStage, UsedStage
<1>2. batch[t] \in 0..MaxBatches /\ plan[t] \in 0..MaxBatches /\ batch[t] < plan[t]
  BY <1>1 DEF ChannelInv, TypeOK, CallInv, CallOf, Outstanding
<1>3. Request(t) \in Requests
  BY <1>2, ChannelAssumption DEF Request, Requests
<1>4. QED
  BY <1>1, <1>3 DEF HostStage

(* A step that touches neither the ring nor the daemon nor a thread with a  *)
(* request outstanding leaves every stage as it is.                         *)
LEMMA StageFrame ==
  ASSUME StageInv, UNCHANGED <<done, ringVars, host>>,
         \A t \in Threads : Outstanding(t)' <=> Outstanding(t),
         \A t \in Threads : Outstanding(t) =>
           UNCHANGED <<pc[t], kind[t], batch[t], resp[t], served[t], failed[t]>>
  PROVE  StageInv'
<1>1. UNCHANGED Quiet
  BY DEF Quiet, ringVars
<1>2. ASSUME NEW t \in Threads, Outstanding(t)
      PROVE  /\ SentStage(t) => SentStage(t)'
             /\ HostStage(t) => HostStage(t)'
             /\ UsedStage(t) => UsedStage(t)'
  BY <1>1, <1>2 DEF SentStage, HostStage, UsedStage, Request, Answer, Told, Heard, ringVars
<1>3. QED
  BY <1>1, <1>2 DEF StageInv, ringVars

(* A thread with no request outstanding, before and after its step, leaves   *)
(* every stage as it is.                                                     *)
LEMMA OutsideStep ==
  ASSUME StageInv, NEW u \in Threads, NEW s \in Steps \ {"wait", "getbuf"},
         pc \in [Threads -> Steps], ~Outstanding(u), pc' = [pc EXCEPT ![u] = s],
         UNCHANGED <<done, ringVars, host>>,
         \A t \in Threads \ {u} : UNCHANGED <<kind[t], batch[t], resp[t], served[t], failed[t]>>
  PROVE  StageInv'
<1>1. \A t \in Threads : Outstanding(t)' <=> Outstanding(t)
  BY DEF Outstanding
<1>2. \A t \in Threads : Outstanding(t) => t # u /\ UNCHANGED pc[t]
  OBVIOUS
<1>3. QED
  BY <1>1, <1>2, StageFrame

(* The request outstanding goes from one stage to another.                   *)
LEMMA StageMoves ==
  ASSUME ChannelInv, UNCHANGED pc, NEW t \in Threads, Outstanding(t),
         SentStage(t)' \/ HostStage(t)' \/ UsedStage(t)'
  PROVE  StageInv'
<1>1. \A u \in Threads : Outstanding(u)' <=> u = t
  BY OneOutstanding DEF Outstanding, Holds
<1>2. QED
  BY <1>1 DEF StageInv

(* A step of the interrupt or the daemon that leaves the threads' own state  *)
(* alone says nothing new about mutex, pins and calls.                       *)
LEMMA DriverFrame ==
  ASSUME ChannelInv, UNCHANGED <<callVars, pc, pinned, resp, lock, histVars>>
  PROVE  LockInv' /\ PinsBalanced' /\ CallInv'
<1>1. LockInv'
  BY DEF ChannelInv, LockInv, Holds
<1>2. PinsBalanced'
  BY DEF ChannelInv, PinsBalanced, callVars
<1>3. CallInv'
  BY DEF ChannelInv, CallInv, CallOf, Answer, Told, Heard, callVars, histVars
<1>4. QED
  BY <1>1, <1>2, <1>3

(* A refused call changes nothing but its result.                           *)
LEMMA RefuseStep ==
  ASSUME ChannelInv, NEW u \in Threads, Refuse(u)
  PROVE  ChannelInv'
<1> USE ChannelAssumption DEF ChannelInv
<1>1. TypeOK'
  BY DEF TypeOK, Refuse, Steps, HostSteps, driverVars, callVars, ringVars, histVars
<1>2. LockInv'
  BY DEF TypeOK, LockInv, Holds, Refuse
<1>3. PinsBalanced'
  BY DEF TypeOK, PinsBalanced, Refuse
<1>4. CallInv'
  BY DEF TypeOK, CallInv, CallOf, Answer, Told, Heard, Refuse, histVars
<1>5. StageInv'
  BY StageFrame DEF Refuse, Outstanding, ringVars, histVars
<1>6. QED BY <1>1, <1>2, <1>3, <1>4, <1>5

(* A call starts with fresh locals.                                         *)
LEMMA BeginStep ==
  ASSUME ChannelInv, NEW u \in Threads, Begin(u)
  PROVE  ChannelInv'
<1> USE ChannelAssumption DEF ChannelInv
<1>1. TypeOK'
  <2>1. PICK k \in Kinds, n \in 0..MaxBatches :
          /\ kind' = [kind EXCEPT ![u] = k] /\ plan' = [plan EXCEPT ![u] = n]
          /\ pc' = [pc EXCEPT ![u] = IF k = "simple" THEN "lock" ELSE "loop"]
    BY DEF Begin, Goto
  <2>2. pc' \in [Threads -> Steps]
    BY <2>1 DEF TypeOK, Steps
  <2>3. QED
    BY <2>1, <2>2 DEF TypeOK, Begin, driverVars, callVars, ringVars, histVars
<1>2. LockInv'
  BY DEF TypeOK, LockInv, Holds, Begin, Goto
<1>3. PinsBalanced'
  BY DEF TypeOK, PinsBalanced, Begin, Goto
<1>4. CallInv'
  <2>1. PICK k \in Kinds, n \in 0..MaxBatches :
          /\ k = "simple" => n = 1
          /\ kind' = [kind EXCEPT ![u] = k] /\ plan' = [plan EXCEPT ![u] = n]
          /\ pc' = [pc EXCEPT ![u] = IF k = "simple" THEN "lock" ELSE "loop"]
    BY DEF Begin, Goto
  <2>2. pc[u] = "idle" /\ UNCHANGED <<batch, resp, served, failed>>
    BY DEF Begin, Goto, histVars
  <2>3. /\ batch[u] = 0 /\ served[u] = 0 /\ ~Told(u) /\ resp[u] = Answer(u)
        /\ kind[u] = "simple" /\ ~failed[u]
    BY <2>2 DEF CallInv, CallOf, TypeOK, Told, Heard
  <2>4. resp'[u] = Answer(u)' /\ ~Told(u)'
    BY <2>2, <2>3 DEF Answer, Told, Heard
  <2>5. /\ pc'[u] = (IF k = "simple" THEN "lock" ELSE "loop")
        /\ kind'[u] = k /\ plan'[u] = n
    BY <2>1 DEF TypeOK
  <2>6. ASSUME NEW t \in Threads, t # u
        PROVE  UNCHANGED <<pc[t], kind[t], plan[t], batch[t], resp[t], served[t], Told(t), Answer(t)>>
    BY <2>1, <2>2, <2>6 DEF TypeOK, Told, Answer, Heard
  <2>7. 0 < plan'[u] \/ pc'[u] = "loop"
    BY <2>1, <2>5
  <2>8. resp'[u] = ZeroedResp /\ batch'[u] = 0 /\ served'[u] = 0
    BY <2>2, <2>3 DEF Answer, ZeroedResp, Told, Heard
  <2>9. SUFFICES ASSUME NEW t \in Threads
               PROVE  CallOf(t)'
    BY DEF CallInv
  <2>10. CASE t = u
    <3>1. n \in Nat /\ 0 <= n
      OBVIOUS
    <3>2. served'[u] = batch'[u] /\ ~Told(u)' /\ resp'[u] = Answer(u)' /\ resp'[u] = ZeroedResp
      BY <2>4, <2>8
    <3>3. CASE k = "simple"
      BY <2>1, <2>5, <2>8, <2>10, <3>1, <3>2, <3>3 DEF CallOf
    <3>4. CASE k # "simple"
      BY <2>5, <2>8, <2>10, <3>1, <3>2, <3>4 DEF CallOf
    <3>5. QED
      BY <3>3, <3>4
  <2>11. CASE t # u
    <3>1. UNCHANGED Heard(t)
      BY <2>6, <2>11 DEF Heard
    <3>2. CallOf(t)
      BY DEF CallInv
    <3>3. QED
      BY <2>6, <2>11, <3>1, <3>2 DEF CallOf
  <2>12. QED
    BY <2>10, <2>11
<1>5. StageInv'
  <2>1. PICK s \in {"lock", "loop"} : pc[u] = "idle" /\ pc' = [pc EXCEPT ![u] = s]
    BY DEF Begin, Goto
  <2>2. QED
    BY <2>1, OutsideStep DEF TypeOK, Steps, Begin, Outstanding, histVars
<1>6. QED BY <1>1, <1>2, <1>3, <1>4, <1>5

(* A call that is left has its locals as before it began, and no other call *)
(* is touched.                                                              *)
LEMMA LeaveCalls ==
  ASSUME TypeOK, CallInv, NEW u \in Threads, NEW from, NEW r, Leave(u, from, r)
  PROVE  CallInv'
<1> SUFFICES ASSUME NEW t \in Threads PROVE CallOf(t)'
  BY DEF CallInv
<1>1. CASE t # u
  <2>1. UNCHANGED <<pc[t], kind[t], plan[t], batch[t], resp[t], served[t], failed[t]>>
    BY <1>1 DEF TypeOK, Leave, Goto
  <2>2. UNCHANGED <<Heard(t), Told(t), Answer(t)>>
    BY <2>1 DEF Heard, Told, Answer
  <2>3. CallOf(t)
    BY DEF CallInv
  <2>4. QED
    BY <2>1, <2>2, <2>3 DEF CallOf
<1>2. CASE t = u
  <2>1. /\ pc'[t] = "idle" /\ kind'[t] = "simple" /\ batch'[t] = 0
        /\ resp'[t] = ZeroedResp /\ served'[t] = 0 /\ failed'[t] = FALSE
    BY <1>2 DEF TypeOK, Leave, Goto
  <2>2. ~Told(t)' /\ Answer(t)' = ZeroedResp
    BY <2>1 DEF Told, Answer, ZeroedResp
  <2>3. QED
    BY <2>1, <2>2 DEF CallOf
<1>3. QED
  BY <1>1, <1>2

(* Leaving with the response: the locals are as before the call.            *)
LEMMA CopyOutStep ==
  ASSUME ChannelInv, NEW u \in Threads, CopyOut(u)
  PROVE  ChannelInv'
<1> USE ChannelAssumption DEF ChannelInv
<1>1. TypeOK'
  <2>1. PICK r \in {"ok", "cuda", "errno"} : Leave(u, "copyout", r)
    BY DEF CopyOut
  <2>2. ZeroedResp \in Responses
    BY DEF ZeroedResp, Responses
  <2>3. QED
    BY <2>1, <2>2 DEF TypeOK, Leave, Goto, Steps, Kinds, driverVars, callVars, ringVars, histVars
<1>2. LockInv'
  BY DEF TypeOK, LockInv, Holds, CopyOut, Leave, Goto
<1>3. PinsBalanced'
  BY DEF TypeOK, PinsBalanced, CopyOut, Leave, Goto
<1>4. CallInv'
  <2>1. PICK r \in {"ok", "cuda", "errno"} : Leave(u, "copyout", r)
    BY DEF CopyOut
  <2>2. QED
    BY <2>1, LeaveCalls
<1>5. StageInv'
  <2>1. PICK r \in {"ok", "cuda", "errno"} : Leave(u, "copyout", r)
    BY DEF CopyOut
  <2>2. \A t \in Threads : Outstanding(t)' <=> Outstanding(t)
    BY <2>1 DEF TypeOK, Leave, Goto, Outstanding
  <2>3. \A t \in Threads : Outstanding(t) => t # u
    BY <2>1 DEF Leave, Goto, Outstanding
  <2>4. QED
    BY <2>1, <2>2, <2>3, StageFrame DEF TypeOK, Leave, Goto
<1>6. QED BY <1>1, <1>2, <1>3, <1>4, <1>5

(* Leaving with an errno: the same.                                         *)
LEMMA ReturnErrnoStep ==
  ASSUME ChannelInv, NEW u \in Threads, ReturnErrno(u)
  PROVE  ChannelInv'
<1> USE ChannelAssumption DEF ChannelInv
<1>1. TypeOK'
  <2>1. PICK r \in {"errno"} : Leave(u, "fail", r)
    BY DEF ReturnErrno
  <2>2. ZeroedResp \in Responses
    BY DEF ZeroedResp, Responses
  <2>3. QED
    BY <2>1, <2>2 DEF TypeOK, Leave, Goto, Steps, Kinds, driverVars, callVars, ringVars, histVars
<1>2. LockInv'
  BY DEF TypeOK, LockInv, Holds, ReturnErrno, Leave, Goto
<1>3. PinsBalanced'
  BY DEF TypeOK, PinsBalanced, ReturnErrno, Leave, Goto
<1>4. CallInv'
  BY LeaveCalls DEF ReturnErrno
<1>5. StageInv'
  <2>1. Leave(u, "fail", "errno")
    BY DEF ReturnErrno
  <2>2. \A t \in Threads : Outstanding(t)' <=> Outstanding(t)
    BY <2>1 DEF TypeOK, Leave, Goto, Outstanding
  <2>3. \A t \in Threads : Outstanding(t) => t # u
    BY <2>1 DEF Leave, Goto, Outstanding
  <2>4. QED
    BY <2>1, <2>2, <2>3, StageFrame DEF TypeOK, Leave, Goto
<1>6. QED BY <1>1, <1>2, <1>3, <1>4, <1>5

(* Pinning is what PinsBalanced expects before the mutex.                   *)
LEMMA PinPagesStep ==
  ASSUME ChannelInv, NEW u \in Threads, PinPages(u)
  PROVE  ChannelInv'
<1> USE ChannelAssumption DEF ChannelInv
<1>1. TypeOK'
  BY DEF TypeOK, PinPages, Goto, Steps, HostSteps, driverVars, callVars, ringVars, histVars
<1>2. LockInv'
  BY DEF TypeOK, LockInv, Holds, PinPages, Goto
<1>3. PinsBalanced'
  BY DEF TypeOK, PinsBalanced, PinPages, Goto, callVars, CallInv, CallOf
<1>4. CallInv'
  BY DEF TypeOK, CallInv, CallOf, Answer, Told, Heard, PinPages, Goto, callVars, histVars
<1>5. StageInv'
  BY OutsideStep DEF TypeOK, Steps, PinPages, Goto, Outstanding, callVars, histVars
<1>6. QED BY <1>1, <1>2, <1>3, <1>4, <1>5

(* A failed pin leaves nothing pinned.                                      *)
LEMMA PinFailsStep ==
  ASSUME ChannelInv, NEW u \in Threads, PinFails(u)
  PROVE  ChannelInv'
<1> USE ChannelAssumption DEF ChannelInv
<1>1. TypeOK'
  BY DEF TypeOK, PinFails, Goto, Steps, HostSteps, driverVars, callVars, ringVars, histVars
<1>2. LockInv'
  BY DEF TypeOK, LockInv, Holds, PinFails, Goto
<1>3. PinsBalanced'
  BY DEF TypeOK, PinsBalanced, PinFails, Goto, callVars
<1>4. CallInv'
  BY DEF TypeOK, CallInv, CallOf, Answer, Told, Heard, PinFails, Goto, callVars, histVars
<1>5. StageInv'
  BY OutsideStep DEF TypeOK, Steps, PinFails, Goto, Outstanding, callVars, histVars
<1>6. QED BY <1>1, <1>2, <1>3, <1>4, <1>5

(* All batches done: the response is that of the last one.                  *)
LEMMA LoopDoneStep ==
  ASSUME ChannelInv, NEW u \in Threads, LoopDone(u)
  PROVE  ChannelInv'
<1> USE ChannelAssumption DEF ChannelInv
<1>1. TypeOK'
  BY DEF TypeOK, LoopDone, Goto, Steps, HostSteps, driverVars, callVars, ringVars, histVars
<1>2. LockInv'
  BY DEF TypeOK, LockInv, Holds, LoopDone, Goto
<1>3. PinsBalanced'
  BY DEF TypeOK, PinsBalanced, LoopDone, Goto, callVars
<1>4. CallInv'
  BY DEF TypeOK, CallInv, CallOf, Answer, Told, Heard, LoopDone, Goto, callVars, histVars
<1>5. StageInv'
  BY OutsideStep DEF TypeOK, Steps, LoopDone, Goto, Outstanding, callVars, histVars
<1>6. QED BY <1>1, <1>2, <1>3, <1>4, <1>5

(* The executed batch is counted, or its error ends the call.               *)
LEMMA UnpinStep ==
  ASSUME ChannelInv, NEW u \in Threads, Unpin(u)
  PROVE  ChannelInv'
<1> USE ChannelAssumption DEF ChannelInv
<1>1. TypeOK'
  <2>1. batch[u] + 1 \in 0..MaxBatches
    BY DEF TypeOK, CallInv, CallOf, Unpin, Goto
  <2>2. QED
    BY <2>1 DEF TypeOK, Unpin, Goto, Steps, ringVars, histVars
<1>2. LockInv'
  BY DEF TypeOK, LockInv, Holds, Unpin, Goto
<1>3. PinsBalanced'
  BY DEF TypeOK, PinsBalanced, Unpin, Goto
<1>4. CallInv'
  <2>1. /\ batch[u] < plan[u] /\ batch[u] \in Nat /\ plan[u] \in Nat
        /\ served[u] = batch[u] + 1 /\ resp[u] = Answer(u) /\ kind[u] # "simple"
    BY DEF CallInv, CallOf, TypeOK, Unpin, Goto
  <2>2. batch[u] + 1 <= plan[u]
    BY <2>1
  <2>3. resp[u].err = Told(u)
    BY <2>1 DEF Answer, Told, Heard
  <2>4. SUFFICES ASSUME NEW t \in Threads
               PROVE  CallOf(t)'
    BY DEF CallInv
  <2>5. UNCHANGED <<kind, plan, resp, served, failed>>
    BY DEF Unpin, histVars
  <2>6. UNCHANGED <<Heard(t), Told(t), Answer(t)>>
    BY <2>5 DEF Heard, Told, Answer
  <2>7. CallOf(t)
    BY DEF CallInv
  <2>8. CASE t # u
    <3>1. UNCHANGED <<pc[t], batch[t]>>
      BY <2>8 DEF TypeOK, Unpin, Goto
    <3>2. QED
      BY <2>5, <2>6, <2>7, <3>1 DEF CallOf
  <2>9. CASE t = u
    <3>1. /\ pc'[u] = (IF Told(u) THEN "copyout" ELSE "loop")
          /\ batch'[u] = (IF Told(u) THEN batch[u] ELSE batch[u] + 1)
      BY <2>3 DEF TypeOK, Unpin, Goto
    <3>2. QED
      BY <2>1, <2>2, <2>5, <2>6, <2>7, <2>9, <3>1 DEF CallOf
  <2>10. QED
    BY <2>8, <2>9
<1>5. StageInv'
  <2>1. PICK s \in {"copyout", "loop"} : pc[u] = "unpin" /\ pc' = [pc EXCEPT ![u] = s]
    BY DEF Unpin, Goto
  <2>2. QED
    BY <2>1, OutsideStep DEF TypeOK, Steps, Unpin, Outstanding, histVars
<1>6. QED BY <1>1, <1>2, <1>3, <1>4, <1>5

(* The mutex was free, so nothing was outstanding and ring and interrupt    *)
(* path are empty.                                                          *)
LEMMA LockStep ==
  ASSUME ChannelInv, NEW u \in Threads, Lock(u)
  PROVE  ChannelInv'
<1> USE ChannelAssumption DEF ChannelInv
<1>1. TypeOK'
  BY DEF TypeOK, Lock, Goto, Steps, HostSteps, driverVars, callVars, ringVars, histVars
<1>2. LockInv'
  BY DEF TypeOK, LockInv, Holds, Lock, Goto
<1>3. PinsBalanced'
  BY DEF TypeOK, PinsBalanced, Lock, Goto, callVars
<1>4. CallInv'
  BY DEF TypeOK, CallInv, CallOf, Answer, Told, Heard, Lock, Goto, callVars, histVars
<1>5. StageInv'
  BY DEF TypeOK, StageInv, Outstanding, Quiet, LockInv, Holds, Lock, Goto, ringVars
<1>6. QED BY <1>1, <1>2, <1>3, <1>4, <1>5

(* The request enters the stage "sent"; it is the only one.                 *)
LEMMA AddAndKickStep ==
  ASSUME ChannelInv, NEW u \in Threads, AddAndKick(u)
  PROVE  ChannelInv'
<1> USE ChannelAssumption DEF ChannelInv
<1>1. TypeOK'
  <2>1. Request(u) \in Requests
    BY DEF TypeOK, CallInv, CallOf, AddAndKick, Goto, Request, Requests
  <2>2. avail' \in Seq(Requests)
    BY <2>1 DEF TypeOK, AddAndKick
  <2>3. QED
    BY <2>2 DEF TypeOK, AddAndKick, Goto, Steps, driverVars, callVars, ringVars, histVars
<1>2. LockInv'
  BY DEF TypeOK, LockInv, Holds, AddAndKick, Goto
<1>3. PinsBalanced'
  BY DEF TypeOK, PinsBalanced, AddAndKick, Goto, callVars
<1>4. CallInv'
  BY DEF TypeOK, CallInv, CallOf, Answer, Told, Heard, AddAndKick, Goto, callVars, histVars
<1>5. StageInv'
  <2>1. \A t \in Threads : ~Outstanding(t)
    BY DEF LockInv, Holds, AddAndKick, Goto, Outstanding
  <2>2. /\ avail = <<>> /\ used = <<>> /\ Quiet
        /\ host.elem = NoElem /\ host.step \in {"idle", "pop"}
    BY <2>1 DEF StageInv
  <2>3. avail' = <<Request(u)>> /\ Request(u)' = Request(u)
    BY <2>2 DEF AddAndKick, Request, callVars
  <2>4. SentStage(u)'
    BY <2>2, <2>3 DEF SentStage, AddAndKick, Goto, Quiet, TypeOK, CallInv, CallOf, Told, Heard, callVars,
       histVars
  <2>5. \A t \in Threads : Outstanding(t)' <=> t = u
    BY <2>1 DEF TypeOK, Outstanding, AddAndKick, Goto
  <2>6. QED
    BY <2>4, <2>5 DEF StageInv
<1>6. QED BY <1>1, <1>2, <1>3, <1>4, <1>5

(* The error branch gives back mutex and pins.                              *)
LEMMA AddFailsStep ==
  ASSUME ChannelInv, NEW u \in Threads, AddFails(u)
  PROVE  ChannelInv'
<1> USE ChannelAssumption DEF ChannelInv
<1>1. TypeOK'
  BY DEF TypeOK, AddFails, Goto, Steps, HostSteps, driverVars, callVars, ringVars, histVars
<1>2. LockInv'
  BY DEF TypeOK, LockInv, Holds, AddFails, Goto
<1>3. PinsBalanced'
  BY DEF TypeOK, PinsBalanced, AddFails, Goto, callVars, driverVars
<1>4. CallInv'
  BY DEF TypeOK, CallInv, CallOf, Answer, Told, Heard, AddFails, Goto, callVars, histVars
<1>5. StageInv'
  BY OutsideStep DEF TypeOK, Steps, AddFails, Goto, Outstanding, callVars, histVars
<1>6. QED BY <1>1, <1>2, <1>3, <1>4, <1>5

(* The one wakeup is consumed.                                              *)
LEMMA WakeStep ==
  ASSUME ChannelInv, NEW u \in Threads, Wake(u)
  PROVE  ChannelInv'
<1> USE ChannelAssumption DEF ChannelInv
<1>1. TypeOK'
  <2>1. done' \in Nat
    BY DEF TypeOK, Wake
  <2>2. QED
    BY <2>1 DEF TypeOK, Wake, Goto, Steps, driverVars, callVars, ringVars, histVars
<1>2. LockInv'
  BY DEF TypeOK, LockInv, Holds, Wake, Goto
<1>3. PinsBalanced'
  BY DEF TypeOK, PinsBalanced, Wake, Goto, callVars, driverVars
<1>4. CallInv'
  BY DEF TypeOK, CallInv, CallOf, Answer, Told, Heard, Wake, Goto, callVars, histVars
<1>5. StageInv'
  <2>1. UsedStage(u) /\ done = 1 /\ ~irq /\ ~handler /\ host.step # "notify"
    BY DEF StageInv, SentStage, HostStage, UsedStage, Quiet, Wake, Goto, Outstanding
  <2>2. UsedStage(u)'
    BY <2>1 DEF TypeOK, UsedStage, Quiet, Request, Answer, Told, Heard, Wake, Goto, callVars, ringVars, histVars
  <2>3. \A t \in Threads : Outstanding(t)' <=> t = u
    BY OneOutstanding DEF TypeOK, Outstanding, Holds, Wake, Goto
  <2>4. QED
    BY <2>2, <2>3 DEF StageInv
<1>6. QED BY <1>1, <1>2, <1>3, <1>4, <1>5

(* The one used element is taken; nothing is outstanding.                   *)
LEMMA GetBufStep ==
  ASSUME ChannelInv, NEW u \in Threads, GetBuf(u)
  PROVE  ChannelInv'
<1> USE ChannelAssumption DEF ChannelInv
<1>1. TypeOK'
  BY DEF TypeOK, GetBuf, Goto, Steps, HostSteps, driverVars, callVars, ringVars, histVars
<1>2. LockInv'
  BY DEF TypeOK, LockInv, Holds, GetBuf, Goto
<1>3. PinsBalanced'
  BY DEF TypeOK, PinsBalanced, GetBuf, Goto, callVars, driverVars
<1>4. CallInv'
  <2>1. served[u] = batch[u] + 1 /\ resp[u] = Answer(u)
    BY DEF StageInv, SentStage, HostStage, UsedStage, GetBuf, Goto, Outstanding
  <2>2. batch[u] < plan[u] /\ (kind[u] = "simple" => plan[u] = 1) /\ batch[u] \in Nat
    BY DEF TypeOK, CallInv, CallOf, GetBuf, Goto
  <2>3. kind[u] = "simple" => served[u] = plan[u]
    BY <2>1, <2>2
  <2>4. QED
    BY <2>1, <2>3 DEF TypeOK, CallInv, CallOf, Answer, Told, Heard, GetBuf, Goto, callVars, histVars
<1>5. StageInv'
  <2>1. UsedStage(u) /\ Quiet /\ host.step \in {"idle", "pop"}
    BY DEF StageInv, SentStage, HostStage, UsedStage, GetBuf, Goto, Outstanding
  <2>2. used' = <<>>
    BY <2>1 DEF GetBuf, UsedStage
  <2>3. \A t \in Threads : ~Outstanding(t)'
    BY DEF TypeOK, LockInv, Holds, Outstanding, GetBuf, Goto
  <2>4. QED
    BY <2>1, <2>2, <2>3 DEF StageInv, UsedStage, GetBuf, Quiet
<1>6. QED BY <1>1, <1>2, <1>3, <1>4, <1>5

(* An interrupt is raised only for a pushed element, so it is found.        *)
LEMMA InterruptEnterStep ==
  ASSUME ChannelInv, InterruptEnter
  PROVE  ChannelInv'
<1> USE ChannelAssumption DEF ChannelInv
<1>1. TypeOK'
  BY DEF TypeOK, InterruptEnter, Steps, HostSteps, driverVars, callVars, ringVars, histVars
<1>2. LockInv' /\ PinsBalanced' /\ CallInv'
  BY DriverFrame DEF InterruptEnter, driverVars, callVars, histVars
<1>5. StageInv'
  <2>1. PICK t \in Threads : Outstanding(t) /\ UsedStage(t)
    BY DEF StageInv, SentStage, HostStage, Quiet, InterruptEnter
  <2>2. pc[t] = "wait" /\ done = 0 /\ used = <<Request(t)>> /\ host.step # "notify"
    BY <2>1 DEF UsedStage, Quiet, InterruptEnter
  <2>3. ~irq' /\ handler' /\ done' = 0
    BY <2>2 DEF InterruptEnter, driverVars
  <2>4. UsedStage(t)'
    BY <2>1, <2>2, <2>3
       DEF UsedStage, Request, Answer, Told, Heard, InterruptEnter, driverVars, callVars, histVars
  <2>5. QED
    BY <2>1, <2>4, StageMoves DEF InterruptEnter, driverVars
<1>6. QED BY <1>1, <1>2, <1>5

(* The wakeup moves from the handler to the completion.                     *)
LEMMA VqCallbackStep ==
  ASSUME ChannelInv, VqCallback
  PROVE  ChannelInv'
<1> USE ChannelAssumption DEF ChannelInv
<1>1. TypeOK'
  <2>1. done' \in Nat
    BY DEF TypeOK, VqCallback
  <2>2. QED
    BY <2>1 DEF TypeOK, VqCallback, driverVars, callVars, ringVars, histVars
<1>2. LockInv' /\ PinsBalanced' /\ CallInv'
  BY DriverFrame DEF VqCallback, driverVars, callVars, histVars
<1>5. StageInv'
  <2>1. PICK t \in Threads : Outstanding(t) /\ UsedStage(t)
    BY DEF StageInv, SentStage, HostStage, Quiet, VqCallback
  <2>2. pc[t] = "wait" /\ done = 0 /\ ~irq /\ host.step # "notify"
    BY <2>1 DEF UsedStage, Quiet, VqCallback
  <2>3. UsedStage(t)'
    BY <2>1, <2>2
       DEF UsedStage, Request, Answer, Told, Heard, VqCallback, callVars, histVars
  <2>4. QED
    BY <2>1, <2>3, StageMoves DEF VqCallback
<1>6. QED BY <1>1, <1>2, <1>5

(* The kick is consumed; the daemon looks at the ring.                      *)
LEMMA HostWakeStep ==
  ASSUME ChannelInv, HostWake
  PROVE  ChannelInv'
<1> USE ChannelAssumption DEF ChannelInv
<1>1. TypeOK'
  BY DEF TypeOK, HostWake, HostGoto, Steps, HostSteps, driverVars, callVars, ringVars, histVars
<1>2. LockInv' /\ PinsBalanced' /\ CallInv'
  BY DriverFrame DEF HostWake, HostGoto, driverVars, callVars, histVars
<1>5. StageInv'
  <2>1. host'.elem = host.elem /\ host.step \in {"idle", "pop"} /\ host'.step \in {"idle", "pop"}
    BY DEF TypeOK, HostWake, HostGoto
  <2>2. ASSUME NEW t \in Threads, Outstanding(t)
        PROVE  SentStage(t)' \/ UsedStage(t)'
    <3>1. SentStage(t) \/ UsedStage(t)
      BY <2>1, <2>2 DEF StageInv, HostStage
    <3>2. SentStage(t) => SentStage(t)'
      BY <2>1 DEF SentStage, Request, Told, Heard, Quiet, HostWake, HostGoto, driverVars, callVars,
             ringVars, histVars
    <3>3. UsedStage(t) => UsedStage(t)'
      BY <2>1 DEF UsedStage, Request, Answer, Told, Heard, Quiet, HostWake, HostGoto, driverVars, callVars,
             ringVars, histVars
    <3>4. QED
      BY <3>1, <3>2, <3>3
  <2>3. QED
    BY <2>1, <2>2 DEF StageInv, Outstanding, Quiet, HostWake, HostGoto, driverVars, ringVars
<1>6. QED BY <1>1, <1>2, <1>5

(* The request moves from the ring to the daemon.                           *)
LEMMA HostPopStep ==
  ASSUME ChannelInv, HostPop
  PROVE  ChannelInv'
<1> USE ChannelAssumption DEF ChannelInv
<1>1. TypeOK'
  <2>1. Head(avail) \in Requests /\ avail' \in Seq(Requests)
    BY DEF TypeOK, HostPop
  <2>2. host' \in [step : HostSteps, elem : Requests \cup {NoElem}, err : BOOLEAN]
    BY <2>1 DEF TypeOK, HostPop, HostSteps
  <2>3. QED
    BY <2>1, <2>2 DEF TypeOK, HostPop, driverVars, callVars, ringVars, histVars
<1>2. LockInv' /\ PinsBalanced' /\ CallInv'
  BY DriverFrame DEF HostPop, driverVars, callVars, histVars
<1>5. StageInv'
  <2>1. PICK t \in Threads : Outstanding(t) /\ SentStage(t)
    BY DEF StageInv, HostStage, UsedStage, HostPop
  <2>2. avail' = <<>> /\ Head(avail) = Request(t)
    BY <2>1 DEF SentStage, HostPop
  <2>3. host' = [step |-> "exec", elem |-> Request(t), err |-> host.err]
    BY <2>2 DEF TypeOK, HostPop
  <2>4. HostStage(t)'
    BY <2>1, <2>2, <2>3
       DEF HostStage, SentStage, Request, Told, Heard, Quiet, HostPop, driverVars, callVars, histVars
  <2>5. QED
    BY <2>1, <2>4, StageMoves DEF HostPop, driverVars
<1>6. QED BY <1>1, <1>2, <1>5

(* The daemon goes back to sleep.                                           *)
LEMMA HostDrainedStep ==
  ASSUME ChannelInv, HostDrained
  PROVE  ChannelInv'
<1> USE ChannelAssumption DEF ChannelInv
<1>1. TypeOK'
  BY DEF TypeOK, HostDrained, HostGoto, Steps, HostSteps, driverVars, callVars, ringVars, histVars
<1>2. LockInv' /\ PinsBalanced' /\ CallInv'
  BY DriverFrame DEF HostDrained, HostGoto, driverVars, callVars, histVars
<1>5. StageInv'
  <2>1. host'.elem = host.elem /\ host.step \in {"idle", "pop"} /\ host'.step \in {"idle", "pop"}
    BY DEF TypeOK, HostDrained, HostGoto
  <2>2. ASSUME NEW t \in Threads, Outstanding(t)
        PROVE  SentStage(t)' \/ UsedStage(t)'
    <3>1. SentStage(t) \/ UsedStage(t)
      BY <2>1, <2>2 DEF StageInv, HostStage
    <3>2. SentStage(t) => SentStage(t)'
      BY <2>1 DEF SentStage, Request, Told, Heard, Quiet, HostDrained, HostGoto, driverVars, callVars,
             ringVars, histVars
    <3>3. UsedStage(t) => UsedStage(t)'
      BY <2>1 DEF UsedStage, Request, Answer, Told, Heard, Quiet, HostDrained, HostGoto, driverVars, callVars,
             ringVars, histVars
    <3>4. QED
      BY <3>1, <3>2, <3>3
  <2>3. QED
    BY <2>1, <2>2 DEF StageInv, Outstanding, Quiet, HostDrained, HostGoto, driverVars, ringVars
<1>6. QED BY <1>1, <1>2, <1>5

(* The request popped is executed for the call that sent it.                *)
LEMMA HostExecuteStep ==
  ASSUME ChannelInv, HostExecute
  PROVE  ChannelInv'
<1> USE ChannelAssumption DEF ChannelInv
<1>1. TypeOK'
  <2>1. PICK t \in Threads : host.elem = Request(t) /\ served[t] = batch[t] /\ batch[t] < plan[t]
    BY HostOwner DEF HostExecute, CallInv, CallOf, HostStage
  <2>2. served[t] + 1 \in 0..MaxBatches
    BY <2>1 DEF TypeOK
  <2>3. host' \in [step : HostSteps, elem : Requests \cup {NoElem}, err : BOOLEAN]
    BY DEF TypeOK, HostExecute, HostSteps
  <2>4. QED
    BY <2>1, <2>2, <2>3 DEF TypeOK, HostExecute, Request, driverVars, callVars, ringVars, histVars
<1>2. LockInv'
  BY DEF TypeOK, LockInv, Holds, HostExecute, driverVars
<1>3. PinsBalanced'
  BY DEF TypeOK, PinsBalanced, HostExecute, callVars, driverVars
<1>4. CallInv'
  <2>1. PICK t \in Threads : HostStage(t) /\ host.elem = Request(t)
    BY HostOwner DEF HostExecute
  <2>2. pc[t] = "wait" /\ host.elem.owner = t
    BY <2>1 DEF HostStage, Request
  <2>3. \A v \in Threads : v # t => served'[v] = served[v] /\ failed'[v] = failed[v]
    BY <2>2 DEF TypeOK, HostExecute
  <2>5. UNCHANGED <<pc, kind, plan, batch, resp>>
    BY DEF HostExecute, driverVars, callVars
  <2>4. \A v \in Threads : v # t => UNCHANGED <<Answer(v), Told(v), Heard(v)>>
    BY <2>3, <2>5 DEF Answer, Told, Heard
  <2>6. kind[t] = "simple" => plan[t] = 1
    BY <2>2 DEF CallInv, CallOf
  <2>7. SUFFICES ASSUME NEW v \in Threads PROVE CallOf(v)'
    BY DEF CallInv
  <2>8. CallOf(v)
    BY DEF CallInv
  <2>9. CASE v # t
    BY <2>3, <2>4, <2>5, <2>8, <2>9 DEF CallOf
  <2>10. CASE v = t
    BY <2>2, <2>5, <2>6, <2>8, <2>10 DEF CallOf, Heard
  <2>11. QED
    BY <2>9, <2>10
<1>5. StageInv'
  <2>1. PICK t \in Threads : Outstanding(t) /\ HostStage(t) /\ host.elem = Request(t)
    BY HostOwner DEF HostExecute
  <2>2. host.elem.owner = t /\ host.step = "exec"
    BY <2>1 DEF Request, HostExecute
  <2>3. served[t]' = batch[t] + 1 /\ host'.err = failed'[t]
    BY <2>1, <2>2 DEF TypeOK, HostStage, HostExecute
  <2>4. host'.step = "respond" /\ host'.elem = host.elem
    BY DEF TypeOK, HostExecute
  <2>5. HostStage(t)'
    BY <2>1, <2>3, <2>4
       DEF HostStage, Request, Told, Heard, Quiet, HostExecute, driverVars, callVars, ringVars
  <2>6. QED
    BY <2>1, <2>5, StageMoves DEF HostExecute, driverVars
<1>6. QED BY <1>1, <1>2, <1>3, <1>4, <1>5

(* The response is that of the request executed.                            *)
LEMMA HostRespondStep ==
  ASSUME ChannelInv, HostRespond
  PROVE  ChannelInv'
<1> USE ChannelAssumption DEF ChannelInv
<1>1. TypeOK'
  <2>1. host.elem \in Requests
    BY HostOwner DEF HostRespond, HostGoto
  <2>2. resp' \in [Threads -> Responses]
    <3>1. [batch |-> host.elem.batch, err |-> host.err] \in Responses
      BY <2>1 DEF TypeOK, Requests, Responses
    <3>2. QED
      BY <3>1 DEF TypeOK, HostRespond
  <2>3. host' \in [step : HostSteps, elem : Requests \cup {NoElem}, err : BOOLEAN]
    BY DEF TypeOK, HostRespond, HostGoto, HostSteps
  <2>4. QED
    BY <2>2, <2>3 DEF TypeOK, HostRespond, driverVars, callVars, ringVars, histVars
<1>2. LockInv'
  BY DEF TypeOK, LockInv, Holds, HostRespond, HostGoto
<1>3. PinsBalanced'
  BY DEF TypeOK, PinsBalanced, HostRespond, HostGoto, callVars, driverVars
<1>4. CallInv'
  <2>1. PICK t \in Threads : HostStage(t) /\ host.elem = Request(t)
    BY HostOwner DEF HostRespond, HostGoto
  <2>2. pc[t] = "wait" /\ host.elem.owner = t
    BY <2>1 DEF HostStage, Request
  <2>3. /\ \A v \in Threads : v # t => UNCHANGED resp[v]
        /\ ~Heard(t) => resp'[t] = ZeroedResp
    BY <2>2 DEF TypeOK, CallInv, CallOf, HostRespond
  <2>4. QED
    BY <2>2, <2>3 DEF CallInv, CallOf, Answer, Told, Heard, HostRespond, callVars, histVars
<1>5. StageInv'
  <2>1. PICK t \in Threads : Outstanding(t) /\ HostStage(t) /\ host.elem = Request(t)
    BY HostOwner DEF HostRespond, HostGoto
  <2>2. served[t] = batch[t] + 1 /\ host.err = failed[t]
    BY <2>1 DEF HostStage, HostRespond, HostGoto
  <2>3. host.elem.owner = t /\ host.elem.batch = served[t]
    BY <2>1, <2>2 DEF Request
  <2>4. resp'[t] = Answer(t)'
    <3>1. UNCHANGED <<Heard(t), Told(t), Answer(t)>>
      BY DEF Answer, Told, Heard, HostRespond, callVars, histVars
    <3>2. CASE Heard(t)
      BY <2>2, <2>3, <3>1, <3>2 DEF TypeOK, Answer, Told, HostRespond
    <3>3. CASE ~Heard(t)
      BY <2>3, <3>1, <3>3 DEF TypeOK, CallInv, CallOf, Answer, Told, ZeroedResp, HostRespond
    <3>4. QED
      BY <3>2, <3>3
  <2>5. host'.step = "push" /\ host'.elem = host.elem /\ host'.err = host.err
    BY DEF TypeOK, HostRespond, HostGoto
  <2>6. HostStage(t)'
    BY <2>1, <2>2, <2>4, <2>5
       DEF HostStage, Request, Quiet, Told, Heard, HostRespond, callVars, ringVars, histVars
  <2>7. QED
    BY <2>1, <2>6, StageMoves DEF HostRespond
<1>6. QED BY <1>1, <1>2, <1>3, <1>4, <1>5

(* The request moves from the daemon to the used ring.                      *)
LEMMA HostPushStep ==
  ASSUME ChannelInv, HostPush
  PROVE  ChannelInv'
<1> USE ChannelAssumption DEF ChannelInv
<1>1. TypeOK'
  <2>1. host.elem \in Requests
    BY HostOwner DEF HostPush
  <2>2. used' \in Seq(Requests)
    BY <2>1 DEF TypeOK, HostPush
  <2>3. host' \in [step : HostSteps, elem : Requests \cup {NoElem}, err : BOOLEAN]
    BY DEF TypeOK, HostPush, HostSteps
  <2>4. QED
    BY <2>2, <2>3 DEF TypeOK, HostPush, driverVars, callVars, ringVars, histVars
<1>2. LockInv' /\ PinsBalanced' /\ CallInv'
  BY DriverFrame DEF HostPush, driverVars, callVars, histVars
<1>5. StageInv'
  <2>1. PICK t \in Threads : Outstanding(t) /\ HostStage(t)
    BY HostOwner DEF HostPush
  <2>2. used' = <<Request(t)>>
    BY <2>1 DEF HostStage, HostPush
  <2>3. host' = [step |-> "notify", elem |-> NoElem, err |-> host.err]
    BY DEF TypeOK, HostPush
  <2>4. UsedStage(t)'
    BY <2>1, <2>2, <2>3
       DEF HostStage, UsedStage, Request, Answer, Told, Heard, Quiet, HostPush, driverVars, callVars, histVars
  <2>5. QED
    BY <2>1, <2>4, StageMoves DEF HostPush, driverVars
<1>6. QED BY <1>1, <1>2, <1>5

(* The wakeup of the pushed element is raised.                              *)
LEMMA HostNotifyStep ==
  ASSUME ChannelInv, HostNotify
  PROVE  ChannelInv'
<1> USE ChannelAssumption DEF ChannelInv
<1>1. TypeOK'
  BY DEF TypeOK, HostNotify, HostGoto, Steps, HostSteps, driverVars, callVars, ringVars, histVars
<1>2. LockInv' /\ PinsBalanced' /\ CallInv'
  BY DriverFrame DEF HostNotify, HostGoto, driverVars, callVars, histVars
<1>5. StageInv'
  <2>1. PICK t \in Threads : Outstanding(t) /\ UsedStage(t)
    BY DEF StageInv, SentStage, HostStage, HostNotify, HostGoto
  <2>2. pc[t] = "wait" /\ Quiet
    BY <2>1 DEF UsedStage, HostNotify, HostGoto
  <2>3. host'.step = "pop" /\ host'.elem = host.elem
    BY DEF TypeOK, HostNotify, HostGoto
  <2>4. UsedStage(t)'
    BY <2>1, <2>2, <2>3
       DEF UsedStage, Quiet, Request, Answer, Told, Heard, HostNotify, driverVars, callVars, histVars
  <2>5. QED
    BY <2>1, <2>4, StageMoves DEF HostNotify, driverVars
<1>6. QED BY <1>1, <1>2, <1>5

------------------------------------------------------------------------------
(* ChannelInv is inductive.                                                 *)
LEMMA InitInv == Init => ChannelInv
<1> SUFFICES ASSUME Init PROVE ChannelInv
  OBVIOUS
<1> USE ChannelAssumption DEF Init
<1>1. TypeOK
  <2>1. 0 \in 0..MaxBatches /\ ZeroedResp \in Responses
    BY DEF Responses, ZeroedResp
  <2>2. avail \in Seq(Requests) /\ used \in Seq(Requests) /\ done \in Nat
    OBVIOUS
  <2>3. host \in [step : HostSteps, elem : Requests \cup {NoElem}, err : BOOLEAN]
    BY DEF HostSteps
  <2>4. QED
    BY <2>1, <2>2, <2>3 DEF TypeOK, Steps, Kinds
<1>2. LockInv /\ PinsBalanced
  BY DEF LockInv, Holds, PinsBalanced
<1>3. CallInv
  BY DEF CallInv, CallOf, Answer, Told, Heard, ZeroedResp
<1>4. StageInv
  BY DEF StageInv, Outstanding, Quiet
<1>5. QED
  BY <1>1, <1>2, <1>3, <1>4 DEF ChannelInv

LEMMA NextInv == ChannelInv /\ [Next]_vars => ChannelInv'
<1> SUFFICES ASSUME ChannelInv, [Next]_vars PROVE ChannelInv'
  OBVIOUS
<1>1. ASSUME NEW u \in Threads, Refuse(u) \/ Begin(u) \/ Lock(u) PROVE ChannelInv'
  BY <1>1, RefuseStep, BeginStep, LockStep
<1>2. ASSUME NEW u \in Threads, Proceed(u) PROVE ChannelInv'
  BY <1>2, CopyOutStep, ReturnErrnoStep, PinPagesStep, PinFailsStep, LoopDoneStep,
     UnpinStep, AddAndKickStep, AddFailsStep, WakeStep, GetBufStep DEF Proceed
<1>3. CASE Interrupt
  BY <1>3, InterruptEnterStep, VqCallbackStep DEF Interrupt
<1>4. CASE Host
  BY <1>4, HostWakeStep, HostPopStep, HostDrainedStep, HostExecuteStep,
     HostRespondStep, HostPushStep, HostNotifyStep DEF Host
<1>5. CASE UNCHANGED vars
  <2>1. TypeOK' /\ LockInv' /\ PinsBalanced'
    BY <1>5 DEF ChannelInv, TypeOK, LockInv, Holds, PinsBalanced, vars, driverVars,
           ringVars, histVars
  <2>2. CallInv'
    BY <1>5 DEF ChannelInv, CallInv, CallOf, Answer, Told, Heard, vars, driverVars, ringVars, histVars
  <2>3. StageInv'
    BY <1>5, StageFrame DEF ChannelInv, Outstanding, vars, driverVars, ringVars, histVars
  <2>4. QED
    BY <2>1, <2>2, <2>3 DEF ChannelInv
<1>6. QED
  BY <1>1, <1>2, <1>3, <1>4, <1>5 DEF Next

(* Every reachable state of the channel satisfies ChannelInv, for any set   *)
(* of threads and any number of batches.                                    *)
THEOREM Invariance == Spec => []ChannelInv
<1>1. QED BY InitInv, NextInv, PTL DEF Spec

(* The variables of driver, ring and daemon keep their types.               *)
THEOREM TypeCorrect == Spec => []TypeOK
<1>1. ChannelInv => TypeOK
  BY DEF ChannelInv
<1>2. QED BY <1>1, Invariance, PTL

(* A thread that reaps the ring finds its own request and its own answer,   *)
(* although the driver never looks at what virtqueue_get_buf returns; of a  *)
(* copy of a kind the daemon does not know it finds no answer.              *)
THEOREM OwnAnswer == Spec => []ReapsOwnAnswer
<1>1. ChannelInv => ReapsOwnAnswer
  <2> SUFFICES ASSUME ChannelInv, NEW t \in Threads, pc[t] = "getbuf"
               PROVE  /\ used = <<Request(t)>>
                      /\ served[t] = batch[t] + 1
                      /\ kind[t] # "stray" => resp[t] = [batch |-> served[t], err |-> failed[t]]
                      /\ kind[t] = "stray" => resp[t] = ZeroedResp
    BY DEF ReapsOwnAnswer
  <2>1. UsedStage(t)
    BY DEF ChannelInv, StageInv, SentStage, HostStage, Outstanding
  <2>2. resp[t] = Answer(t) /\ failed[t] \in BOOLEAN
    BY <2>1 DEF UsedStage, ChannelInv, TypeOK
  <2>3. QED
    BY <2>1, <2>2 DEF UsedStage, Answer, Told, Heard, ZeroedResp
<1>2. QED BY <1>1, Invariance, PTL

(* The daemon never holds an element whose buffers or pages the driver has  *)
(* let go of.                                                               *)
THEOREM BuffersSafe == Spec => []BuffersOutliveHost
<1>1. ChannelInv => BuffersOutliveHost
  <2> SUFFICES ASSUME ChannelInv, host.elem # NoElem PROVE BuffersOutliveHost
    BY DEF BuffersOutliveHost
  <2>1. PICK t \in Threads : Outstanding(t) /\ HostStage(t)
    BY DEF ChannelInv, StageInv, SentStage, UsedStage
  <2>2. host.elem.owner = t
    BY <2>1 DEF HostStage, Request
  <2>3. QED
    BY <2>1, <2>2 DEF ChannelInv, BuffersOutliveHost, HostStage, LockInv, Holds,
         Outstanding, PinsBalanced
<1>2. QED BY <1>1, Invariance, PTL

(* No path through the batch loop leaks a pin or drops one twice.           *)
THEOREM Pins == Spec => []PinsBalanced
<1>1. ChannelInv => PinsBalanced
  BY DEF ChannelInv
<1>2. QED BY <1>1, Invariance, PTL

------------------------------------------------------------------------------
(* The channel implements HmcudaRpc: its steps are calls, executions and    *)
(* returns of the abstract ioctl, or invisible to it.                       *)

LEMMA InitRefines == Init => Rpc!Init
BY DEF Init, Rpc!Init, Heard

LEMMA BeginRefines ==
  ASSUME ChannelInv, NEW u \in Threads, Begin(u)
  PROVE  Rpc!Invoke(u)
<1>1. PICK k \in Kinds, n \in 0..MaxBatches :
        plan' = [plan EXCEPT ![u] = n] /\ kind' = [kind EXCEPT ![u] = k]
  BY DEF Begin
<1>2. pc[u] = "idle" /\ \E s \in {"lock", "loop"} : pc' = [pc EXCEPT ![u] = s]
  BY DEF Begin, Goto
<1>3. [t \in Threads |-> IF pc[t] = "idle" THEN "idle" ELSE "called"]'
        = [[t \in Threads |-> IF pc[t] = "idle" THEN "idle" ELSE "called"]
             EXCEPT ![u] = "called"]
  BY <1>2 DEF ChannelInv, TypeOK
<1>4. [t \in Threads |-> Heard(t)]'
        = [[t \in Threads |-> Heard(t)] EXCEPT ![u] = (k # "stray")]
  BY <1>1 DEF ChannelInv, TypeOK, Heard
<1>5. (k # "stray") \in BOOLEAN
  OBVIOUS
<1>6. QED
  BY <1>1, <1>2, <1>3, <1>4, <1>5 DEF Begin, Rpc!Invoke, histVars

LEMMA LeaveRefines ==
  ASSUME ChannelInv, NEW u \in Threads, CopyOut(u) \/ ReturnErrno(u)
  PROVE  Rpc!Return(u)
<1>1. PICK f \in {"copyout", "fail"}, r \in {"ok", "cuda", "errno"} :
        /\ Leave(u, f, r)
        /\ r = "ok" => f = "copyout" /\ ~resp[u].err
        /\ r = "cuda" => f = "copyout" /\ resp[u].err
  BY DEF CopyOut, ReturnErrno, ChannelInv, TypeOK, Responses
<1>2. /\ r = "ok" => served[u] = plan[u] /\ ~Told(u)
      /\ r = "cuda" => Told(u)
  <2>1. pc[u] = "copyout" => resp[u] = Answer(u) /\ (Told(u) \/ served[u] = plan[u])
    BY DEF ChannelInv, CallInv, CallOf
  <2>2. resp[u] = Answer(u) => resp[u].err = Told(u)
    BY DEF Answer
  <2>3. pc[u] = f
    BY <1>1 DEF Leave, Goto
  <2>4. QED
    BY <1>1, <2>1, <2>2, <2>3
<1>3. r \in Rpc!Results \ {"none"}
  BY DEF Rpc!Results
<1>4. [t \in Threads |-> Heard(t)]' = [[t \in Threads |-> Heard(t)] EXCEPT ![u] = TRUE]
  BY <1>1 DEF ChannelInv, TypeOK, Heard, Leave
<1>5. Told(u) <=> failed[u] /\ [t \in Threads |-> Heard(t)][u]
  BY DEF Told
<1>6. QED
  BY <1>1, <1>2, <1>3, <1>4, <1>5 DEF ChannelInv, TypeOK, Leave, Goto, Rpc!Return

LEMMA ExecuteRefines ==
  ASSUME ChannelInv, HostExecute
  PROVE  \E t \in Threads : Rpc!Serve(t)
<1>1. PICK t \in Threads : Outstanding(t) /\ HostStage(t) /\ host.elem = Request(t)
  BY HostOwner DEF HostExecute
<1>2. served[t] < plan[t] /\ ~Told(t) /\ host.elem.owner = t
  BY <1>1 DEF ChannelInv, CallInv, CallOf, Outstanding, HostStage, HostExecute, Request
<1>3. UNCHANGED [u \in Threads |-> Heard(u)]
  BY DEF Heard, HostExecute, driverVars, callVars
<1>4. Rpc!Serve(t)
  BY <1>1, <1>2, <1>3 DEF Outstanding, Told, HostExecute, Rpc!Serve, driverVars
<1>5. QED
  BY <1>4

(* The moves of a thread inside the ioctl are invisible.                    *)
LEMMA InsideRefines ==
  ASSUME ChannelInv, NEW u \in Threads,
         Lock(u) \/ (Proceed(u) /\ ~CopyOut(u) /\ ~ReturnErrno(u))
  PROVE  UNCHANGED Rpc!vars
<1>1. UNCHANGED <<plan, result, served, failed>>
  BY DEF Proceed, Lock, PinPages, PinFails, LoopDone, Unpin, AddAndKick, AddFails,
         Wake, GetBuf, callVars, histVars
<1>2. pc[u] # "idle" /\ \E s \in Steps \ {"idle"} : pc' = [pc EXCEPT ![u] = s]
  BY DEF Proceed, Lock, PinPages, PinFails, LoopDone, Unpin, AddAndKick, AddFails,
         Wake, GetBuf, Goto, Steps
<1>3. UNCHANGED [t \in Threads |-> Heard(t)]
  BY DEF Proceed, Lock, PinPages, PinFails, LoopDone, Unpin, AddAndKick, AddFails,
         Wake, GetBuf, Heard, callVars
<1>4. QED
  BY <1>1, <1>2, <1>3 DEF ChannelInv, TypeOK, Rpc!vars

LEMMA NextRefines == ChannelInv /\ [Next]_vars => [Rpc!Next]_Rpc!vars
<1> SUFFICES ASSUME ChannelInv, [Next]_vars PROVE [Rpc!Next]_Rpc!vars
  OBVIOUS
<1>1. ASSUME NEW u \in Threads, Refuse(u) PROVE Rpc!Next
  BY <1>1 DEF Refuse, Heard, Rpc!Refuse, Rpc!Next, histVars
<1>2. ASSUME NEW u \in Threads, Begin(u) PROVE Rpc!Next
  BY <1>2, BeginRefines DEF Rpc!Next
<1>3. ASSUME NEW u \in Threads, Lock(u) \/ Proceed(u) PROVE [Rpc!Next]_Rpc!vars
  BY <1>3, LeaveRefines, InsideRefines DEF Rpc!Next
<1>4. CASE HostExecute
  BY <1>4, ExecuteRefines DEF Rpc!Next
<1>5. CASE Interrupt \/ (Host /\ ~HostExecute)
  BY <1>5 DEF Interrupt, InterruptEnter, VqCallback, Host, HostWake, HostPop,
       HostDrained, HostRespond, HostPush, HostNotify, Heard, driverVars, callVars, histVars,
       Rpc!vars
<1>6. CASE UNCHANGED vars
  BY <1>6 DEF vars, Heard, driverVars, histVars, Rpc!vars
<1>7. QED
  BY <1>1, <1>2, <1>3, <1>4, <1>5, <1>6 DEF Next

(* Whatever the interleaving of threads, interrupts and daemon, the ioctl   *)
(* keeps the promise of HmcudaRpc.                                          *)
THEOREM Refinement == Spec => ImplementsRpc
<1>1. QED
  BY InitRefines, NextRefines, Invariance, PTL DEF Spec, ImplementsRpc, Rpc!Spec

==============================================================================
