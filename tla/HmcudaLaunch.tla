------------------------------ MODULE HmcudaLaunch ------------------------------
(***************************************************************************)
(* How a kernel call kernel<<<grid, block, mem, stream>>>(...) becomes a   *)
(* launch of the right function with the right configuration.              *)
(*                                                                         *)
(* The code nvcc makes of it calls __cudaPushCallConfiguration, then the   *)
(* stub of the kernel: __cudaPopCallConfiguration and cudaLaunchKernel     *)
(* (guest/intercept/hmcuda_runtime.cpp).  Each is a call of its own to the *)
(* daemon, which has one stack of configurations for all threads of all    *)
(* processes, that of CUDA for its one thread, and one list of functions,  *)
(* known by the address of the stub (host/vhost/core_runtime.c).  What a   *)
(* library registers when it is loaded stays there when it is unloaded,    *)
(* and INIT, sent by every process that starts, empties it.                *)
(*                                                                         *)
(* Every call may fail before the daemon has executed it ("unsent") or     *)
(* after ("lost").  Stub addresses of different processes are different.   *)
(***************************************************************************)
EXTENDS Integers, Sequences, SequencesExt, FiniteSets

CONSTANTS
  Processes,
  Threads, ProcessOf, (* the threads of the processes                      *)
  Functions,          (* stubs, by address                                 *)
  Images,             (* libraries with these stubs, at one address        *)
  Grids,              (* configurations, but for their stream              *)
  None,
  MaxHandle, MaxStack (* bounds on the handles and configurations made     *)

ASSUME LaunchAssumption ==
  /\ ProcessOf \in [Threads -> Processes]
  /\ None \notin Functions \cup Images \cup Grids
  /\ MaxHandle \in Nat /\ MaxStack \in Nat

VARIABLES
  image,     (* of a process: the library it has loaded                    *)
  fatbin,    (* the handle its registration was given, or 0 for NULL       *)
  todo,      (* stubs it has still to register                             *)
  table,     (* g_func_map: the image whose parameters were counted        *)
  accepted,  (* stubs of the loaded image the daemon has registered        *)
  held,      (* stream handles it has created and not destroyed            *)
  pc, asked, (* of a thread: where its kernel call is, what it asked for   *)
  popped,    (* the configuration it was given                             *)
  disturbed, (* another thread used the stack between its push and its pop *)
  ran,       (* the configuration its kernel was launched with             *)
  lastError, (* g_last_error: whether it holds an error                    *)
  modules, functions, streams, (* of the daemon's context: handles and     *)
                               (* images, stubs newest first, handles      *)
  stack,     (* configurations, with CUDA's streams                        *)
  handle     (* g_next_handle                                              *)

guest   == <<image, fatbin, todo, table, accepted, held>>
calls   == <<pc, asked, popped, disturbed, ran>>
context == <<modules, functions, streams>>
vars    == <<guest, calls, lastError, context, stack, handle>>

Outcomes == {"ok", "unsent", "lost"}

(* A stream of CUDA, negative, by the handle it was given; the NULL stream. *)
Real(h) == 0 - h
Null    == 0

NoCall   == [fun |-> None, grid |-> None, stream |-> 0]
NoConfig == [grid |-> None, stream |-> 0]
NoLaunch == [grid |-> None, stream |-> Null]

Loaded(t)     == image[ProcessOf[t]] # None /\ todo[ProcessOf[t]] = {}
ThreadsOf(p)  == {t \in Threads : ProcessOf[t] = p}
NewHandle     == handle < MaxHandle /\ handle' = handle + 1

------------------------------------------------------------------------------
Init ==
  /\ image = [p \in Processes |-> None] /\ fatbin = [p \in Processes |-> 0]
  /\ todo = [p \in Processes |-> {}] /\ table = [p \in Processes |-> [f \in Functions |-> None]]
  /\ accepted = [p \in Processes |-> {}] /\ held = [p \in Processes |-> {}]
  /\ pc = [t \in Threads |-> "idle"] /\ asked = [t \in Threads |-> NoCall]
  /\ popped = [t \in Threads |-> NoConfig] /\ disturbed = [t \in Threads |-> FALSE]
  /\ ran = [t \in Threads |-> NoLaunch] /\ lastError = [t \in Threads |-> FALSE]
  /\ modules = {} /\ functions = <<>> /\ streams = {} /\ stack = <<>> /\ handle = 0

(* hmcuda_core_init: a new context.  The stack is CUDA's and stays.        *)
InitSession ==
  /\ modules' = {} /\ functions' = <<>> /\ streams' = {}
  /\ accepted' = [p \in Processes |-> {}]
  /\ UNCHANGED <<stack, handle>>

(* A process ends at any point, and another one starts in its place.       *)
Start(p) ==
  /\ InitSession
  /\ image' = [image EXCEPT ![p] = None] /\ fatbin' = [fatbin EXCEPT ![p] = 0]
  /\ todo' = [todo EXCEPT ![p] = {}] /\ held' = [held EXCEPT ![p] = {}]
  /\ table' = [table EXCEPT ![p] = [f \in Functions |-> None]]
  /\ LET Fresh(old, new) == [t \in Threads |-> IF t \in ThreadsOf(p) THEN new ELSE old[t]]
     IN /\ pc' = Fresh(pc, "idle") /\ asked' = Fresh(asked, NoCall)
        /\ popped' = Fresh(popped, NoConfig) /\ disturbed' = Fresh(disturbed, FALSE)
        /\ ran' = Fresh(ran, NoLaunch) /\ lastError' = Fresh(lastError, FALSE)

(* A process loads the second of the two libraries, which sends INIT too.  *)
LoadDriver ==
  /\ InitSession
  /\ UNCHANGED <<image, fatbin, todo, table, held, calls, lastError>>

------------------------------------------------------------------------------
(* Registration, while a library is loaded.                                *)

Load(p, i) ==
  /\ image[p] = None
  /\ image' = [image EXCEPT ![p] = i] /\ todo' = [todo EXCEPT ![p] = Functions]
  /\ accepted' = [accepted EXCEPT ![p] = {}]
  /\ UNCHANGED <<table, held, calls, lastError, functions, streams, stack>>

(* __cudaRegisterFatBinary.                                                *)
RegisterFatBinary(p, i) ==
  /\ Load(p, i)
  /\ \/ /\ fatbin' = [fatbin EXCEPT ![p] = 0] /\ UNCHANGED <<modules, handle>>
     \/ \E out \in {"ok", "lost"} :
          /\ NewHandle
          /\ modules' = modules \cup {[handle |-> handle', image |-> i]}
          /\ fatbin' = [fatbin EXCEPT ![p] = IF out = "ok" THEN handle' ELSE 0]

(* hmcuda_core_register_function finds the module, and CUDA the function.  *)
Registers(p, f) ==
  \E m \in modules :
    /\ m.handle = fatbin[p]
    /\ functions' = <<[process |-> p, fun |-> f, image |-> m.image]>> \o functions

(* __cudaRegisterFunction: the local entry is made whatever the daemon     *)
(* says, but without a module not even that.                               *)
RegisterFunction(p, f) ==
  /\ f \in todo[p]
  /\ todo' = [todo EXCEPT ![p] = @ \ {f}]
  /\ IF fatbin[p] = 0
     THEN UNCHANGED <<table, accepted, functions>>
     ELSE /\ table' = [table EXCEPT ![p][f] = image[p]]
          /\ \/ UNCHANGED <<accepted, functions>>
             \/ Registers(p, f) /\ accepted' = [accepted EXCEPT ![p] = @ \cup {f}]
  /\ UNCHANGED <<image, fatbin, held, calls, lastError, modules, streams, stack, handle>>

(* __cudaUnregisterFatBinary tells nobody.                                 *)
Unload(p) ==
  /\ image[p] # None /\ todo[p] = {}
  /\ \A t \in ThreadsOf(p) : pc[t] = "idle"
  /\ image' = [image EXCEPT ![p] = None] /\ fatbin' = [fatbin EXCEPT ![p] = 0]
  /\ accepted' = [accepted EXCEPT ![p] = {}]
  /\ UNCHANGED <<todo, table, held, calls, lastError, context, stack, handle>>

StreamCreate(t) ==
  /\ pc[t] = "idle" /\ NewHandle
  /\ streams' = streams \cup {handle'}
  /\ held' = [held EXCEPT ![ProcessOf[t]] = @ \cup {handle'}]
  /\ lastError' = [lastError EXCEPT ![t] = FALSE]
  /\ UNCHANGED <<image, fatbin, todo, table, accepted, calls, modules, functions, stack>>

StreamDestroy(t) ==
  /\ pc[t] = "idle"
  /\ \E h \in held[ProcessOf[t]] :
       /\ streams' = streams \ {h}
       /\ held' = [held EXCEPT ![ProcessOf[t]] = @ \ {h}]
       /\ lastError' = [lastError EXCEPT ![t] = h \notin streams]
  /\ UNCHANGED <<image, fatbin, todo, table, accepted, calls, modules, functions, stack, handle>>

------------------------------------------------------------------------------
(* A kernel call.                                                          *)

(* resolve_runtime_stream.                                                 *)
Resolved(h) == IF h \in streams THEN Real(h) ELSE Null

(* hmcuda_dispatch.                                                        *)
SetError(t, failed) == lastError' = [lastError EXCEPT ![t] = failed]

Disturb(t) ==
  disturbed' = [u \in Threads |-> IF u # t /\ pc[u] = "pushed" THEN TRUE ELSE disturbed[u]]

(* __cudaPushCallConfiguration: if it fails, the stub is not called.       *)
Push(t, f, g, h) ==
  /\ pc[t] = "idle" /\ Loaded(t)
  /\ asked' = [asked EXCEPT ![t] = [fun |-> f, grid |-> g, stream |-> h]]
  /\ ran' = [ran EXCEPT ![t] = NoLaunch]
  /\ \E out \in Outcomes :
       /\ SetError(t, out # "ok")
       /\ pc' = [pc EXCEPT ![t] = IF out = "ok" THEN "pushed" ELSE "failed"]
       /\ IF out = "unsent" THEN UNCHANGED <<stack, disturbed>>
          ELSE /\ Len(stack) < MaxStack
               /\ stack' = <<[grid |-> g, stream |-> Resolved(h)]>> \o stack
               /\ Disturb(t)
  /\ UNCHANGED <<guest, popped, context, handle>>

(* The seeded fault of the answer: the list of another kind is searched.   *)
NoHandle(s) == 0

(* hmcuda_res_get_handle of CUDA's stream.                                 *)
Handle(s) == IF 0 - s \in streams THEN 0 - s ELSE 0

Answer(c) == [grid |-> c.grid, stream |-> Handle(c.stream)]

(* __cudaPopCallConfiguration: if it fails, the stub returns.              *)
Pop(t) ==
  /\ pc[t] = "pushed"
  /\ \E out \in Outcomes :
       /\ SetError(t, out # "ok" \/ stack = <<>>)
       /\ pc' = [pc EXCEPT ![t] = IF out = "ok" /\ stack # <<>> THEN "popped" ELSE "failed"]
       /\ IF out = "unsent" \/ stack = <<>> THEN UNCHANGED <<stack, disturbed, popped>>
          ELSE /\ stack' = Tail(stack) /\ Disturb(t)
               /\ popped' = [popped EXCEPT ![t] = IF out = "ok" THEN Answer(Head(stack)) ELSE @]
  /\ UNCHANGED <<guest, asked, ran, context, handle>>

Entries(p, f) == {k \in DOMAIN functions : functions[k].process = p /\ functions[k].fun = f}

(* Seeded faults of the lookup and of the error path.                      *)
OldestFound(p, f) == IF Entries(p, f) = {} THEN None ELSE functions[Max(Entries(p, f))].image
UnknownUnreported(t) == UNCHANGED lastError

(* hmcuda_res_get in the list of functions: newest first.                  *)
Found(p, f) == IF Entries(p, f) = {} THEN None ELSE functions[Min(Entries(p, f))].image

(* A stub that is not in g_func_map.                                       *)
Unknown(t) == SetError(t, TRUE)

(* cudaLaunchKernel and hmcuda_core_launch_kernel: arguments as the table  *)
(* has counted them, for the function the daemon finds.  CUDA may refuse.  *)
LaunchKernel(t) ==
  LET p == ProcessOf[t]
      f == asked[t].fun
  IN
  /\ pc[t] = "popped"
  /\ IF table[p][f] = None
     THEN Unknown(t) /\ pc' = [pc EXCEPT ![t] = "failed"] /\ UNCHANGED ran
     ELSE \/ /\ SetError(t, TRUE) /\ pc' = [pc EXCEPT ![t] = "failed"] /\ UNCHANGED ran
          \/ \E out \in {"ok", "lost"} :
               /\ Found(p, f) # None
               /\ SetError(t, out # "ok")
               /\ pc' = [pc EXCEPT ![t] = IF out = "ok" THEN "launched" ELSE "failed"]
               /\ ran' = [ran EXCEPT ![t] =
                    [grid |-> popped[t].grid, stream |-> Resolved(popped[t].stream)]]
  /\ UNCHANGED <<guest, asked, popped, disturbed, context, stack, handle>>

(* The program looks at cudaGetLastError and goes on.                      *)
GetLastError(t) ==
  /\ pc[t] \in {"failed", "launched"}
  /\ pc' = [pc EXCEPT ![t] = "idle"] /\ asked' = [asked EXCEPT ![t] = NoCall]
  /\ popped' = [popped EXCEPT ![t] = NoConfig] /\ disturbed' = [disturbed EXCEPT ![t] = FALSE]
  /\ ran' = [ran EXCEPT ![t] = NoLaunch] /\ SetError(t, FALSE)
  /\ UNCHANGED <<guest, context, stack, handle>>

Next ==
  \/ LoadDriver
  \/ \E p \in Processes : Start(p) \/ Unload(p)
  \/ \E p \in Processes, i \in Images : RegisterFatBinary(p, i)
  \/ \E p \in Processes, f \in Functions : RegisterFunction(p, f)
  \/ \E t \in Threads : StreamCreate(t) \/ StreamDestroy(t) \/ Pop(t) \/ LaunchKernel(t)
                        \/ GetLastError(t)
  \/ \E t \in Threads, f \in Functions, g \in Grids :
       \E h \in {0} \cup held[ProcessOf[t]] : Push(t, f, g, h)

Spec == Init /\ [][Next]_vars

------------------------------------------------------------------------------
Handles == 0..MaxHandle
Streams == {Real(h) : h \in Handles}
Configs == [grid : Grids \cup {None}, stream : Handles]

(* Type correctness; configurations of the daemon have streams of CUDA,    *)
(* those of the guest have handles.                                        *)
TypeOK ==
  /\ image \in [Processes -> Images \cup {None}] /\ fatbin \in [Processes -> Handles]
  /\ todo \in [Processes -> SUBSET Functions] /\ accepted \in [Processes -> SUBSET Functions]
  /\ table \in [Processes -> [Functions -> Images \cup {None}]]
  /\ held \in [Processes -> SUBSET Handles]
  /\ pc \in [Threads -> {"idle", "pushed", "popped", "launched", "failed"}]
  /\ asked \in [Threads -> [fun : Functions \cup {None}, grid : Grids \cup {None}, stream : Handles]]
  /\ popped \in [Threads -> Configs]
  /\ ran \in [Threads -> [grid : Grids \cup {None}, stream : Streams]]
  /\ stack \in Seq([grid : Grids, stream : Streams]) /\ Len(stack) <= MaxStack
  /\ disturbed \in [Threads -> BOOLEAN] /\ lastError \in [Threads -> BOOLEAN]
  /\ modules \subseteq [handle : Handles, image : Images]
  /\ functions \in Seq([process : Processes, fun : Functions, image : Images])
  /\ streams \subseteq Handles /\ handle \in Handles

(* A stub the daemon has accepted launches the kernel of the library that  *)
(* is loaded, with as many arguments as that library's kernel has: what an *)
(* earlier library left in either list, or another process has registered, *)
(* is never in the way.                                                    *)
AcceptedIsFound ==
  \A t \in Threads : \A f \in accepted[ProcessOf[t]] :
    /\ Found(ProcessOf[t], f) = image[ProcessOf[t]]
    /\ table[ProcessOf[t]][f] = image[ProcessOf[t]]

(* A kernel runs with the configuration its caller asked for, in the       *)
(* stream it asked for if that still exists, provided no other thread has  *)
(* used the stack between the push and the pop: whatever failed or was     *)
(* killed before has left on the stack does not come to light.             *)
UndisturbedAsAsked ==
  \A t \in Threads : (ran[t] # NoLaunch /\ ~disturbed[t]) =>
    /\ ran[t].grid = asked[t].grid
    /\ (asked[t].stream = 0 \/ asked[t].stream \in streams) =>
         ran[t].stream = IF asked[t].stream = 0 THEN Null ELSE Real(asked[t].stream)

(* When a kernel call has not launched its kernel, at whichever of the     *)
(* three steps and for whatever reason, cudaGetLastError tells.            *)
LaunchErrorReported ==
  \A t \in Threads : (pc[t] \in {"failed", "launched"} /\ ran[t] = NoLaunch) => lastError[t]

------------------------------------------------------------------------------
(* What keeps these: the counter is ahead of every handle in use, so that  *)
(* none comes to mean something else;                                      *)
HandlesBehind ==
  /\ \A m \in modules : m.handle <= handle
  /\ \A h \in streams : h <= handle
  /\ \A p \in Processes : fatbin[p] <= handle /\ \A h \in held[p] : h <= handle
  /\ \A t \in Threads : asked[t].stream <= handle

(* the module a process registers its stubs with is of the library it has  *)
(* loaded;                                                                 *)
ModuleIsLoaded ==
  \A p \in Processes : fatbin[p] # 0 =>
    /\ image[p] # None
    /\ \A m \in modules : m.handle = fatbin[p] => m.image = image[p]

(* an accepted stub has an entry, and no newer one is in its way;          *)
NewestIsLoaded ==
  \A p \in Processes : \A f \in accepted[p] :
    /\ image[p] # None /\ table[p][f] = image[p]
    /\ \E k \in Entries(p, f) : /\ functions[k].image = image[p]
                                /\ \A j \in Entries(p, f) : k <= j

(* and a thread's own configuration is on top until it pops it, and is     *)
(* what it then has.                                                       *)
Serves(s, t) == /\ asked[t].stream = 0 => s = Null
                /\ asked[t].stream \in streams => s = Real(asked[t].stream)
OnTop ==
  \A t \in Threads : (pc[t] = "pushed" /\ ~disturbed[t]) =>
    stack # <<>> /\ stack[1].grid = asked[t].grid /\ Serves(stack[1].stream, t)
AsPopped ==
  \A t \in Threads : pc[t] = "popped" =>
    /\ popped[t].grid # None
    /\ ~disturbed[t] => popped[t].grid = asked[t].grid /\ Serves(Real(popped[t].stream), t)
HasRun == \A t \in Threads : pc[t] = "launched" => ran[t] # NoLaunch

(* The inductive invariant.                                                *)
LaunchInv ==
  /\ TypeOK /\ HandlesBehind /\ ModuleIsLoaded /\ NewestIsLoaded /\ OnTop /\ AsPopped /\ HasRun
  /\ UndisturbedAsAsked /\ LaunchErrorReported
=============================================================================
