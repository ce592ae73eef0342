-------------------------- MODULE HmcudaLaunchProofs --------------------------
(***************************************************************************)
(* Kernel calls, for any processes, threads, kernels and libraries, and    *)
(* any number of handles and configurations.                               *)
(***************************************************************************)
EXTENDS HmcudaLaunch, SequenceTheorems, TLAPS

Configuration == [grid : Grids, stream : Streams]
Registered    == [process : Processes, fun : Functions, image : Images]

LEMMA Numbers ==
  ASSUME TypeOK
  PROVE  /\ handle \in Nat /\ handle <= MaxHandle /\ MaxHandle \in Nat
         /\ Handles = 0..MaxHandle /\ 0 \in Handles /\ Null \in Streams
         /\ \A h \in Handles : Real(h) \in Streams
         /\ \A s \in Streams : s \in Int /\ 0 - s \in Handles /\ Real(0 - s) = s
         /\ \A h \in Handles : h \in Nat /\ 0 - Real(h) = h
<1>1. MaxHandle \in Nat
  BY LaunchAssumption
<1>2. handle \in 0..MaxHandle
  BY DEF TypeOK, Handles
<1>3. Handles = 0..MaxHandle /\ 0 \in Handles
  BY <1>1 DEF Handles
<1>4. Null \in Streams
  BY <1>3 DEF Streams, Null, Real
<1>5. QED
  BY <1>1, <1>2, <1>3, <1>4 DEF Streams, Real

(* A handle is 0 or of a stream of CUDA.                                   *)
LEMMA StreamTypes ==
  ASSUME TypeOK
  PROVE  /\ \A h \in Handles : Resolved(h) \in Streams
         /\ \A s \in Streams : Handle(s) \in Handles
  BY Numbers DEF Resolved, Handle

------------------------------------------------------------------------------
(* Steps outside kernel calls leave what keeps kernel calls right.         *)

CallsOK == OnTop /\ AsPopped /\ HasRun /\ UndisturbedAsAsked /\ LaunchErrorReported
RegistrationOK == ModuleIsLoaded /\ NewestIsLoaded

LEMMA Parts == LaunchInv <=> TypeOK /\ HandlesBehind /\ RegistrationOK /\ CallsOK
  BY DEF LaunchInv, RegistrationOK, CallsOK

(* Streams may go, and new ones come with handles nobody has asked for.    *)
LEMMA CallsKept ==
  ASSUME LaunchInv, UNCHANGED calls, UNCHANGED stack,
         \A h \in streams' : h \in streams \/ h > handle,
         \A t \in Threads : pc[t] # "idle" => lastError'[t] = lastError[t]
  PROVE  CallsOK'
<1>1. UNCHANGED <<pc, asked, popped, disturbed, ran, stack>>
  BY DEF calls
<1>2. \A t \in Threads : asked[t].stream \in streams' => asked[t].stream \in streams
  <2>1. SUFFICES ASSUME NEW t \in Threads, asked[t].stream \in streams', asked[t].stream \notin streams
                 PROVE  FALSE
    OBVIOUS
  <2>2. TypeOK /\ HandlesBehind
    BY DEF LaunchInv
  <2>3. asked[t].stream \in Handles /\ asked[t].stream <= handle
    BY <2>2 DEF TypeOK, HandlesBehind
  <2>4. asked[t].stream \in Nat /\ handle \in Nat
    BY <2>2, <2>3, Numbers
  <2>5. QED
    BY <2>1, <2>3, <2>4
<1>3. OnTop' /\ AsPopped'
  BY <1>1, <1>2 DEF LaunchInv, OnTop, AsPopped, Serves
<1>4. HasRun' /\ UndisturbedAsAsked'
  BY <1>1, <1>2 DEF LaunchInv, HasRun, UndisturbedAsAsked
<1>5. LaunchErrorReported'
  BY <1>1 DEF LaunchInv, LaunchErrorReported
<1>6. QED
  BY <1>3, <1>4, <1>5 DEF CallsOK

LEMMA RegistrationKept ==
  ASSUME LaunchInv, UNCHANGED <<image, fatbin, table, accepted, modules, functions>>
  PROVE  RegistrationOK'
<1>1. ModuleIsLoaded'
  BY DEF LaunchInv, ModuleIsLoaded
<1>2. NewestIsLoaded'
  BY DEF LaunchInv, NewestIsLoaded, Entries
<1>3. QED
  BY <1>1, <1>2 DEF RegistrationOK

------------------------------------------------------------------------------
(* Sessions.                                                               *)

(* With an empty Context nothing is accepted and no module is found.       *)
LEMMA EmptyContext ==
  ASSUME LaunchInv, InitSession, \A p \in Processes : fatbin'[p] # 0 => image'[p] # None
  PROVE  RegistrationOK'
<1>1. modules' = {} /\ \A p \in Processes : accepted'[p] = {}
  BY DEF InitSession
<1>2. QED
  BY <1>1 DEF RegistrationOK, ModuleIsLoaded, NewestIsLoaded

LEMMA LoadDriverStep ==
  ASSUME LaunchInv, LoadDriver
  PROVE  LaunchInv'
<1>1. /\ modules' = {} /\ functions' = <<>> /\ streams' = {}
      /\ accepted' = [p \in Processes |-> {}]
      /\ UNCHANGED <<image, fatbin, todo, table, held, pc, asked, popped, disturbed, ran,
                     lastError, stack, handle>>
  BY DEF LoadDriver, InitSession, calls
<1>2. TypeOK'
  BY <1>1, EmptySeq DEF LaunchInv, TypeOK
<1>3. HandlesBehind'
  BY <1>1 DEF LaunchInv, HandlesBehind
<1>4. RegistrationOK'
  BY <1>1, EmptyContext DEF LoadDriver, LaunchInv, ModuleIsLoaded
<1>5. CallsOK'
  BY <1>1, CallsKept DEF calls
<1>6. QED
  BY <1>2, <1>3, <1>4, <1>5 DEF LaunchInv, RegistrationOK, CallsOK

LEMMA StartStep ==
  ASSUME LaunchInv, NEW p \in Processes, Start(p)
  PROVE  LaunchInv'
<1>1. /\ modules' = {} /\ functions' = <<>> /\ streams' = {}
      /\ accepted' = [q \in Processes |-> {}]
      /\ image' = [image EXCEPT ![p] = None] /\ fatbin' = [fatbin EXCEPT ![p] = 0]
      /\ todo' = [todo EXCEPT ![p] = {}] /\ held' = [held EXCEPT ![p] = {}]
      /\ table' = [table EXCEPT ![p] = [f \in Functions |-> None]]
      /\ stack' = stack /\ handle' = handle
  BY DEF Start, InitSession
<1>2. /\ pc' = [t \in Threads |-> IF t \in ThreadsOf(p) THEN "idle" ELSE pc[t]]
      /\ asked' = [t \in Threads |-> IF t \in ThreadsOf(p) THEN NoCall ELSE asked[t]]
      /\ popped' = [t \in Threads |-> IF t \in ThreadsOf(p) THEN NoConfig ELSE popped[t]]
      /\ disturbed' = [t \in Threads |-> IF t \in ThreadsOf(p) THEN FALSE ELSE disturbed[t]]
      /\ ran' = [t \in Threads |-> IF t \in ThreadsOf(p) THEN NoLaunch ELSE ran[t]]
      /\ lastError' = [t \in Threads |-> IF t \in ThreadsOf(p) THEN FALSE ELSE lastError[t]]
  BY DEF Start
<1>3. TypeOK /\ 0 \in Handles /\ Null \in Streams
  BY Numbers DEF LaunchInv
<1>4. TypeOK'
  <2>1. /\ NoCall \in [fun : Functions \cup {None}, grid : Grids \cup {None}, stream : Handles]
        /\ NoConfig \in Configs
        /\ NoLaunch \in [grid : Grids \cup {None}, stream : Streams]
    BY <1>3 DEF NoCall, NoConfig, NoLaunch, Configs
  <2>2. /\ pc' \in [Threads -> {"idle", "pushed", "popped", "launched", "failed"}]
        /\ asked' \in [Threads -> [fun : Functions \cup {None}, grid : Grids \cup {None}, stream : Handles]]
        /\ popped' \in [Threads -> Configs]
        /\ disturbed' \in [Threads -> BOOLEAN] /\ lastError' \in [Threads -> BOOLEAN]
        /\ ran' \in [Threads -> [grid : Grids \cup {None}, stream : Streams]]
    BY <1>2, <1>3, <2>1 DEF TypeOK
  <2>3. QED
    BY <1>1, <1>3, <2>2, EmptySeq DEF TypeOK
<1>5. HandlesBehind'
  <2>1. 0 <= handle
    BY <1>3, Numbers
  <2>2. QED
    BY <1>1, <1>2, <1>3, <2>1 DEF LaunchInv, HandlesBehind, TypeOK, NoCall
<1>6. RegistrationOK'
  BY <1>1, <1>3, EmptyContext DEF Start, LaunchInv, ModuleIsLoaded, TypeOK
<1>7. OnTop' /\ AsPopped'
  BY <1>1, <1>2 DEF LaunchInv, OnTop, AsPopped, Serves
<1>8. HasRun' /\ UndisturbedAsAsked' /\ LaunchErrorReported'
  BY <1>1, <1>2 DEF LaunchInv, HasRun, UndisturbedAsAsked, LaunchErrorReported
<1>9. QED
  BY <1>4, <1>5, <1>6, <1>7, <1>8 DEF LaunchInv, RegistrationOK

------------------------------------------------------------------------------
(* Registration.                                                           *)

LEMMA RegisterFatBinaryStep ==
  ASSUME LaunchInv, NEW p \in Processes, NEW i \in Images, RegisterFatBinary(p, i)
  PROVE  LaunchInv'
<1>1. /\ image[p] = None
      /\ image' = [image EXCEPT ![p] = i] /\ todo' = [todo EXCEPT ![p] = Functions]
      /\ accepted' = [accepted EXCEPT ![p] = {}]
      /\ UNCHANGED <<table, held, pc, asked, popped, disturbed, ran, lastError, functions, streams, stack>>
  BY DEF RegisterFatBinary, Load, calls
<1>2. TypeOK /\ handle \in Nat /\ MaxHandle \in Nat /\ handle <= MaxHandle /\ Handles = 0..MaxHandle
      /\ 0 \in Handles
  BY Numbers DEF LaunchInv
<1>3. \/ fatbin' = [fatbin EXCEPT ![p] = 0] /\ modules' = modules /\ handle' = handle
      \/ /\ handle' = handle + 1 /\ handle < MaxHandle
         /\ modules' = modules \cup {[handle |-> handle + 1, image |-> i]}
         /\ \/ fatbin' = [fatbin EXCEPT ![p] = 0]
            \/ fatbin' = [fatbin EXCEPT ![p] = handle + 1]
  BY DEF RegisterFatBinary, NewHandle
<1>4. handle' \in Handles /\ handle <= handle'
  BY <1>2, <1>3
<1>5. TypeOK'
  <2>1. fatbin' \in [Processes -> Handles] /\ modules' \subseteq [handle : Handles, image : Images]
    <3>1. fatbin \in [Processes -> Handles] /\ modules \subseteq [handle : Handles, image : Images]
      BY <1>2 DEF TypeOK
    <3>2. CASE handle' = handle + 1
      <4>1. handle + 1 \in Handles
        BY <1>4, <3>2
      <4>2. fatbin' \in [Processes -> Handles]
        BY <1>2, <1>3, <3>1, <4>1
      <4>3. [handle |-> handle + 1, image |-> i] \in [handle : Handles, image : Images]
        BY <4>1
      <4>4. QED
        BY <1>3, <3>1, <4>2, <4>3
    <3>3. QED
      BY <1>2, <1>3, <3>1, <3>2
  <2>2. /\ image' \in [Processes -> Images \cup {None}]
        /\ todo' \in [Processes -> SUBSET Functions] /\ accepted' \in [Processes -> SUBSET Functions]
    BY <1>1, <1>2 DEF TypeOK
  <2>3. QED
    BY <1>1, <1>2, <1>4, <2>1, <2>2 DEF TypeOK
<1>6. HandlesBehind'
  <2>1. /\ \A m \in modules : m.handle \in Nat /\ m.handle <= handle
        /\ \A h \in streams : h \in Nat /\ h <= handle
        /\ \A q \in Processes : fatbin[q] \in Nat /\ fatbin[q] <= handle
        /\ \A q \in Processes : \A h \in held[q] : h \in Nat /\ h <= handle
        /\ \A t \in Threads : asked[t].stream \in Nat /\ asked[t].stream <= handle
    BY <1>2 DEF LaunchInv, HandlesBehind, TypeOK
  <2>2. \A m \in modules' : m.handle <= handle'
    BY <1>2, <1>3, <2>1
  <2>3. \A q \in Processes : fatbin'[q] <= handle'
    <3>1. fatbin \in [Processes -> Handles]
      BY <1>2 DEF TypeOK
    <3>2. QED
      BY <1>2, <1>3, <2>1, <3>1
  <2>4. /\ \A h \in streams' : h <= handle'
        /\ \A q \in Processes : \A h \in held'[q] : h <= handle'
        /\ \A t \in Threads : asked'[t].stream <= handle'
    BY <1>1, <1>2, <1>3, <2>1
  <2>5. QED
    BY <2>2, <2>3, <2>4 DEF HandlesBehind
<1>7. ModuleIsLoaded'
  <2>1. SUFFICES ASSUME NEW q \in Processes, fatbin'[q] # 0
                 PROVE  /\ image'[q] # None
                        /\ \A m \in modules' : m.handle = fatbin'[q] => m.image = image'[q]
    BY DEF ModuleIsLoaded
  <2>2. CASE q = p
    <3>1. fatbin'[p] = handle + 1 /\ modules' = modules \cup {[handle |-> handle + 1, image |-> i]}
      BY <1>2, <1>3, <2>1, <2>2 DEF TypeOK
    <3>2. image'[p] = i /\ i # None
      BY <1>1, <1>2, LaunchAssumption DEF TypeOK
    <3>3. \A m \in modules : m.handle # handle + 1
      BY <1>2 DEF LaunchInv, HandlesBehind, TypeOK
    <3>4. QED
      BY <2>2, <3>1, <3>2, <3>3
  <2>3. CASE q # p
    <3>1. fatbin'[q] = fatbin[q] /\ image'[q] = image[q]
      BY <1>1, <1>2, <1>3, <2>3 DEF TypeOK
    <3>2. fatbin[q] # handle + 1
      BY <1>2 DEF LaunchInv, HandlesBehind, TypeOK
    <3>3. QED
      BY <1>3, <2>1, <3>1, <3>2 DEF LaunchInv, ModuleIsLoaded
  <2>4. QED
    BY <2>2, <2>3
<1>8. NewestIsLoaded'
  <2>1. /\ accepted \in [Processes -> SUBSET Functions]
        /\ image \in [Processes -> Images \cup {None}]
    BY <1>2 DEF TypeOK
  <2>2. \A q \in Processes \ {p} : accepted'[q] = accepted[q] /\ image'[q] = image[q]
    BY <1>1, <2>1
  <2>3. accepted'[p] = {}
    BY <1>1, <2>1
  <2>4. \A q, f : Entries(q, f)' = Entries(q, f)
    BY <1>1 DEF Entries
  <2>5. QED
    BY <1>1, <2>2, <2>3, <2>4 DEF LaunchInv, NewestIsLoaded
<1>9. CallsOK'
  BY <1>1, CallsKept DEF calls
<1>10. QED
  BY <1>5, <1>6, <1>7, <1>8, <1>9 DEF LaunchInv, CallsOK

(* The entry that is added is the newest, and that of the loaded library.  *)
LEMMA RegistersNewest ==
  ASSUME LaunchInv, NEW p \in Processes, NEW f \in Functions, fatbin[p] # 0, Registers(p, f)
  PROVE  /\ functions' \in Seq(Registered)
         /\ \A q \in Processes, g \in Functions : <<q, g>> # <<p, f>> =>
              \A k \in Entries(q, g) : /\ k + 1 \in Entries(q, g)'
                                       /\ functions'[k + 1] = functions[k]
         /\ \A q \in Processes, g \in Functions : <<q, g>> # <<p, f>> =>
              \A k \in Entries(q, g)' : k \in Nat /\ k - 1 \in Entries(q, g)
         /\ 1 \in Entries(p, f)' /\ functions'[1].image = image[p]
         /\ \A k \in Entries(p, f)' : 1 <= k
<1>1. PICK m \in modules :
        /\ m.handle = fatbin[p]
        /\ functions' = <<[process |-> p, fun |-> f, image |-> m.image]>> \o functions
  BY DEF Registers
<1> DEFINE e == [process |-> p, fun |-> f, image |-> m.image]
<1>2. m.image = image[p]
  BY <1>1 DEF LaunchInv, ModuleIsLoaded
<1>3. e \in Registered /\ functions \in Seq(Registered)
  BY DEF LaunchInv, TypeOK, Registered
<1> HIDE DEF e
<1>4. /\ <<e>> \in Seq(Registered) /\ Len(<<e>>) = 1 /\ <<e>>[1] = e
      /\ functions' = <<e>> \o functions
  BY <1>1, <1>3 DEF e
<1>5. Len(functions) \in Nat /\ DOMAIN functions = 1..Len(functions)
  BY <1>3, LenProperties
<1>6. /\ functions' \in Seq(Registered) /\ Len(functions') = 1 + Len(functions)
      /\ \A k \in 1..(1 + Len(functions)) :
           functions'[k] = IF k <= 1 THEN <<e>>[k] ELSE functions[k - 1]
  BY <1>3, <1>4, ConcatProperties
<1>7. DOMAIN functions' = 1..(Len(functions) + 1)
  BY <1>5, <1>6, LenProperties
<1>8. /\ functions'[1] = e
      /\ \A k \in 1..Len(functions) : functions'[k + 1] = functions[k]
      /\ \A k \in 2..(Len(functions) + 1) : functions'[k] = functions[k - 1]
  BY <1>4, <1>5, <1>6
<1>9. e.process = p /\ e.fun = f /\ e.image = image[p]
  BY <1>2 DEF e
<1>10. ASSUME NEW q \in Processes, NEW g \in Functions, <<q, g>> # <<p, f>>
       PROVE  /\ \A k \in Entries(q, g) : /\ k + 1 \in Entries(q, g)'
                                          /\ functions'[k + 1] = functions[k]
              /\ \A k \in Entries(q, g)' : k \in Nat /\ k - 1 \in Entries(q, g)
  <2>1. q # p \/ g # f
    BY <1>10
  <2>2. \A k \in Entries(q, g) : /\ k + 1 \in Entries(q, g)'
                                 /\ functions'[k + 1] = functions[k]
    BY <1>5, <1>7, <1>8 DEF Entries
  <2>3. ASSUME NEW k \in Entries(q, g)' PROVE k \in Nat /\ k - 1 \in Entries(q, g)
    <3>1. k \in 1..(Len(functions) + 1) /\ functions'[k].process = q /\ functions'[k].fun = g
      BY <1>7 DEF Entries
    <3>2. k # 1
      BY <1>8, <1>9, <2>1, <3>1
    <3>3. k \in 2..(Len(functions) + 1) /\ k - 1 \in 1..Len(functions)
      BY <1>5, <3>1, <3>2
    <3>4. QED
      BY <1>5, <1>8, <3>1, <3>3 DEF Entries
  <2>4. QED
    BY <2>2, <2>3
<1>11. 1 \in Entries(p, f)' /\ \A k \in Entries(p, f)' : 1 <= k
  BY <1>5, <1>7, <1>8, <1>9 DEF Entries
<1>12. QED
  BY <1>6, <1>8, <1>9, <1>10, <1>11

LEMMA RegisterFunctionStep ==
  ASSUME LaunchInv, NEW p \in Processes, NEW f \in Functions, RegisterFunction(p, f)
  PROVE  LaunchInv'
<1>1. /\ todo' = [todo EXCEPT ![p] = @ \ {f}]
      /\ UNCHANGED <<image, fatbin, held, pc, asked, popped, disturbed, ran, lastError,
                     modules, streams, stack, handle>>
  BY DEF RegisterFunction, calls
<1>2. TypeOK
  BY DEF LaunchInv
<1>3. \/ UNCHANGED <<table, accepted, functions>>
      \/ /\ fatbin[p] # 0 /\ table' = [table EXCEPT ![p][f] = image[p]]
         /\ UNCHANGED <<accepted, functions>>
      \/ /\ fatbin[p] # 0 /\ table' = [table EXCEPT ![p][f] = image[p]]
         /\ Registers(p, f) /\ accepted' = [accepted EXCEPT ![p] = @ \cup {f}]
  BY DEF RegisterFunction
<1>4. TypeOK'
  <2>1. /\ todo' \in [Processes -> SUBSET Functions] /\ accepted' \in [Processes -> SUBSET Functions]
        /\ table' \in [Processes -> [Functions -> Images \cup {None}]]
    <3>1. /\ todo \in [Processes -> SUBSET Functions] /\ accepted \in [Processes -> SUBSET Functions]
          /\ table \in [Processes -> [Functions -> Images \cup {None}]]
          /\ image[p] \in Images \cup {None}
      BY <1>2 DEF TypeOK
    <3>2. todo' \in [Processes -> SUBSET Functions]
      BY <1>1, <3>1
    <3>3. accepted' \in [Processes -> SUBSET Functions]
      BY <1>3, <3>1
    <3>4. table' \in [Processes -> [Functions -> Images \cup {None}]]
      BY <1>3, <3>1
    <3>5. QED
      BY <3>2, <3>3, <3>4
  <2>2. functions' \in Seq(Registered)
    <3>1. CASE functions' = functions
      BY <1>2, <3>1 DEF TypeOK, Registered
    <3>2. CASE fatbin[p] # 0 /\ Registers(p, f)
      BY <3>2, RegistersNewest
    <3>3. QED
      BY <1>3, <3>1, <3>2
  <2>3. QED
    BY <1>1, <1>2, <2>1, <2>2 DEF TypeOK, Registered
<1>5. HandlesBehind'
  BY <1>1 DEF LaunchInv, HandlesBehind
<1>6. ModuleIsLoaded'
  BY <1>1 DEF LaunchInv, ModuleIsLoaded
<1>7. NewestIsLoaded'
  <2>1. SUFFICES ASSUME NEW q \in Processes, NEW g \in accepted'[q]
                 PROVE  /\ image[q] # None /\ table'[q][g] = image[q]
                        /\ \E k \in Entries(q, g)' : /\ functions'[k].image = image[q]
                                                     /\ \A j \in Entries(q, g)' : k <= j
    BY <1>1 DEF NewestIsLoaded
  <2>2. g \in Functions
    BY <1>4 DEF TypeOK
  <2>3. /\ table \in [Processes -> [Functions -> Images \cup {None}]]
        /\ accepted \in [Processes -> SUBSET Functions]
    BY <1>2 DEF TypeOK
  <2>4. CASE g \in accepted[q]
    <3>1. image[q] # None /\ table[q][g] = image[q]
      BY <2>4 DEF LaunchInv, NewestIsLoaded
    <3>2. PICK k \in Entries(q, g) : /\ functions[k].image = image[q]
                                     /\ \A j \in Entries(q, g) : k <= j
      BY <2>4 DEF LaunchInv, NewestIsLoaded
    <3>3. table'[q][g] = image[q]
      BY <1>3, <2>2, <2>3, <3>1
    <3>4. CASE functions' = functions
      BY <3>1, <3>2, <3>3, <3>4 DEF Entries
    <3>5. CASE fatbin[p] # 0 /\ Registers(p, f) /\ <<q, g>> # <<p, f>>
      <4>1. /\ k + 1 \in Entries(q, g)' /\ functions'[k + 1] = functions[k]
            /\ \A j \in Entries(q, g)' : j \in Nat /\ j - 1 \in Entries(q, g)
        BY <2>2, <3>2, <3>5, RegistersNewest
      <4>2. k \in Nat
        <5>1. functions \in Seq(Registered)
          BY <1>2 DEF TypeOK, Registered
        <5>2. QED
          BY <5>1, LenProperties DEF Entries
      <4>3. \A j \in Entries(q, g)' : k + 1 <= j
        BY <3>2, <4>1, <4>2
      <4>4. QED
        BY <3>1, <3>2, <3>3, <4>1, <4>3
    <3>6. CASE fatbin[p] # 0 /\ Registers(p, f) /\ q = p /\ g = f
      BY <3>1, <3>3, <3>6, RegistersNewest
    <3>7. QED
      BY <1>3, <3>4, <3>5, <3>6
  <2>5. CASE g \notin accepted[q]
    <3>1. q = p /\ g = f /\ fatbin[p] # 0 /\ Registers(p, f) /\ table'[p][f] = image[p]
      BY <1>3, <2>1, <2>2, <2>3, <2>5
    <3>2. image[p] # None
      BY <3>1 DEF LaunchInv, ModuleIsLoaded
    <3>3. QED
      BY <3>1, <3>2, RegistersNewest
  <2>6. QED
    BY <2>4, <2>5
<1>8. CallsOK'
  BY <1>1, CallsKept DEF calls
<1>9. QED
  BY <1>4, <1>5, <1>6, <1>7, <1>8 DEF LaunchInv, CallsOK

LEMMA UnloadStep ==
  ASSUME LaunchInv, NEW p \in Processes, Unload(p)
  PROVE  LaunchInv'
<1>1. /\ image' = [image EXCEPT ![p] = None] /\ fatbin' = [fatbin EXCEPT ![p] = 0]
      /\ accepted' = [accepted EXCEPT ![p] = {}]
      /\ UNCHANGED <<todo, table, held, pc, asked, popped, disturbed, ran, lastError,
                     modules, functions, streams, stack, handle>>
  BY DEF Unload, calls, context
<1>2. TypeOK /\ handle \in Nat /\ 0 \in Handles
  BY Numbers DEF LaunchInv
<1>3. /\ image \in [Processes -> Images \cup {None}] /\ fatbin \in [Processes -> Handles]
      /\ accepted \in [Processes -> SUBSET Functions]
  BY <1>2 DEF TypeOK
<1>4. TypeOK'
  <2>1. /\ image' \in [Processes -> Images \cup {None}] /\ fatbin' \in [Processes -> Handles]
        /\ accepted' \in [Processes -> SUBSET Functions]
    BY <1>1, <1>2, <1>3
  <2>2. QED
    BY <1>1, <1>2, <2>1 DEF TypeOK
<1>5. HandlesBehind'
  BY <1>1, <1>2, <1>3 DEF LaunchInv, HandlesBehind
<1>6. ModuleIsLoaded'
  BY <1>1, <1>3 DEF LaunchInv, ModuleIsLoaded
<1>7. NewestIsLoaded'
  <2>1. \A q \in Processes \ {p} : accepted'[q] = accepted[q] /\ image'[q] = image[q]
    BY <1>1, <1>3
  <2>2. accepted'[p] = {}
    BY <1>1, <1>3
  <2>3. \A q, f : Entries(q, f)' = Entries(q, f)
    BY <1>1 DEF Entries
  <2>4. QED
    BY <1>1, <2>1, <2>2, <2>3 DEF LaunchInv, NewestIsLoaded
<1>8. CallsOK'
  BY <1>1, CallsKept DEF calls
<1>9. QED
  BY <1>4, <1>5, <1>6, <1>7, <1>8 DEF LaunchInv, CallsOK

------------------------------------------------------------------------------
(* Streams.                                                                *)

LEMMA StreamCreateStep ==
  ASSUME LaunchInv, NEW t \in Threads, StreamCreate(t)
  PROVE  LaunchInv'
<1>1. /\ pc[t] = "idle" /\ handle < MaxHandle /\ handle' = handle + 1
      /\ streams' = streams \cup {handle + 1}
      /\ held' = [held EXCEPT ![ProcessOf[t]] = @ \cup {handle + 1}]
      /\ lastError' = [lastError EXCEPT ![t] = FALSE]
      /\ UNCHANGED <<image, fatbin, todo, table, accepted, pc, asked, popped, disturbed, ran,
                     modules, functions, stack>>
  BY DEF StreamCreate, NewHandle, calls
<1>2. TypeOK /\ handle \in Nat /\ MaxHandle \in Nat /\ Handles = 0..MaxHandle
  BY Numbers DEF LaunchInv
<1>3. /\ held \in [Processes -> SUBSET Handles] /\ streams \subseteq Handles
      /\ lastError \in [Threads -> BOOLEAN]
  BY <1>2 DEF TypeOK
<1>4. handle + 1 \in Handles
  BY <1>1, <1>2
<1>5. TypeOK'
  <2>1. /\ held' \in [Processes -> SUBSET Handles] /\ streams' \subseteq Handles
        /\ lastError' \in [Threads -> BOOLEAN] /\ handle' \in Handles
    BY <1>1, <1>3, <1>4
  <2>2. QED
    BY <1>1, <1>2, <2>1 DEF TypeOK
<1>6. HandlesBehind'
  <2>1. /\ \A m \in modules : m.handle \in Nat /\ m.handle <= handle
        /\ \A h \in streams : h \in Nat /\ h <= handle
        /\ \A q \in Processes : fatbin[q] \in Nat /\ fatbin[q] <= handle
        /\ \A q \in Processes : \A h \in held[q] : h \in Nat /\ h <= handle
        /\ \A u \in Threads : asked[u].stream \in Nat /\ asked[u].stream <= handle
    BY <1>2 DEF LaunchInv, HandlesBehind, TypeOK
  <2>2. \A q \in Processes : held'[q] \subseteq held[q] \cup {handle + 1}
    BY <1>1, <1>3
  <2>3. QED
    BY <1>1, <1>2, <2>1, <2>2 DEF HandlesBehind
<1>7. RegistrationOK'
  BY <1>1, RegistrationKept
<1>8. CallsOK'
  <2>1. \A u \in Threads : pc[u] # "idle" => lastError'[u] = lastError[u]
    BY <1>1, <1>3
  <2>2. \A h \in streams' : h \in streams \/ h > handle
    BY <1>1, <1>2
  <2>3. QED
    BY <1>1, <2>1, <2>2, CallsKept DEF calls
<1>9. QED
  BY <1>5, <1>6, <1>7, <1>8 DEF LaunchInv, RegistrationOK, CallsOK

LEMMA StreamDestroyStep ==
  ASSUME LaunchInv, NEW t \in Threads, StreamDestroy(t)
  PROVE  LaunchInv'
<1>1. PICK h \in held[ProcessOf[t]] :
        /\ streams' = streams \ {h}
        /\ held' = [held EXCEPT ![ProcessOf[t]] = @ \ {h}]
        /\ lastError' = [lastError EXCEPT ![t] = h \notin streams]
  BY DEF StreamDestroy
<1>2. /\ pc[t] = "idle"
      /\ UNCHANGED <<image, fatbin, todo, table, accepted, pc, asked, popped, disturbed, ran,
                     modules, functions, stack, handle>>
  BY DEF StreamDestroy, calls
<1>3. TypeOK
  BY DEF LaunchInv
<1>4. /\ held \in [Processes -> SUBSET Handles] /\ streams \subseteq Handles
      /\ lastError \in [Threads -> BOOLEAN]
  BY <1>3 DEF TypeOK
<1>5. TypeOK'
  <2>1. /\ held' \in [Processes -> SUBSET Handles] /\ streams' \subseteq Handles
        /\ lastError' \in [Threads -> BOOLEAN]
    BY <1>1, <1>4
  <2>2. QED
    BY <1>2, <1>3, <2>1 DEF TypeOK
<1>6. HandlesBehind'
  <2>1. \A q \in Processes : held'[q] \subseteq held[q]
    BY <1>1, <1>4
  <2>2. QED
    BY <1>1, <1>2, <2>1 DEF LaunchInv, HandlesBehind
<1>7. RegistrationOK'
  BY <1>2, RegistrationKept
<1>8. CallsOK'
  <2>1. \A u \in Threads : pc[u] # "idle" => lastError'[u] = lastError[u]
    BY <1>1, <1>2, <1>4
  <2>2. \A k \in streams' : k \in streams \/ k > handle
    BY <1>1
  <2>3. QED
    BY <1>2, <2>1, <2>2, CallsKept DEF calls
<1>9. QED
  BY <1>5, <1>6, <1>7, <1>8 DEF LaunchInv, RegistrationOK, CallsOK

------------------------------------------------------------------------------
(* Kernel calls.                                                           *)

(* Whoever uses the stack disturbs all who have pushed.                    *)
LEMMA Disturbed ==
  ASSUME TypeOK, NEW t \in Threads, Disturb(t)
  PROVE  /\ disturbed' \in [Threads -> BOOLEAN] /\ disturbed'[t] = disturbed[t]
         /\ \A u \in Threads \ {t} : pc[u] = "pushed" => disturbed'[u]
         /\ \A u \in Threads : ~disturbed'[u] => ~disturbed[u]
<1>1. disturbed \in [Threads -> BOOLEAN]
  BY DEF TypeOK
<1>2. disturbed' = [u \in Threads |-> IF u # t /\ pc[u] = "pushed" THEN TRUE ELSE disturbed[u]]
  BY DEF Disturb
<1>3. QED
  BY <1>1, <1>2

LEMMA OneMore ==
  ASSUME NEW S, NEW s \in Seq(S), NEW c \in S
  PROVE  /\ <<c>> \o s \in Seq(S) /\ Len(<<c>> \o s) = Len(s) + 1 /\ Len(s) \in Nat
         /\ <<c>> \o s # <<>> /\ (<<c>> \o s)[1] = c
<1>1. <<c>> \in Seq(S) /\ Len(<<c>>) = 1 /\ <<c>>[1] = c
  OBVIOUS
<1>2. Len(s) \in Nat
  BY LenProperties
<1>3. /\ <<c>> \o s \in Seq(S) /\ Len(<<c>> \o s) = 1 + Len(s)
      /\ \A k \in 1..(1 + Len(s)) : (<<c>> \o s)[k] = IF k <= 1 THEN <<c>>[k] ELSE s[k - 1]
  BY <1>1, ConcatProperties
<1>4. Len(<<c>> \o s) # 0 /\ (<<c>> \o s)[1] = c
  BY <1>1, <1>2, <1>3
<1>5. QED
  BY <1>2, <1>3, <1>4, EmptySeq

LEMMA PushStep ==
  ASSUME LaunchInv, NEW t \in Threads, NEW f \in Functions, NEW g \in Grids,
         NEW h \in {0} \cup held[ProcessOf[t]], Push(t, f, g, h)
  PROVE  LaunchInv'
<1>1. PICK out \in Outcomes :
        /\ SetError(t, out # "ok")
        /\ pc' = [pc EXCEPT ![t] = IF out = "ok" THEN "pushed" ELSE "failed"]
        /\ IF out = "unsent" THEN UNCHANGED <<stack, disturbed>>
           ELSE /\ Len(stack) < MaxStack
                /\ stack' = <<[grid |-> g, stream |-> Resolved(h)]>> \o stack
                /\ Disturb(t)
  BY DEF Push
<1> DEFINE c == [grid |-> g, stream |-> Resolved(h)]
<1>2. /\ pc[t] = "idle" /\ lastError' = [lastError EXCEPT ![t] = (out # "ok")]
      /\ asked' = [asked EXCEPT ![t] = [fun |-> f, grid |-> g, stream |-> h]]
      /\ ran' = [ran EXCEPT ![t] = NoLaunch]
      /\ UNCHANGED <<image, fatbin, todo, table, accepted, held, popped, modules, functions,
                     streams, handle>>
  BY <1>1 DEF Push, SetError, guest, context
<1>3. /\ TypeOK /\ handle \in Nat /\ Handles \subseteq Nat /\ 0 \in Handles /\ Null \in Streams
  BY Numbers DEF LaunchInv
<1>4. /\ pc \in [Threads -> {"idle", "pushed", "popped", "launched", "failed"}]
      /\ asked \in [Threads -> [fun : Functions \cup {None}, grid : Grids \cup {None}, stream : Handles]]
      /\ ran \in [Threads -> [grid : Grids \cup {None}, stream : Streams]]
      /\ lastError \in [Threads -> BOOLEAN] /\ disturbed \in [Threads -> BOOLEAN]
      /\ stack \in Seq(Configuration) /\ Len(stack) <= MaxStack
  BY <1>3 DEF TypeOK, Configuration
<1>5. h \in Handles /\ h <= handle
  <2>1. ProcessOf[t] \in Processes
    BY LaunchAssumption
  <2>2. held[ProcessOf[t]] \subseteq Handles /\ \A k \in held[ProcessOf[t]] : k <= handle
    BY <1>3, <2>1 DEF LaunchInv, HandlesBehind, TypeOK
  <2>3. QED
    BY <1>3, <2>2
<1>6. c \in Configuration
  BY <1>3, <1>5, StreamTypes DEF Configuration
<1>8. /\ stack' \in Seq(Configuration) /\ Len(stack') <= MaxStack
      /\ disturbed' \in [Threads -> BOOLEAN]
  <2>1. CASE out = "unsent"
    BY <1>1, <1>4, <2>1
  <2>2. CASE out # "unsent"
    <3>1. Disturb(t)
      BY <1>1, <2>2
    <3>2. stack' = <<c>> \o stack /\ Len(stack) < MaxStack
      BY <1>1, <2>2
    <3>3. stack' \in Seq(Configuration) /\ Len(stack') = Len(stack) + 1 /\ Len(stack) \in Nat
      BY <1>4, <1>6, <3>2, OneMore
    <3>4. MaxStack \in Nat
      BY LaunchAssumption
    <3>5. QED
      BY <1>3, <3>1, <3>2, <3>3, <3>4, Disturbed
  <2>3. QED
    BY <2>1, <2>2
<1>9. TypeOK'
  <2>1. /\ pc' \in [Threads -> {"idle", "pushed", "popped", "launched", "failed"}]
        /\ lastError' \in [Threads -> BOOLEAN]
    BY <1>1, <1>2, <1>4
  <2>2. asked' \in [Threads -> [fun : Functions \cup {None}, grid : Grids \cup {None}, stream : Handles]]
    BY <1>2, <1>4, <1>5
  <2>3. NoLaunch \in [grid : Grids \cup {None}, stream : Streams]
    BY <1>3 DEF NoLaunch
  <2>4. ran' \in [Threads -> [grid : Grids \cup {None}, stream : Streams]]
    BY <1>2, <1>4, <2>3
  <2>5. QED
    BY <1>2, <1>3, <1>8, <2>1, <2>2, <2>4 DEF TypeOK, Configuration
<1>10. HandlesBehind'
  <2>1. \A u \in Threads : asked'[u].stream <= handle
    BY <1>2, <1>4, <1>5 DEF LaunchInv, HandlesBehind
  <2>2. QED
    BY <1>2, <2>1 DEF LaunchInv, HandlesBehind
<1>11. RegistrationOK'
  BY <1>2, RegistrationKept
<1>12. \A u \in Threads \ {t} :
         /\ pc'[u] = pc[u] /\ asked'[u] = asked[u] /\ popped'[u] = popped[u] /\ ran'[u] = ran[u]
         /\ lastError'[u] = lastError[u]
         /\ ~disturbed'[u] => ~disturbed[u]
         /\ (pc[u] = "pushed" /\ ~disturbed'[u]) => stack' = stack
  <2>1. \A u \in Threads \ {t} :
          /\ pc'[u] = pc[u] /\ asked'[u] = asked[u] /\ popped'[u] = popped[u] /\ ran'[u] = ran[u]
          /\ lastError'[u] = lastError[u]
    BY <1>1, <1>2, <1>4
  <2>2. CASE out = "unsent"
    BY <1>1, <2>1, <2>2
  <2>3. CASE out # "unsent"
    BY <1>1, <1>3, <2>1, <2>3, Disturbed
  <2>4. QED
    BY <2>2, <2>3
<1>13. /\ asked'[t] = [fun |-> f, grid |-> g, stream |-> h] /\ ran'[t] = NoLaunch
       /\ pc'[t] = IF out = "ok" THEN "pushed" ELSE "failed"
       /\ out # "ok" => lastError'[t]
  BY <1>1, <1>2, <1>4
<1>14. OnTop'
  <2>1. SUFFICES ASSUME NEW u \in Threads, pc'[u] = "pushed", ~disturbed'[u]
                 PROVE  (stack # <<>> /\ stack[1].grid = asked[u].grid /\ Serves(stack[1].stream, u))'
    BY DEF OnTop
  <2>2. CASE u = t
    <3>1. out = "ok"
      BY <1>13, <2>1, <2>2
    <3>2. stack' # <<>> /\ stack'[1] = c
      BY <1>1, <1>4, <1>6, <3>1, OneMore
    <3>3. h = 0 => Resolved(h) = Null
      BY DEF Resolved, Real, Null
    <3>4. h \in streams => Resolved(h) = Real(h)
      BY DEF Resolved
    <3>5. stack'[1].grid = g /\ stack'[1].stream = Resolved(h)
      BY <3>2
    <3>6. asked'[t].grid = g /\ asked'[t].stream = h
      BY <1>13
    <3>7. QED
      BY <1>2, <2>2, <3>2, <3>3, <3>4, <3>5, <3>6 DEF Serves
  <2>3. CASE u # t
    BY <1>2, <1>12, <2>1, <2>3 DEF LaunchInv, OnTop, Serves
  <2>4. QED
    BY <2>2, <2>3
<1>15. AsPopped'
  <2>1. pc'[t] # "popped"
    BY <1>13
  <2>2. QED
    BY <1>2, <1>12, <2>1 DEF LaunchInv, AsPopped, Serves
<1>16. HasRun' /\ UndisturbedAsAsked'
  BY <1>2, <1>12, <1>13 DEF LaunchInv, HasRun, UndisturbedAsAsked
<1>17. LaunchErrorReported'
  BY <1>12, <1>13 DEF LaunchInv, LaunchErrorReported
<1>18. QED
  BY <1>9, <1>10, <1>11, <1>14, <1>15, <1>16, <1>17 DEF LaunchInv, RegistrationOK

LEMMA PopStep ==
  ASSUME LaunchInv, NEW t \in Threads, Pop(t)
  PROVE  LaunchInv'
<1>1. PICK out \in Outcomes :
        /\ SetError(t, out # "ok" \/ stack = <<>>)
        /\ pc' = [pc EXCEPT ![t] = IF out = "ok" /\ stack # <<>> THEN "popped" ELSE "failed"]
        /\ IF out = "unsent" \/ stack = <<>> THEN UNCHANGED <<stack, disturbed, popped>>
           ELSE /\ stack' = Tail(stack) /\ Disturb(t)
                /\ popped' = [popped EXCEPT ![t] = IF out = "ok" THEN Answer(Head(stack)) ELSE @]
  BY DEF Pop
<1>2. /\ pc[t] = "pushed" /\ lastError' = [lastError EXCEPT ![t] = (out # "ok" \/ stack = <<>>)]
      /\ UNCHANGED <<image, fatbin, todo, table, accepted, held, asked, ran, modules, functions,
                     streams, handle>>
  BY <1>1 DEF Pop, SetError, guest, context
<1>3. /\ TypeOK /\ handle \in Nat /\ Handles \subseteq Nat /\ 0 \in Handles
  BY Numbers DEF LaunchInv
<1>4. /\ pc \in [Threads -> {"idle", "pushed", "popped", "launched", "failed"}]
      /\ popped \in [Threads -> Configs]
      /\ lastError \in [Threads -> BOOLEAN] /\ disturbed \in [Threads -> BOOLEAN]
      /\ stack \in Seq(Configuration) /\ Len(stack) <= MaxStack
  BY <1>3 DEF TypeOK, Configuration
<1>5. stack # <<>> =>
        /\ Head(stack) = stack[1] /\ stack[1] \in Configuration
        /\ Tail(stack) \in Seq(Configuration) /\ Len(Tail(stack)) <= MaxStack
  <2>1. Len(stack) \in Nat /\ MaxStack \in Nat
    BY <1>4, LenProperties, LaunchAssumption
  <2>2. QED
    BY <1>4, <2>1, HeadTailProperties
<1>6. CASE out = "unsent" \/ stack = <<>>
  <2>1. /\ UNCHANGED <<stack, disturbed, popped>> /\ pc' = [pc EXCEPT ![t] = "failed"]
        /\ lastError' = [lastError EXCEPT ![t] = TRUE]
    BY <1>1, <1>2, <1>6
  <2>2. TypeOK'
    <3>1. /\ pc' \in [Threads -> {"idle", "pushed", "popped", "launched", "failed"}]
          /\ lastError' \in [Threads -> BOOLEAN]
      BY <1>4, <2>1
    <3>2. QED
      BY <1>2, <1>3, <2>1, <3>1 DEF TypeOK
  <2>3. \A u \in Threads \ {t} : pc'[u] = pc[u] /\ lastError'[u] = lastError[u]
    BY <1>4, <2>1
  <2>4. pc'[t] = "failed" /\ lastError'[t]
    BY <1>4, <2>1
  <2>5. OnTop' /\ AsPopped'
    BY <1>2, <2>1, <2>3, <2>4 DEF LaunchInv, OnTop, AsPopped, Serves
  <2>6. HasRun' /\ UndisturbedAsAsked' /\ LaunchErrorReported'
    BY <1>2, <2>1, <2>3, <2>4 DEF LaunchInv, HasRun, UndisturbedAsAsked, LaunchErrorReported
  <2>7. HandlesBehind' /\ RegistrationOK'
    BY <1>2, RegistrationKept DEF LaunchInv, HandlesBehind
  <2>8. QED
    BY <2>2, <2>5, <2>6, <2>7 DEF LaunchInv, RegistrationOK
<1>7. CASE out # "unsent" /\ stack # <<>>
  <2> DEFINE c == stack[1]
  <2>1. /\ stack' = Tail(stack) /\ Disturb(t) /\ c \in Configuration
        /\ popped' = [popped EXCEPT ![t] = IF out = "ok" THEN Answer(c) ELSE @]
        /\ pc' = [pc EXCEPT ![t] = IF out = "ok" THEN "popped" ELSE "failed"]
        /\ lastError' = [lastError EXCEPT ![t] = (out # "ok")]
    BY <1>1, <1>2, <1>5, <1>7
  <2>2. /\ disturbed' \in [Threads -> BOOLEAN] /\ disturbed'[t] = disturbed[t]
        /\ \A u \in Threads \ {t} : pc[u] = "pushed" => disturbed'[u]
        /\ \A u \in Threads : ~disturbed'[u] => ~disturbed[u]
    BY <1>3, <2>1, Disturbed
  <2>3. Answer(c).grid = c.grid /\ Answer(c).stream = Handle(c.stream)
    BY DEF Answer
  <2>4. c.grid \in Grids /\ c.stream \in Streams
    BY <2>1 DEF Configuration
  <2>5. TypeOK'
    <3>1. /\ pc' \in [Threads -> {"idle", "pushed", "popped", "launched", "failed"}]
          /\ lastError' \in [Threads -> BOOLEAN]
      BY <1>4, <2>1
    <3>2. Answer(c) \in Configs
      BY <1>3, <2>4, StreamTypes DEF Answer, Configs
    <3>3. popped' \in [Threads -> Configs]
      BY <1>4, <2>1, <3>2
    <3>4. stack' \in Seq([grid : Grids, stream : Streams]) /\ Len(stack') <= MaxStack
      BY <1>5, <1>7, <2>1 DEF Configuration
    <3>5. QED
      BY <1>2, <1>3, <2>2, <3>1, <3>3, <3>4 DEF TypeOK
  <2>6. \A u \in Threads \ {t} :
          pc'[u] = pc[u] /\ lastError'[u] = lastError[u] /\ popped'[u] = popped[u]
    BY <1>4, <2>1
  <2>7. /\ pc'[t] = IF out = "ok" THEN "popped" ELSE "failed"
        /\ lastError'[t] = (out # "ok")
        /\ out = "ok" => popped'[t] = Answer(c)
    BY <1>4, <2>1
  <2>8. OnTop'
    BY <2>2, <2>6, <2>7 DEF OnTop
  <2>9. AsPopped'
    <3>1. SUFFICES ASSUME NEW u \in Threads, pc'[u] = "popped"
                   PROVE  /\ popped'[u].grid # None
                          /\ ~disturbed'[u] => /\ popped'[u].grid = asked'[u].grid
                                               /\ Serves(Real(popped[u].stream), u)'
      BY DEF AsPopped
    <3>2. CASE u # t
      <4>1. pc[u] = "popped" /\ popped'[u] = popped[u] /\ asked'[u] = asked[u]
        BY <1>2, <2>6, <3>1, <3>2
      <4>2. QED
        BY <1>2, <2>2, <4>1 DEF LaunchInv, AsPopped, Serves, Real
    <3>3. CASE u = t
      <4>1. popped'[t].grid = c.grid /\ popped'[t].stream = Handle(c.stream)
        BY <2>3, <2>7, <3>1, <3>3
      <4>2. c.grid # None
        BY <2>4, LaunchAssumption
      <4>3. ASSUME ~disturbed[t]
            PROVE  c.grid = asked[t].grid /\ Serves(Real(Handle(c.stream)), t)
        <5>1. c.grid = asked[t].grid /\ Serves(c.stream, t)
          BY <1>2, <4>3 DEF LaunchInv, OnTop
        <5>2. asked[t].stream \in Nat
          BY <1>3 DEF TypeOK
        <5>3. asked[t].stream = 0 => Real(Handle(c.stream)) = Null
          BY <5>1 DEF Serves, Null, Handle, Real
        <5>4. asked[t].stream \in streams => Real(Handle(c.stream)) = Real(asked[t].stream)
          <6>1. SUFFICES ASSUME asked[t].stream \in streams
                         PROVE  Handle(c.stream) = asked[t].stream
            OBVIOUS
          <6>2. c.stream = 0 - asked[t].stream
            BY <5>1, <6>1 DEF Serves, Real
          <6>3. 0 - c.stream = asked[t].stream
            BY <5>2, <6>2
          <6>4. QED
            BY <6>1, <6>3 DEF Handle
        <5>5. QED
          BY <5>1, <5>3, <5>4 DEF Serves
      <4>4. QED
        BY <1>2, <2>2, <3>3, <4>1, <4>2, <4>3 DEF Serves, Real
    <3>4. QED
      BY <3>2, <3>3
  <2>10. HasRun' /\ UndisturbedAsAsked'
    BY <1>2, <2>2, <2>6, <2>7 DEF LaunchInv, HasRun, UndisturbedAsAsked
  <2>11. LaunchErrorReported'
    BY <1>2, <2>6, <2>7 DEF LaunchInv, LaunchErrorReported
  <2>12. HandlesBehind' /\ RegistrationOK'
    BY <1>2, RegistrationKept DEF LaunchInv, HandlesBehind
  <2>13. QED
    BY <2>5, <2>8, <2>9, <2>10, <2>11, <2>12 DEF LaunchInv, RegistrationOK
<1>8. QED
  BY <1>6, <1>7

LEMMA LaunchKernelStep ==
  ASSUME LaunchInv, NEW t \in Threads, LaunchKernel(t)
  PROVE  LaunchInv'
<1>1. /\ pc[t] = "popped"
      /\ UNCHANGED <<image, fatbin, todo, table, accepted, held, asked, popped, disturbed,
                     modules, functions, streams, stack, handle>>
  BY DEF LaunchKernel, guest, context
<1> DEFINE r == [grid |-> popped[t].grid, stream |-> Resolved(popped[t].stream)]
<1>2. \/ /\ lastError' = [lastError EXCEPT ![t] = TRUE] /\ ran' = ran
         /\ pc' = [pc EXCEPT ![t] = "failed"]
      \/ \E out \in {"ok", "lost"} :
           /\ lastError' = [lastError EXCEPT ![t] = (out # "ok")]
           /\ pc' = [pc EXCEPT ![t] = IF out = "ok" THEN "launched" ELSE "failed"]
           /\ ran' = [ran EXCEPT ![t] = r]
  BY DEF LaunchKernel, Unknown, SetError
<1>3. /\ TypeOK /\ Handles \subseteq Nat
  BY Numbers DEF LaunchInv
<1>4. /\ pc \in [Threads -> {"idle", "pushed", "popped", "launched", "failed"}]
      /\ popped[t] \in Configs /\ asked[t].stream \in Handles
      /\ ran \in [Threads -> [grid : Grids \cup {None}, stream : Streams]]
      /\ lastError \in [Threads -> BOOLEAN]
  BY <1>3 DEF TypeOK
<1>5. r \in [grid : Grids \cup {None}, stream : Streams]
  BY <1>3, <1>4, StreamTypes DEF Configs
<1>6. popped[t].grid # None /\ r # NoLaunch
  BY <1>1 DEF LaunchInv, AsPopped, NoLaunch
<1>7. ~disturbed[t] =>
        /\ r.grid = asked[t].grid
        /\ asked[t].stream = 0 => r.stream = Null
        /\ asked[t].stream \in streams => r.stream = Real(asked[t].stream)
  <2>1. SUFFICES ASSUME ~disturbed[t]
                 PROVE  /\ r.grid = asked[t].grid
                        /\ asked[t].stream = 0 => r.stream = Null
                        /\ asked[t].stream \in streams => r.stream = Real(asked[t].stream)
    OBVIOUS
  <2>2. popped[t].grid = asked[t].grid /\ Serves(Real(popped[t].stream), t)
    BY <1>1, <2>1 DEF LaunchInv, AsPopped
  <2>3. popped[t].stream \in Nat /\ asked[t].stream \in Nat
    BY <1>3, <1>4 DEF Configs
  <2>4. asked[t].stream = 0 => popped[t].stream = 0
    BY <2>2, <2>3 DEF Serves, Real, Null
  <2>5. asked[t].stream \in streams => popped[t].stream = asked[t].stream
    BY <2>2, <2>3 DEF Serves, Real
  <2>6. QED
    BY <2>2, <2>4, <2>5 DEF Resolved, Real, Null
<1> HIDE DEF r
<1>8. TypeOK'
  <2>1. pc' \in [Threads -> {"idle", "pushed", "popped", "launched", "failed"}]
    BY <1>2, <1>4
  <2>2. lastError' \in [Threads -> BOOLEAN]
    BY <1>2, <1>4
  <2>3. ran' \in [Threads -> [grid : Grids \cup {None}, stream : Streams]]
    BY <1>2, <1>4, <1>5
  <2>4. QED
    BY <1>1, <1>3, <2>1, <2>2, <2>3 DEF TypeOK
<1>9. \A u \in Threads \ {t} : pc'[u] = pc[u] /\ lastError'[u] = lastError[u] /\ ran'[u] = ran[u]
  BY <1>2, <1>4
<1>10. \/ pc'[t] = "failed" /\ lastError'[t] /\ ran'[t] = ran[t]
       \/ pc'[t] \in {"launched", "failed"} /\ ran'[t] = r
  BY <1>2, <1>4
<1>11. OnTop' /\ AsPopped'
  BY <1>1, <1>9, <1>10 DEF LaunchInv, OnTop, AsPopped, Serves
<1>12. HasRun' /\ LaunchErrorReported'
  BY <1>1, <1>6, <1>9, <1>10 DEF LaunchInv, HasRun, LaunchErrorReported
<1>13. UndisturbedAsAsked'
  BY <1>1, <1>7, <1>9, <1>10 DEF LaunchInv, UndisturbedAsAsked
<1>14. HandlesBehind' /\ RegistrationOK'
  BY <1>1, RegistrationKept DEF LaunchInv, HandlesBehind
<1>15. QED
  BY <1>8, <1>11, <1>12, <1>13, <1>14 DEF LaunchInv, RegistrationOK

LEMMA GetLastErrorStep ==
  ASSUME LaunchInv, NEW t \in Threads, GetLastError(t)
  PROVE  LaunchInv'
<1>1. /\ pc[t] \in {"failed", "launched"}
      /\ pc' = [pc EXCEPT ![t] = "idle"] /\ asked' = [asked EXCEPT ![t] = NoCall]
      /\ popped' = [popped EXCEPT ![t] = NoConfig] /\ disturbed' = [disturbed EXCEPT ![t] = FALSE]
      /\ ran' = [ran EXCEPT ![t] = NoLaunch] /\ lastError' = [lastError EXCEPT ![t] = FALSE]
      /\ UNCHANGED <<image, fatbin, todo, table, accepted, held, modules, functions, streams,
                     stack, handle>>
  BY DEF GetLastError, SetError, guest, context
<1>2. TypeOK /\ handle \in Nat /\ 0 \in Handles /\ Null \in Streams
  BY Numbers DEF LaunchInv
<1>3. /\ pc \in [Threads -> {"idle", "pushed", "popped", "launched", "failed"}]
      /\ asked \in [Threads -> [fun : Functions \cup {None}, grid : Grids \cup {None}, stream : Handles]]
      /\ popped \in [Threads -> Configs]
      /\ ran \in [Threads -> [grid : Grids \cup {None}, stream : Streams]]
      /\ lastError \in [Threads -> BOOLEAN] /\ disturbed \in [Threads -> BOOLEAN]
  BY <1>2 DEF TypeOK
<1>4. TypeOK'
  <2>1. /\ NoCall \in [fun : Functions \cup {None}, grid : Grids \cup {None}, stream : Handles]
        /\ NoConfig \in Configs
        /\ NoLaunch \in [grid : Grids \cup {None}, stream : Streams]
    BY <1>2 DEF NoCall, NoConfig, NoLaunch, Configs
  <2>2. /\ pc' \in [Threads -> {"idle", "pushed", "popped", "launched", "failed"}]
        /\ lastError' \in [Threads -> BOOLEAN] /\ disturbed' \in [Threads -> BOOLEAN]
    BY <1>1, <1>3
  <2>3. /\ asked' \in [Threads -> [fun : Functions \cup {None}, grid : Grids \cup {None}, stream : Handles]]
        /\ popped' \in [Threads -> Configs]
        /\ ran' \in [Threads -> [grid : Grids \cup {None}, stream : Streams]]
    BY <1>1, <1>3, <2>1
  <2>4. QED
    BY <1>1, <1>2, <2>2, <2>3 DEF TypeOK
<1>5. HandlesBehind'
  <2>1. \A u \in Threads : asked'[u].stream <= handle
    BY <1>1, <1>2, <1>3 DEF LaunchInv, HandlesBehind, NoCall
  <2>2. QED
    BY <1>1, <2>1 DEF LaunchInv, HandlesBehind
<1>6. RegistrationOK'
  BY <1>1, RegistrationKept
<1>7. /\ \A u \in Threads \ {t} :
           /\ pc'[u] = pc[u] /\ asked'[u] = asked[u] /\ popped'[u] = popped[u]
           /\ disturbed'[u] = disturbed[u] /\ ran'[u] = ran[u] /\ lastError'[u] = lastError[u]
      /\ pc'[t] = "idle" /\ ran'[t] = NoLaunch
  BY <1>1, <1>3
<1>8. OnTop' /\ AsPopped'
  BY <1>1, <1>7 DEF LaunchInv, OnTop, AsPopped, Serves
<1>9. HasRun' /\ UndisturbedAsAsked' /\ LaunchErrorReported'
  BY <1>1, <1>7 DEF LaunchInv, HasRun, UndisturbedAsAsked, LaunchErrorReported
<1>10. QED
  BY <1>4, <1>5, <1>6, <1>8, <1>9 DEF LaunchInv, RegistrationOK

------------------------------------------------------------------------------
(* Every step.                                                             *)

LEMMA LaunchInit == Init => LaunchInv
<1> SUFFICES ASSUME Init PROVE LaunchInv
  OBVIOUS
<1>1. 0 \in Handles /\ Null \in Streams /\ MaxStack \in Nat
  <2>1. Handles = 0..MaxHandle /\ MaxHandle \in Nat /\ MaxStack \in Nat
    BY LaunchAssumption DEF Handles
  <2>2. 0 \in Handles
    BY <2>1
  <2>3. Null \in Streams
    BY <2>2 DEF Streams, Null, Real
  <2>4. QED
    BY <2>1, <2>2, <2>3
<1>2. TypeOK
  <2>1. /\ NoCall \in [fun : Functions \cup {None}, grid : Grids \cup {None}, stream : Handles]
        /\ NoConfig \in Configs
        /\ NoLaunch \in [grid : Grids \cup {None}, stream : Streams]
    BY <1>1 DEF NoCall, NoConfig, NoLaunch, Configs
  <2>2. /\ stack \in Seq([grid : Grids, stream : Streams]) /\ Len(stack) <= MaxStack
        /\ functions \in Seq([process : Processes, fun : Functions, image : Images])
    BY <1>1, EmptySeq DEF Init
  <2>3. QED
    BY <1>1, <2>1, <2>2 DEF Init, TypeOK
<1>3. HandlesBehind
  BY DEF Init, HandlesBehind, NoCall
<1>4. ModuleIsLoaded /\ NewestIsLoaded
  BY DEF Init, ModuleIsLoaded, NewestIsLoaded
<1>5. OnTop /\ AsPopped /\ HasRun /\ UndisturbedAsAsked /\ LaunchErrorReported
  BY DEF Init, OnTop, AsPopped, HasRun, UndisturbedAsAsked, LaunchErrorReported
<1>6. QED
  BY <1>2, <1>3, <1>4, <1>5 DEF LaunchInv

LEMMA LaunchNext == LaunchInv /\ [Next]_vars => LaunchInv'
<1> SUFFICES ASSUME LaunchInv, [Next]_vars PROVE LaunchInv'
  OBVIOUS
<1>1. CASE LoadDriver
  BY <1>1, LoadDriverStep
<1>2. ASSUME NEW p \in Processes, Start(p) \/ Unload(p) PROVE LaunchInv'
  BY <1>2, StartStep, UnloadStep
<1>3. ASSUME NEW p \in Processes, NEW i \in Images, RegisterFatBinary(p, i) PROVE LaunchInv'
  BY <1>3, RegisterFatBinaryStep
<1>4. ASSUME NEW p \in Processes, NEW f \in Functions, RegisterFunction(p, f) PROVE LaunchInv'
  BY <1>4, RegisterFunctionStep
<1>5. ASSUME NEW t \in Threads, StreamCreate(t) \/ StreamDestroy(t) PROVE LaunchInv'
  BY <1>5, StreamCreateStep, StreamDestroyStep
<1>6. ASSUME NEW t \in Threads, NEW f \in Functions, NEW g \in Grids,
             NEW h \in {0} \cup held[ProcessOf[t]], Push(t, f, g, h)
      PROVE  LaunchInv'
  BY <1>6, PushStep
<1>7. ASSUME NEW t \in Threads, Pop(t) \/ LaunchKernel(t) \/ GetLastError(t) PROVE LaunchInv'
  BY <1>7, PopStep, LaunchKernelStep, GetLastErrorStep
<1>8. CASE UNCHANGED vars
  <2>1. UNCHANGED <<image, fatbin, todo, table, accepted, held, pc, asked, popped, disturbed, ran,
                    lastError, modules, functions, streams, stack, handle>>
    BY <1>8 DEF vars, guest, calls, context
  <2>2. TypeOK' /\ HandlesBehind'
    BY <2>1 DEF LaunchInv, TypeOK, HandlesBehind
  <2>3. RegistrationOK'
    BY <2>1, RegistrationKept
  <2>4. CallsOK'
    BY <2>1, CallsKept DEF calls
  <2>5. QED
    BY <2>2, <2>3, <2>4 DEF LaunchInv, RegistrationOK, CallsOK
<1>9. QED
  BY <1>1, <1>2, <1>3, <1>4, <1>5, <1>6, <1>7, <1>8 DEF Next

(* Every step of registration, configuration and launch, and every process *)
(* that ends and starts, keeps the inductive invariant.                    *)
THEOREM LaunchesHold == Spec => []LaunchInv
<1>1. QED
  BY LaunchInit, LaunchNext, PTL DEF Spec

(* The first of the entries is the one with the least number.              *)
LEMMA NewestFound ==
  ASSUME NEW p, NEW f, TypeOK,
         NEW k \in Entries(p, f), \A j \in Entries(p, f) : k <= j
  PROVE  Found(p, f) = functions[k].image
<1>1. \A j \in Entries(p, f) : j \in Nat
  <2>1. DOMAIN functions = 1..Len(functions) /\ Len(functions) \in Nat
    BY LenProperties DEF TypeOK
  <2>2. QED
    BY <2>1 DEF Entries
<1>2. Min(Entries(p, f)) = k
  <2>1. \A x \in Entries(p, f) : (\A y \in Entries(p, f) : x <= y) => x = k
    BY <1>1
  <2>2. QED
    BY <2>1 DEF Min
<1>3. QED
  BY <1>2 DEF Found

(* What an earlier library, an earlier session or another process has      *)
(* registered is never in the way of a stub that was accepted.             *)
THEOREM AcceptedStubsFound == Spec => []AcceptedIsFound
<1>1. LaunchInv => AcceptedIsFound
  <2>1. SUFFICES ASSUME LaunchInv, NEW t \in Threads, NEW f \in accepted[ProcessOf[t]]
                 PROVE  /\ Found(ProcessOf[t], f) = image[ProcessOf[t]]
                        /\ table[ProcessOf[t]][f] = image[ProcessOf[t]]
    BY DEF AcceptedIsFound
  <2>2. ProcessOf[t] \in Processes /\ TypeOK
    BY <2>1, LaunchAssumption DEF LaunchInv
  <2>3. PICK k \in Entries(ProcessOf[t], f) :
          /\ functions[k].image = image[ProcessOf[t]]
          /\ \A j \in Entries(ProcessOf[t], f) : k <= j
    BY <2>1, <2>2 DEF LaunchInv, NewestIsLoaded
  <2>4. table[ProcessOf[t]][f] = image[ProcessOf[t]]
    BY <2>1, <2>2 DEF LaunchInv, NewestIsLoaded
  <2>5. QED
    BY <2>2, <2>3, <2>4, NewestFound
<1>2. QED
  BY <1>1, LaunchesHold, PTL

(* A kernel has the configuration its caller asked for, unless another     *)
(* thread came between the push and the pop.                               *)
THEOREM KernelsAsAsked == Spec => []UndisturbedAsAsked
<1>1. LaunchInv => UndisturbedAsAsked
  BY DEF LaunchInv
<1>2. QED
  BY <1>1, LaunchesHold, PTL

(* A kernel call that launched nothing leaves an error to be read.         *)
THEOREM NoSilentLaunchFailure == Spec => []LaunchErrorReported
<1>1. LaunchInv => LaunchErrorReported
  BY DEF LaunchInv
<1>2. QED
  BY <1>1, LaunchesHold, PTL
==============================================================================
