--------------------------- MODULE HmcudaResource ---------------------------
(***************************************************************************)
(* The daemon's resource table (resource.c) and the handlers that create,  *)
(* destroy and look up CUDA objects (core_driver.c, core_runtime.c).  All  *)
(* guest processes share one context: the daemon serves every request with *)
(* session 1 and VM 1 (vhost_user_hmcuda.c:277-278), one at a time, so a   *)
(* handler is one action here.  A handler whose CUDA call fails before it  *)
(* has changed anything is a stuttering step and left out, and so are the  *)
(* handlers that only look an object up: what they would find is what the  *)
(* properties are about.  HOST_MEM and HOST_DEV_PTR entries are left out.  *)
(*                                                                         *)
(* CUDA is external: it hands out a pointer no live object of the kind     *)
(* has, may give the same pointer again once the object is gone, and a     *)
(* destroy call that reports an error may or may not have destroyed.       *)
(* cudaDeviceReset ends every object and every registration of host        *)
(* memory.  The runtime holds the primary context, so that a guest's       *)
(* primary_ctx_release changes nothing here.                               *)
(***************************************************************************)
EXTENDS Naturals, Sequences, FiniteSets

CONSTANTS
  Pointers,     (* what CUDA returns for streams, events, modules ...      *)
  Addresses,    (* device addresses, small numbers                         *)
  Stubs,        (* host addresses of the guest's kernel stubs              *)
  MaxHandles,   (* bound on g_next_handle - 0x10000000                     *)
  MaxFunctions  (* bound on registered functions                           *)

ASSUME ResourceAssumption ==
  /\ Addresses \subseteq Nat \ {0}
  /\ MaxHandles \in Nat /\ MaxFunctions \in Nat

(* RES_TYPE_STREAM, _EVENT, _GENERIC_ALLOC, _MODULE, _CONTEXT get handles  *)
(* from the counter; RES_TYPE_MEM and _FUNCTION bring their own.           *)
Destroyable == {"stream", "event", "generic"}
Counted     == Destroyable \cup {"module", "context"}
Types       == Counted \cup {"mem", "function"}

VARIABLES
  up,          (* there is a Context                                       *)
  table,       (* table[type]: ctx->resources[type], newest first          *)
  next,        (* g_next_handle                                            *)
  live,        (* CUDA: the objects that exist                             *)
  lost,        (* history: live objects the table gave up after CUDA was   *)
               (* asked to destroy them, or that no path destroys          *)
  attempted,   (* g_guest_mem_registered                                   *)
  ram,         (* CUDA: guest RAM is pageable, locked, or could not be     *)
  stale        (* history: CUDA was given a pointer to an object gone      *)

vars == <<up, table, next, live, lost, attempted, ram, stale>>
ramVars == <<attempted, ram>>

(* Objects: a range of memory ("mem", from cuMemAlloc or cudaMalloc), a    *)
(* reserved range ("va", from cuMemAddressReserve), or a pointer.          *)
Object(k, p, n) == [kind |-> k, ptr |-> p, size |-> n]
Entry(h, p, n)  == [handle |-> h, ptr |-> p, size |-> n]

Kinds(t) == IF t = "mem" THEN {"mem", "va"}
            ELSE IF t = "function" THEN {"module"} ELSE {t}

(* The objects an entry stands for: at most one.  A function belongs to    *)
(* its module, whose pointer stands for it.                                *)
Behind(t, e) == {Object(k, e.ptr, e.size) : k \in Kinds(t)}

Covers(x, a) == x.ptr <= a /\ a < x.ptr + x.size
Memory == {x \in live : x.kind \in {"mem", "va"}}

------------------------------------------------------------------------------
(* resource.c                                                              *)

Add(t, e) == [table EXCEPT ![t] = <<e>> \o @]

(* hmcuda_res_get stops at entry i: the newest with this handle, or for    *)
(* memory the newest whose range has it.                                   *)
Matches(t, e, h) ==
  IF t = "mem" THEN e.handle <= h /\ h < e.handle + e.size ELSE e.handle = h
Finds(t, h, i) ==
  /\ i \in DOMAIN table[t]
  /\ Matches(t, table[t][i], h)
  /\ \A j \in 1..(i - 1) : ~Matches(t, table[t][j], h)

(* hmcuda_res_get_handle finds an entry.                                   *)
Listed(t, p) == \E i \in DOMAIN table[t] : table[t][i].ptr = p

Without(s, i) == [j \in 1..(Len(s) - 1) |-> IF j < i THEN s[j] ELSE s[j + 1]]

------------------------------------------------------------------------------
(* Seeded faults: variants of definitions below that the checks must tell  *)
(* from the code.                                                          *)

(* The old value of the counter is the handle.                             *)
CounterBeforeIncrement == next

(* ctx_create starts the handles again.                                    *)
StartsAgain == 0

(* The switch of free_resource_list has no case for GENERIC_ALLOC.         *)
FreedButGeneric == {"stream", "event", "mem"}

(* The table survives a device reset.                                      *)
KeepsTable == table

(* An entry stays when CUDA reports an error, destroyed or not.            *)
RemovedUnlessError(t, h, new) ==
  \/ new = table
  \/ \E i \in DOMAIN table[t] :
       table[t][i].handle = h /\ new = [table EXCEPT ![t] = Without(@, i)]

------------------------------------------------------------------------------
(* hmcuda_res_remove: the newest entry with exactly this handle goes, if   *)
(* there is one.                                                           *)
Removed(t, h, new) ==
  IF \A i \in DOMAIN table[t] : table[t][i].handle # h
  THEN new = table
  ELSE \E i \in DOMAIN table[t] :
         /\ table[t][i].handle = h
         /\ \A j \in 1..(i - 1) : table[t][j].handle # h
         /\ new = [table EXCEPT ![t] = Without(@, i)]

NoTable == [t \in Types |-> <<>>]

(* free_resource_list calls CUDA for these lists; modules, functions and   *)
(* contexts it leaves to CUDA.                                             *)
Freed == Destroyable \cup {"mem"}

------------------------------------------------------------------------------
Init ==
  /\ up = FALSE /\ table = NoTable /\ next = 0
  /\ live = {} /\ lost = {}
  /\ attempted = FALSE /\ ram = "pageable"
  /\ stale = FALSE

NewHandle == next + 1

(* The counter is never set back, with whatever Context.                   *)
NextOfNewContext == next

(* A new object of CUDA gets the next handle.                              *)
Create(t) ==
  /\ up /\ next < MaxHandles
  /\ \E p \in Pointers :
       /\ Object(t, p, 0) \notin live
       /\ live'  = live \cup {Object(t, p, 0)}
       /\ table' = Add(t, Entry(NewHandle, p, 0))
  /\ next' = next + 1
  /\ UNCHANGED <<up, lost, ramVars, stale>>

StreamCreate   == Create("stream")
EventCreate    == Create("event")
MemCreate      == Create("generic")      \* and import, multicast_create
RegisterFatbin == Create("module")

(* Memory is handed out under its device address, so that pointers stored  *)
(* in device memory stay valid.                                            *)
Allocate(k) ==
  /\ up
  /\ \E a \in Addresses, n \in 1..Cardinality(Addresses) :
       /\ a..(a + n - 1) \subseteq Addresses
       /\ \A x \in Memory : x.ptr + x.size <= a \/ a + n <= x.ptr
       /\ live'  = live \cup {Object(k, a, n)}
       /\ table' = Add("mem", Entry(a, a, n))
  /\ UNCHANGED <<up, next, lost, ramVars, stale>>

MemAlloc       == Allocate("mem")        \* and cudaMalloc
AddressReserve == Allocate("va")

(* A handle is looked up, its object given to CUDA's call for objects of   *)
(* kind k, and the entry removed whatever CUDA answers.  CUDA refuses a    *)
(* pointer into a range and the wrong kind of range.                       *)
Release(t, k, h) ==
  /\ up
  /\ \E i \in DOMAIN table[t], gone \in BOOLEAN :
       LET e == table[t][i]
           x == Behind(t, e) \cap live
       IN /\ Finds(t, h, i)
          /\ gone => h = e.handle /\ Object(k, e.ptr, e.size) \in live
          /\ live'  = live \ (IF gone THEN x ELSE {})
          /\ lost'  = lost \cup (IF gone \/ h # e.handle THEN {} ELSE x)
          /\ stale' = (stale \/ x = {})
          /\ Removed(t, h, table')
  /\ UNCHANGED <<up, next, ramVars>>

StreamDestroy(h) == Release("stream", "stream", h)
EventDestroy(h)  == Release("event", "event", h)
MemRelease(h)    == Release("generic", "generic", h)
MemFree(h)       == Release("mem", "mem", h)      \* and cudaFree
AddressFree(h)   == Release("mem", "va", h)

RegisterFunction(h, stub) ==
  /\ up /\ Len(table["function"]) < MaxFunctions
  /\ \E i \in DOMAIN table["module"] :
       /\ Finds("module", h, i)
       /\ table' = Add("function", Entry(stub, table["module"][i].ptr, 0))
  /\ UNCHANGED <<up, next, live, lost, ramVars, stale>>

------------------------------------------------------------------------------
(* Contexts.                                                               *)

Contexts(objects) == {x \in objects : x.kind = "context"}

(* CUDA has a primary context, with pointer p, new if there was none.      *)
WithContext(objects, p, new) ==
  IF Contexts(objects) = {}
  THEN new = objects \cup {Object("context", p, 0)}
  ELSE Object("context", p, 0) \in objects /\ new = objects

(* What hmcuda_ctx_destroy gives to CUDA, when `objects` exist; and that   *)
(* some of it does not exist.                                              *)
Asked(objects) ==
  {x \in objects : \E t \in Freed : \E i \in DOMAIN table[t] : x \in Behind(t, table[t][i])}
AsksForDead(objects) ==
  \E t \in Freed : \E i \in DOMAIN table[t] : Behind(t, table[t][i]) \cap objects = {}

Unlocked == IF ram = "locked" THEN "pageable" ELSE ram

TableOfNewContext == NoTable

(* hmcuda_core_init: a library is loaded in some guest process.  The       *)
(* Context goes with all it lists.  CUDA keeps what it refuses to free:    *)
(* reserved ranges in any case, since they get cudaFree.  Then the device  *)
(* is initialised, and reset if that fails.                                *)
InitSession ==
  /\ up' = TRUE
  /\ table' = TableOfNewContext
  /\ next'  = NextOfNewContext
  /\ stale' = (stale \/ AsksForDead(live))
  /\ \E kept \in SUBSET Asked(live), p \in Pointers :
       LET rest == (live \ Asked(live)) \cup kept
       IN /\ {x \in Asked(live) : x.kind = "va"} \subseteq kept
          /\ \/ /\ live' = rest \/ WithContext(rest, p, live')
                /\ lost' = lost \cup kept \cup {x \in live : x.kind = "module"}
                /\ UNCHANGED ram
             \/ /\ live' = {} \/ WithContext({}, p, live')
                /\ lost' = {}
                /\ ram'  = Unlocked
  /\ UNCHANGED attempted

(* hmcuda_register_guest_memory, when guest RAM is in state r.             *)
RegisterGuestMemory(r) ==
  /\ attempted' = TRUE
  /\ IF attempted THEN ram' = r ELSE ram' \in {"locked", "refused"}

(* hmcuda_core_cu_device_primary_ctx_retain, CUDA willing.                 *)
Retain ==
  /\ up /\ next < MaxHandles
  /\ \E p \in Pointers :
       /\ WithContext(live, p, live')
       /\ table' = Add("context", Entry(NewHandle, p, 0))
  /\ next' = next + 1
  /\ RegisterGuestMemory(ram)
  /\ UNCHANGED <<up, lost, stale>>

(* The same when CUDA fails: the device is reset, the Context replaced,    *)
(* and CUDA asked once more.                                               *)
RetainResets ==
  /\ up
  /\ stale' = (stale \/ AsksForDead({}))
  /\ lost'  = {}
  /\ \/ /\ live'  = {}
        /\ table' = TableOfNewContext
        /\ next'  = NextOfNewContext
        /\ attempted' = attempted
        /\ ram'   = Unlocked
     \/ /\ next < MaxHandles
        /\ next' = NextOfNewContext + 1
        /\ \E p \in Pointers :
             /\ WithContext({}, p, live')
             /\ table' = [TableOfNewContext EXCEPT !["context"] = <<Entry(next', p, 0)>> \o @]
        /\ RegisterGuestMemory(Unlocked)
  /\ UNCHANGED up

(* hmcuda_core_cu_stream_get_ctx: a context the table does not list is     *)
(* added.                                                                  *)
StreamGetCtx ==
  /\ up /\ next < MaxHandles
  /\ \E x \in Contexts(live) :
       /\ ~Listed("context", x.ptr)
       /\ table' = Add("context", Entry(NewHandle, x.ptr, 0))
  /\ next' = next + 1
  /\ UNCHANGED <<up, live, lost, ramVars, stale>>

------------------------------------------------------------------------------
Next ==
  \/ InitSession \/ Retain \/ RetainResets \/ StreamGetCtx
  \/ StreamCreate \/ EventCreate \/ MemCreate \/ RegisterFatbin
  \/ MemAlloc \/ AddressReserve
  \/ \E h \in 1..MaxHandles :
       \/ StreamDestroy(h) \/ EventDestroy(h) \/ MemRelease(h)
       \/ \E s \in Stubs : RegisterFunction(h, s)
  \/ \E a \in Addresses : MemFree(a) \/ AddressFree(a)

Spec == Init /\ [][Next]_vars

------------------------------------------------------------------------------
Objects ==
  [kind : Counted, ptr : Pointers, size : {0}]
    \cup [kind : {"mem", "va"}, ptr : Addresses, size : Nat \ {0}]

(* Type correctness of the table and of CUDA's objects: handles from the   *)
(* counter are those given out, and never 0, which stands for no handle.   *)
TypeOK ==
  /\ up \in BOOLEAN /\ next \in 0..MaxHandles
  /\ live \subseteq Objects
  /\ DOMAIN table = Types
  /\ \A t \in Counted :
       table[t] \in Seq([handle : 1..next, ptr : Pointers, size : {0}])
  /\ table["mem"] \in Seq([handle : Addresses, ptr : Addresses, size : Nat \ {0}])
  /\ table["function"] \in Seq([handle : Stubs, ptr : Pointers, size : {0}])
  /\ lost \subseteq live
  /\ attempted \in BOOLEAN /\ ram \in {"pageable", "locked", "refused"}
  /\ stale \in BOOLEAN

(* Whatever the table lists exists, through failed destroy calls, resets   *)
(* and sessions that replace each other: a lookup never gives a handler a  *)
(* pointer to something gone.                                              *)
EntriesAreLive ==
  \A t \in Types : \A i \in DOMAIN table[t] : Behind(t, table[t][i]) \cap live # {}

(* The ranges of the MEM list do not overlap, and each starts at its       *)
(* handle: hmcuda_res_get, which takes the first range that has the        *)
(* address, gives back the address itself.                                 *)
RangesDisjoint ==
  LET m == table["mem"]
  IN \A i, j \in DOMAIN m :
       /\ m[i].handle = m[i].ptr
       /\ i # j => m[i].ptr + m[i].size <= m[j].ptr \/ m[j].ptr + m[j].size <= m[i].ptr

(* Each object of the guest is listed exactly once, or CUDA was asked to   *)
(* destroy it and would not, or it is of a kind that nothing destroys:     *)
(* the table neither forgets an object nor frees it twice.                 *)
ListedOnce ==
  \A x \in live :
    \/ x \in lost
    \/ x.kind = "context"
    \/ \E t \in Types \ {"function"} : x.kind \in Kinds(t) /\
         \E i \in DOMAIN table[t] : \A j \in DOMAIN table[t] :
           x \in Behind(t, table[t][j]) <=> i = j

(* What keeps the rest: no two entries stand for one object, but several   *)
(* may for the one context; what the table has given up is not listed any  *)
(* more; and every other object is.                                        *)
Distinct ==
  \A t \in Counted \ {"context"} : \A i, j \in DOMAIN table[t] :
    i # j => table[t][i].ptr # table[t][j].ptr

LostUnlisted ==
  \A t \in Freed : \A i \in DOMAIN table[t] : Behind(t, table[t][i]) \cap lost = {}

LiveListed ==
  \A x \in live : \/ x \in lost \/ x.kind = "context"
                  \/ \E t \in Types \ {"function"} : \E i \in DOMAIN table[t] :
                       x \in Behind(t, table[t][i])

(* The inductive invariant.                                                *)
ResourceInv ==
  /\ TypeOK /\ EntriesAreLive /\ RangesDisjoint
  /\ Distinct /\ LostUnlisted /\ LiveListed

(* A handle from the counter names one object as long as it names any, and *)
(* never another: one kept after a destroy, a reset or the INIT of another *)
(* process finds nothing, not somebody else's object.                      *)
Named(t, h) == {table[t][i].ptr : i \in {j \in DOMAIN table[t] : table[t][j].handle = h}}
HandlesNeverSwitch ==
  [][\A t \in Counted : \A h \in 1..next : Named(t, h)' \subseteq Named(t, h)]_vars

(* core_driver.c:75-76, before hmcuda_ctx_destroy: "All handles (streams,  *)
(* events, modules, functions, memory) are now invalid".  So none of them  *)
(* is given to CUDA any more.                                              *)
OnlyLiveGivenToCuda == ~stale

(* cmd_driver.c:113-114: "Guest RAM is registered with CUDA via            *)
(* cuMemHostRegister at context creation".                                 *)
RamStaysRegistered == attempted => ram # "pageable"
=============================================================================
