------------------------------ MODULE HmcudaSizes ------------------------------
(***************************************************************************)
(* How long a request and its response are, in the eyes of the four        *)
(* programs that handle them: the library that makes the call, the         *)
(* transport that lays out the buffer, the driver that finds the lengths   *)
(* in two passes, and the handler in the daemon.  Each has its own list of *)
(* commands, and only a common structure keeps them together.              *)
(*                                                                         *)
(* All lengths are bytes of payload, after the header.  One call at a time *)
(* and no content but the length fields: what the ring does with a buffer  *)
(* is in HmcudaChannel, what a copy does with its pages in HmcudaCopy.     *)
(***************************************************************************)
EXTENDS HmcudaWire, HmcudaParams

CONSTANTS
  Counts,  (* what a caller passes: bytes of an image or of a name,        *)
           (* descriptors                                                  *)
  Texts    (* bytes of the names and strings CUDA has, with the NUL, or 0  *)

ASSUME SizesAssumption == Counts \subseteq Nat /\ Texts \subseteq Nat

VARIABLES
  pc,      (* where the call is                                            *)
  call,    (* its command, and what its caller passed; for a launch, the   *)
           (* kernel and the arguments counted for it                      *)
  buffer,  (* of the transport: bytes of the request, bytes of room        *)
  sizes,   (* req_len and resp_len of the driver                           *)
  host,    (* bytes the daemon has, bytes the handler reads and returns    *)
  text,    (* str_len or name_len of the response                          *)
  answer,  (* bytes of the response that are the daemon's                  *)
  result   (* of the call                                                  *)

vars == <<pc, call, buffer, sizes, host, text, answer, result>>

------------------------------------------------------------------------------
(* The structures.                                                         *)

(* Tables of different commands as one.                                    *)
Together(tables) ==
  [c \in UNION {DOMAIN t : t \in tables} |-> (CHOOSE t \in tables : c \in DOMAIN t)[c]]

Request  == Together({RuntimeRequest, ControlRequest, MemoryRequest, VirtualRequest, MulticastRequest})
Response ==
  Together({RuntimeResponse, ControlResponse, MemoryResponse, VirtualResponse, MulticastResponse})

(* Commands that have the structure of another one.                        *)
Like(c) == CASE c = "cu_memcpy"      -> "memcpy"
             [] c = "get_error_name" -> "get_error_string"
             [] OTHER                -> c

(* A list of commands: of no structure, with a request, with both, and     *)
(* with a response.                                                        *)
List(bare, sends, asks, fetches) ==
  [c \in bare \cup sends \cup asks \cup fetches |->
     [req  |-> IF c \in sends \cup asks   THEN SizeOf(Request[Like(c)])  ELSE 0,
      resp |-> IF c \in asks \cup fetches THEN SizeOf(Response[Like(c)]) ELSE 0]]

RuntimeTexts == {"get_error_string", "get_error_name"}
DriverTexts  == {"cu_get_error_string", "cu_get_error_name", "cu_device_get_name"}
ErrorTexts   == RuntimeTexts \cup (DriverTexts \ {"cu_device_get_name"})

MaxText == 256  (* of the callers' buffers, and of the driver's table      *)
MaxResp == 2048 (* resp_payload of the daemon                              *)

------------------------------------------------------------------------------
(* What the libraries send and expect.                                     *)

CallsMemory == List({}, {"free", "memcpy", "memset"}, {"malloc"}, {})

CallsRuntime == List({},
  {"stream_synchronize", "event_record", "event_synchronize", "event_destroy", "set_device",
   "device_synchronize"},
  {"stream_create", "event_create", "event_elapsed_time", "get_error_string", "get_error_name"},
  {"get_device_count"})

CallsQueries == List({}, {}, {"get_device_properties", "func_get_attributes"},
                     {"runtime_get_version"})

CallsKernels == List({"init"}, {"init_module", "push_call_cfg", "launch_kernel"},
                     {"register_fatbin", "register_function"}, {"pop_call_cfg"})

CallsControl == List({},
  {"cu_init", "cu_device_primary_ctx_release", "cu_ctx_set_current", "cu_ctx_enable_peer_access",
   "cu_stream_destroy", "cu_stream_synchronize", "cu_stream_query", "cu_stream_wait_event",
   "cu_event_destroy", "cu_event_record"},
  {"cu_device_get", "cu_device_get_name", "cu_device_get_attribute", "cu_device_get_uuid",
   "cu_device_can_access_peer", "cu_device_primary_ctx_retain", "cu_stream_create",
   "cu_stream_get_ctx", "cu_event_create", "cu_event_elapsed_time"},
  {"cu_driver_get_version", "cu_device_get_count", "cu_ctx_get_device"})

CallsDriverMemory == List({},
  {"cu_mem_free", "cu_mem_host_alloc", "cu_mem_free_host", "cu_memset_d32", "cu_memcpy_async",
   "cu_memcpy"},
  {"cu_mem_alloc", "cu_pointer_get_attribute", "cu_get_error_string", "cu_get_error_name"}, {})

CallsVirtual == List({},
  {"cu_mem_release", "cu_mem_map", "cu_mem_unmap", "cu_mem_address_free", "cu_mem_set_access",
   "cu_multicast_add_device", "cu_multicast_bind_mem", "cu_multicast_unbind"},
  {"cu_mem_create", "cu_mem_address_reserve", "cu_mem_get_alloc_granularity", "cu_mem_export",
   "cu_mem_import", "cu_multicast_create", "cu_multicast_get_granularity"}, {})

Library == Together({CallsMemory, CallsRuntime, CallsQueries, CallsKernels,
                     CallsControl, CallsDriverMemory, CallsVirtual})

(* What a caller passes with a command.                                    *)
NoKernel == [mangled |-> FALSE]

Passed(c) ==
  CASE c = "launch_kernel" -> {[count |-> CountParams(k), kernel |-> k] : k \in Signatures}
    [] c \in {"register_fatbin", "register_function", "cu_mem_set_access", "cu_device_get_name"} ->
         [count : Counts, kernel : {NoKernel}]
    [] OTHER -> [count : {0}, kernel : {NoKernel}]

(* The length field: args_size counts bytes, 8 to an argument.             *)
Field(c, n) == IF c = "launch_kernel" THEN 8 * n ELSE n

(* Data behind the request structure.                                      *)
Appended(c, n) ==
  CASE c \in {"launch_kernel", "register_fatbin", "register_function"} -> Field(c, n)
    [] c = "cu_mem_set_access" -> n * SizeOf(AccessDesc)
    [] OTHER -> 0

(* Room for data behind the response structure.                            *)
Expected(c, n) ==
  CASE c \in ErrorTexts -> MaxText
    [] c = "cu_device_get_name" -> n
    [] OTHER -> 0

------------------------------------------------------------------------------
(* hmcuda_runtime_get_sizes and hmcuda_driver_get_sizes.                   *)

SizesRuntime == List({"init"},
  {"free", "memcpy", "memset", "launch_kernel", "stream_synchronize", "event_record",
   "event_synchronize", "event_destroy", "device_synchronize", "push_call_cfg", "init_module",
   "set_device"},
  {"malloc", "stream_create", "event_create", "event_elapsed_time", "get_device_properties",
   "get_error_string", "get_error_name", "register_fatbin", "register_function",
   "func_get_attributes"},
  {"pop_call_cfg", "get_device_count", "runtime_get_version"})

SizesControl == List({},
  {"cu_init", "cu_device_primary_ctx_release", "cu_ctx_set_current", "cu_ctx_enable_peer_access",
   "cu_stream_destroy", "cu_stream_synchronize", "cu_stream_query", "cu_stream_wait_event",
   "cu_event_destroy", "cu_event_record"},
  {"cu_device_get", "cu_device_get_name", "cu_device_get_attribute", "cu_device_get_uuid",
   "cu_device_can_access_peer", "cu_device_primary_ctx_retain", "cu_stream_create",
   "cu_stream_get_ctx", "cu_event_create", "cu_event_elapsed_time"},
  {"cu_driver_get_version", "cu_device_get_count", "cu_ctx_get_device"})

SizesMemory == List({},
  {"cu_mem_free", "cu_mem_host_alloc", "cu_mem_free_host", "cu_memset_d32", "cu_memcpy_async",
   "cu_memcpy_htod", "cu_memcpy"},
  {"cu_mem_alloc", "cu_pointer_get_attribute", "cu_get_error_string", "cu_get_error_name"}, {})

SizesVirtual == List({},
  {"cu_mem_release", "cu_mem_map", "cu_mem_unmap", "cu_mem_address_free", "cu_mem_set_access",
   "cu_multicast_add_device", "cu_multicast_bind_mem", "cu_multicast_unbind"},
  {"cu_mem_create", "cu_mem_address_reserve", "cu_mem_get_alloc_granularity", "cu_mem_export",
   "cu_mem_import", "cu_multicast_create", "cu_multicast_get_granularity"}, {})

(* hmcuda_cmd_get_sizes without a payload.                                 *)
Sizes == Together({SizesRuntime, SizesControl, SizesMemory, SizesVirtual})

(* The seeded fault of the first pass: the text of an error is forgotten.  *)
NoRoomForTexts(c) == Sizes[c]

Pass1Sizes(c) ==
  [Sizes[c] EXCEPT !.resp = @ + (IF c \in RuntimeTexts THEN MaxText ELSE 0)]

(* Seeded faults of the second pass: the cases are forgotten; descriptors  *)
(* are counted with the flags of 64 bits they have in the CUDA API.        *)
NothingTrails(c, field) == 0
WideDescTrails(c, field) == IF c = "cu_mem_set_access" THEN 16 * field ELSE field

(* What the second pass adds to the request.                               *)
Trails(c, field) ==
  CASE c \in {"launch_kernel", "register_fatbin", "register_function"} -> field
    [] c = "cu_mem_set_access" -> field * SizeOf(AccessDesc)
    [] OTHER -> 0

------------------------------------------------------------------------------
(* The handlers of the daemon.                                             *)

HandlesRuntime == List({"init", "device_synchronize"},
  {"free", "memcpy", "memset", "launch_kernel", "stream_synchronize", "event_record",
   "event_synchronize", "event_destroy", "push_call_cfg", "init_module", "set_device"},
  {"malloc", "stream_create", "event_create", "event_elapsed_time", "get_device_properties",
   "get_error_string", "get_error_name", "register_fatbin", "register_function",
   "func_get_attributes"},
  {"pop_call_cfg", "get_device_count", "runtime_get_version"})

HandlesControl == List({},
  {"cu_init", "cu_device_primary_ctx_release", "cu_ctx_set_current", "cu_ctx_enable_peer_access",
   "cu_stream_destroy", "cu_stream_synchronize", "cu_stream_query", "cu_stream_wait_event",
   "cu_event_destroy", "cu_event_record"},
  {"cu_device_get", "cu_device_get_name", "cu_device_get_attribute", "cu_device_get_uuid",
   "cu_device_can_access_peer", "cu_device_primary_ctx_retain", "cu_stream_create",
   "cu_stream_get_ctx", "cu_event_create", "cu_event_elapsed_time"},
  {"cu_driver_get_version", "cu_device_get_count", "cu_ctx_get_device"})

HandlesMemory == List({},
  {"cu_mem_free", "cu_mem_host_alloc", "cu_mem_free_host", "cu_memset_d32", "cu_memcpy_async",
   "cu_memcpy_htod", "cu_memcpy"},
  {"cu_mem_alloc", "cu_pointer_get_attribute", "cu_get_error_string", "cu_get_error_name"}, {})

HandlesVirtual == List({},
  {"cu_mem_release", "cu_mem_map", "cu_mem_unmap", "cu_mem_address_free", "cu_mem_set_access",
   "cu_multicast_add_device", "cu_multicast_bind_mem", "cu_multicast_unbind"},
  {"cu_mem_create", "cu_mem_address_reserve", "cu_mem_get_alloc_granularity", "cu_mem_export",
   "cu_mem_import", "cu_multicast_create", "cu_multicast_get_granularity"}, {})

(* The seeded fault of the dispatcher: it asks one library only.           *)
OnlyRuntime == HandlesRuntime

(* hmcuda_dispatch_cmd.                                                    *)
Handlers == Together({HandlesRuntime, HandlesControl, HandlesMemory, HandlesVirtual})

(* What a handler reads behind the request structure: whole arguments, an  *)
(* image, a name, descriptors.                                             *)
ReadsBehind(c, field) ==
  CASE c = "launch_kernel" -> (field \div 8) * 8
    [] c \in {"register_fatbin", "register_function"} -> field
    [] c = "cu_mem_set_access" -> field * SizeOf(AccessDesc)
    [] OTHER -> 0

(* str_len or name_len for a text of len bytes; a device name is cut.      *)
TextLength(c, field, len) ==
  IF c = "cu_device_get_name" THEN Min({Max({len, 1}), IF field > 0 THEN field ELSE 256}) ELSE len

(* resp_payload_len: without a text the runtime API has no response.       *)
Returned(c, len) ==
  IF c \in RuntimeTexts /\ len = 0 THEN 0
  ELSE Handlers[c].resp + (IF c \in RuntimeTexts \cup DriverTexts THEN len ELSE 0)

------------------------------------------------------------------------------
Nothing == [cmd |-> "none", count |-> 0, kernel |-> NoKernel]

Init ==
  /\ pc = "idle" /\ call = Nothing /\ result = "none"
  /\ buffer = [filled |-> 0, room |-> 0] /\ sizes = [req |-> 0, resp |-> 0]
  /\ host = [heard |-> 0, reads |-> 0, returned |-> 0] /\ text = 0 /\ answer = 0

(* A library function, and hmcuda_transport_dispatch up to the ioctl: one  *)
(* buffer for request and response.                                        *)
Dispatch(c, n, k) ==
  /\ pc = "idle"
  /\ pc' = "ioctl" /\ call' = [cmd |-> c, count |-> n, kernel |-> k] /\ result' = "none"
  /\ LET filled == Library[c].req + Appended(c, n)
     IN buffer' = [filled |-> filled, room |-> Max({filled, Library[c].resp + Expected(c, n)})]
  /\ sizes' = [req |-> 0, resp |-> 0] /\ text' = 0 /\ answer' = 0
  /\ host' = [heard |-> 0, reads |-> 0, returned |-> 0]

Return(how) == pc' = "idle" /\ result' = how

(* hmcuda_get_req_sizes, first half.                                       *)
Pass1 ==
  /\ pc = "ioctl"
  /\ IF call.cmd \in DOMAIN Sizes
     THEN sizes' = Pass1Sizes(call.cmd) /\ pc' = "sized" /\ UNCHANGED result
     ELSE Return("EINVAL") /\ UNCHANGED sizes
  /\ UNCHANGED <<call, buffer, host, text, answer>>

(* The second half: the response keeps its length, whatever the tables add *)
(* for it.                                                                 *)
Pass2 ==
  /\ pc = "sized"
  /\ sizes' = IF sizes.req = 0 THEN sizes
              ELSE [sizes EXCEPT !.req = @ + Trails(call.cmd, Field(call.cmd, call.count))]
  /\ pc' = "resized"
  /\ UNCHANGED <<call, buffer, host, text, answer, result>>

(* No memory for the buffers, or a copy from the caller fails.             *)
Refuse ==
  /\ pc \in {"sized", "resized"}
  /\ Return("errno")
  /\ UNCHANGED <<call, buffer, sizes, host, text, answer>>

(* hmcuda_build_req_buf; the ring; the copy the daemon makes.              *)
Build ==
  /\ pc = "resized"
  /\ pc' = "sent" /\ host' = [host EXCEPT !.heard = sizes.req]
  /\ UNCHANGED <<call, buffer, sizes, text, answer, result>>

(* The seeded fault of the response: buf_to_iov does not stop at its end.  *)
Uncut(len, room) == len

(* buf_to_iov.                                                             *)
Cut(len, room) == Min({len, room})

(* hmcuda_process_vq and a handler, and copy_to_user.                      *)
Serve(len) ==
  /\ pc = "sent"
  /\ IF call.cmd \notin DOMAIN Handlers
     THEN Return("999") /\ UNCHANGED <<host, text, answer>>
     ELSE LET field == Field(call.cmd, call.count)
              length == TextLength(call.cmd, field, len)
          IN /\ host' = [host EXCEPT
                  !.reads    = Handlers[call.cmd].req + ReadsBehind(call.cmd, field),
                  !.returned = Returned(call.cmd, length)]
             /\ text' = length /\ answer' = Cut(Returned(call.cmd, length), sizes.resp)
             /\ pc' = "served" /\ UNCHANGED result
  /\ UNCHANGED <<call, buffer, sizes>>

(* hmcuda_transport_dispatch after the ioctl: the response counts if CUDA  *)
(* has no error to report.                                                 *)
Finish ==
  /\ pc = "served"
  /\ Return("CUDA error") \/ Return("ok")
  /\ UNCHANGED <<call, buffer, sizes, host, text, answer>>

Next ==
  \/ \E c \in DOMAIN Library : \E x \in Passed(c) : Dispatch(c, x.count, x.kernel)
  \/ Pass1 \/ Pass2 \/ Refuse \/ Build \/ Finish
  \/ \E len \in Texts : Serve(len)

Spec == Init /\ [][Next]_vars

------------------------------------------------------------------------------
(* What the caller of a successful call reads: the response structure, and *)
(* as much of a text as its own buffer takes.  A structure that came back  *)
(* zeroed has no text.                                                     *)
Copied(c, n) ==
  CASE c = "cu_device_get_name" -> Min({text, n})
    [] c \in ErrorTexts -> IF text < MaxText THEN text ELSE MaxText - 1
    [] OTHER -> 0

Read == Library[call.cmd].resp + Copied(call.cmd, call.count)

(* Type correctness; the response the daemon makes fits its buffer, and    *)
(* what arrives fits the driver's.                                         *)
TypeOK ==
  /\ pc \in {"idle", "ioctl", "sized", "resized", "sent", "served"}
  /\ result \in {"none", "EINVAL", "errno", "999", "CUDA error", "ok"}
  /\ call.cmd \in {"none"} \cup DOMAIN Library /\ call.count \in Nat
  /\ buffer.room \in Nat /\ buffer.filled \in 0..buffer.room
  /\ sizes.req \in Nat /\ sizes.resp \in Nat
  /\ host.returned \in 0..MaxResp /\ answer \in 0..sizes.resp

(* The inductive invariant of the proofs: what all four know of the        *)
(* lengths at each step of a call, and then until the next one.            *)
Made ==
  /\ call.cmd \in DOMAIN Library
  /\ \E x \in Passed(call.cmd) : call.count = x.count /\ call.kernel = x.kernel
  /\ buffer.filled = Library[call.cmd].req + Appended(call.cmd, call.count)
  /\ buffer.room =
       Max({buffer.filled, Library[call.cmd].resp + Expected(call.cmd, call.count)})

Unsized == sizes = [req |-> 0, resp |-> 0]
Once    == sizes = Pass1Sizes(call.cmd)
Twice   == sizes = [req |-> buffer.filled, resp |-> Pass1Sizes(call.cmd).resp]

Heard(n) == host = [heard |-> n, reads |-> 0, returned |-> 0] /\ text = 0 /\ answer = 0
Served ==
  LET field == Field(call.cmd, call.count)
  IN /\ host = [heard |-> buffer.filled, returned |-> Returned(call.cmd, text),
                reads |-> Handlers[call.cmd].req + ReadsBehind(call.cmd, field)]
     /\ answer = Cut(host.returned, sizes.resp)
     /\ \E len \in Texts : text = TextLength(call.cmd, field, len)

Untouched ==
  /\ pc = "idle" /\ result = "none" /\ call = Nothing
  /\ buffer = [filled |-> 0, room |-> 0] /\ Unsized /\ Heard(0)
Underway ==
  /\ Made /\ result = "none"
  /\ \/ pc = "ioctl" /\ Unsized /\ Heard(0)
     \/ pc = "sized" /\ Once /\ Heard(0)
     \/ pc = "resized" /\ Twice /\ Heard(0)
     \/ pc = "sent" /\ Twice /\ Heard(buffer.filled)
     \/ pc = "served" /\ Twice /\ Served
Over ==
  /\ Made /\ pc = "idle"
  /\ \/ result = "errno" /\ (Once \/ Twice) /\ Heard(0)
     \/ result \in {"CUDA error", "ok"} /\ Twice /\ Served

SizesInv == Untouched \/ Underway \/ Over

(* The driver copies only what the caller has put into its buffer, and     *)
(* back only what the buffer has room for, in either pass and whatever the *)
(* lengths: the four lists agree on every command.                         *)
DriverStaysInside == sizes.req <= buffer.filled /\ sizes.resp <= buffer.room

(* A handler reads no byte that the caller has not sent: the daemon learns *)
(* the length of arguments, names and descriptors only from the request.   *)
HandlerStaysInside == host.reads <= host.heard

(* Every command a library sends is known to the driver and the daemon.    *)
NoCommandUnknown == result \notin {"EINVAL", "999"}

(* What a caller reads of a successful response has come from the daemon,  *)
(* or is the zero of an empty text.                                        *)
AnswerDelivered ==
  (result = "ok" /\ call.cmd \notin DriverTexts) =>
     Read <= IF call.cmd \in RuntimeTexts /\ text = 0 THEN sizes.resp ELSE answer

(* driver/cmd_driver.c:152: "Variable-length string appended by host;      *)
(* guest allocates max", and driver/virtio_hmcuda_main.c:77-78: "Pass 2:   *)
(* re-query with the real payload to account for variable-length trailing  *)
(* data".  So the texts of the driver API arrive as those of the runtime   *)
(* API do.                                                                 *)
TextDelivered == (result = "ok" /\ call.cmd \in DriverTexts) => Read <= answer

(* What the daemon gives to a kernel: pointers to the arguments, after the *)
(* request structure.                                                      *)
Given == (host.reads - Library[call.cmd].req) \div 8

Launched == result = "ok" /\ call.cmd = "launch_kernel"

(* An ordinary kernel is launched with as many arguments as it has         *)
(* parameters, however their types and its template arguments nest.        *)
PlainKernelsGetArguments ==
  (Launched /\ Plain(call.kernel)) => Given = Len(call.kernel.params)

(* guest/intercept/hmcuda_runtime.cpp:41: "Count kernel parameters by      *)
(* demangling the device function name."  So for every name there is.      *)
KernelsGetArguments ==
  (Launched /\ call.kernel.mangled) => Given = Len(call.kernel.params)
=============================================================================
