------------------------------ MODULE HmcudaWire ------------------------------
(***************************************************************************)
(* The structures of the wire format and their sizes                       *)
(* (common/include/hmcuda_cmd_runtime.h, hmcuda_cmd_driver.h).  All three  *)
(* programs are built with the same headers for the same ABI, so a         *)
(* structure is known by its command and direction, and a size is what     *)
(* x86-64 makes of the members.                                            *)
(*                                                                         *)
(* A member is a pair of alignment and number: <<4, 3>> is three members,  *)
(* or one array, of 32-bit words.  Adjacent members of one width are one   *)
(* pair, which has the same layout.                                        *)
(***************************************************************************)
EXTENDS Naturals, Sequences, SequencesExt

Bytes(n)  == <<1, n>>
Words(n)  == <<4, n>>
Longs(n)  == <<8, n>>
Dim3      == Words(3)
AllocProp == Words(4)

RoundUp(n, a) == ((n + a - 1) \div a) * a

(* sizeof: each member at the next multiple of its alignment, the whole a  *)
(* multiple of the strictest.                                              *)
Ends(members) ==
  LET end[n \in 0..Len(members)] ==
        IF n = 0 THEN 0
        ELSE RoundUp(end[n - 1], members[n][1]) + members[n][1] * members[n][2]
  IN end
Strictest(members) == Max({1} \cup {members[n][1] : n \in 1..Len(members)})
SizeOf(members)    == RoundUp(Ends(members)[Len(members)], Strictest(members))

Header == SizeOf(<<Words(2)>>)

------------------------------------------------------------------------------
(* Runtime API.                                                            *)

RuntimeRequest == [
  malloc |-> <<Longs(1)>>,            free |-> <<Longs(1)>>,
  memcpy |-> <<Longs(3), Words(2), Longs(1)>>,
  memset |-> <<Longs(1), Words(1), Longs(1)>>,
  launch_kernel |-> <<Longs(1), Dim3, Dim3, Words(1), Longs(1), Words(1)>>,
  stream_create |-> <<Words(1)>>,     stream_synchronize |-> <<Longs(1)>>,
  event_create |-> <<Words(1)>>,      event_record |-> <<Longs(2)>>,
  event_destroy |-> <<Longs(1)>>,     event_synchronize |-> <<Longs(1)>>,
  event_elapsed_time |-> <<Longs(2)>>, device_synchronize |-> <<Words(1)>>,
  register_fatbin |-> <<Longs(1)>>,   register_function |-> <<Longs(2), Words(1)>>,
  push_call_cfg |-> <<Dim3, Dim3, Longs(2)>>,
  init_module |-> <<Longs(1)>>,       get_device_properties |-> <<Words(1)>>,
  set_device |-> <<Words(1)>>,        get_error_string |-> <<Words(1)>>,
  func_get_attributes |-> <<Longs(1)>> ]

(* The mirror of cudaDeviceProp.                                           *)
DeviceProp == <<
  Bytes(256 + 16 + 8), Words(1), Longs(2), Words(2), Longs(1), Words(8), Longs(1),
  Words(2), Longs(2), Words(46), Longs(1), Words(16), Longs(1), Words(12), Longs(1),
  Words(4), Longs(1), Words(76) >>

RuntimeResponse == [
  malloc |-> <<Longs(1)>>,            stream_create |-> <<Longs(1)>>,
  event_create |-> <<Longs(1)>>,      event_elapsed_time |-> <<Words(1)>>,
  register_fatbin |-> <<Longs(1)>>,   register_function |-> <<Words(2)>>,
  pop_call_cfg |-> <<Dim3, Dim3, Longs(2)>>,
  get_device_properties |-> DeviceProp, get_device_count |-> <<Words(1)>>,
  get_error_string |-> <<Words(1)>>,  runtime_get_version |-> <<Words(1)>>,
  func_get_attributes |-> <<Longs(3), Words(13)>> ]

------------------------------------------------------------------------------
(* Driver API.                                                             *)

ControlRequest == [
  cu_init |-> <<Words(1)>>,                   cu_device_get |-> <<Words(1)>>,
  cu_device_get_name |-> <<Words(2)>>,        cu_device_get_attribute |-> <<Words(2)>>,
  cu_device_get_uuid |-> <<Words(1)>>,        cu_device_can_access_peer |-> <<Words(2)>>,
  cu_device_primary_ctx_retain |-> <<Words(1)>>,
  cu_device_primary_ctx_release |-> <<Words(1)>>,
  cu_ctx_set_current |-> <<Longs(1)>>,
  cu_ctx_enable_peer_access |-> <<Longs(1), Words(1)>>,
  cu_stream_create |-> <<Words(1)>>,          cu_stream_destroy |-> <<Longs(1)>>,
  cu_stream_synchronize |-> <<Longs(1)>>,     cu_stream_query |-> <<Longs(1)>>,
  cu_stream_wait_event |-> <<Longs(2), Words(1)>>,
  cu_stream_get_ctx |-> <<Longs(1)>>,         cu_event_create |-> <<Words(1)>>,
  cu_event_destroy |-> <<Longs(1)>>,          cu_event_record |-> <<Longs(2)>>,
  cu_event_elapsed_time |-> <<Longs(2)>> ]

ControlResponse == [
  cu_driver_get_version |-> <<Words(1)>>,     cu_device_get |-> <<Words(1)>>,
  cu_device_get_count |-> <<Words(1)>>,       cu_device_get_name |-> <<Words(1)>>,
  cu_device_get_attribute |-> <<Words(1)>>,   cu_device_get_uuid |-> <<Bytes(16)>>,
  cu_device_can_access_peer |-> <<Words(1)>>,
  cu_device_primary_ctx_retain |-> <<Longs(1)>>,
  cu_ctx_get_device |-> <<Words(1)>>,         cu_stream_create |-> <<Longs(1)>>,
  cu_stream_get_ctx |-> <<Longs(1)>>,         cu_event_create |-> <<Longs(1)>>,
  cu_event_elapsed_time |-> <<Words(1)>> ]

MemoryRequest == [
  cu_mem_alloc |-> <<Longs(1)>>,              cu_mem_free |-> <<Longs(1)>>,
  cu_mem_host_alloc |-> <<Longs(1), Words(1), Longs(2)>>,
  cu_mem_free_host |-> <<Longs(1)>>,
  cu_memset_d32 |-> <<Longs(1), Words(1), Longs(1)>>,
  cu_memcpy_async |-> <<Longs(4)>>,           cu_memcpy_htod |-> <<Longs(3)>>,
  cu_pointer_get_attribute |-> <<Words(1), Longs(1)>>,
  cu_get_error_string |-> <<Words(1)>>,       cu_get_error_name |-> <<Words(1)>> ]

MemoryResponse == [
  cu_mem_alloc |-> <<Longs(1)>>,              cu_pointer_get_attribute |-> <<Longs(1)>>,
  cu_get_error_string |-> <<Words(1)>>,       cu_get_error_name |-> <<Words(1)>> ]

VirtualRequest == [
  cu_mem_create |-> <<Longs(1), AllocProp, Longs(1)>>,
  cu_mem_release |-> <<Longs(1)>>,            cu_mem_map |-> <<Longs(5)>>,
  cu_mem_unmap |-> <<Longs(2)>>,              cu_mem_address_reserve |-> <<Longs(4)>>,
  cu_mem_address_free |-> <<Longs(2)>>,       cu_mem_set_access |-> <<Longs(2), Words(1)>>,
  cu_mem_get_alloc_granularity |-> <<AllocProp, Words(1)>>,
  cu_mem_export |-> <<Longs(1), Words(1), Longs(1)>>,
  cu_mem_import |-> <<Bytes(64), Words(1)>> ]

AccessDesc == <<Words(3)>>

VirtualResponse == [
  cu_mem_create |-> <<Longs(1)>>,             cu_mem_address_reserve |-> <<Longs(1)>>,
  cu_mem_get_alloc_granularity |-> <<Longs(1)>>,
  cu_mem_export |-> <<Bytes(64)>>,            cu_mem_import |-> <<Longs(1)>> ]

MulticastRequest == [
  cu_multicast_create |-> <<Words(2), Longs(1)>>,
  cu_multicast_get_granularity |-> <<Words(2), Longs(1), Words(1)>>,
  cu_multicast_add_device |-> <<Longs(1), Words(1)>>,
  cu_multicast_bind_mem |-> <<Longs(6)>>,
  cu_multicast_unbind |-> <<Longs(1), Words(1), Longs(2)>> ]

MulticastResponse == [
  cu_multicast_create |-> <<Longs(1)>>, cu_multicast_get_granularity |-> <<Longs(1)>> ]
=============================================================================
