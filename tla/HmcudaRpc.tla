------------------------------ MODULE HmcudaRpc ------------------------------
(***************************************************************************)
(* What one ioctl on /dev/virtio-hmcuda promises to the guest process that *)
(* makes it.  A call asks the host for `plan` requests: one for a simple   *)
(* command, one per batch of pinned pages for a copy, none for a copy of   *)
(* zero bytes.  The host serves them one at a time, in order, each at most *)
(* once, never outside the call, and none after one whose failure was      *)
(* heard.  The caller is told "ok" only when all of them were served and   *)
(* none was heard to fail, and CUDA's error only when one was.             *)
(*                                                                         *)
(* Nothing is heard of the requests of a cudaMemcpy whose kind is neither  *)
(* 1 (to the device) nor 2 (back): the host fails each of them, and the    *)
(* call goes on to the last one and returns "ok".                          *)
(* HmcudaChannel is held to this specification.                            *)
(***************************************************************************)
EXTENDS Naturals

CONSTANTS
  Threads,     (* guest threads that may be inside the ioctl              *)
  MaxBatches   (* the most requests one call is split into                *)

VARIABLES
  phase,    (* phase[t]: is t inside a call                               *)
  heard,    (* heard[t]: the answers to t's requests reach the driver     *)
  plan,     (* plan[t]: requests the current call consists of             *)
  served,   (* served[t]: requests of the call the host has executed      *)
  failed,   (* failed[t]: the last of them returned a CUDA error          *)
  result    (* result[t]: what the last call of t returned, if it is over *)

vars == <<phase, heard, plan, served, failed, result>>

(* "ok": ret 0 and cuda_error 0; "cuda": ret 0 and a CUDA error code;      *)
(* "errno": the ioctl itself failed.                                       *)
Results == {"none", "ok", "cuda", "errno"}

Init ==
  /\ phase  = [t \in Threads |-> "idle"]
  /\ heard  = [t \in Threads |-> TRUE]
  /\ plan   = [t \in Threads |-> 0]
  /\ served = [t \in Threads |-> 0]
  /\ failed = [t \in Threads |-> FALSE]
  /\ result = [t \in Threads |-> "none"]

Invoke(t) ==
  /\ phase[t] = "idle"
  /\ \E n \in 0..MaxBatches : plan' = [plan EXCEPT ![t] = n]
  /\ \E h \in BOOLEAN : heard' = [heard EXCEPT ![t] = h]
  /\ phase'  = [phase EXCEPT ![t] = "called"]
  /\ result' = [result EXCEPT ![t] = "none"]
  /\ UNCHANGED <<served, failed>>

(* A call the driver turns down before anything is sent. *)
Refuse(t) ==
  /\ phase[t] = "idle"
  /\ result' = [result EXCEPT ![t] = "errno"]
  /\ UNCHANGED <<phase, heard, plan, served, failed>>

Serve(t) ==
  /\ phase[t] = "called"
  /\ served[t] < plan[t]
  /\ ~(failed[t] /\ heard[t])
  /\ served' = [served EXCEPT ![t] = @ + 1]
  /\ \E err \in BOOLEAN :
       /\ ~heard[t] => err
       /\ failed' = [failed EXCEPT ![t] = err]
  /\ UNCHANGED <<phase, heard, plan, result>>

Return(t) ==
  /\ phase[t] = "called"
  /\ \E r \in Results \ {"none"} :
       /\ r = "ok"   => served[t] = plan[t] /\ ~(failed[t] /\ heard[t])
       /\ r = "cuda" => failed[t] /\ heard[t]
       /\ result' = [result EXCEPT ![t] = r]
  /\ phase'  = [phase  EXCEPT ![t] = "idle"]
  /\ heard'  = [heard  EXCEPT ![t] = TRUE]
  /\ plan'   = [plan   EXCEPT ![t] = 0]
  /\ served' = [served EXCEPT ![t] = 0]
  /\ failed' = [failed EXCEPT ![t] = FALSE]

Next == \E t \in Threads : Invoke(t) \/ Refuse(t) \/ Serve(t) \/ Return(t)

Spec == Init /\ [][Next]_vars
==============================================================================
