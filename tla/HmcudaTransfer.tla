---------------------------- MODULE HmcudaTransfer ----------------------------
(***************************************************************************)
(* What one copy promises to the library that asks for it.  Bytes of its   *)
(* range are moved from the beginning on, each from or to where it lies in *)
(* guest memory; after an error of the daemon none is.  "ok" is said only  *)
(* when all have been moved, "cuda" exactly if the daemon had an error.    *)
(*                                                                         *)
(* That is the promise for kinds of copy the daemon knows.  Of any other   *)
(* (cudaMemcpy with a kind but 1 and 2) nothing is moved, the daemon fails *)
(* it if there is anything to copy, its error is never returned, and the   *)
(* copy ends as "ok" or with an error of the driver.                       *)
(* HmcudaCopy is held to this specification.                               *)
(***************************************************************************)
EXTENDS Naturals

VARIABLES
  transfer,  (* is its kind known to the daemon, bytes in the range, and   *)
             (* where in guest memory each lies                            *)
  done,      (* how many of them have been moved                           *)
  moved,     (* <<place, offset>> pairs                                    *)
  failed,    (* the daemon had an error                                    *)
  result

vars == <<transfer, done, moved, failed, result>>

Init ==
  /\ transfer.known \in BOOLEAN
  /\ transfer.total \in Nat /\ transfer.place \in [0..(transfer.total - 1) -> Nat]
  /\ done = 0 /\ moved = {} /\ failed = FALSE /\ result = "none"

Underway == result = "none" /\ ~failed

Move ==
  /\ Underway /\ transfer.known
  /\ \E n \in (done + 1)..transfer.total :
       /\ done' = n
       /\ moved' = moved \cup {<<transfer.place[k], k>> : k \in done..(n - 1)}
  /\ UNCHANGED <<transfer, failed, result>>

Fail ==
  /\ Underway
  /\ failed' = TRUE
  /\ UNCHANGED <<transfer, done, moved, result>>

Return ==
  /\ result = "none"
  /\ result' \in {"ok", "cuda", "errno"}
  /\ result' = "ok" => IF transfer.known THEN done = transfer.total
                                        ELSE transfer.total = 0 \/ failed
  /\ result' = "cuda" <=> failed /\ transfer.known
  /\ UNCHANGED <<transfer, done, moved, failed>>

Next == Move \/ Fail \/ Return

Spec == Init /\ [][Next]_vars
==============================================================================
