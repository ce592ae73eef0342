------------------------------ MODULE HmcudaCopy ------------------------------
(***************************************************************************)
(* The data path of one copy: hmcuda_do_memcpy_gup splits the user range   *)
(* into batches of pinned pages, joins physically adjacent pages into      *)
(* scatter-gather entries, and sends each batch as one request; the daemon *)
(* walks the entries and moves each to or from its place in the device     *)
(* buffer (or, for cuMemHostAlloc, into the buffer it allocates).          *)
(*                                                                         *)
(* The direction does not matter to where a byte goes, so `moved` records  *)
(* pairs: byte of guest physical memory, offset in the device buffer.      *)
(*                                                                         *)
(* What CU_MEMCPY takes to a cuMemHostAlloc buffer, and only that, is      *)
(* searched segment by segment for pointers to such buffers, which the     *)
(* daemon replaces by its own (host/vhost/resource.c); `scanned` records   *)
(* at which words it looks.                                                *)
(*                                                                         *)
(* cudaMemcpy hands the program's kind through.  The driver takes all but  *)
(* 1 for a copy back; the daemon copies for 1 and 2 only.  Of a stray copy *)
(* it fails every batch and writes its response over the first bytes of    *)
(* the pinned data (`spoiled`), where nobody reads it: resp_buf keeps its  *)
(* zeros, which the driver takes for success.                              *)
(***************************************************************************)
EXTENDS Naturals, Sequences, SequencesExt, FiniteSets

CONSTANTS
  PageSize,       (* bytes in a page                                      *)
  WordSize,       (* bytes in a pointer                                   *)
  MaxPages,       (* HMCUDA_MEMCPY_PAGES_PER_BATCH                        *)
  HeaderSize,     (* bytes of hmcuda_resp_header, the whole response      *)
  Addrs, Totals,  (* user addresses and byte counts a copy may have       *)
  FrameMaps       (* page tables: injective, user page -> guest frame     *)

ASSUME CopyAssumption ==
  /\ PageSize \in Nat \ {0} /\ MaxPages \in Nat \ {0}
  /\ HeaderSize \in Nat
  /\ WordSize \in Nat \ {0} /\ PageSize % WordSize = 0
  /\ Addrs \subseteq Nat /\ Totals \subseteq Nat
  /\ \A f \in FrameMaps : \A a \in Addrs, n \in Totals :
       /\ 0..((a + n) \div PageSize) \subseteq DOMAIN f
       /\ \A p, q \in DOMAIN f : f[p] \in Nat /\ (f[p] = f[q] => p = q)

VARIABLES
  job,      (* the call: command, kind, whether the device side is a      *)
            (* cuMemHostAlloc buffer, address, bytes, page table          *)
  pc,
  off,      (* byte_offset                                                *)
  count,    (* current_count, put into the request                        *)
  pages,    (* frames of pages[0 .. pages_this_batch - 1]                 *)
  i, rem,   (* the coalescing loop                                        *)
  sg,       (* sg_batch[0 .. nr_sge - 1]                                  *)
  seg,      (* the daemon's entry, and how much of it is done             *)
  hoff,     (* offset in the daemon's loop                                *)
  err,      (* cuda_error of the daemon's handler                         *)
  resp,     (* cuda_error in resp_buf                                     *)
  result,   (* what the call returns                                      *)
  backed,   (* the daemon has a HOST_MEM entry for this guest_va          *)
  moved,    (* <<physical byte, device offset>> pairs moved so far        *)
  spoiled,  (* physical bytes of the data a response was written over     *)
  scanned   (* offsets in the copy of the words compared with the buffers *)

loopVars == <<count, pages, i, rem, sg>>
hostVars == <<seg, hoff, err, resp, backed, moved, spoiled, scanned>>
vars     == <<job, pc, off, loopVars, hostVars, result>>

(* MEMCPY carries the kind of cudaMemcpy: 1 to the device, 2 back, and 0,  *)
(* 3 and 4 for the rest.  The driver library sends CU_MEMCPY with kind 1   *)
(* or 2, and HOST_ALLOC has 1.  Only CU_MEMCPY looks for its device side   *)
(* among the cuMemHostAlloc buffers.                                       *)
Commands == {"MEMCPY", "CU_MEMCPY", "HOST_ALLOC"}
Kinds    == 0..4
Sendable(j) ==
  /\ j.cmd = "CU_MEMCPY" => j.kind \in {1, 2}
  /\ j.cmd = "HOST_ALLOC" => j.kind = 1
  /\ j.buffer => j.cmd = "CU_MEMCPY"
Jobs == {j \in [cmd : Commands, kind : Kinds, buffer : BOOLEAN,
                addr : Addrs, total : Totals, frame : FrameMaps] : Sendable(j)}

Stray    == job.kind \notin {1, 2}
Searched == job.cmd = "CU_MEMCPY" /\ job.kind = 1 /\ job.buffer

------------------------------------------------------------------------------
CeilDiv(a, b) == (a + b - 1) \div b
Least(a, b)   == IF a < b THEN a ELSE b

(* How many bytes come before each entry ends.                             *)
Offsets(entries) ==
  LET at[n \in 0..Len(entries)] == IF n = 0 THEN 0 ELSE at[n - 1] + entries[n].len
  IN at
Sum(entries) == Offsets(entries)[Len(entries)]

(* The bytes of an entry, and of a set of pinned frames, in guest memory.  *)
Bytes(base, len) == {base + b : b \in 0..(len - 1)}
PageBytes(fs)    == UNION {Bytes(f * PageSize, PageSize) : f \in fs}

(* Guest physical address of byte k of the user range.                     *)
Phys(k) == (job.frame[(job.addr + k) \div PageSize] * PageSize)
             + ((job.addr + k) % PageSize)

Init ==
  /\ job \in Jobs
  /\ pc = "loop"
  /\ off = 0 /\ count = 0 /\ pages = <<>>
  /\ i = 0 /\ rem = 0 /\ sg = <<>>
  /\ seg = [n |-> 1, done |-> 0] /\ hoff = 0 /\ err = FALSE /\ resp = FALSE
  /\ result = "none" /\ backed = FALSE
  /\ moved = {} /\ spoiled = {} /\ scanned = {}

(* cur_page_off and pages_this_batch of the batch at byte_offset; pg_off   *)
(* of page i of it.                                                        *)
PageOff    == (job.addr + off) % PageSize
BatchPages == Least(MaxPages, CeilDiv(PageOff + job.total - off, PageSize))
PgOff      == IF i = 0 THEN PageOff ELSE 0

Stop(r) == pc' = "done" /\ result' = r

------------------------------------------------------------------------------
(* Seeded faults: variants of definitions below that the checks must tell  *)
(* from the code.                                                          *)

(* The batch loop tests byte_offset <= total_count.                        *)
OnePastEnd == off <= job.total

(* The capacity of a batch ignores where in its first page it starts.      *)
CountFromPageStart == Least(BatchPages * PageSize, job.total - off)

(* Pages are joined without comparing page frame numbers.                  *)
AlwaysJoins == sg # <<>>

(* A partial pin is not an error.                                          *)
PartialPinIsOk ==
  /\ pc = "loop" /\ off < job.total
  /\ Stop("ok")
  /\ UNCHANGED <<job, off, loopVars, hostVars>>

------------------------------------------------------------------------------
(* The driver.                                                             *)

(* current_count: the batch ends with its last page or with the copy.      *)
BatchCount == Least(BatchPages * PageSize - PageOff, job.total - off)

(* while (byte_offset < args->total_count)                                 *)
More == off < job.total

StartBatch ==
  /\ pc = "loop" /\ More
  /\ pc'    = "coalesce"
  /\ pages' = [p \in 1..BatchPages |-> job.frame[(job.addr + off) \div PageSize + p - 1]]
  /\ count' = BatchCount
  /\ rem'   = BatchCount
  /\ i' = 0 /\ sg' = <<>>
  /\ UNCHANGED <<job, off, hostVars, result>>

(* Not all pages of the batch could be pinned.                             *)
PinFails ==
  /\ pc = "loop" /\ More
  /\ Stop("errno")
  /\ UNCHANGED <<job, off, loopVars, hostVars>>

(* pg_len of page i; whether it continues the last entry.                  *)
PgLen == Least(PageSize - PgOff, rem)
Joins == sg # <<>> /\ pages[i + 1] = pages[i] + 1

(* One turn of the greedy coalescing loop.                                 *)
Coalesce ==
  /\ pc = "coalesce" /\ i < Len(pages) /\ rem > 0
  /\ sg'  = IF Joins
            THEN [sg EXCEPT ![Len(sg)].len = @ + PgLen]
            ELSE Append(sg, [base |-> pages[i + 1] * PageSize + PgOff, len |-> PgLen])
  /\ rem' = rem - PgLen
  /\ i'   = i + 1
  /\ UNCHANGED <<job, pc, off, count, pages, hostVars, result>>

Coalesced == pc = "coalesce" /\ (i >= Len(pages) \/ rem = 0)

(* How many bytes the daemon takes from the batch: the request's count,    *)
(* or for host_alloc everything after the request structure.               *)
Wanted == IF job.cmd = "HOST_ALLOC" THEN Sum(sg) ELSE count

(* The request is on the ring; the daemon's first look at it is whether it *)
(* knows the kind, and whether there are as many bytes as it wants.        *)
Submit ==
  /\ Coalesced
  /\ pc'  = "host"
  /\ seg' = [n |-> 1, done |-> 0]
  /\ err' = (Stray \/ Sum(sg) < Wanted)
  /\ UNCHANGED <<job, off, loopVars, hoff, resp, backed, moved, spoiled, scanned, result>>

(* virtqueue_add_sgs finds no room.                                        *)
SubmitFails ==
  /\ Coalesced
  /\ Stop("errno")
  /\ pages' = <<>>
  /\ UNCHANGED <<job, off, count, i, rem, sg, hostVars>>

(* The pages are unpinned and resp_buf is read: the next batch, or the end *)
(* with the CUDA error of this one.                                        *)
Reap ==
  /\ pc = "reap"
  /\ pages' = <<>>
  /\ IF resp THEN Stop("cuda") /\ UNCHANGED <<off, hoff>>
             ELSE /\ pc' = "loop" /\ off' = off + count /\ hoff' = 0
                  /\ UNCHANGED result
  /\ UNCHANGED <<job, count, i, rem, sg, seg, err, resp, backed, moved, spoiled, scanned>>

LoopDone ==
  /\ pc = "loop" /\ ~More
  /\ Stop("ok")
  /\ UNCHANGED <<job, off, loopVars, hostVars>>

------------------------------------------------------------------------------
(* The daemon's loop over the segments.  An entry that crosses a boundary  *)
(* of the daemon's mapping of guest memory, which is one of pages, arrives *)
(* as several.                                                             *)

Segments == pc = "host" /\ ~err /\ seg.n <= Len(sg) /\ hoff < Wanted

(* How long the next segment of an entry may be.                           *)
Cuts(e, done) ==
  {n \in 1..(e.len - done) : n = e.len - done \/ (e.base + done + n) % PageSize = 0}

(* The last segment may be longer than what is wanted.                     *)
Chunk(n) == IF hoff + n > Wanted THEN Wanted - hoff ELSE n

(* The seeded fault of the scan: it stops before the last word.            *)
AllButLast(n) == {w \in 0..(n - 1) : w % WordSize = 0 /\ w + WordSize < n}

(* hmcuda_buffer_needs_host_ptr_patch, hmcuda_patch_embedded_host_ptrs:    *)
(* the words of a segment, counted from its own beginning.                 *)
WordsIn(n) == {w \in 0..(n - 1) : w % WordSize = 0 /\ w + WordSize <= n}

HostChunk ==
  /\ Segments
  /\ \E n \in Cuts(sg[seg.n], seg.done) :
       /\ moved' = moved \cup {<<sg[seg.n].base + seg.done + b, off + hoff + b>> :
                                 b \in 0..(Chunk(n) - 1)}
       /\ scanned' = IF Searched
                     THEN scanned \cup {off + hoff + w : w \in WordsIn(Chunk(n))}
                     ELSE scanned
       /\ hoff'  = hoff + Chunk(n)
       /\ seg'   = IF seg.done + n = sg[seg.n].len
                   THEN [n |-> seg.n + 1, done |-> 0]
                   ELSE [seg EXCEPT !.done = @ + n]
  /\ backed' = (backed \/ (job.cmd = "HOST_ALLOC" /\ off + hoff = 0))
  /\ UNCHANGED <<job, pc, off, loopVars, err, resp, spoiled, result>>

(* A segment's handle lookup, allocation or CUDA call fails, or the stream *)
(* synchronization after the last one does.                                *)
HostFails ==
  /\ pc = "host" /\ ~err
  /\ err' = TRUE
  /\ UNCHANGED <<job, pc, off, loopVars, seg, hoff, resp, backed, moved, spoiled, scanned,
                 result>>

(* The first n bytes that the entries hold.                                *)
FirstBytes(n) ==
  UNION {{sg[e].base + b : b \in {c \in 0..(sg[e].len - 1) : Offsets(sg)[e - 1] + c < n}} :
           e \in DOMAIN sg}

(* The response goes into resp_buf: the only writable descriptor of a copy *)
(* from the guest, the last one of a copy back.  The handler marks a copy  *)
(* back by d2h_virtqueue, but not a stray one, whose response is written   *)
(* from the first writable descriptor on, which is data.  What the data is *)
(* too short for goes on into resp_buf, and leaves zeros for cuda_error:   *)
(* the header ends with it, and the errors of such a copy are small.       *)
HostRespond ==
  /\ pc = "host" /\ ~Segments
  /\ pc' = "reap"
  /\ resp'    = IF Stray THEN resp ELSE err
  /\ spoiled' = IF Stray THEN spoiled \cup FirstBytes(HeaderSize) ELSE spoiled
  /\ UNCHANGED <<job, off, loopVars, seg, hoff, err, backed, moved, scanned, result>>

------------------------------------------------------------------------------
Finished == pc = "done" /\ UNCHANGED vars

Step == StartBatch \/ PinFails \/ Coalesce \/ Submit \/ SubmitFails \/ Reap
          \/ LoopDone \/ HostChunk \/ HostFails \/ HostRespond

Next == Step \/ Finished

Spec == Init /\ [][Next]_vars

(* Driver and daemon keep running.                                         *)
FairSpec == Spec /\ WF_vars(Step)

------------------------------------------------------------------------------
(* Type correctness; every length stays a natural number.                  *)
TypeOK ==
  /\ job \in Jobs
  /\ pc \in {"loop", "coalesce", "host", "reap", "done"}
  /\ off \in Nat /\ count \in Nat /\ i \in Nat /\ rem \in Nat /\ hoff \in Nat
  /\ pages \in Seq(Nat)
  /\ sg \in Seq([base : Nat, len : Nat])
  /\ seg \in [n : Nat, done : Nat]
  /\ err \in BOOLEAN /\ resp \in BOOLEAN /\ backed \in BOOLEAN
  /\ result \in {"none", "ok", "cuda", "errno"}
  /\ moved \subseteq Nat \X Nat /\ spoiled \subseteq Nat /\ scanned \subseteq Nat

(* At every moment, and wherever a failure stops the copy, exactly the     *)
(* first off + hoff bytes of the user range have been moved, each to the   *)
(* same offset of the device buffer, and no other byte was touched.  A     *)
(* stray copy moves nothing, and no response is written outside its range. *)
MovesPrefix ==
  /\ moved = IF Stray THEN {} ELSE {<<Phys(k), k>> : k \in 0..(off + hoff - 1)}
  /\ spoiled \subseteq IF Stray THEN {Phys(k) : k \in 0..(job.total - 1)} ELSE {}

(* A copy of kind 1 or 2 that reports success has moved every byte of the  *)
(* range.                                                                  *)
OkMeansAll == result = "ok" /\ ~Stray => Cardinality(moved) = job.total

(* The copy as the libraries see it: the first bytes of the range, in      *)
(* order, none after an error, and success only when they are all; of a    *)
(* stray copy none at all, and success.                                    *)
Asked    == [known |-> ~Stray, total |-> job.total,
             place |-> [k \in 0..(job.total - 1) |-> Phys(k)]]
Transfer == INSTANCE HmcudaTransfer
              WITH transfer <- Asked, done <- IF Stray THEN 0 ELSE off + hoff, failed <- err

ImplementsTransfer == Transfer!Spec

(* What the daemon can reach through the descriptors lies inside the pages *)
(* pinned for this batch, no byte twice, and is exactly as long as the     *)
(* request says.                                                           *)
DescriptorsInsidePins ==
  pc = "host" =>
    LET reach == UNION {Bytes(e.base, e.len) : e \in ToSet(sg)}
    IN /\ Sum(sg) = count
       /\ Cardinality(reach) = count
       /\ reach \subseteq PageBytes(ToSet(pages))

(* What goes to a cuMemHostAlloc buffer by CU_MEMCPY, and nothing else, is *)
(* searched; and no pointer in it escapes for being near the end of a      *)
(* page, an entry, a segment or a batch: of data that begins at a multiple *)
(* of the word size exactly the words are compared, whatever pages it lies *)
(* in and wherever it is cut.                                              *)
EmbeddedPointersFound ==
  IF Searched THEN job.addr % WordSize = 0 => scanned = WordsIn(off + hoff)
              ELSE scanned = {}

(* What keeps these.  The entries hold the bytes of the batch so far, in   *)
(* order, and each ends with a page or with the copy;                      *)
Frames    == [p \in 1..BatchPages |-> job.frame[(job.addr + off) \div PageSize + p - 1]]
PageEnd(k) == (job.addr + k) % PageSize = 0 \/ k = job.total
Gathered ==
  pc \in {"coalesce", "host"} =>
    /\ off < job.total /\ pages = Frames /\ count = BatchCount
    /\ rem <= count /\ Sum(sg) = count - rem
    /\ \A n \in DOMAIN sg :
         /\ sg[n].len > 0 /\ PageEnd(off + Offsets(sg)[n])
         /\ \A b \in 0..(sg[n].len - 1) : sg[n].base + b = Phys(off + Offsets(sg)[n - 1] + b)

(* the loop goes page by page;                                             *)
PageByPage ==
  pc = "coalesce" =>
    /\ i <= Len(pages) /\ (sg = <<>> <=> i = 0) /\ hoff = 0
    /\ i = 0 => rem = count
    /\ i > 0 /\ rem > 0 => PageOff + (count - rem) = i * PageSize

(* the daemon is at byte hoff of the batch, and has done all of it unless  *)
(* it reports an error, which of a stray copy it always does;              *)
Position ==
  /\ off + hoff <= job.total
  /\ pc = "loop" => hoff = 0
  /\ pc = "host" => /\ rem = 0 /\ seg.n \in 1..(Len(sg) + 1)
                    /\ hoff = Offsets(sg)[seg.n - 1] + seg.done
                    /\ seg.n = Len(sg) + 1 => seg.done = 0
                    /\ seg.n <= Len(sg) => seg.done < sg[seg.n].len
  /\ pc = "reap" /\ ~err => hoff = count
  /\ pc = "reap" => off + count <= job.total /\ resp = (err /\ ~Stray)
  /\ pc \notin {"reap", "done"} => ~resp
  /\ Stray => hoff = 0 /\ (pc \in {"host", "reap"} \/ off > 0 => err)
  /\ result = "ok" => off + hoff = job.total

(* and it always stops between two words, or at the end of the copy.       *)
Aligned ==
  ~Stray /\ job.addr % WordSize = 0 => (off + hoff) % WordSize = 0 \/ off + hoff = job.total

(* The inductive invariant.                                                *)
CopyInv ==
  /\ TypeOK /\ Gathered /\ PageByPage /\ Position /\ Aligned
  /\ MovesPrefix /\ EmbeddedPointersFound

(* The error of a batch has been reported when the next one begins, or the *)
(* result, unless the copy is stray.                                       *)
Reported ==
  /\ pc \in {"loop", "coalesce"} /\ ~Stray => ~err
  /\ pc # "done" => result = "none"

(* The batch loop ends for every address, length and page table.           *)
Terminates == <>(pc = "done")

(* cuMemHostAlloc of hmcuda_driver.cpp says of the call: "The backend      *)
(* calls real cuMemHostAlloc, copies the page data into real_ptr, and      *)
(* stores the guest_va -> real_ptr mapping."                               *)
HostAllocIsBacked == result = "ok" /\ job.cmd = "HOST_ALLOC" => backed

(* virtio_hmcuda_main.c says above the batch loop: "Returns 0 on success   *)
(* or CUDA error (resp_buf populated)".                                    *)
RespBufPopulated == pc = "reap" => resp = err
==============================================================================
