------------------------- MODULE HmcudaHostMemProofs -------------------------
(***************************************************************************)
(* Host memory in two copies, for any threads, addresses and versions, and *)
(* a stream and a list of any length.                                      *)
(***************************************************************************)
EXTENDS HmcudaHostMem, SequenceTheorems, WellFoundedInduction, TLAPS

(* What the lookup of a finds, when it finds something.                    *)
Seen(a) == host[Holder(a)]

LEMMA MaxOf ==
  ASSUME NEW S, NEW n \in Nat, S \subseteq 1..n, S # {}
  PROVE  Max(S) \in S /\ \A i \in S : i <= Max(S)
<1> DEFINE T == {n - i : i \in S}
<1>1. T \subseteq Nat /\ T # {}
  <2>1. \A i \in S : n - i \in Nat
    OBVIOUS
  <2>2. PICK i \in S : TRUE
    OBVIOUS
  <2>3. n - i \in T
    OBVIOUS
  <2>4. QED
    BY <2>1, <2>3
<1>2. IsWellFoundedOn(OpToRel(<, Nat), Nat)
  BY NatLessThanWellFounded
<1>3. PICK x \in T : \A y \in T : ~ (<<y, x>> \in OpToRel(<, Nat))
  BY <1>1, <1>2, WFMin
<1>4. PICK m \in S : x = n - m
  BY <1>3 DEF T
<1>5. \A i \in S : i <= m
  <2>1. SUFFICES ASSUME NEW i \in S, ~(i <= m) PROVE FALSE
    OBVIOUS
  <2>2. i \in Nat /\ m \in Nat /\ n - i \in T /\ n - i < n - m
    BY <2>1, <1>4 DEF T
  <2>3. <<n - i, x>> \in OpToRel(<, Nat)
    BY <1>1, <1>4, <2>2 DEF OpToRel
  <2>4. QED
    BY <1>3, <2>2, <2>3
<1>6. QED
  BY <1>5 DEF Max

------------------------------------------------------------------------------
(* What the type invariant says, part by part.                             *)

LEMMA HostTypes ==
  ASSUME TypeOK
  PROVE  /\ host \in Seq(Entries) /\ Len(host) \in Nat /\ DOMAIN host = 1..Len(host)
         /\ \A i \in DOMAIN host :
              /\ host[i] \in Entries /\ host[i].va \in Addresses
              /\ DOMAIN host[i].data \subseteq Addresses
              /\ host[i].data \in [DOMAIN host[i].data -> Versions]
<1>1. host \in Seq(Entries)
  BY DEF TypeOK
<1>2. \A i \in DOMAIN host : host[i] \in Entries
  BY <1>1, ElementOfSeq, LenProperties
<1>3. \A e \in Entries : /\ e.va \in Addresses /\ DOMAIN e.data \subseteq Addresses
                         /\ e.data \in [DOMAIN e.data -> Versions]
  <2>1. SUFFICES ASSUME NEW e \in Entries
                 PROVE  /\ e.va \in Addresses /\ DOMAIN e.data \subseteq Addresses
                        /\ e.data \in [DOMAIN e.data -> Versions]
    OBVIOUS
  <2>2. e.va \in Addresses /\ \E D \in SUBSET Addresses : e.data \in [D -> Versions]
    BY DEF Entries
  <2>3. QED
    BY <2>2
<1>4. QED
  BY <1>1, <1>2, <1>3, LenProperties

LEMMA QueueTypes ==
  ASSUME TypeOK
  PROVE  /\ queue \in Seq(Operations) /\ Len(queue) \in Nat /\ DOMAIN queue = 1..Len(queue)
         /\ \A k \in DOMAIN queue :
              /\ queue[k] \in Operations /\ queue[k].op \in {"kernel", "htod", "dtoh"}
              /\ queue[k].words \subseteq Addresses /\ queue[k].lost \subseteq Addresses
<1>1. queue \in Seq(Operations)
  BY DEF TypeOK
<1>2. \A k \in DOMAIN queue : queue[k] \in Operations
  BY <1>1, ElementOfSeq, LenProperties
<1>3. \A o \in Operations : /\ o.op \in {"kernel", "htod", "dtoh"}
                            /\ o.words \subseteq Addresses /\ o.lost \subseteq Addresses
  BY DEF Operations
<1>4. QED
  BY <1>1, <1>2, <1>3, LenProperties

LEMMA CallTypes ==
  ASSUME TypeOK, NEW t \in Threads
  PROVE  /\ call \in [Threads -> Calls] /\ call[t] \in Calls
         /\ call[t].at \in {"idle", "sync", "mark"} /\ call[t].args \subseteq Addresses
         /\ call[t].todo \subseteq call[t].args
         /\ call[t].at = "idle" => call[t].args = {}
         /\ call[t].at = "mark" => call[t].todo = {}
<1>1. /\ call \in [Threads -> Calls] /\ call[t].todo \subseteq call[t].args
      /\ call[t].at = "idle" => call[t] = Idle
      /\ call[t].at = "mark" => call[t].todo = {}
  BY DEF TypeOK
<1>2. call[t] \in Calls
  BY <1>1
<1>3. QED
  BY <1>1, <1>2 DEF Calls, Idle

(* Where buffers are.                                                      *)
LEMMA Geometry ==
  ASSUME TypeOK
  PROVE  /\ Buffers \subseteq Addresses
         /\ \A b \in Buffers : b \in Words(b) /\ Words(b) \subseteq Addresses /\ Words(b) \subseteq WordsOf(Buffers)
         /\ \A b, c \in Buffers : \A a : a \in Words(b) /\ a \in Words(c) => b = c
         /\ WordsOf(Buffers) \subseteq Addresses
         /\ \A a \in WordsOf(Buffers) : \E b \in Buffers : a \in Words(b)
         /\ \A b \in Addresses : dirty[b] => b \in Buffers
<1>1. /\ \A b, c \in Buffers : b # c => Words(b) \cap Words(c) = {}
      /\ WordsOf(Buffers) \subseteq Addresses
      /\ size \in [Addresses -> 0..Size] /\ Size \in Nat
      /\ \A b \in Addresses : dirty[b] => b \in Buffers
  BY HostMemAssumption DEF TypeOK
<1>2. Buffers \subseteq Addresses
  BY DEF Buffers
<1>3. \A b \in Buffers : b \in Words(b)
  <2>1. SUFFICES ASSUME NEW b \in Buffers PROVE b \in Words(b)
    OBVIOUS
  <2>2. b \in Nat /\ size[b] \in Nat /\ size[b] # 0
    BY <1>1 DEF Buffers, Addresses
  <2>3. QED
    BY <2>2 DEF Words, Span
<1>4. \A b \in Buffers : Words(b) \subseteq WordsOf(Buffers)
  BY DEF WordsOf
<1>5. \A a \in WordsOf(Buffers) : \E b \in Buffers : a \in Words(b)
  BY DEF WordsOf
<1>6. QED
  BY <1>1, <1>2, <1>3, <1>4, <1>5

LEMMA SameBuffers ==
  ASSUME UNCHANGED size
  PROVE  /\ Buffers' = Buffers /\ WordsOf(Buffers)' = WordsOf(Buffers)
         /\ \A b : Words(b)' = Words(b)
<1>1. size' = size
  OBVIOUS
<1>2. Buffers' = Buffers /\ \A b : Words(b)' = Words(b)
  BY <1>1 DEF Buffers, Words
<1>3. QED
  BY <1>2 DEF WordsOf

LEMMA QueuedWords ==
  ASSUME NEW op, NEW a
  PROVE  /\ a \in Queued(op) <=> \E k \in DOMAIN queue : queue[k].op = op /\ a \in queue[k].words
         /\ a \in Queued(op)' <=> \E k \in DOMAIN queue' : queue'[k].op = op /\ a \in queue'[k].words
  BY DEF Queued

LEMMA CallWords ==
  ASSUME NEW a
  PROVE  a \in InCall <=> \E t \in Threads : \E p \in call[t].args \cap Buffers : a \in Words(p)
  BY DEF InCall, WordsOf

(* The clock goes forward.                                                 *)
LEMMA Grown ==
  ASSUME clock \in Nat, clock' \in Nat, clock <= clock'
  PROVE  Versions \subseteq Versions' /\ Entries \subseteq Entries'
<1>1. Versions \subseteq Versions'
  BY DEF Versions
<1>2. \A D : [D -> Versions] \subseteq [D -> Versions']
  BY <1>1
<1>3. Entries \subseteq Entries'
  BY <1>2 DEF Entries
<1>4. QED
  BY <1>1, <1>3

------------------------------------------------------------------------------
(* The lookup.                                                             *)

LEMMA HolderIs ==
  ASSUME TypeOK, NEW a, Holders(a) # {}
  PROVE  /\ Holder(a) \in DOMAIN host /\ a \in DOMAIN Seen(a).data
         /\ \A i \in DOMAIN host : a \in DOMAIN host[i].data => i <= Holder(a)
<1>1. Holders(a) \subseteq 1..Len(host) /\ Len(host) \in Nat
  BY HostTypes DEF Holders
<1>2. Holder(a) \in Holders(a) /\ \A i \in Holders(a) : i <= Holder(a)
  BY <1>1, MaxOf DEF Holder
<1>3. QED
  BY <1>2 DEF Holders, Seen

(* A memcpy changes content, and not what is found.                        *)
LEMMA StoredLookup ==
  ASSUME TypeOK, NEW T, NEW content, host' = Stored(T, content), NEW a
  PROVE  /\ Holders(a)' = Holders(a) /\ Holder(a)' = Holder(a)
         /\ Holders(a) # {} =>
              /\ Seen(a)'.va = Seen(a).va /\ DOMAIN Seen(a)'.data = DOMAIN Seen(a).data
              /\ Real(a)' = IF a \in T THEN content[a] ELSE Real(a)
<1>1. /\ DOMAIN host' = DOMAIN host
      /\ \A i \in DOMAIN host :
           host'[i] = [host[i] EXCEPT !.data =
                         [w \in DOMAIN @ |-> IF w \in T /\ Holder(w) = i THEN content[w] ELSE @[w]]]
  BY DEF Stored
<1>2. \A i \in DOMAIN host :
        /\ host'[i].va = host[i].va
        /\ host'[i].data = [w \in DOMAIN host[i].data |->
                              IF w \in T /\ Holder(w) = i THEN content[w] ELSE host[i].data[w]]
  <2>1. SUFFICES ASSUME NEW i \in DOMAIN host
                 PROVE  /\ host'[i].va = host[i].va
                        /\ host'[i].data = [w \in DOMAIN host[i].data |->
                              IF w \in T /\ Holder(w) = i THEN content[w] ELSE host[i].data[w]]
    OBVIOUS
  <2>2. host[i] \in Entries
    BY HostTypes
  <2>3. QED
    BY <1>1, <2>2 DEF Entries
<1>3. \A i \in DOMAIN host : DOMAIN host'[i].data = DOMAIN host[i].data
  BY <1>2
<1>4. Holders(a)' = Holders(a)
  BY <1>1, <1>3 DEF Holders
<1>5. Holder(a)' = Holder(a)
  BY <1>4 DEF Holder
<1>6. ASSUME Holders(a) # {}
      PROVE  /\ Seen(a)'.va = Seen(a).va /\ DOMAIN Seen(a)'.data = DOMAIN Seen(a).data
             /\ Real(a)' = IF a \in T THEN content[a] ELSE Real(a)
  <2>1. Holder(a) \in DOMAIN host /\ a \in DOMAIN host[Holder(a)].data
    BY <1>6, HolderIs DEF Seen
  <2>2. Seen(a)' = host'[Holder(a)]
    BY <1>5 DEF Seen
  <2>3. Real(a)' = host'[Holder(a)].data[a]
    BY <1>5 DEF Real
  <2>4. QED
    BY <1>2, <1>3, <2>1, <2>2, <2>3 DEF Seen, Real
<1>7. QED
  BY <1>4, <1>5, <1>6

(* A new entry is found for its own words, and nothing changes for others. *)
LEMMA ArrivedLookup ==
  ASSUME TypeOK, NEW b \in Addresses, NEW n, NEW T, host' = Arrived(b, n, T), NEW a
  PROVE  /\ a \in Span(b, n) =>
              /\ Holders(a)' # {} /\ Seen(a)'.va = b /\ DOMAIN Seen(a)'.data = Span(b, n)
              /\ Real(a)' = IF a \in T THEN guest[a] ELSE 0
         /\ a \notin Span(b, n) =>
              /\ Holders(a)' = Holders(a)
              /\ Holders(a) # {} => Seen(a)' = Seen(a) /\ Real(a)' = Real(a)
<1> DEFINE e == [va |-> b, data |-> [w \in Span(b, n) |-> IF w \in T THEN guest[w] ELSE 0]]
<1> DEFINE last == Len(host) + 1
<1>1. host' = Append(host, e)
  BY DEF Arrived
<1>2. DOMAIN e.data = Span(b, n) /\ e.va = b
  OBVIOUS
<1>3. \A w \in Span(b, n) : e.data[w] = IF w \in T THEN guest[w] ELSE 0
  OBVIOUS
<1> HIDE DEF e
<1>4. /\ Len(host) \in Nat /\ DOMAIN host = 1..Len(host) /\ DOMAIN host' = 1..last
      /\ host'[last] = e /\ \A i \in 1..Len(host) : host'[i] = host[i]
  <2>1. host \in Seq(Entries \cup {e})
    BY HostTypes, ElementOfSeq, SeqDef
  <2>2. QED
    BY <1>1, <2>1, AppendProperties, LenProperties
<1>5. CASE a \in Span(b, n)
  <2>1. last \in Holders(a)' /\ Holders(a)' \subseteq 1..last /\ last \in Nat
    BY <1>2, <1>4, <1>5 DEF Holders
  <2>2. Max(Holders(a)') \in Holders(a)' /\ last <= Max(Holders(a)')
    BY <2>1, MaxOf
  <2>3. Max(Holders(a)') = last
    BY <2>1, <2>2
  <2>4. Holder(a)' = last
    BY <2>3 DEF Holder
  <2>5. QED
    BY <1>2, <1>3, <1>4, <1>5, <2>1, <2>4 DEF Seen, Real
<1>6. CASE a \notin Span(b, n)
  <2>1. \A i : i \in Holders(a)' <=> i \in Holders(a)
    <3>1. \A i : i \in 1..last <=> i \in 1..Len(host) \/ i = last
      BY <1>4
    <3>2. QED
      BY <1>2, <1>4, <1>6, <3>1 DEF Holders
  <2>2. Holders(a)' = Holders(a)
    BY <2>1
  <2>3. Holder(a)' = Holder(a)
    BY <2>2 DEF Holder
  <2>4. Holders(a) # {} => Holder(a) \in 1..Len(host)
    BY <1>4, HolderIs
  <2>5. QED
    BY <1>4, <1>6, <2>2, <2>3, <2>4 DEF Seen, Real
<1>7. QED
  BY <1>5, <1>6

(* Freeing takes away the newest entry with the handle, nothing else.      *)
LEMMA FreedLookup ==
  ASSUME TypeOK, NEW b, host' = Freed(b), NEW a, Holders(a) # {} => Seen(a).va # b
  PROVE  /\ Holders(a)' = {} <=> Holders(a) = {}
         /\ Holders(a) # {} => Seen(a)' = Seen(a) /\ Real(a)' = Real(a)
<1> DEFINE I == {i \in DOMAIN host : host[i].va = b}
<1>1. CASE I = {}
  <2>1. host' = host
    BY <1>1 DEF Freed
  <2>2. QED
    BY <2>1 DEF Holders, Holder, Seen, Real
<1>2. CASE I # {}
  <2> DEFINE m == Max(I)
  <2>1. Len(host) \in Nat /\ DOMAIN host = 1..Len(host)
    BY HostTypes
  <2>2. m \in 1..Len(host) /\ host[m].va = b
    BY <1>2, <2>1, MaxOf
  <2>3. host' = [i \in 1..(Len(host) - 1) |-> IF i < m THEN host[i] ELSE host[i + 1]]
    BY <1>2 DEF Freed
  <2> HIDE DEF m, I
  <2>4. /\ DOMAIN host' = 1..(Len(host) - 1)
        /\ \A i \in 1..(Len(host) - 1) : host'[i] = IF i < m THEN host[i] ELSE host[i + 1]
    BY <2>3
  <2>5. CASE Holders(a) = {}
    <3>1. \A i \in 1..Len(host) : a \notin DOMAIN host[i].data
      BY <2>1, <2>5 DEF Holders
    <3>2. \A i \in 1..(Len(host) - 1) : i \in 1..Len(host) /\ i + 1 \in 1..Len(host)
      BY <2>1
    <3>3. \A i \in 1..(Len(host) - 1) : a \notin DOMAIN host'[i].data
      BY <2>4, <3>1, <3>2
    <3>4. QED
      BY <2>4, <2>5, <3>3 DEF Holders
  <2>6. CASE Holders(a) # {}
    <3> DEFINE h == Holder(a)
    <3> DEFINE g == IF h < m THEN h ELSE h - 1
    <3>1. /\ h \in 1..Len(host) /\ a \in DOMAIN host[h].data /\ host[h].va # b
          /\ \A i \in 1..Len(host) : a \in DOMAIN host[i].data => i <= h
      BY <2>1, <2>6, HolderIs DEF Seen
    <3> HIDE DEF h
    <3>2. h # m /\ g \in 1..(Len(host) - 1)
      BY <2>1, <2>2, <3>1
    <3>3. host'[g] = host[h]
      <4>1. CASE h < m
        BY <2>4, <3>2, <4>1
      <4>2. CASE ~(h < m)
        <5>1. g = h - 1 /\ ~(g < m) /\ g + 1 = h
          BY <2>1, <2>2, <3>1, <3>2, <4>2
        <5>2. QED
          BY <2>4, <3>2, <5>1
      <4>3. QED
        BY <4>1, <4>2
    <3>4. \A i \in 1..(Len(host) - 1) : a \in DOMAIN host'[i].data => i <= g
      <4>1. SUFFICES ASSUME NEW i \in 1..(Len(host) - 1), a \in DOMAIN host'[i].data
                     PROVE  i <= g
        OBVIOUS
      <4>2. CASE i < m
        <5>1. host'[i] = host[i] /\ i \in 1..Len(host)
          BY <2>1, <2>4, <4>2
        <5>2. i <= h
          BY <3>1, <4>1, <5>1
        <5>3. QED
          BY <2>1, <2>2, <3>1, <3>2, <4>2, <5>2
      <4>3. CASE ~(i < m)
        <5>1. host'[i] = host[i + 1] /\ i + 1 \in 1..Len(host)
          BY <2>1, <2>4, <4>3
        <5>2. i + 1 <= h
          BY <3>1, <4>1, <5>1
        <5>3. QED
          BY <2>1, <2>2, <3>1, <3>2, <4>3, <5>2
      <4>4. QED
        BY <4>2, <4>3
    <3> HIDE DEF g
    <3>5. g \in Holders(a)' /\ Holders(a)' \subseteq 1..(Len(host) - 1) /\ \A i \in Holders(a)' : i <= g
      BY <2>4, <3>1, <3>2, <3>3, <3>4 DEF Holders
    <3>6. Max(Holders(a)') \in Holders(a)' /\ g <= Max(Holders(a)')
      <4>1. Len(host) - 1 \in Nat
        BY <2>1, <3>1
      <4>2. QED
        BY <3>5, <4>1, MaxOf
    <3>7. Max(Holders(a)') = g
      BY <2>1, <3>5, <3>6
    <3>8. Holder(a)' = g
      BY <3>7 DEF Holder
    <3>9. QED
      BY <2>6, <3>3, <3>5, <3>8 DEF Seen, Real, h
  <2>7. QED
    BY <2>5, <2>6
<1>3. QED
  BY <1>1, <1>2

------------------------------------------------------------------------------
(* The stream.                                                             *)

(* A new operation goes behind all others.                                 *)
LEMMA Queueing ==
  ASSUME TypeOK, NEW o \in Operations, queue' = Append(queue, o)
  PROVE  /\ queue' \in Seq(Operations) /\ Len(queue') = Len(queue) + 1
         /\ Len(queue) + 1 \in DOMAIN queue' /\ queue'[Len(queue) + 1] = o
         /\ \A k \in DOMAIN queue :
              k \in Nat /\ k \in DOMAIN queue' /\ queue'[k] = queue[k] /\ k < Len(queue) + 1
         /\ \A k \in DOMAIN queue' : k \in DOMAIN queue \/ (k = Len(queue) + 1 /\ queue'[k] = o)
<1>1. queue \in Seq(Operations) /\ Len(queue) \in Nat /\ DOMAIN queue = 1..Len(queue)
  BY QueueTypes
<1>2. /\ queue' \in Seq(Operations) /\ Len(queue') = Len(queue) + 1
      /\ DOMAIN queue' = 1..(Len(queue) + 1) /\ queue'[Len(queue) + 1] = o
      /\ \A k \in 1..Len(queue) : queue'[k] = queue[k]
  BY <1>1, AppendProperties, LenProperties
<1>3. \A k \in 1..Len(queue) : k \in Nat /\ k \in 1..(Len(queue) + 1) /\ k < Len(queue) + 1
  BY <1>1
<1>4. \A k \in 1..(Len(queue) + 1) : k \in 1..Len(queue) \/ k = Len(queue) + 1
  BY <1>1
<1>5. Len(queue) + 1 \in 1..(Len(queue) + 1)
  BY <1>1
<1>6. QED
  BY <1>1, <1>2, <1>3, <1>4, <1>5

(* When the first has run, the others move up.                             *)
LEMMA MovingUp ==
  ASSUME TypeOK, queue # <<>>, queue' = Tail(queue)
  PROVE  /\ queue' \in Seq(Operations) /\ Len(queue') = Len(queue) - 1
         /\ 1 \in DOMAIN queue /\ Head(queue) = queue[1]
         /\ \A k \in DOMAIN queue' : k \in Nat /\ k + 1 \in DOMAIN queue /\ queue'[k] = queue[k + 1] /\ 1 < k + 1
         /\ \A k \in DOMAIN queue : k # 1 => k \in Nat /\ k - 1 \in DOMAIN queue' /\ queue'[k - 1] = queue[k]
<1>1. queue \in Seq(Operations) /\ Len(queue) \in Nat /\ DOMAIN queue = 1..Len(queue)
  BY QueueTypes
<1>2. /\ queue' \in Seq(Operations) /\ Len(queue') = Len(queue) - 1 /\ Head(queue) = queue[1]
      /\ DOMAIN queue' = 1..(Len(queue) - 1)
      /\ \A k \in 1..(Len(queue) - 1) : queue'[k] = queue[k + 1]
  BY <1>1, HeadTailProperties, LenProperties
<1>3. Len(queue) # 0
  BY <1>1, EmptySeq
<1>4. 1 \in 1..Len(queue)
  BY <1>1, <1>3
<1>5. \A k \in 1..(Len(queue) - 1) : k \in Nat /\ k + 1 \in 1..Len(queue) /\ 1 < k + 1
  BY <1>1
<1>6. \A k \in 1..Len(queue) : k # 1 => k \in Nat /\ k - 1 \in 1..(Len(queue) - 1) /\ (k - 1) + 1 = k
  BY <1>1
<1>7. QED
  BY <1>1, <1>2, <1>4, <1>5, <1>6

LEMMA FirstOfQueue ==
  ASSUME TypeOK, queue # <<>>
  PROVE  /\ 1 \in DOMAIN queue /\ Head(queue) = queue[1]
         /\ \A k \in DOMAIN queue : k \in Nat
<1>1. queue \in Seq(Operations) /\ Len(queue) \in Nat /\ DOMAIN queue = 1..Len(queue)
  BY QueueTypes
<1>2. Head(queue) = queue[1] /\ Len(queue) # 0
  BY <1>1, HeadTailProperties, EmptySeq
<1>3. QED
  BY <1>1, <1>2

------------------------------------------------------------------------------
(* What the lookup finds.                                                  *)

(* Steps that leave the list and the registry's sizes alone, or store.     *)
LEMMA LookupKept ==
  ASSUME TypeOK, LookupFindsOwn, UNCHANGED size,
         \A a : /\ Holders(a)' = Holders(a)
                /\ Holders(a) # {} =>
                     Seen(a)'.va = Seen(a).va /\ DOMAIN Seen(a)'.data = DOMAIN Seen(a).data
  PROVE  LookupFindsOwn'
<1>1. Buffers' = Buffers /\ \A b : Words(b)' = Words(b)
  BY SameBuffers
<1>2. QED
  BY <1>1 DEF LookupFindsOwn, Seen

LEMMA SameLookup ==
  ASSUME UNCHANGED host
  PROVE  \A a : Holders(a)' = Holders(a) /\ Seen(a)' = Seen(a) /\ Real(a)' = Real(a)
<1>1. \A a : Holders(a)' = Holders(a)
  BY DEF Holders
<1>2. QED
  BY <1>1 DEF Seen, Real, Holder

LEMMA OwnIsFound ==
  ASSUME TypeOK, LookupFindsOwn, NEW b \in Buffers, NEW a \in Words(b), Holders(a) # {}
  PROVE  Seen(a).va = b /\ DOMAIN Seen(a).data = Words(b)
  BY DEF LookupFindsOwn, Seen

(* Words of one buffer are found together.                                 *)
LEMMA FoundTogether ==
  ASSUME TypeOK, LookupFindsOwn, NEW b \in Buffers, NEW a \in Words(b), NEW c \in Words(b), Holders(a) # {}
  PROVE  Holders(c) # {}
<1>1. DOMAIN Seen(a).data = Words(b) /\ Holder(a) \in DOMAIN host
  BY OwnIsFound, HolderIs
<1>2. Holder(a) \in Holders(c)
  BY <1>1 DEF Seen, Holders
<1>3. QED
  BY <1>2

------------------------------------------------------------------------------
(* What keeps the parts of the invariant, when the stream stays as it is.  *)

LEMMA SameQueued ==
  ASSUME UNCHANGED queue
  PROVE  \A op : Queued(op)' = Queued(op)
  BY DEF Queued

LEMMA KernelsKept ==
  ASSUME KernelsInOrder, UNCHANGED queue,
         \A a \in Queued("kernel") :
           /\ Holders(a) # {} => Holders(a)' # {}
           /\ a \in known' => a \in known /\ (Real(a) = newest[a] => Real(a)' = newest'[a])
           /\ \A b \in Buffers' : a \in Words(b)' =>
                /\ b \in Buffers /\ a \in Words(b)
                /\ dirty[b] \/ Launched(b) => dirty'[b] \/ Launched(b)'
  PROVE  KernelsInOrder'
<1>1. SUFFICES ASSUME NEW k \in DOMAIN queue, queue[k].op = "kernel", NEW a \in queue[k].words
               PROVE  /\ Holders(a)' # {} /\ (a \in known' => Real(a)' = newest'[a])
                      /\ \A j \in DOMAIN queue : j < k /\ queue[j].op = "dtoh" => a \notin queue[j].words
                      /\ \A b \in Buffers' : a \in Words(b)' => dirty'[b] \/ Launched(b)' \/ FilledAfter(k, a)'
  BY DEF KernelsInOrder
<1>2. a \in Queued("kernel")
  BY <1>1, QueuedWords
<1>3. /\ Holders(a) # {} /\ (a \in known => Real(a) = newest[a])
      /\ \A j \in DOMAIN queue : j < k /\ queue[j].op = "dtoh" => a \notin queue[j].words
      /\ \A b \in Buffers : a \in Words(b) => dirty[b] \/ Launched(b) \/ FilledAfter(k, a)
  BY <1>1 DEF KernelsInOrder
<1>4. FilledAfter(k, a)' <=> FilledAfter(k, a)
  BY DEF FilledAfter
<1>5. QED
  BY <1>2, <1>3, <1>4

LEMMA CopiesKept ==
  ASSUME CopiesInOrder, UNCHANGED queue,
         \A a \in Queued("htod") \cap known' :
           a \in known /\ (guest[a] = newest[a] => guest'[a] = newest'[a])
  PROVE  CopiesInOrder'
<1>1. SUFFICES ASSUME NEW k \in DOMAIN queue, queue[k].op = "htod", NEW a \in queue[k].words
               PROVE  /\ a \in known' => guest'[a] = newest'[a] \/ Between(0, k, a)'
                      /\ \A i \in DOMAIN queue : i < k /\ queue[i].op = "kernel" /\ a \in queue[i].words => Between(i, k, a)'
  BY DEF CopiesInOrder
<1>2. a \in Queued("htod")
  BY <1>1, QueuedWords
<1>3. /\ a \in known => guest[a] = newest[a] \/ Between(0, k, a)
      /\ \A i \in DOMAIN queue : i < k /\ queue[i].op = "kernel" /\ a \in queue[i].words => Between(i, k, a)
  BY <1>1 DEF CopiesInOrder
<1>4. \A i : Between(i, k, a)' <=> Between(i, k, a)
  BY DEF Between
<1>5. QED
  BY <1>2, <1>3, <1>4

------------------------------------------------------------------------------
LEMMA InitSessionStep ==
  ASSUME HostMemInv, InitSession
  PROVE  HostMemInv'
<1>1. /\ queue = <<>> /\ up' = TRUE /\ host' = <<>> /\ known' = {}
      /\ UNCHANGED <<guest, size, dirty, call, queue, clock, newest>>
  BY DEF InitSession, registry
<1>2. TypeOK
  BY DEF HostMemInv
<1>3. Buffers' = Buffers /\ WordsOf(Buffers)' = WordsOf(Buffers) /\ \A b : Words(b)' = Words(b)
  BY <1>1, SameBuffers
<1>4. TypeOK'
  <2>1. Versions' = Versions /\ host' \in Seq(Entries')
    BY <1>1 DEF Versions
  <2>2. QED
    BY <1>1, <1>2, <1>3, <2>1 DEF TypeOK
<1>5. \A a : Holders(a)' = {}
  BY <1>1 DEF Holders
<1>6. LookupFindsOwn'
  BY <1>5 DEF LookupFindsOwn
<1>7. ASSUME Careful PROVE Orderly'
  <2>1. DOMAIN queue' = {} /\ \A op : Queued(op)' = {}
    BY <1>1 DEF Queued
  <2>2. LaunchesApart'
    BY <1>1, <1>3, <1>7 DEF HostMemInv, Orderly, LaunchesApart
  <2>3. QueueInBuffers' /\ NoCopyInto' /\ KernelsInOrder' /\ CopiesInOrder'
    BY <2>1 DEF QueueInBuffers, NoCopyInto, KernelsInOrder, CopiesInOrder
  <2>4. FlagTells'
    BY <1>1 DEF FlagTells
  <2>5. QED
    BY <2>2, <2>3, <2>4 DEF Orderly
<1>8. QED
  BY <1>4, <1>6, <1>7 DEF HostMemInv

LEMMA LaunchKernelStep ==
  ASSUME HostMemInv, NEW t \in Threads, NEW A \in SUBSET Addresses, LaunchKernel(t, A)
  PROVE  HostMemInv'
<1>1. /\ call[t] = Idle /\ MayLaunch(A)
      /\ call' = [call EXCEPT ![t] = [at |-> "sync", args |-> A, todo |-> A]]
      /\ UNCHANGED <<up, guest, size, dirty, host, queue, clock, newest, known>>
  BY DEF LaunchKernel, registry, history
<1>2. TypeOK /\ LookupFindsOwn
  BY DEF HostMemInv
<1>3. Buffers' = Buffers /\ WordsOf(Buffers)' = WordsOf(Buffers) /\ \A b : Words(b)' = Words(b)
  BY <1>1, SameBuffers
<1>4. call \in [Threads -> Calls]
  BY <1>2, CallTypes
<1>5. /\ call'[t].at = "sync" /\ call'[t].args = A /\ call'[t].todo = A
      /\ \A u \in Threads : u # t => call'[u] = call[u]
      /\ call[t].at = "idle" /\ call[t].args = {}
  BY <1>1, <1>4 DEF Idle
<1>6. TypeOK'
  <2>1. call' \in [Threads -> Calls]
    BY <1>1, <1>4 DEF Calls
  <2>2. \A u \in Threads : /\ call'[u].todo \subseteq call'[u].args
                           /\ call'[u].at = "idle" => call'[u] = Idle
                           /\ call'[u].at = "mark" => call'[u].todo = {}
    BY <1>2, <1>5 DEF TypeOK
  <2>3. Versions' = Versions /\ Entries' = Entries
    BY <1>1 DEF Versions, Entries
  <2>4. QED
    BY <1>1, <1>2, <1>3, <2>1, <2>2, <2>3 DEF TypeOK
<1>7. \A a : Holders(a)' = Holders(a) /\ Seen(a)' = Seen(a) /\ Real(a)' = Real(a)
  BY <1>1, SameLookup
<1>8. LookupFindsOwn'
  BY <1>1, <1>2, <1>7, LookupKept
<1>9. ASSUME Careful PROVE Orderly'
  <2>1. A \subseteq Buffers /\ WordsOf(A) \cap (InCall \cup Queued("dtoh")) = {}
    BY <1>1, <1>9 DEF MayLaunch
  <2>2. \A b \in A : b \in Words(b) /\ Words(b) \subseteq WordsOf(A)
    BY <1>2, <2>1, Geometry DEF WordsOf
  <2>3. \A u \in Threads : A \cap call[u].args = {}
    BY <2>1, <2>2, CallWords
  <2>4. Orderly
    BY <1>9 DEF HostMemInv
  <2>5. LaunchesApart'
    <3>1. SUFFICES ASSUME NEW u \in Threads
                   PROVE  /\ call'[u].args \subseteq Buffers
                          /\ \A v \in Threads \ {u} : call'[u].args \cap call'[v].args = {}
      BY <1>3 DEF LaunchesApart
    <3>2. call'[u].args \subseteq Buffers
      BY <1>5, <2>1, <2>4 DEF Orderly, LaunchesApart
    <3>3. ASSUME NEW v \in Threads \ {u} PROVE call'[u].args \cap call'[v].args = {}
      BY <1>5, <2>3, <2>4 DEF Orderly, LaunchesApart
    <3>4. QED
      BY <3>2, <3>3
  <2>6. QueueInBuffers'
    BY <1>1, <1>3, <2>4 DEF Orderly, QueueInBuffers
  <2>7. \A b : InLaunch(b)' => InLaunch(b) \/ b \in A
    BY <1>5 DEF InLaunch
  <2>8. \A b : Launched(b)' <=> Launched(b)
    BY <1>5 DEF Launched
  <2>9. \A op : Queued(op)' = Queued(op)
    BY <1>1, SameQueued
  <2>10. NoCopyInto'
    BY <1>1, <1>3, <2>1, <2>2, <2>4, <2>7, <2>9 DEF Orderly, NoCopyInto
  <2>11. KernelsInOrder'
    BY <1>1, <1>3, <1>7, <2>4, <2>8, KernelsKept DEF Orderly
  <2>12. CopiesInOrder'
    BY <1>1, <2>4, CopiesKept DEF Orderly
  <2>13. FlagTells'
    <3>1. \A u \in Threads : \A b \in call'[u].args \ call'[u].todo : b \in call[u].args \ call[u].todo
      BY <1>5
    <3>2. QED
      BY <1>1, <1>3, <1>7, <2>4, <2>8, <2>9, <3>1 DEF Orderly, FlagTells
  <2>14. QED
    BY <2>5, <2>6, <2>10, <2>11, <2>12, <2>13 DEF Orderly
<1>10. QED
  BY <1>6, <1>8, <1>9 DEF HostMemInv

LEMMA MarkGpuDirtyStep ==
  ASSUME HostMemInv, NEW t \in Threads, MarkGpuDirty(t)
  PROVE  HostMemInv'
<1>1. /\ call[t].at = "mark"
      /\ dirty' = [b \in Addresses |-> dirty[b] \/ (b \in call[t].args /\ b \in Buffers)]
      /\ call' = [call EXCEPT ![t] = Idle]
      /\ UNCHANGED <<up, guest, size, host, queue, clock, newest, known>>
  BY DEF MarkGpuDirty, Marked, history
<1>2. TypeOK /\ LookupFindsOwn
  BY DEF HostMemInv
<1>3. Buffers' = Buffers /\ WordsOf(Buffers)' = WordsOf(Buffers) /\ \A b : Words(b)' = Words(b)
  BY <1>1, SameBuffers
<1>4. call \in [Threads -> Calls]
  BY <1>2, CallTypes
<1>5. /\ call'[t] = Idle /\ call'[t].at = "idle" /\ call'[t].args = {} /\ call'[t].todo = {}
      /\ \A u \in Threads : u # t => call'[u] = call[u]
      /\ call[t].todo = {}
  BY <1>1, <1>2, <1>4, CallTypes DEF Idle
<1>6. \A b \in Addresses : dirty'[b] <=> dirty[b] \/ (b \in call[t].args /\ b \in Buffers)
  BY <1>1
<1>7. TypeOK'
  <2>1. call' \in [Threads -> Calls]
    BY <1>1, <1>4 DEF Calls, Idle
  <2>2. \A u \in Threads : /\ call'[u].todo \subseteq call'[u].args
                           /\ call'[u].at = "idle" => call'[u] = Idle
                           /\ call'[u].at = "mark" => call'[u].todo = {}
    BY <1>2, <1>5 DEF TypeOK
  <2>3. Versions' = Versions /\ Entries' = Entries
    BY <1>1 DEF Versions, Entries
  <2>4. dirty' \in [Addresses -> BOOLEAN]
    <3>1. \A b \in Addresses : dirty[b] \in BOOLEAN
      BY <1>2 DEF TypeOK
    <3>2. \A b \in Addresses : (dirty[b] \/ (b \in call[t].args /\ b \in Buffers)) \in BOOLEAN
      BY <3>1
    <3>3. QED
      BY <1>1, <3>2
  <2>5. \A b \in Addresses : dirty'[b] => b \in Buffers
    BY <1>2, <1>6 DEF TypeOK
  <2>6. QED
    BY <1>1, <1>2, <1>3, <2>1, <2>2, <2>3, <2>4, <2>5 DEF TypeOK
<1>8. \A a : Holders(a)' = Holders(a) /\ Seen(a)' = Seen(a) /\ Real(a)' = Real(a)
  BY <1>1, SameLookup
<1>9. LookupFindsOwn'
  BY <1>1, <1>2, <1>8, LookupKept
<1>10. ASSUME Careful PROVE Orderly'
  <2>1. Orderly
    BY <1>10 DEF HostMemInv
  <2>2. Buffers \subseteq Addresses
    BY <1>2, Geometry
  <2>3. LaunchesApart'
    BY <1>3, <1>5, <2>1 DEF Orderly, LaunchesApart
  <2>4. QueueInBuffers'
    BY <1>1, <1>3, <2>1 DEF Orderly, QueueInBuffers
  <2>5. \A b : InLaunch(b)' => InLaunch(b)
    BY <1>5 DEF InLaunch
  <2>6. \A b \in Buffers : dirty'[b] => dirty[b] \/ (InLaunch(b) /\ b \in call[t].args)
    BY <1>6, <2>2 DEF InLaunch
  <2>7. \A b \in Buffers : dirty[b] \/ Launched(b) => dirty'[b] \/ Launched(b)'
    BY <1>5, <1>6, <2>2 DEF Launched
  <2>8. \A op : Queued(op)' = Queued(op)
    BY <1>1, SameQueued
  <2>9. NoCopyInto'
    BY <1>3, <2>1, <2>5, <2>6, <2>8 DEF Orderly, NoCopyInto
  <2>10. KernelsInOrder'
    BY <1>1, <1>3, <1>8, <2>1, <2>7, KernelsKept DEF Orderly
  <2>11. CopiesInOrder'
    BY <1>1, <2>1, CopiesKept DEF Orderly
  <2>12. FlagTells'
    <3>1. SUFFICES ASSUME NEW b \in Buffers, NEW a \in Words(b) \cap known
                   PROVE  /\ (dirty'[b] \/ \E u \in Threads : b \in call'[u].args \ call'[u].todo) /\ Holders(a) # {} =>
                               Real(a) = newest[a]
                          /\ ~dirty'[b] /\ ~Launched(b)' /\ a \notin Queued("kernel") \cup Queued("dtoh") =>
                               guest[a] = newest[a]
      BY <1>1, <1>3, <1>8, <2>8 DEF FlagTells
    <3>2. (dirty'[b] \/ \E u \in Threads : b \in call'[u].args \ call'[u].todo) =>
            (dirty[b] \/ \E u \in Threads : b \in call[u].args \ call[u].todo)
      BY <1>5, <1>6, <2>2
    <3>3. ~dirty'[b] /\ ~Launched(b)' => ~dirty[b] /\ ~Launched(b)
      BY <2>7
    <3>4. QED
      BY <2>1, <3>1, <3>2, <3>3 DEF Orderly, FlagTells
  <2>13. QED
    BY <2>3, <2>4, <2>9, <2>10, <2>11, <2>12 DEF Orderly
<1>11. QED
  BY <1>7, <1>9, <1>10 DEF HostMemInv

(* Freeing takes an entry out of the list.                                 *)
LEMMA FreedTyped ==
  ASSUME TypeOK, NEW b
  PROVE  Freed(b) \in Seq(Entries)
<1> DEFINE I == {i \in DOMAIN host : host[i].va = b}
<1>1. /\ host \in Seq(Entries) /\ Len(host) \in Nat /\ DOMAIN host = 1..Len(host)
      /\ \A i \in 1..Len(host) : host[i] \in Entries
  BY HostTypes
<1>2. CASE I = {}
  BY <1>1, <1>2 DEF Freed
<1>3. CASE I # {}
  <2>1. PICK i \in 1..Len(host) : TRUE
    BY <1>1, <1>3
  <2>2. Len(host) - 1 \in Nat
    BY <1>1, <2>1
  <2> DEFINE f == [j \in 1..(Len(host) - 1) |-> IF j < Max(I) THEN host[j] ELSE host[j + 1]]
  <2>3. Freed(b) = f
    BY <1>3 DEF Freed
  <2>4. \A j \in 1..(Len(host) - 1) : j \in 1..Len(host) /\ j + 1 \in 1..Len(host)
    BY <1>1
  <2>5. f \in [1..(Len(host) - 1) -> Entries]
    BY <1>1, <2>4
  <2>6. f \in Seq(Entries)
    BY <2>2, <2>5, SeqDef
  <2>7. QED
    BY <2>3, <2>6
<1>4. QED
  BY <1>2, <1>3

LEMMA MemFreeHostStep ==
  ASSUME HostMemInv, NEW b \in Addresses, MemFreeHost(b)
  PROVE  HostMemInv'
<1>1. /\ b \in Buffers /\ queue = <<>>
      /\ Careful => Words(b) \cap InCall = {}
      /\ size' = [size EXCEPT ![b] = 0] /\ dirty' = [dirty EXCEPT ![b] = FALSE]
      /\ known' = known \ Words(b)
      /\ newest' = [a \in Addresses |-> IF a \in Words(b) THEN 0 ELSE newest[a]]
      /\ host' = host \/ host' = Freed(b)
      /\ UNCHANGED <<up, guest, call, queue, clock>>
  BY DEF MemFreeHost, Unflagged
<1>2. TypeOK /\ LookupFindsOwn
  BY DEF HostMemInv
<1>3. /\ size \in [Addresses -> 0..Size] /\ Size \in Nat /\ dirty \in [Addresses -> BOOLEAN]
      /\ newest \in [Addresses -> Versions] /\ clock \in Nat
  BY <1>2, HostMemAssumption DEF TypeOK
<1>4. /\ Buffers' = Buffers \ {b}
      /\ \A c \in Addresses : c # b => Words(c)' = Words(c)
      /\ \A c \in Buffers' : Words(c)' = Words(c)
      /\ WordsOf(Buffers)' \subseteq WordsOf(Buffers)
  <2>1. size'[b] = 0 /\ \A c \in Addresses : c # b => size'[c] = size[c]
    BY <1>1, <1>3
  <2>2. Buffers' = Buffers \ {b}
    BY <2>1 DEF Buffers
  <2>3. \A c \in Addresses : c # b => Words(c)' = Words(c)
    BY <2>1 DEF Words
  <2>4. \A c \in Buffers' : Words(c)' = Words(c)
    BY <2>2, <2>3 DEF Buffers
  <2>5. QED
    BY <2>2, <2>3, <2>4 DEF WordsOf
<1>5. \A c \in Buffers' : \A a \in Words(c) :
        /\ a \notin Words(b)
        /\ Holders(a)' = {} <=> Holders(a) = {}
        /\ Holders(a) # {} => Seen(a)' = Seen(a) /\ Real(a)' = Real(a)
  <2>1. SUFFICES ASSUME NEW c \in Buffers', NEW a \in Words(c)
                 PROVE  /\ a \notin Words(b)
                        /\ Holders(a)' = {} <=> Holders(a) = {}
                        /\ Holders(a) # {} => Seen(a)' = Seen(a) /\ Real(a)' = Real(a)
    OBVIOUS
  <2>2. c \in Buffers /\ c # b
    BY <1>4
  <2>3. a \notin Words(b)
    BY <1>1, <1>2, <2>2, Geometry
  <2>4. Holders(a) # {} => Seen(a).va # b
    BY <1>2, <2>2, OwnIsFound
  <2>5. CASE host' = host
    BY <2>3, <2>5, SameLookup
  <2>6. CASE host' = Freed(b)
    BY <1>2, <2>3, <2>4, <2>6, FreedLookup
  <2>7. QED
    BY <1>1, <2>5, <2>6
<1>6. TypeOK'
  <2>1. Versions' = Versions /\ Entries' = Entries /\ 0 \in Versions
    BY <1>1, <1>3 DEF Versions, Entries
  <2>2. newest' \in [Addresses -> Versions]
    BY <1>1, <1>3, <2>1
  <2>3. size' \in [Addresses -> 0..Size] /\ dirty' \in [Addresses -> BOOLEAN]
    BY <1>1, <1>3
  <2>4. \A c \in Addresses : dirty'[c] => c \in Buffers'
    BY <1>1, <1>2, <1>3, <1>4 DEF TypeOK
  <2>5. host' \in Seq(Entries)
    BY <1>1, <1>2, FreedTyped, HostTypes
  <2>6. \A c, d \in Buffers' : c # d => Words(c)' \cap Words(d)' = {}
    BY <1>2, <1>4, Geometry
  <2>7. WordsOf(Buffers)' \subseteq Addresses /\ known' \subseteq Addresses
    BY <1>1, <1>2, <1>4 DEF TypeOK
  <2>8. QED
    BY <1>1, <1>2, <2>1, <2>2, <2>3, <2>4, <2>5, <2>6, <2>7 DEF TypeOK
<1>7. LookupFindsOwn'
  BY <1>2, <1>4, <1>5 DEF LookupFindsOwn, Seen
<1>8. ASSUME Careful PROVE Orderly'
  <2>1. Orderly
    BY <1>8 DEF HostMemInv
  <2>2. DOMAIN queue' = {} /\ \A op : Queued(op)' = {} /\ Queued(op) = {}
    BY <1>1 DEF Queued
  <2>3. \A t \in Threads : b \notin call[t].args
    BY <1>1, <1>2, <1>8, CallWords, Geometry
  <2>4. LaunchesApart'
    BY <1>1, <1>4, <2>1, <2>3 DEF Orderly, LaunchesApart
  <2>5. QueueInBuffers' /\ NoCopyInto' /\ KernelsInOrder' /\ CopiesInOrder'
    BY <2>2 DEF QueueInBuffers, NoCopyInto, KernelsInOrder, CopiesInOrder
  <2>6. FlagTells'
    <3>1. SUFFICES ASSUME NEW c \in Buffers', NEW a \in Words(c)', a \in known'
                   PROVE  /\ (dirty'[c] \/ \E t \in Threads : c \in call'[t].args \ call'[t].todo) /\ Holders(a)' # {} =>
                               Real(a)' = newest'[a]
                          /\ ~dirty'[c] /\ ~Launched(c)' /\ a \notin Queued("kernel")' \cup Queued("dtoh")' =>
                               guest'[a] = newest'[a]
      BY DEF FlagTells
    <3>2. c \in Buffers /\ c # b /\ c \in Addresses /\ a \in Words(c) /\ a \in known /\ a \in Addresses
      BY <1>1, <1>2, <1>4, <3>1, Geometry
    <3>3. newest'[a] = newest[a] /\ dirty'[c] = dirty[c]
      BY <1>1, <1>3, <1>5, <3>1, <3>2
    <3>4. Launched(c)' <=> Launched(c)
      BY <1>1 DEF Launched
    <3>5. /\ (dirty[c] \/ \E t \in Threads : c \in call[t].args \ call[t].todo) /\ Holders(a) # {} =>
               Real(a) = newest[a]
          /\ ~dirty[c] /\ ~Launched(c) /\ a \notin Queued("kernel") \cup Queued("dtoh") =>
               guest[a] = newest[a]
      BY <2>1, <3>2 DEF Orderly, FlagTells
    <3>6. QED
      BY <1>1, <1>5, <2>2, <3>1, <3>2, <3>3, <3>4, <3>5
  <2>7. QED
    BY <2>4, <2>5, <2>6 DEF Orderly
<1>9. QED
  BY <1>6, <1>7, <1>8 DEF HostMemInv

LEMMA MemHostAllocStep ==
  ASSUME HostMemInv, NEW b \in Addresses, NEW n \in Addresses, MemHostAlloc(b, n)
  PROVE  HostMemInv'
<1> DEFINE S == Span(b, n)
<1>1. PICK T \in SUBSET S :
        /\ host' = Arrived(b, n, T)
        /\ IF T = S
           THEN /\ size'   = [size EXCEPT ![b] = n]
                /\ dirty'  = [dirty EXCEPT ![b] = FALSE]
                /\ newest' = [a \in Addresses |-> IF a \in T THEN guest[a] ELSE newest[a]]
                /\ known'  = known \cup T
           ELSE UNCHANGED <<size, dirty, newest, known>>
  BY DEF MemHostAlloc, Reached, registry, history
<1>2. /\ S \subseteq Addresses \ WordsOf(Buffers)
      /\ UNCHANGED <<up, guest, call, queue, clock>>
  BY DEF MemHostAlloc
<1>3. TypeOK /\ LookupFindsOwn
  BY DEF HostMemInv
<1>4. /\ size \in [Addresses -> 0..Size] /\ Size \in Nat /\ dirty \in [Addresses -> BOOLEAN]
      /\ newest \in [Addresses -> Versions] /\ guest \in [Addresses -> Versions] /\ clock \in Nat
      /\ known \subseteq Addresses
  BY <1>3, HostMemAssumption DEF TypeOK
<1>5. n \in 0..Size /\ n # 0 /\ b \in S /\ b \notin Buffers
  <2>1. n \in 1..Size /\ b \in 1..Size
    BY DEF Addresses
  <2>2. n \in 0..Size /\ n # 0 /\ b \in S
    BY <1>4, <2>1 DEF Span
  <2>3. QED
    BY <1>2, <1>3, <2>2, Geometry
(* The buffers there were, and this one if all has arrived.                *)
<1>6. /\ Buffers \subseteq Buffers'
      /\ \A c \in Buffers : Words(c)' = Words(c) /\ dirty'[c] = dirty[c] /\ c # b
      /\ \A c \in Buffers' : c \in Buffers \/ c = b
      /\ b \in Buffers' => Words(b)' = S /\ ~dirty'[b] /\ \A a \in S : newest'[a] = guest[a]
      /\ \A a \in Addresses : a \notin S => newest'[a] = newest[a] /\ (a \in known' <=> a \in known)
  <2>1. CASE T = S
    <3>1. size'[b] = n /\ \A c \in Addresses : c # b => size'[c] = size[c]
      BY <1>1, <1>4, <2>1
    <3>2. Buffers' = Buffers \cup {b}
      BY <1>5, <3>1 DEF Buffers
    <3>3. Words(b)' = S /\ \A c \in Addresses : c # b => Words(c)' = Words(c)
      BY <3>1 DEF Words
    <3>4. ~dirty'[b] /\ \A c \in Addresses : c # b => dirty'[c] = dirty[c]
      BY <1>1, <1>4, <2>1
    <3>5. /\ \A a \in S : newest'[a] = guest[a]
          /\ \A a \in Addresses : a \notin S => newest'[a] = newest[a] /\ (a \in known' <=> a \in known)
      BY <1>1, <1>2, <2>1
    <3>6. QED
      BY <1>5, <3>2, <3>3, <3>4, <3>5 DEF Buffers
  <2>2. CASE T # S
    <3>1. UNCHANGED <<size, dirty, newest, known>>
      BY <1>1, <2>2
    <3>2. Buffers' = Buffers /\ \A c : Words(c)' = Words(c)
      BY <3>1, SameBuffers
    <3>3. QED
      BY <1>5, <3>1, <3>2
  <2>3. QED
    BY <2>1, <2>2
<1>7. \A a \in S : Holders(a)' # {} /\ Seen(a)'.va = b /\ DOMAIN Seen(a)'.data = S
  BY <1>1, <1>3, ArrivedLookup
<1>8. \A a : a \notin S =>
        /\ Holders(a)' = Holders(a)
        /\ Holders(a) # {} => Seen(a)' = Seen(a) /\ Real(a)' = Real(a)
  BY <1>1, <1>3, ArrivedLookup
<1>9. \A c \in Buffers : Words(c) \cap S = {} /\ Words(c) \subseteq Addresses
  BY <1>2, <1>3, Geometry
<1>10. TypeOK'
  <2>1. Versions' = Versions /\ Entries' = Entries /\ 0 \in Versions
    BY <1>2, <1>4 DEF Versions, Entries
  <2>2. newest' \in [Addresses -> Versions] /\ dirty' \in [Addresses -> BOOLEAN]
        /\ size' \in [Addresses -> 0..Size] /\ known' \subseteq Addresses
    BY <1>1, <1>2, <1>4, <1>5
  <2>3. host' \in Seq(Entries)
    <3> DEFINE d == [a \in S |-> IF a \in T THEN guest[a] ELSE 0]
    <3>1. d \in [S -> Versions]
      BY <1>2, <1>4, <2>1
    <3>2. S \in SUBSET Addresses
      BY <1>2
    <3>3. [va |-> b, data |-> d] \in Entries
      BY <3>1, <3>2 DEF Entries
    <3>4. host' = Append(host, [va |-> b, data |-> d])
      BY <1>1 DEF Arrived
    <3>5. QED
      BY <1>3, <3>3, <3>4, HostTypes, AppendProperties
  <2>4. \A c \in Addresses : dirty'[c] => c \in Buffers'
    <3>1. SUFFICES ASSUME NEW c \in Addresses, dirty'[c] PROVE c \in Buffers'
      OBVIOUS
    <3>2. CASE T = S
      <4>1. c # b /\ dirty[c]
        BY <1>1, <1>4, <3>1, <3>2
      <4>2. QED
        BY <1>3, <1>6, <4>1, Geometry
    <3>3. CASE T # S
      BY <1>1, <1>3, <1>6, <3>1, <3>3, Geometry
    <3>4. QED
      BY <3>2, <3>3
  <2>5. \A c, d \in Buffers' : c # d => Words(c)' \cap Words(d)' = {}
    BY <1>3, <1>6, <1>9, Geometry
  <2>6. WordsOf(Buffers)' \subseteq Addresses
    <3>1. \A c \in Buffers' : Words(c)' \subseteq Addresses
      BY <1>2, <1>6, <1>9
    <3>2. QED
      BY <3>1 DEF WordsOf
  <2>7. QED
    BY <1>2, <1>3, <2>1, <2>2, <2>3, <2>4, <2>5, <2>6 DEF TypeOK
<1>11. LookupFindsOwn'
  <2>1. SUFFICES ASSUME NEW c \in Buffers', NEW a \in Words(c)', Holders(a)' # {}
                 PROVE  Seen(a)'.va = c /\ DOMAIN Seen(a)'.data = Words(c)'
    BY DEF LookupFindsOwn, Seen
  <2>2. CASE c \in Buffers
    <3>1. a \in Words(c) /\ a \notin S /\ Holders(a) # {} /\ Seen(a)' = Seen(a)
      <4>1. a \in Words(c)
        BY <1>6, <2>1, <2>2
      <4>2. a \notin S
        BY <1>9, <2>2, <4>1
      <4>3. Holders(a)' = Holders(a) /\ (Holders(a) # {} => Seen(a)' = Seen(a))
        BY <1>8, <4>2
      <4>4. QED
        BY <2>1, <4>1, <4>2, <4>3
    <3>2. QED
      BY <1>3, <1>6, <2>2, <3>1, OwnIsFound
  <2>3. CASE c = b
    BY <1>6, <1>7, <2>1, <2>3
  <2>4. QED
    BY <1>6, <2>2, <2>3
<1>12. ASSUME Careful PROVE Orderly'
  <2>1. Orderly
    BY <1>12 DEF HostMemInv
  <2>2. \A op : Queued(op)' = Queued(op)
    BY <1>2, SameQueued
  <2>3. \A op, a : a \in Queued(op) => a \notin S /\ a \in Addresses
    BY <1>2, <1>3, <2>1, QueuedWords, Geometry DEF Orderly, QueueInBuffers
  <2>4. \A t \in Threads : b \notin call[t].args
    BY <1>5, <2>1 DEF Orderly, LaunchesApart
  <2>5. \A c : InLaunch(c)' <=> InLaunch(c)
    BY <1>2 DEF InLaunch
  <2>6. \A c : Launched(c)' <=> Launched(c)
    BY <1>2 DEF Launched
  <2>7. ~InLaunch(b)
    BY <2>4 DEF InLaunch
  <2>8. LaunchesApart'
    BY <1>2, <1>6, <2>1 DEF Orderly, LaunchesApart
  <2>9. QueueInBuffers'
    <3>1. WordsOf(Buffers) \subseteq WordsOf(Buffers)'
      BY <1>6 DEF WordsOf
    <3>2. QED
      BY <1>2, <2>1, <3>1 DEF Orderly, QueueInBuffers
  <2>10. NoCopyInto'
    <3>1. SUFFICES ASSUME NEW c \in Buffers', dirty'[c] \/ InLaunch(c)
                   PROVE  Words(c)' \cap Queued("dtoh") = {}
      BY <2>2, <2>5 DEF NoCopyInto
    <3>2. c \in Buffers
      BY <1>6, <2>7, <3>1
    <3>3. QED
      BY <1>6, <2>1, <3>1, <3>2 DEF Orderly, NoCopyInto
  <2>11. KernelsInOrder'
    <3>1. ASSUME NEW a \in Queued("kernel")
          PROVE  /\ Holders(a) # {} => Holders(a)' # {}
                 /\ a \in known' => a \in known /\ (Real(a) = newest[a] => Real(a)' = newest'[a])
                 /\ \A c \in Buffers' : a \in Words(c)' =>
                      /\ c \in Buffers /\ a \in Words(c)
                      /\ dirty[c] \/ Launched(c) => dirty'[c] \/ Launched(c)'
      <4>1. a \notin S /\ a \in Addresses
        BY <2>3
      <4>2. Holders(a) # {}
        BY <2>1, QueuedWords DEF Orderly, KernelsInOrder
      <4>3. Holders(a)' = Holders(a) /\ Real(a)' = Real(a)
        BY <1>8, <4>1, <4>2
      <4>4. newest'[a] = newest[a] /\ (a \in known' <=> a \in known)
        BY <1>6, <4>1
      <4>5. ASSUME NEW c \in Buffers', a \in Words(c)'
            PROVE  c \in Buffers /\ a \in Words(c) /\ dirty'[c] = dirty[c]
        BY <1>6, <4>1, <4>5
      <4>6. QED
        BY <2>6, <4>2, <4>3, <4>4, <4>5
    <3>2. QED
      BY <1>2, <2>1, <3>1, KernelsKept DEF Orderly
  <2>12. CopiesInOrder'
    <3>1. \A a \in Queued("htod") \cap known' :
            a \in known /\ (guest[a] = newest[a] => guest'[a] = newest'[a])
      BY <1>2, <1>6, <2>3
    <3>2. QED
      BY <1>2, <2>1, <3>1, CopiesKept DEF Orderly
  <2>13. FlagTells'
    <3>1. SUFFICES ASSUME NEW c \in Buffers', NEW a \in Words(c)', a \in known'
                   PROVE  /\ (dirty'[c] \/ \E t \in Threads : c \in call[t].args \ call[t].todo) /\ Holders(a)' # {} =>
                               Real(a)' = newest'[a]
                          /\ ~dirty'[c] /\ ~Launched(c) /\ a \notin Queued("kernel") \cup Queued("dtoh") =>
                               guest[a] = newest'[a]
      BY <1>2, <2>2, <2>6 DEF FlagTells
    <3>2. CASE c \in Buffers
      <4>1. a \in Words(c) /\ a \notin S /\ a \in Addresses /\ a \in known
        BY <1>6, <1>9, <3>1, <3>2
      <4>2. /\ (dirty[c] \/ \E t \in Threads : c \in call[t].args \ call[t].todo) /\ Holders(a) # {} =>
                 Real(a) = newest[a]
            /\ ~dirty[c] /\ ~Launched(c) /\ a \notin Queued("kernel") \cup Queued("dtoh") =>
                 guest[a] = newest[a]
        BY <2>1, <3>2, <4>1 DEF Orderly, FlagTells
      <4>3. Holders(a)' = Holders(a) /\ (Holders(a) # {} => Real(a)' = Real(a))
        BY <1>8, <4>1
      <4>4. newest'[a] = newest[a] /\ dirty'[c] = dirty[c]
        BY <1>6, <3>2, <4>1
      <4>5. QED
        BY <4>2, <4>3, <4>4
    <3>3. CASE c = b
      BY <1>6, <2>4, <3>1, <3>3
    <3>4. QED
      BY <1>6, <3>2, <3>3
  <2>14. QED
    BY <2>8, <2>9, <2>10, <2>11, <2>12, <2>13 DEF Orderly
<1>13. QED
  BY <1>10, <1>11, <1>12 DEF HostMemInv

LEMMA CpuWriteStep ==
  ASSUME HostMemInv, NEW b \in Addresses, NEW w \in Addresses, CpuWrite(b, w)
  PROVE  HostMemInv'
<1>1. /\ b \in Buffers /\ w \in Words(b) /\ MayAccess(b) /\ clock + Len(queue) < MaxVersion
      /\ clock' = clock + 1
      /\ guest' = [guest EXCEPT ![w] = clock + 1] /\ newest' = [newest EXCEPT ![w] = clock + 1]
      /\ known' = known \cup {w}
      /\ UNCHANGED <<up, size, dirty, host, call, queue>>
  BY DEF CpuWrite, Room, registry
<1>2. TypeOK /\ LookupFindsOwn
  BY DEF HostMemInv
<1>3. /\ guest \in [Addresses -> Versions] /\ newest \in [Addresses -> Versions]
      /\ clock \in 0..MaxVersion /\ MaxVersion \in Nat /\ Len(queue) \in Nat
      /\ known \subseteq Addresses
  BY <1>2, HostMemAssumption, QueueTypes DEF TypeOK
<1>4. Buffers' = Buffers /\ WordsOf(Buffers)' = WordsOf(Buffers) /\ \A c : Words(c)' = Words(c)
  BY <1>1, SameBuffers
<1>5. /\ guest'[w] = clock + 1 /\ newest'[w] = clock + 1
      /\ \A a \in Addresses : a # w =>
           guest'[a] = guest[a] /\ newest'[a] = newest[a] /\ (a \in known' <=> a \in known)
  BY <1>1, <1>3
<1>6. TypeOK'
  <2>1. Versions \subseteq Versions' /\ Entries \subseteq Entries'
    BY <1>1, <1>3, Grown
  <2>2. clock + 1 \in Versions'
    BY <1>1, <1>3 DEF Versions
  <2>3. guest' \in [Addresses -> Versions'] /\ newest' \in [Addresses -> Versions']
    BY <1>1, <1>3, <2>1, <2>2
  <2>4. host' \in Seq(Entries')
    <3>1. host \in [1..Len(host) -> Entries'] /\ Len(host) \in Nat
      BY <1>2, <2>1, HostTypes
    <3>2. QED
      BY <1>1, <3>1, SeqDef
  <2>5. clock' \in 0..MaxVersion /\ clock' + Len(queue') <= MaxVersion
    BY <1>1, <1>3
  <2>6. QED
    BY <1>1, <1>2, <1>4, <2>3, <2>4, <2>5 DEF TypeOK
<1>7. \A a : Holders(a)' = Holders(a) /\ Seen(a)' = Seen(a) /\ Real(a)' = Real(a)
  BY <1>1, SameLookup
<1>8. LookupFindsOwn'
  BY <1>1, <1>2, <1>7, LookupKept
<1>9. ASSUME Careful PROVE Orderly'
  <2>1. Orderly
    BY <1>9 DEF HostMemInv
  <2>2. /\ Words(b) \cap (InCall \cup Queued("kernel") \cup Queued("htod") \cup Queued("dtoh")) = {}
        /\ ~dirty[b]
    BY <1>1, <1>9 DEF MayAccess
  <2>3. \A t \in Threads : b \notin call[t].args
    BY <1>1, <1>2, <2>2, CallWords, Geometry
  <2>4. \A op : Queued(op)' = Queued(op)
    BY <1>1, SameQueued
  <2>5. \A c : (InLaunch(c)' <=> InLaunch(c)) /\ (Launched(c)' <=> Launched(c))
    BY <1>1 DEF InLaunch, Launched
  <2>6. LaunchesApart' /\ QueueInBuffers'
    BY <1>1, <1>4, <2>1 DEF Orderly, LaunchesApart, QueueInBuffers
  <2>7. NoCopyInto'
    BY <1>1, <1>4, <2>1, <2>4, <2>5 DEF Orderly, NoCopyInto
  <2>8. \A op, a : a \in Queued(op) => a \in Addresses
    BY <1>2, QueuedWords, QueueTypes
  <2>9. KernelsInOrder'
    <3>1. ASSUME NEW a \in Queued("kernel")
          PROVE  /\ Holders(a) # {} => Holders(a)' # {}
                 /\ a \in known' => a \in known /\ (Real(a) = newest[a] => Real(a)' = newest'[a])
                 /\ \A c \in Buffers' : a \in Words(c)' =>
                      /\ c \in Buffers /\ a \in Words(c)
                      /\ dirty[c] \/ Launched(c) => dirty'[c] \/ Launched(c)'
      <4>1. a # w /\ a \in Addresses
        BY <1>1, <2>2, <2>8
      <4>2. QED
        BY <1>1, <1>4, <1>5, <1>7, <2>5, <4>1
    <3>2. QED
      BY <1>1, <2>1, <3>1, KernelsKept DEF Orderly
  <2>10. CopiesInOrder'
    <3>1. ASSUME NEW a \in Queued("htod") \cap known'
          PROVE  a \in known /\ (guest[a] = newest[a] => guest'[a] = newest'[a])
      <4>1. a # w /\ a \in Addresses
        BY <1>1, <2>2, <2>8
      <4>2. QED
        BY <1>5, <4>1
    <3>2. QED
      BY <1>1, <2>1, <3>1, CopiesKept DEF Orderly
  <2>11. FlagTells'
    <3>1. SUFFICES ASSUME NEW c \in Buffers, NEW a \in Words(c), a \in known'
                   PROVE  /\ (dirty[c] \/ \E t \in Threads : c \in call[t].args \ call[t].todo) /\ Holders(a) # {} =>
                               Real(a) = newest'[a]
                          /\ ~dirty[c] /\ ~Launched(c) /\ a \notin Queued("kernel") \cup Queued("dtoh") =>
                               guest'[a] = newest'[a]
      BY <1>1, <1>4, <1>7, <2>4, <2>5 DEF FlagTells
    <3>2. CASE a = w
      <4>1. c = b
        BY <1>1, <1>2, <3>1, <3>2, Geometry
      <4>2. QED
        BY <1>5, <2>2, <2>3, <3>2, <4>1
    <3>3. CASE a # w
      <4>1. a \in Addresses
        BY <1>2, <3>1, Geometry
      <4>2. a \in known /\ guest'[a] = guest[a] /\ newest'[a] = newest[a]
        BY <1>5, <3>1, <3>3, <4>1
      <4>3. QED
        BY <2>1, <3>1, <4>2 DEF Orderly, FlagTells
    <3>4. QED
      BY <3>2, <3>3
  <2>12. QED
    BY <2>1, <2>6, <2>7, <2>9, <2>10, <2>11 DEF Orderly
<1>10. QED
  BY <1>6, <1>8, <1>9 DEF HostMemInv

------------------------------------------------------------------------------
(* A launch.                                                               *)

(* A memcpy of typed content leaves the list typed.                        *)
LEMMA StoredTyped ==
  ASSUME TypeOK, NEW T \in SUBSET Addresses, NEW content, Versions \subseteq Versions',
         \A a \in T : content[a] \in Versions'
  PROVE  Stored(T, content) \in Seq(Entries')
<1> DEFINE V == Versions'
<1> DEFINE E == [va : Addresses, data : UNION {[D -> V] : D \in SUBSET Addresses}]
<1>a. E = Entries'
  BY DEF Entries
<1> DEFINE new(i) == [a \in DOMAIN host[i].data |->
                        IF a \in T /\ Holder(a) = i THEN content[a] ELSE host[i].data[a]]
<1>1. /\ Len(host) \in Nat /\ DOMAIN host = 1..Len(host)
      /\ \A i \in DOMAIN host :
           /\ host[i] \in Entries /\ host[i].va \in Addresses
           /\ DOMAIN host[i].data \subseteq Addresses
           /\ host[i].data \in [DOMAIN host[i].data -> Versions]
  BY HostTypes
<1>2. \A i \in DOMAIN host : [host[i] EXCEPT !.data = new(i)] \in E
  <2>1. SUFFICES ASSUME NEW i \in DOMAIN host PROVE [host[i] EXCEPT !.data = new(i)] \in E
    OBVIOUS
  <2>2. new(i) \in [DOMAIN host[i].data -> V]
    BY <1>1
  <2>3. new(i) \in UNION {[D -> V] : D \in SUBSET Addresses}
    BY <1>1, <2>2
  <2> HIDE DEF new
  <2>4. [host[i] EXCEPT !.data = new(i)] = [va |-> host[i].va, data |-> new(i)]
    BY <1>1 DEF Entries
  <2>5. QED
    BY <1>1, <2>3, <2>4
<1>3. Stored(T, content) = [i \in DOMAIN host |-> [host[i] EXCEPT !.data = new(i)]]
  BY DEF Stored
<1> HIDE DEF new, E
<1>4. Stored(T, content) \in [1..Len(host) -> E]
  BY <1>1, <1>2, <1>3
<1>5. Stored(T, content) \in Seq(E)
  BY <1>1, <1>4, SeqDef
<1>6. QED
  BY <1>a, <1>5

LEMMA SyncStep ==
  ASSUME HostMemInv, NEW t \in Threads, NEW p \in Addresses, SyncHostMemArg(t, p)
  PROVE  HostMemInv'
<1>1. /\ call[t].at = "sync" /\ p \in call[t].todo
      /\ call' = [call EXCEPT ![t].todo = @ \ {p}]
      /\ UNCHANGED <<up, guest, size, dirty, queue, clock, newest>>
  BY DEF SyncHostMemArg, registry
<1>2. TypeOK /\ LookupFindsOwn
  BY DEF HostMemInv
<1>3. PICK T \in SUBSET Addresses :
        /\ \A a \in T : p \in Buffers /\ ~dirty[p] /\ a \in Words(p) /\ Holders(a) # {}
        /\ host' = Stored(T, guest) \/ (host' = host /\ T = {})
        /\ known' \subseteq known
        /\ p \in Buffers /\ ~dirty[p] => host' = Stored(T, guest) /\ known' = known \ (Words(p) \ T)
  <2>1. CASE Pushes(p)
    <3>1. PICK T \in Reached({a \in Words(p) : Holders(a) # {}}) :
            host' = Stored(T, guest) /\ known' = known \ (Words(p) \ T)
      BY <2>1 DEF SyncHostMemArg
    <3>2. p \in Buffers /\ ~dirty[p] /\ Words(p) \subseteq Addresses
      BY <1>2, <2>1, Geometry DEF Pushes
    <3>3. T \in SUBSET Addresses /\ \A a \in T : a \in Words(p) /\ Holders(a) # {}
      BY <3>1, <3>2 DEF Reached
    <3>4. known' \subseteq known
      BY <3>1
    <3>5. QED
      BY <3>1, <3>2, <3>3, <3>4
  <2>2. CASE ~Pushes(p)
    <3>1. host' = host /\ known' = known
      BY <2>2 DEF SyncHostMemArg
    <3>2. ~(p \in Buffers /\ ~dirty[p])
      BY <2>2 DEF Pushes
    <3>3. {} \in SUBSET Addresses /\ \A a \in {} : FALSE
      OBVIOUS
    <3>4. QED
      BY <3>1, <3>2, <3>3
  <2>3. QED
    BY <2>1, <2>2
<1>4. /\ guest \in [Addresses -> Versions] /\ known \subseteq Addresses
      /\ call \in [Threads -> Calls]
  BY <1>2 DEF TypeOK
<1>5. Buffers' = Buffers /\ WordsOf(Buffers)' = WordsOf(Buffers) /\ \A c : Words(c)' = Words(c)
  BY <1>1, SameBuffers
<1>6. /\ call'[t].at = "sync" /\ call'[t].args = call[t].args /\ call'[t].todo = call[t].todo \ {p}
      /\ \A u \in Threads : u # t => call'[u] = call[u]
      /\ \A u \in Threads : call'[u].at = call[u].at /\ call'[u].args = call[u].args
  BY <1>1, <1>4 DEF Calls
<1>7. \A a : /\ Holders(a)' = Holders(a)
             /\ Holders(a) # {} =>
                  /\ Seen(a)'.va = Seen(a).va /\ DOMAIN Seen(a)'.data = DOMAIN Seen(a).data
                  /\ Real(a)' = IF a \in T THEN guest[a] ELSE Real(a)
  <2>1. CASE host' = Stored(T, guest)
    BY <1>2, <2>1, StoredLookup
  <2>2. CASE host' = host /\ T = {}
    BY <2>2, SameLookup
  <2>3. QED
    BY <1>3, <2>1, <2>2
<1>8. TypeOK'
  <2>1. Versions' = Versions /\ Entries' = Entries
    BY <1>1 DEF Versions, Entries
  <2>2. host' \in Seq(Entries)
    <3>1. \A a \in T : guest[a] \in Versions
      BY <1>4
    <3>2. Stored(T, guest) \in Seq(Entries)
      BY <1>2, <2>1, <3>1, StoredTyped
    <3>3. QED
      BY <1>2, <1>3, <3>2, HostTypes
  <2>3. call' \in [Threads -> Calls]
    BY <1>1, <1>4 DEF Calls
  <2>4. \A u \in Threads : /\ call'[u].todo \subseteq call'[u].args
                           /\ call'[u].at = "idle" => call'[u] = Idle
                           /\ call'[u].at = "mark" => call'[u].todo = {}
    BY <1>2, <1>6 DEF TypeOK
  <2>5. QED
    BY <1>1, <1>2, <1>3, <1>4, <1>5, <2>1, <2>2, <2>3, <2>4 DEF TypeOK
<1>9. LookupFindsOwn'
  BY <1>1, <1>2, <1>7, LookupKept
<1>10. ASSUME Careful PROVE Orderly'
  <2>1. Orderly
    BY <1>10 DEF HostMemInv
  <2>2. p \in call[t].args /\ p \in Buffers
    BY <1>1, <1>2, <2>1, CallTypes DEF Orderly, LaunchesApart
  <2>3. InLaunch(p) /\ ~Launched(p)
    BY <1>1, <2>1, <2>2 DEF Orderly, LaunchesApart, InLaunch, Launched
  <2>4. \A op : Queued(op)' = Queued(op)
    BY <1>1, SameQueued
  <2>5. \A c : (InLaunch(c)' <=> InLaunch(c)) /\ (Launched(c)' <=> Launched(c))
    BY <1>6 DEF InLaunch, Launched
  (* What is pushed is at rest: no kernel and no copy is queued to it.     *)
  <2>6. \A a \in Words(p) : ~dirty[p] => a \notin Queued("kernel") /\ a \notin Queued("dtoh")
    <3>1. SUFFICES ASSUME NEW a \in Words(p), ~dirty[p]
                   PROVE  a \notin Queued("kernel") /\ a \notin Queued("dtoh")
      OBVIOUS
    <3>2. a \notin Queued("dtoh")
      BY <2>1, <2>2, <2>3 DEF Orderly, NoCopyInto
    <3>3. SUFFICES ASSUME NEW k \in DOMAIN queue, queue[k].op = "kernel", a \in queue[k].words
                   PROVE  FALSE
      BY <3>2, QueuedWords
    <3>4. FilledAfter(k, a)
      BY <2>1, <2>2, <2>3, <3>1, <3>3 DEF Orderly, KernelsInOrder
    <3>5. a \in Queued("dtoh")
      BY <3>4, QueuedWords DEF FilledAfter
    <3>6. QED
      BY <3>2, <3>5
  <2>7. LaunchesApart' /\ QueueInBuffers'
    BY <1>1, <1>5, <1>6, <2>1 DEF Orderly, LaunchesApart, QueueInBuffers
  <2>8. NoCopyInto'
    BY <1>1, <1>5, <2>1, <2>4, <2>5 DEF Orderly, NoCopyInto
  <2>9. KernelsInOrder'
    <3>1. ASSUME NEW a \in Queued("kernel")
          PROVE  /\ Holders(a) # {} => Holders(a)' # {}
                 /\ a \in known' => a \in known /\ (Real(a) = newest[a] => Real(a)' = newest'[a])
                 /\ \A c \in Buffers' : a \in Words(c)' =>
                      /\ c \in Buffers /\ a \in Words(c)
                      /\ dirty[c] \/ Launched(c) => dirty'[c] \/ Launched(c)'
      <4>1. a \notin T
        BY <1>3, <2>6, <3>1
      <4>2. Holders(a) # {}
        BY <2>1, QueuedWords DEF Orderly, KernelsInOrder
      <4>3. Real(a)' = Real(a) /\ Holders(a)' = Holders(a)
        BY <1>7, <4>1, <4>2
      <4>4. QED
        BY <1>1, <1>3, <1>5, <2>5, <4>2, <4>3
    <3>2. QED
      BY <1>1, <2>1, <3>1, KernelsKept DEF Orderly
  <2>10. CopiesInOrder'
    BY <1>1, <1>3, <2>1, CopiesKept DEF Orderly
  <2>11. FlagTells'
    <3>1. SUFFICES ASSUME NEW c \in Buffers, NEW a \in Words(c), a \in known'
                   PROVE  /\ (dirty[c] \/ \E u \in Threads : c \in call'[u].args \ call'[u].todo) /\ Holders(a) # {} =>
                               Real(a)' = newest[a]
                          /\ ~dirty[c] /\ ~Launched(c) /\ a \notin Queued("kernel") \cup Queued("dtoh") =>
                               guest[a] = newest[a]
      BY <1>1, <1>5, <1>7, <2>4, <2>5 DEF FlagTells
    <3>2. a \in known
      BY <1>3, <3>1
    <3>3. /\ (dirty[c] \/ \E u \in Threads : c \in call[u].args \ call[u].todo) /\ Holders(a) # {} =>
               Real(a) = newest[a]
          /\ ~dirty[c] /\ ~Launched(c) /\ a \notin Queued("kernel") \cup Queued("dtoh") =>
               guest[a] = newest[a]
      BY <2>1, <3>1, <3>2 DEF Orderly, FlagTells
    <3>4. CASE c = p /\ ~dirty[p]
      <4>1. a \in T
        BY <1>3, <2>2, <3>1, <3>4
      <4>2. guest[a] = newest[a]
        BY <2>3, <2>6, <3>1, <3>3, <3>4
      <4>3. Holders(a) # {} => Real(a)' = guest[a]
        BY <1>7, <4>1
      <4>4. QED
        BY <4>2, <4>3
    <3>5. CASE ~(c = p /\ ~dirty[p])
      <4>1. a \notin T
        BY <1>2, <1>3, <3>1, <3>5, Geometry
      <4>2. Holders(a) # {} => Real(a)' = Real(a)
        BY <1>7, <4>1
      <4>3. (dirty[c] \/ \E u \in Threads : c \in call'[u].args \ call'[u].todo) =>
              (dirty[c] \/ \E u \in Threads : c \in call[u].args \ call[u].todo)
        BY <1>6, <3>5
      <4>4. QED
        BY <3>3, <4>2, <4>3
    <3>6. QED
      BY <3>4, <3>5
  <2>12. QED
    BY <2>7, <2>8, <2>9, <2>10, <2>11 DEF Orderly
<1>11. QED
  BY <1>8, <1>9, <1>10 DEF HostMemInv

(* The stream grows at its end only.                                       *)
LEMMA Behind ==
  ASSUME TypeOK, NEW o \in Operations, queue' = queue \/ queue' = Append(queue, o)
  PROVE  /\ queue' \in Seq(Operations) /\ Len(queue') <= Len(queue) + 1
         /\ \A k \in DOMAIN queue : k \in Nat /\ k \in DOMAIN queue' /\ queue'[k] = queue[k]
         /\ \A k \in DOMAIN queue' :
              k \in DOMAIN queue \/ (queue'[k] = o /\ k \in Nat /\ \A j \in DOMAIN queue : j < k)
         /\ \A k, j \in DOMAIN queue' : j < k => j \in DOMAIN queue
<1>1. queue \in Seq(Operations) /\ Len(queue) \in Nat /\ DOMAIN queue = 1..Len(queue)
  BY QueueTypes
<1>2. CASE queue' = queue
  BY <1>1, <1>2
<1>3. CASE queue' = Append(queue, o)
  <2>1. /\ queue' \in Seq(Operations) /\ Len(queue') = Len(queue) + 1
        /\ DOMAIN queue' = 1..(Len(queue) + 1) /\ queue'[Len(queue) + 1] = o
        /\ \A k \in 1..Len(queue) : queue'[k] = queue[k]
    BY <1>1, <1>3, AppendProperties, LenProperties
  <2>2. \A k \in 1..Len(queue) : k \in Nat /\ k \in 1..(Len(queue) + 1) /\ k < Len(queue) + 1
    BY <1>1
  <2>3. \A k \in 1..(Len(queue) + 1) : k \in 1..Len(queue) \/ (k = Len(queue) + 1 /\ k \in Nat)
    BY <1>1
  <2>4. \A k, j \in 1..(Len(queue) + 1) : j < k => j \in 1..Len(queue)
    BY <1>1
  <2>5. Len(queue') <= Len(queue) + 1
    BY <1>1, <2>1
  <2>6. QED
    BY <1>1, <2>1, <2>2, <2>3, <2>4, <2>5
<1>4. QED
  BY <1>2, <1>3

LEMMA StillBehind ==
  ASSUME \A k \in DOMAIN queue : k \in DOMAIN queue' /\ queue'[k] = queue[k]
  PROVE  /\ \A k, a : FilledAfter(k, a) => FilledAfter(k, a)'
         /\ \A i, k, a : Between(i, k, a) => Between(i, k, a)'
         /\ \A op : Queued(op) \subseteq Queued(op)'
<1>1. \A k, a : FilledAfter(k, a) => FilledAfter(k, a)'
  BY DEF FilledAfter
<1>2. \A i, k, a : Between(i, k, a) => Between(i, k, a)'
  BY DEF Between
<1>3. \A op : Queued(op) \subseteq Queued(op)'
  BY QueuedWords
<1>4. QED
  BY <1>1, <1>2, <1>3

LEMMA LaunchStep ==
  ASSUME HostMemInv, NEW t \in Threads, Launch(t)
  PROVE  HostMemInv'
<1> DEFINE found == {p \in call[t].args : Holders(p) # {}}
<1> DEFINE W == UNION {DOMAIN host[Holder(p)].data : p \in found}
<1> DEFINE o == Operation("kernel", W, {})
<1>1. /\ call[t].at = "sync" /\ call[t].todo = {}
      /\ call' = [call EXCEPT ![t].at = "mark"]
      /\ queue' = queue \/ (queue' = Append(queue, o) /\ clock + Len(queue) < MaxVersion)
      /\ UNCHANGED <<up, guest, size, dirty, host, clock, newest, known>>
  BY DEF Launch, registry, history, Room
<1>2. TypeOK /\ LookupFindsOwn
  BY DEF HostMemInv
<1>3. Buffers' = Buffers /\ WordsOf(Buffers)' = WordsOf(Buffers) /\ \A b : Words(b)' = Words(b)
  BY <1>1, SameBuffers
<1>4. call \in [Threads -> Calls]
  BY <1>2, CallTypes
<1>5. /\ call'[t].at = "mark" /\ call'[t].todo = {}
      /\ \A u \in Threads : u # t => call'[u] = call[u]
      /\ \A u \in Threads : call'[u].args = call[u].args /\ call'[u].todo = call[u].todo
  BY <1>1, <1>4 DEF Calls
<1>6. \A a : a \in W <=> \E p \in call[t].args : Holders(p) # {} /\ a \in DOMAIN Seen(p).data
  BY DEF Seen
<1> HIDE DEF W
<1>7. o \in Operations /\ o.op = "kernel" /\ o.words = W
  <2>1. \A a \in W : a \in Addresses
    BY <1>2, <1>6, HolderIs, HostTypes DEF Seen
  <2>2. QED
    BY <2>1 DEF Operations, Operation
<1> HIDE DEF o
<1>8. /\ queue' \in Seq(Operations) /\ Len(queue') <= Len(queue) + 1
      /\ \A k \in DOMAIN queue : k \in Nat /\ k \in DOMAIN queue' /\ queue'[k] = queue[k]
      /\ \A k \in DOMAIN queue' :
           k \in DOMAIN queue \/ (queue'[k] = o /\ k \in Nat /\ \A j \in DOMAIN queue : j < k)
      /\ \A k, j \in DOMAIN queue' : j < k => j \in DOMAIN queue
  BY <1>1, <1>2, <1>7, Behind
<1>9. TypeOK'
  <2>1. Versions' = Versions /\ Entries' = Entries
    BY <1>1 DEF Versions, Entries
  <2>2. call' \in [Threads -> Calls]
    BY <1>1, <1>4 DEF Calls
  <2>3. \A u \in Threads : /\ call'[u].todo \subseteq call'[u].args
                           /\ call'[u].at = "idle" => call'[u] = Idle
                           /\ call'[u].at = "mark" => call'[u].todo = {}
    BY <1>2, <1>5 DEF TypeOK
  <2>4. clock' + Len(queue') <= MaxVersion
    <3>1. clock \in 0..MaxVersion /\ clock + Len(queue) <= MaxVersion /\ MaxVersion \in Nat /\ Len(queue) \in Nat
      BY <1>2, HostMemAssumption, QueueTypes DEF TypeOK
    <3>2. Len(queue') \in Nat
      BY <1>8, LenProperties
    <3>3. QED
      BY <1>1, <1>8, <3>1, <3>2
  <2>5. QED
    BY <1>1, <1>2, <1>3, <1>8, <2>1, <2>2, <2>3, <2>4 DEF TypeOK
<1>10. \A a : Holders(a)' = Holders(a) /\ Seen(a)' = Seen(a) /\ Real(a)' = Real(a)
  BY <1>1, SameLookup
<1>11. LookupFindsOwn'
  BY <1>1, <1>2, <1>10, LookupKept
<1>12. ASSUME Careful PROVE Orderly'
  <2>1. Orderly
    BY <1>12 DEF HostMemInv
  <2>2. call[t].args \subseteq Buffers
    BY <2>1 DEF Orderly, LaunchesApart
  (* The kernel gets whole buffers, those that are found.                  *)
  <2>3. \A a \in W : \E p \in call[t].args : Holders(p) # {} /\ a \in Words(p) /\ Holders(a) # {}
    <3>1. SUFFICES ASSUME NEW a \in W
                   PROVE  \E p \in call[t].args : Holders(p) # {} /\ a \in Words(p) /\ Holders(a) # {}
      OBVIOUS
    <3>2. PICK p \in call[t].args : Holders(p) # {} /\ a \in DOMAIN Seen(p).data
      BY <1>6
    <3>3. p \in Buffers /\ p \in Words(p)
      BY <1>2, <2>2, Geometry
    <3>4. a \in Words(p)
      BY <1>2, <3>2, <3>3, OwnIsFound
    <3>5. Holders(a) # {}
      BY <1>2, <3>2, <3>3, <3>4, FoundTogether
    <3>6. QED
      BY <3>2, <3>4, <3>5
  <2>4. \A b : InLaunch(b)' <=> InLaunch(b)
    BY <1>5 DEF InLaunch
  <2>5. \A b : Launched(b) => Launched(b)'
    BY <1>5 DEF Launched
  <2>6. \A b \in call[t].args : InLaunch(b) /\ Launched(b)'
    BY <1>5 DEF InLaunch, Launched
  <2>7. \A op : Queued(op) \subseteq Queued(op)'
    BY <1>8, StillBehind
  <2>8. Queued("dtoh")' = Queued("dtoh")
    <3>1. \A a : a \in Queued("dtoh")' => a \in Queued("dtoh")
      BY <1>7, <1>8, QueuedWords
    <3>2. QED
      BY <2>7, <3>1
  <2>9. LaunchesApart'
    BY <1>3, <1>5, <2>1 DEF Orderly, LaunchesApart
  <2>10. QueueInBuffers'
    <3>1. W \subseteq WordsOf(Buffers)
      BY <2>2, <2>3 DEF WordsOf
    <3>2. QED
      BY <1>3, <1>7, <1>8, <2>1, <3>1 DEF Orderly, QueueInBuffers
  <2>11. NoCopyInto'
    BY <1>1, <1>3, <2>1, <2>4, <2>8 DEF Orderly, NoCopyInto
  <2>12. KernelsInOrder'
    <3>1. SUFFICES ASSUME NEW k \in DOMAIN queue', queue'[k].op = "kernel", NEW a \in queue'[k].words
                   PROVE  /\ Holders(a) # {} /\ (a \in known => Real(a) = newest[a])
                          /\ \A j \in DOMAIN queue' : j < k /\ queue'[j].op = "dtoh" => a \notin queue'[j].words
                          /\ \A b \in Buffers : a \in Words(b) => dirty[b] \/ Launched(b)' \/ FilledAfter(k, a)'
      BY <1>1, <1>3, <1>10 DEF KernelsInOrder
    <3>2. CASE k \in DOMAIN queue
      <4>1. queue'[k] = queue[k]
        BY <1>8, <3>2
      <4>2. /\ Holders(a) # {} /\ (a \in known => Real(a) = newest[a])
            /\ \A j \in DOMAIN queue : j < k /\ queue[j].op = "dtoh" => a \notin queue[j].words
            /\ \A b \in Buffers : a \in Words(b) => dirty[b] \/ Launched(b) \/ FilledAfter(k, a)
        BY <2>1, <3>1, <3>2, <4>1 DEF Orderly, KernelsInOrder
      <4>3. \A j \in DOMAIN queue' : j < k => j \in DOMAIN queue /\ queue'[j] = queue[j]
        BY <1>8
      <4>4. FilledAfter(k, a) => FilledAfter(k, a)'
        BY <1>8, StillBehind
      <4>5. QED
        BY <2>5, <4>2, <4>3, <4>4
    <3>3. CASE k \notin DOMAIN queue
      <4>1. a \in W
        BY <1>7, <1>8, <3>1, <3>3
      <4>2. PICK p \in call[t].args : Holders(p) # {} /\ a \in Words(p) /\ Holders(a) # {}
        BY <2>3, <4>1
      <4>3. p \in Buffers
        BY <2>2
      <4>4. p \in call[t].args \ call[t].todo
        BY <1>1, <4>2
      <4>5. a \in known => Real(a) = newest[a]
        BY <2>1, <4>2, <4>3, <4>4 DEF Orderly, FlagTells
      <4>6. a \notin Queued("dtoh")
        BY <2>1, <2>6, <4>2, <4>3 DEF Orderly, NoCopyInto
      <4>7. \A j \in DOMAIN queue' : queue'[j].op = "dtoh" => a \notin queue'[j].words
        BY <2>8, <4>6, QueuedWords
      <4>8. \A b \in Buffers : a \in Words(b) => b = p
        BY <1>2, <4>2, <4>3, Geometry
      <4>9. QED
        BY <2>6, <4>2, <4>5, <4>7, <4>8
    <3>4. QED
      BY <3>2, <3>3
  <2>13. CopiesInOrder'
    <3>1. SUFFICES ASSUME NEW k \in DOMAIN queue', queue'[k].op = "htod", NEW a \in queue'[k].words
                   PROVE  /\ a \in known => guest[a] = newest[a] \/ Between(0, k, a)'
                          /\ \A i \in DOMAIN queue' : i < k /\ queue'[i].op = "kernel" /\ a \in queue'[i].words =>
                               Between(i, k, a)'
      BY <1>1 DEF CopiesInOrder
    <3>2. k \in DOMAIN queue /\ queue'[k] = queue[k]
      BY <1>7, <1>8, <3>1
    <3>3. /\ a \in known => guest[a] = newest[a] \/ Between(0, k, a)
          /\ \A i \in DOMAIN queue : i < k /\ queue[i].op = "kernel" /\ a \in queue[i].words => Between(i, k, a)
      BY <2>1, <3>1, <3>2 DEF Orderly, CopiesInOrder
    <3>4. \A i : Between(i, k, a) => Between(i, k, a)'
      BY <1>8, StillBehind
    <3>5. \A i \in DOMAIN queue' : i < k => i \in DOMAIN queue /\ queue'[i] = queue[i]
      BY <1>8
    <3>6. QED
      BY <3>3, <3>4, <3>5
  <2>14. FlagTells'
    <3>1. SUFFICES ASSUME NEW b \in Buffers, NEW a \in Words(b), a \in known
                   PROVE  /\ (dirty[b] \/ \E u \in Threads : b \in call'[u].args \ call'[u].todo) /\ Holders(a) # {} =>
                               Real(a) = newest[a]
                          /\ ~dirty[b] /\ ~Launched(b)' /\ a \notin Queued("kernel")' \cup Queued("dtoh")' =>
                               guest[a] = newest[a]
      BY <1>1, <1>3, <1>10 DEF FlagTells
    <3>2. (\E u \in Threads : b \in call'[u].args \ call'[u].todo) => \E u \in Threads : b \in call[u].args \ call[u].todo
      BY <1>5
    <3>3. QED
      BY <2>1, <2>5, <2>7, <3>1, <3>2 DEF Orderly, FlagTells
  <2>15. QED
    BY <2>9, <2>10, <2>11, <2>12, <2>13, <2>14 DEF Orderly
<1>13. QED
  BY <1>9, <1>11, <1>12 DEF HostMemInv

------------------------------------------------------------------------------
(* Copies.                                                                 *)

LEMMA RealTyped ==
  ASSUME TypeOK, NEW a, Holders(a) # {}
  PROVE  Real(a) \in Versions
<1>1. Holder(a) \in DOMAIN host /\ a \in DOMAIN host[Holder(a)].data
  BY HolderIs DEF Seen
<1>2. host[Holder(a)].data \in [DOMAIN host[Holder(a)].data -> Versions]
  BY <1>1, HostTypes
<1>3. QED
  BY <1>1, <1>2 DEF Real

(* A copy of a span within a buffer.                                       *)
LEMMA CopiedSpan ==
  ASSUME TypeOK, NEW b \in Buffers, NEW a \in Addresses, NEW n \in Addresses, Span(a, n) \subseteq Words(b)
  PROVE  /\ a \in Span(a, n) /\ a \in Words(b)
         /\ Span(a, n) = Words(b) => a = b
         /\ a \in Buffers => a = b
<1>1. size \in [Addresses -> 0..Size] /\ Size \in Nat
  BY HostMemAssumption DEF TypeOK
<1>2. a \in Nat /\ n \in Nat /\ n # 0 /\ b \in Nat /\ size[b] \in Nat /\ size[b] # 0
  BY <1>1 DEF Addresses, Buffers
<1>3. a \in Span(a, n) /\ b \in Span(b, size[b])
  BY <1>2 DEF Span
<1>4. a \in Words(b)
  BY <1>3
<1>5. ASSUME Span(a, n) = Words(b) PROVE a = b
  <2>1. a \in Span(b, size[b]) /\ b \in Span(a, n)
    BY <1>3, <1>4, <1>5 DEF Words
  <2>2. QED
    BY <1>2, <2>1 DEF Span
<1>6. ASSUME a \in Buffers PROVE a = b
  BY <1>4, <1>6, Geometry
<1>7. QED
  BY <1>3, <1>4, <1>5, <1>6

LEMMA CopyToDeviceStep ==
  ASSUME HostMemInv, NEW b \in Addresses, NEW n \in Addresses, NEW v \in Addresses, NEW lib,
         CopyToDevice(b, v, Span(v, n), lib)
  PROVE  HostMemInv'
<1> DEFINE S == Span(v, n)
<1> DEFINE o == Operation("htod", S, {})
<1>1. /\ b \in Buffers /\ S \subseteq Words(b) /\ MayCopy(b, S, lib)
      /\ Careful /\ dirty[b] => S \cap Queued("kernel") = {}
      /\ clock + Len(queue) < MaxVersion
      /\ UNCHANGED <<up, size, host, call, clock, newest, known>>
  BY DEF CopyToDevice, history, Room
<1>2. TypeOK /\ LookupFindsOwn
  BY DEF HostMemInv
(* The words T that were pulled, and whether the copy followed.            *)
<1>3. PICK T \in SUBSET S :
        /\ \A w \in T : Holders(w) # {}
        /\ guest' = Refreshed(T)
        /\ IF Pulled(v, lib)
           THEN dirty' = [dirty EXCEPT ![v] = T # S] /\ queue' = IF T = S THEN Append(queue, o) ELSE queue
           ELSE dirty' = dirty /\ T = {} /\ queue' = Append(queue, o)
  <2>1. CASE Pulled(v, lib)
    <3>1. PICK T \in Reached({w \in S : Holders(w) # {}}) :
            /\ guest' = Refreshed(T) /\ dirty' = [dirty EXCEPT ![v] = T # S]
            /\ queue' = IF T = S THEN Append(queue, o) ELSE queue
      BY <2>1 DEF CopyToDevice
    <3>2. T \in SUBSET S /\ \A w \in T : Holders(w) # {}
      BY <3>1 DEF Reached
    <3>3. QED
      BY <2>1, <3>1, <3>2
  <2>2. CASE ~Pulled(v, lib)
    <3>1. guest' = guest /\ dirty' = dirty /\ queue' = Append(queue, o)
      BY <2>2 DEF CopyToDevice
    <3>2. Refreshed({}) = guest
      <4>1. guest \in [Addresses -> Versions]
        BY <1>2 DEF TypeOK
      <4>2. QED
        BY <4>1 DEF Refreshed
    <3>3. {} \in SUBSET S /\ \A w \in {} : FALSE
      OBVIOUS
    <3>4. QED
      BY <2>2, <3>1, <3>2, <3>3
  <2>3. QED
    BY <2>1, <2>2
<1>4. /\ guest \in [Addresses -> Versions] /\ dirty \in [Addresses -> BOOLEAN] /\ known \subseteq Addresses
  BY <1>2 DEF TypeOK
<1>5. /\ v \in S /\ v \in Words(b) /\ (S = Words(b) => v = b) /\ (v \in Buffers => v = b)
      /\ S \subseteq Addresses
  BY <1>1, <1>2, CopiedSpan, Geometry
<1>6. Buffers' = Buffers /\ WordsOf(Buffers)' = WordsOf(Buffers) /\ \A c : Words(c)' = Words(c)
  BY <1>1, SameBuffers
<1> HIDE DEF S
<1>7. o \in Operations /\ o.op = "htod" /\ o.words = S
  BY <1>5 DEF Operations, Operation
<1> HIDE DEF o
<1>8. /\ queue' \in Seq(Operations) /\ Len(queue') <= Len(queue) + 1
      /\ \A k \in DOMAIN queue : k \in Nat /\ k \in DOMAIN queue' /\ queue'[k] = queue[k]
      /\ \A k \in DOMAIN queue' :
           k \in DOMAIN queue \/ (queue'[k] = o /\ k \in Nat /\ \A j \in DOMAIN queue : j < k)
      /\ \A k, j \in DOMAIN queue' : j < k => j \in DOMAIN queue
  <2>1. queue' = queue \/ queue' = Append(queue, o)
    BY <1>3
  <2>2. QED
    BY <1>2, <1>7, <2>1, Behind
<1>9. \A a \in Addresses : guest'[a] = IF a \in T THEN Real(a) ELSE guest[a]
  BY <1>3 DEF Refreshed
<1>10. /\ \A c \in Addresses : dirty'[c] => dirty[c]
       /\ \A c \in Addresses : c # v => dirty'[c] = dirty[c]
       /\ Pulled(v, lib) => (dirty'[v] <=> T # S)
  BY <1>3, <1>4 DEF Pulled
<1>11. TypeOK'
  <2>1. Versions' = Versions /\ Entries' = Entries
    BY <1>1 DEF Versions, Entries
  <2>2. guest' \in [Addresses -> Versions]
    <3>1. \A a \in T : Real(a) \in Versions
      BY <1>2, <1>3, RealTyped
    <3>2. QED
      BY <1>3, <1>4, <3>1 DEF Refreshed
  <2>3. dirty' \in [Addresses -> BOOLEAN]
    <3>1. (T # S) \in BOOLEAN
      OBVIOUS
    <3>2. QED
      BY <1>3, <1>4, <3>1
  <2>4. \A c \in Addresses : dirty'[c] => c \in Buffers
    BY <1>2, <1>10, Geometry
  <2>5. clock' + Len(queue') <= MaxVersion
    <3>1. clock \in 0..MaxVersion /\ MaxVersion \in Nat /\ Len(queue) \in Nat
      BY <1>2, HostMemAssumption, QueueTypes DEF TypeOK
    <3>2. Len(queue') \in Nat
      BY <1>8, LenProperties
    <3>3. QED
      BY <1>1, <1>8, <3>1, <3>2
  <2>6. QED
    BY <1>1, <1>2, <1>6, <1>8, <2>1, <2>2, <2>3, <2>4, <2>5 DEF TypeOK
<1>12. \A a : Holders(a)' = Holders(a) /\ Seen(a)' = Seen(a) /\ Real(a)' = Real(a)
  BY <1>1, SameLookup
<1>13. LookupFindsOwn'
  BY <1>1, <1>2, <1>12, LookupKept
<1>14. ASSUME Careful PROVE Orderly'
  <2>1. Orderly
    BY <1>14 DEF HostMemInv
  <2>2. Words(b) \cap InCall = {} /\ (dirty[b] => lib = "driver" /\ S = Words(b))
    BY <1>1, <1>14 DEF MayCopy
  <2>3. \A t \in Threads : b \notin call[t].args
    BY <1>1, <1>2, <2>2, CallWords, Geometry
  <2>4. ~InLaunch(b) /\ ~Launched(b)
    BY <2>3 DEF InLaunch, Launched
  (* A dirty buffer is pulled, as a whole; another is not.                 *)
  <2>5. dirty[b] => Pulled(v, lib) /\ v = b /\ S = Words(b)
    BY <1>1, <1>5, <2>2 DEF Pulled
  <2>6. Pulled(v, lib) => dirty[b] /\ v = b /\ S = Words(b)
    BY <1>5, <2>5 DEF Pulled
  <2>7. ASSUME NEW a \in T, a \in known PROVE guest'[a] = newest[a]
    <3>1. Pulled(v, lib) /\ a \in S /\ Holders(a) # {}
      BY <1>3, <2>7
    <3>2. Real(a) = newest[a]
      BY <1>1, <2>1, <2>6, <2>7, <3>1 DEF Orderly, FlagTells
    <3>3. QED
      BY <1>5, <1>9, <2>7, <3>1, <3>2
  (* No kernel of a pulled buffer is queued, and behind a kernel of        *)
  (* another there is a copy that fills it.                                *)
  <2>8. ASSUME NEW a \in S, NEW k \in DOMAIN queue, queue[k].op = "kernel", a \in queue[k].words
        PROVE  ~dirty[b] /\ FilledAfter(k, a)
    <3>1. a \in Queued("kernel") /\ a \in Words(b)
      BY <1>1, <2>8, QueuedWords
    <3>2. ~dirty[b]
      BY <1>1, <1>14, <3>1
    <3>3. QED
      BY <1>1, <2>1, <2>4, <2>8, <3>1, <3>2 DEF Orderly, KernelsInOrder
  <2>9. \A c : (InLaunch(c)' <=> InLaunch(c)) /\ (Launched(c)' <=> Launched(c))
    BY <1>1 DEF InLaunch, Launched
  <2>10. Queued("dtoh")' = Queued("dtoh") /\ Queued("kernel")' = Queued("kernel")
    <3>1. \A op : Queued(op) \subseteq Queued(op)'
      BY <1>8, StillBehind
    <3>2. \A a : a \in Queued("dtoh")' => a \in Queued("dtoh")
      BY <1>7, <1>8, QueuedWords
    <3>3. \A a : a \in Queued("kernel")' => a \in Queued("kernel")
      BY <1>7, <1>8, QueuedWords
    <3>4. Queued("dtoh")' = Queued("dtoh")
      BY <3>1, <3>2
    <3>5. Queued("kernel")' = Queued("kernel")
      BY <3>1, <3>3
    <3>6. QED
      BY <3>4, <3>5
  <2>11. LaunchesApart'
    BY <1>1, <1>6, <2>1 DEF Orderly, LaunchesApart
  <2>12. QueueInBuffers'
    <3>1. S \subseteq WordsOf(Buffers)
      BY <1>1, <1>2, Geometry
    <3>2. QED
      BY <1>6, <1>7, <1>8, <2>1, <3>1 DEF Orderly, QueueInBuffers
  <2>13. NoCopyInto'
    <3>1. \A c \in Buffers : dirty'[c] => dirty[c]
      BY <1>2, <1>10, Geometry
    <3>2. QED
      BY <1>6, <2>1, <2>9, <2>10, <3>1 DEF Orderly, NoCopyInto
  <2>14. KernelsInOrder'
    <3>1. SUFFICES ASSUME NEW k \in DOMAIN queue', queue'[k].op = "kernel", NEW a \in queue'[k].words
                   PROVE  /\ Holders(a) # {} /\ (a \in known => Real(a) = newest[a])
                          /\ \A j \in DOMAIN queue' : j < k /\ queue'[j].op = "dtoh" => a \notin queue'[j].words
                          /\ \A c \in Buffers : a \in Words(c) => dirty'[c] \/ Launched(c) \/ FilledAfter(k, a)'
      BY <1>1, <1>6, <1>12, <2>9 DEF KernelsInOrder
    <3>2. k \in DOMAIN queue /\ queue'[k] = queue[k]
      BY <1>7, <1>8, <3>1
    <3>3. /\ Holders(a) # {} /\ (a \in known => Real(a) = newest[a])
          /\ \A j \in DOMAIN queue : j < k /\ queue[j].op = "dtoh" => a \notin queue[j].words
          /\ \A c \in Buffers : a \in Words(c) => dirty[c] \/ Launched(c) \/ FilledAfter(k, a)
      BY <2>1, <3>1, <3>2 DEF Orderly, KernelsInOrder
    <3>4. \A j \in DOMAIN queue' : j < k => j \in DOMAIN queue /\ queue'[j] = queue[j]
      BY <1>8
    <3>5. FilledAfter(k, a) => FilledAfter(k, a)'
      BY <1>8, StillBehind
    <3>6. ASSUME NEW c \in Buffers, a \in Words(c), dirty[c] PROVE dirty'[c]
      <4>1. c \in Addresses
        BY <1>2, Geometry
      <4>2. CASE c # b
        BY <1>5, <1>10, <2>6, <3>6, <4>1, <4>2 DEF Pulled
      <4>3. CASE c = b
        <5>1. a \in S
          BY <2>5, <3>6, <4>3
        <5>2. QED
          BY <2>8, <3>1, <3>2, <3>6, <4>3, <5>1
      <4>4. QED
        BY <4>2, <4>3
    <3>7. QED
      BY <3>3, <3>4, <3>5, <3>6
  <2>15. CopiesInOrder'
    <3>1. SUFFICES ASSUME NEW k \in DOMAIN queue', queue'[k].op = "htod", NEW a \in queue'[k].words
                   PROVE  /\ a \in known => guest'[a] = newest[a] \/ Between(0, k, a)'
                          /\ \A i \in DOMAIN queue' : i < k /\ queue'[i].op = "kernel" /\ a \in queue'[i].words =>
                               Between(i, k, a)'
      BY <1>1 DEF CopiesInOrder
    <3>2. \A i \in DOMAIN queue' : i < k => i \in DOMAIN queue /\ queue'[i] = queue[i]
      BY <1>8
    <3>3. \A i : Between(i, k, a) => Between(i, k, a)'
      BY <1>8, StillBehind
    <3>4. CASE k \in DOMAIN queue
      <4>1. queue'[k] = queue[k]
        BY <1>8, <3>4
      <4>2. /\ a \in known => guest[a] = newest[a] \/ Between(0, k, a)
            /\ \A i \in DOMAIN queue : i < k /\ queue[i].op = "kernel" /\ a \in queue[i].words => Between(i, k, a)
        BY <2>1, <3>1, <3>4, <4>1 DEF Orderly, CopiesInOrder
      <4>3. a \in known => guest'[a] = newest[a] \/ guest'[a] = guest[a]
        <5>1. a \notin T /\ a \in known => guest'[a] = guest[a]
          BY <1>4, <1>9
        <5>2. QED
          BY <2>7, <5>1
      <4>4. QED
        BY <3>2, <3>3, <4>2, <4>3
    <3>5. CASE k \notin DOMAIN queue
      <4>1. a \in S /\ a \in Addresses /\ a \in Words(b) /\ queue'[k] = o
            /\ k \in Nat /\ \A j \in DOMAIN queue : j < k /\ j \in Nat
        BY <1>1, <1>5, <1>7, <1>8, <3>1, <3>5
      <4>2. \A i \in DOMAIN queue : queue[i].op = "kernel" /\ a \in queue[i].words => Between(i, k, a)'
        <5>1. SUFFICES ASSUME NEW i \in DOMAIN queue, queue[i].op = "kernel", a \in queue[i].words
                       PROVE  Between(i, k, a)'
          OBVIOUS
        <5>2. PICK j \in DOMAIN queue : i < j /\ queue[j].op = "dtoh" /\ a \in queue[j].words
          BY <2>8, <4>1, <5>1 DEF FilledAfter
        <5>3. j \in DOMAIN queue' /\ queue'[j] = queue[j] /\ j < k
          BY <1>8, <4>1
        <5>4. QED
          BY <5>2, <5>3 DEF Between
      <4>3. ASSUME a \in known PROVE guest'[a] = newest[a] \/ Between(0, k, a)'
        <5>1. CASE a \in Queued("dtoh")
          <6>1. PICK j \in DOMAIN queue : queue[j].op = "dtoh" /\ a \in queue[j].words
            BY <5>1, QueuedWords
          <6>2. j \in DOMAIN queue' /\ queue'[j] = queue[j] /\ j < k /\ 0 < j
            <7>1. 0 < j
              BY <1>2, QueueTypes
            <7>2. QED
              BY <1>8, <4>1, <7>1
          <6>3. QED
            BY <6>1, <6>2 DEF Between
        <5>2. CASE dirty[b]
          <6>1. queue' # queue
            BY <3>5
          <6>2. T = S
            BY <1>3, <2>5, <5>2, <6>1
          <6>3. QED
            BY <2>7, <4>1, <4>3, <6>2
        <5>3. CASE a \notin Queued("dtoh") /\ ~dirty[b]
          <6>1. T = {}
            BY <1>3, <2>6, <5>3
          <6>2. guest'[a] = guest[a]
            BY <1>9, <4>1, <6>1
          <6>3. a \notin Queued("kernel")
            <7>1. SUFFICES ASSUME NEW i \in DOMAIN queue, queue[i].op = "kernel", a \in queue[i].words
                           PROVE  FALSE
              BY QueuedWords
            <7>2. FilledAfter(i, a)
              BY <2>8, <4>1, <7>1
            <7>3. a \in Queued("dtoh")
              BY <7>2, QueuedWords DEF FilledAfter
            <7>4. QED
              BY <5>3, <7>3
          <6>4. guest[a] = newest[a]
            BY <1>1, <2>1, <2>4, <4>1, <4>3, <5>3, <6>3 DEF Orderly, FlagTells
          <6>5. QED
            BY <6>2, <6>4
        <5>4. QED
          BY <5>1, <5>2, <5>3
      <4>4. QED
        BY <3>2, <4>2, <4>3
    <3>6. QED
      BY <3>4, <3>5
  <2>16. FlagTells'
    <3>1. SUFFICES ASSUME NEW c \in Buffers, NEW a \in Words(c), a \in known
                   PROVE  /\ (dirty'[c] \/ \E t \in Threads : c \in call[t].args \ call[t].todo) /\ Holders(a) # {} =>
                               Real(a) = newest[a]
                          /\ ~dirty'[c] /\ ~Launched(c) /\ a \notin Queued("kernel") \cup Queued("dtoh") =>
                               guest'[a] = newest[a]
      BY <1>1, <1>6, <1>12, <2>9, <2>10 DEF FlagTells
    <3>2. c \in Addresses /\ a \in Addresses
      BY <1>2, <3>1, Geometry
    <3>3. /\ (dirty[c] \/ \E t \in Threads : c \in call[t].args \ call[t].todo) /\ Holders(a) # {} =>
               Real(a) = newest[a]
          /\ ~dirty[c] /\ ~Launched(c) /\ a \notin Queued("kernel") \cup Queued("dtoh") =>
               guest[a] = newest[a]
      BY <2>1, <3>1 DEF Orderly, FlagTells
    <3>4. dirty'[c] => dirty[c]
      BY <1>10, <3>2
    <3>5. CASE a \in T
      BY <2>7, <3>1, <3>3, <3>4, <3>5
    <3>6. CASE a \notin T
      <4>1. guest'[a] = guest[a]
        BY <1>9, <3>2, <3>6
      <4>2. ~dirty'[c] => ~dirty[c]
        <5>1. SUFFICES ASSUME dirty[c], ~dirty'[c] PROVE FALSE
          OBVIOUS
        <5>2. c = v /\ Pulled(v, lib)
          BY <1>3, <1>10, <3>2, <5>1
        <5>3. T = S /\ S = Words(c)
          BY <1>10, <2>6, <5>1, <5>2
        <5>4. QED
          BY <3>1, <3>6, <5>3
      <4>3. QED
        BY <3>3, <3>4, <4>1, <4>2
    <3>7. QED
      BY <3>5, <3>6
  <2>17. QED
    BY <2>11, <2>12, <2>13, <2>14, <2>15, <2>16 DEF Orderly
<1>15. QED
  BY <1>11, <1>13, <1>14 DEF HostMemInv

LEMMA CopyToHostStep ==
  ASSUME HostMemInv, NEW b \in Addresses, NEW n \in Addresses, NEW v \in Addresses, NEW lib,
         CopyToHost(b, v, Span(v, n), lib)
  PROVE  HostMemInv'
<1> DEFINE S == Span(v, n)
<1>1. PICK L \in SUBSET S : queue' = Append(queue, Operation("dtoh", S, L))
  <2>1. PICK T \in Reached(S) : queue' = Append(queue, Operation("dtoh", S, S \ T))
    BY DEF CopyToHost
  <2>2. S \ T \in SUBSET S
    OBVIOUS
  <2>3. QED
    BY <2>1, <2>2
<1> DEFINE o == Operation("dtoh", S, L)
<1>2. /\ b \in Buffers /\ S \subseteq Words(b) /\ MayCopy(b, S, lib)
      /\ clock + Len(queue) < MaxVersion
      /\ dirty' = Cleared(v, lib)
      /\ UNCHANGED <<up, guest, size, host, call, clock, newest, known>>
  BY DEF CopyToHost, history, Room
<1>3. TypeOK /\ LookupFindsOwn
  BY DEF HostMemInv
<1>4. dirty \in [Addresses -> BOOLEAN] /\ known \subseteq Addresses
  BY <1>3 DEF TypeOK
<1>5. /\ v \in S /\ v \in Words(b) /\ (S = Words(b) => v = b) /\ (v \in Buffers => v = b)
      /\ S \subseteq Addresses
  BY <1>2, <1>3, CopiedSpan, Geometry
<1>6. Buffers' = Buffers /\ WordsOf(Buffers)' = WordsOf(Buffers) /\ \A c : Words(c)' = Words(c)
  BY <1>2, SameBuffers
<1>7. queue' = Append(queue, o)
  BY <1>1
<1> HIDE DEF S
<1>8. o \in Operations /\ o.op = "dtoh" /\ o.words = S
  BY <1>5 DEF Operations, Operation
<1> HIDE DEF o
<1>9. /\ queue' \in Seq(Operations) /\ Len(queue') <= Len(queue) + 1
      /\ \A k \in DOMAIN queue : k \in Nat /\ k \in DOMAIN queue' /\ queue'[k] = queue[k]
      /\ \A k \in DOMAIN queue' :
           k \in DOMAIN queue \/ (queue'[k] = o /\ k \in Nat /\ \A j \in DOMAIN queue : j < k)
      /\ \A k, j \in DOMAIN queue' : j < k => j \in DOMAIN queue
  BY <1>3, <1>7, <1>8, Behind
<1>10. \E z \in DOMAIN queue' : queue'[z] = o /\ \A k \in DOMAIN queue : k < z
  BY <1>3, <1>7, <1>8, Queueing
<1>11. /\ \A c \in Addresses : dirty'[c] => dirty[c]
       /\ \A c \in Addresses : c # v => dirty'[c] = dirty[c]
       /\ lib = "driver" => ~dirty'[v]
  BY <1>2, <1>4 DEF Cleared
<1>12. TypeOK'
  <2>1. Versions' = Versions /\ Entries' = Entries
    BY <1>2 DEF Versions, Entries
  <2>2. dirty' \in [Addresses -> BOOLEAN]
    BY <1>2, <1>4 DEF Cleared
  <2>3. \A c \in Addresses : dirty'[c] => c \in Buffers
    BY <1>3, <1>11, Geometry
  <2>4. clock' + Len(queue') <= MaxVersion
    <3>1. clock \in 0..MaxVersion /\ MaxVersion \in Nat /\ Len(queue) \in Nat
      BY <1>3, HostMemAssumption, QueueTypes DEF TypeOK
    <3>2. Len(queue') \in Nat
      BY <1>9, LenProperties
    <3>3. QED
      BY <1>2, <1>9, <3>1, <3>2
  <2>5. QED
    BY <1>2, <1>3, <1>6, <1>9, <2>1, <2>2, <2>3, <2>4 DEF TypeOK
<1>13. \A a : Holders(a)' = Holders(a) /\ Seen(a)' = Seen(a) /\ Real(a)' = Real(a)
  BY <1>2, SameLookup
<1>14. LookupFindsOwn'
  BY <1>2, <1>3, <1>13, LookupKept
<1>15. ASSUME Careful PROVE Orderly'
  <2>1. Orderly
    BY <1>15 DEF HostMemInv
  <2>2. Words(b) \cap InCall = {} /\ (dirty[b] => lib = "driver" /\ S = Words(b))
    BY <1>2, <1>15 DEF MayCopy
  <2>3. \A t \in Threads : b \notin call[t].args
    BY <1>2, <1>3, <2>2, CallWords, Geometry
  <2>4. ~InLaunch(b) /\ ~Launched(b)
    BY <2>3 DEF InLaunch, Launched
  (* The flag goes, and that of no other buffer.                           *)
  <2>5. ~dirty'[b]
    BY <1>5, <1>11, <2>2
  <2>6. ASSUME NEW c \in Buffers, c # b PROVE dirty'[c] = dirty[c]
    <3>1. c \in Addresses /\ c # v
      BY <1>3, <1>5, <2>6, Geometry
    <3>2. QED
      BY <1>11, <3>1
  <2>7. \A c : (InLaunch(c)' <=> InLaunch(c)) /\ (Launched(c)' <=> Launched(c))
    BY <1>2 DEF InLaunch, Launched
  <2>8. \A op : Queued(op) \subseteq Queued(op)'
    BY <1>9, StillBehind
  <2>9. S \subseteq Queued("dtoh")'
    BY <1>8, <1>10, QueuedWords
  <2>10. \A a \in Queued("dtoh")' : a \in Queued("dtoh") \/ a \in S
    BY <1>8, <1>9, QueuedWords
  <2>11. LaunchesApart'
    BY <1>2, <1>6, <2>1 DEF Orderly, LaunchesApart
  <2>12. QueueInBuffers'
    <3>1. S \subseteq WordsOf(Buffers)
      BY <1>2, <1>3, Geometry
    <3>2. QED
      BY <1>6, <1>8, <1>9, <2>1, <3>1 DEF Orderly, QueueInBuffers
  <2>13. NoCopyInto'
    <3>1. SUFFICES ASSUME NEW c \in Buffers, dirty'[c] \/ InLaunch(c), NEW a \in Words(c), a \in Queued("dtoh")'
                   PROVE  FALSE
      BY <1>6, <2>7 DEF NoCopyInto
    <3>2. c # b
      BY <2>4, <2>5, <3>1
    <3>3. a \notin S
      BY <1>2, <1>3, <3>1, <3>2, Geometry
    <3>4. a \in Queued("dtoh")
      BY <2>10, <3>1, <3>3
    <3>5. dirty[c] \/ InLaunch(c)
      BY <2>6, <3>1, <3>2
    <3>6. QED
      BY <2>1, <3>1, <3>4, <3>5 DEF Orderly, NoCopyInto
  <2>14. KernelsInOrder'
    <3>1. SUFFICES ASSUME NEW k \in DOMAIN queue', queue'[k].op = "kernel", NEW a \in queue'[k].words
                   PROVE  /\ Holders(a) # {} /\ (a \in known => Real(a) = newest[a])
                          /\ \A j \in DOMAIN queue' : j < k /\ queue'[j].op = "dtoh" => a \notin queue'[j].words
                          /\ \A c \in Buffers : a \in Words(c) => dirty'[c] \/ Launched(c) \/ FilledAfter(k, a)'
      BY <1>2, <1>6, <1>13, <2>7 DEF KernelsInOrder
    <3>2. k \in DOMAIN queue /\ queue'[k] = queue[k]
      BY <1>8, <1>9, <3>1
    <3>3. /\ Holders(a) # {} /\ (a \in known => Real(a) = newest[a])
          /\ \A j \in DOMAIN queue : j < k /\ queue[j].op = "dtoh" => a \notin queue[j].words
          /\ \A c \in Buffers : a \in Words(c) => dirty[c] \/ Launched(c) \/ FilledAfter(k, a)
      BY <2>1, <3>1, <3>2 DEF Orderly, KernelsInOrder
    <3>4. \A j \in DOMAIN queue' : j < k => j \in DOMAIN queue /\ queue'[j] = queue[j]
      BY <1>9
    <3>5. FilledAfter(k, a) => FilledAfter(k, a)'
      BY <1>9, StillBehind
    <3>6. ASSUME NEW c \in Buffers, a \in Words(c), dirty[c] PROVE dirty'[c] \/ FilledAfter(k, a)'
      <4>1. CASE c # b
        BY <2>6, <3>6, <4>1
      <4>2. CASE c = b
        <5>1. a \in S
          BY <2>2, <3>6, <4>2
        <5>2. FilledAfter(k, a)'
          BY <1>8, <1>10, <3>2, <5>1 DEF FilledAfter
        <5>3. QED
          BY <5>2
      <4>3. QED
        BY <4>1, <4>2
    <3>7. QED
      BY <3>3, <3>4, <3>5, <3>6
  <2>15. CopiesInOrder'
    <3>1. SUFFICES ASSUME NEW k \in DOMAIN queue', queue'[k].op = "htod", NEW a \in queue'[k].words
                   PROVE  /\ a \in known => guest[a] = newest[a] \/ Between(0, k, a)'
                          /\ \A i \in DOMAIN queue' : i < k /\ queue'[i].op = "kernel" /\ a \in queue'[i].words =>
                               Between(i, k, a)'
      BY <1>2 DEF CopiesInOrder
    <3>2. k \in DOMAIN queue /\ queue'[k] = queue[k]
      BY <1>8, <1>9, <3>1
    <3>3. /\ a \in known => guest[a] = newest[a] \/ Between(0, k, a)
          /\ \A i \in DOMAIN queue : i < k /\ queue[i].op = "kernel" /\ a \in queue[i].words => Between(i, k, a)
      BY <2>1, <3>1, <3>2 DEF Orderly, CopiesInOrder
    <3>4. \A i : Between(i, k, a) => Between(i, k, a)'
      BY <1>9, StillBehind
    <3>5. \A i \in DOMAIN queue' : i < k => i \in DOMAIN queue /\ queue'[i] = queue[i]
      BY <1>9
    <3>6. QED
      BY <3>3, <3>4, <3>5
  <2>16. FlagTells'
    <3>1. SUFFICES ASSUME NEW c \in Buffers, NEW a \in Words(c), a \in known
                   PROVE  /\ (dirty'[c] \/ \E t \in Threads : c \in call[t].args \ call[t].todo) /\ Holders(a) # {} =>
                               Real(a) = newest[a]
                          /\ ~dirty'[c] /\ ~Launched(c) /\ a \notin Queued("kernel")' \cup Queued("dtoh")' =>
                               guest[a] = newest[a]
      BY <1>2, <1>6, <1>13, <2>7 DEF FlagTells
    <3>2. c \in Addresses
      BY <1>3, Geometry
    <3>3. /\ (dirty[c] \/ \E t \in Threads : c \in call[t].args \ call[t].todo) /\ Holders(a) # {} =>
               Real(a) = newest[a]
          /\ ~dirty[c] /\ ~Launched(c) /\ a \notin Queued("kernel") \cup Queued("dtoh") =>
               guest[a] = newest[a]
      BY <2>1, <3>1 DEF Orderly, FlagTells
    <3>4. dirty'[c] => dirty[c]
      BY <1>11, <3>2
    <3>5. ~dirty'[c] /\ a \notin Queued("dtoh")' => ~dirty[c]
      <4>1. CASE c # b
        BY <2>6, <4>1
      <4>2. CASE c = b
        BY <2>2, <2>9, <3>1, <4>2
      <4>3. QED
        BY <4>1, <4>2
    <3>6. QED
      BY <2>8, <3>3, <3>4, <3>5
  <2>17. QED
    BY <2>11, <2>12, <2>13, <2>14, <2>15, <2>16 DEF Orderly
<1>16. QED
  BY <1>12, <1>14, <1>15 DEF HostMemInv

------------------------------------------------------------------------------
(* The device.                                                             *)

LEMMA RunStep ==
  ASSUME HostMemInv, Run
  PROVE  HostMemInv'
<1> DEFINE op == Head(queue).op
<1> DEFINE words == Head(queue).words
<1> DEFINE lost == Head(queue).lost
<1>1. queue # <<>> /\ queue' = Tail(queue) /\ UNCHANGED <<up, size, dirty, call>>
  BY DEF Run, registry
<1>2. PICK W \in SUBSET words :
        /\ op = "htod" => W = {}
        /\ op = "dtoh" => W = words \ lost
        /\ clock' = IF W = {} THEN clock ELSE clock + 1
        /\ newest' = [a \in Addresses |-> IF a \in W THEN clock' ELSE newest[a]]
        /\ known' = (known \cup W) \ lost
        /\ IF op = "kernel"
           THEN host'  = Stored(W, newest') /\ UNCHANGED guest
           ELSE guest' = [a \in Addresses |-> IF a \in W THEN clock' ELSE guest[a]] /\ UNCHANGED host
  BY DEF Run
<1>3. TypeOK /\ LookupFindsOwn
  BY DEF HostMemInv
<1>4. /\ queue' \in Seq(Operations) /\ Len(queue') = Len(queue) - 1
      /\ 1 \in DOMAIN queue /\ Head(queue) = queue[1]
      /\ \A k \in DOMAIN queue' : k \in Nat /\ k + 1 \in DOMAIN queue /\ queue'[k] = queue[k + 1] /\ 1 < k + 1
      /\ \A k \in DOMAIN queue : k # 1 => k \in Nat /\ k - 1 \in DOMAIN queue' /\ queue'[k - 1] = queue[k]
  BY <1>1, <1>3, MovingUp
<1>5. op = queue[1].op /\ words = queue[1].words /\ lost = queue[1].lost
      /\ op \in {"kernel", "htod", "dtoh"} /\ words \subseteq Addresses /\ lost \subseteq Addresses
  BY <1>3, <1>4, QueueTypes
<1> HIDE DEF op, words, lost
<1>6. /\ guest \in [Addresses -> Versions] /\ newest \in [Addresses -> Versions]
      /\ clock \in 0..MaxVersion /\ MaxVersion \in Nat /\ Len(queue) \in Nat
      /\ clock + Len(queue) <= MaxVersion /\ known \subseteq Addresses
  BY <1>3, HostMemAssumption, QueueTypes DEF TypeOK
<1>7. Buffers' = Buffers /\ WordsOf(Buffers)' = WordsOf(Buffers) /\ \A c : Words(c)' = Words(c)
  BY <1>1, SameBuffers
<1>8. W \subseteq Addresses
  BY <1>2, <1>5
(* What changes: the words W, in one of the two copies.                    *)
<1>9. /\ \A a \in Addresses : newest'[a] = IF a \in W THEN clock' ELSE newest[a]
      /\ \A a \in Addresses : guest'[a] = IF a \in W /\ op # "kernel" THEN clock' ELSE guest[a]
  BY <1>2, <1>6
<1>10. \A a : /\ Holders(a)' = Holders(a)
              /\ Holders(a) # {} =>
                   /\ Seen(a)'.va = Seen(a).va /\ DOMAIN Seen(a)'.data = DOMAIN Seen(a).data
                   /\ Real(a)' = IF a \in W /\ op = "kernel" THEN newest'[a] ELSE Real(a)
  <2>1. CASE op = "kernel"
    <3>1. host' = Stored(W, newest')
      BY <1>2, <2>1
    <3>2. QED
      BY <1>3, <2>1, <3>1, StoredLookup
  <2>2. CASE op # "kernel"
    <3>1. UNCHANGED host
      BY <1>2, <2>2
    <3>2. QED
      BY <2>2, <3>1, SameLookup
  <2>3. QED
    BY <2>1, <2>2
<1>11. TypeOK'
  <2>1. clock' \in 0..MaxVersion /\ clock' + Len(queue') <= MaxVersion /\ clock <= clock' /\ clock \in Nat /\ clock' \in Nat
    <3>1. Len(queue') \in Nat
      BY <1>4, LenProperties
    <3>2. QED
      BY <1>2, <1>4, <1>6, <3>1
  <2>2. Versions \subseteq Versions' /\ Entries \subseteq Entries' /\ clock' \in Versions'
    BY <2>1, Grown DEF Versions
  <2>3. newest' \in [Addresses -> Versions']
    BY <1>2, <1>6, <2>2
  <2>4. guest' \in [Addresses -> Versions']
    BY <1>2, <1>6, <2>2
  <2>5. host' \in Seq(Entries')
    <3>1. CASE op = "kernel"
      <4>1. \A a \in W : newest'[a] \in Versions'
        BY <1>8, <2>3
      <4>2. Stored(W, newest') \in Seq(Entries')
        BY <1>3, <1>8, <2>2, <4>1, StoredTyped
      <4>3. QED
        BY <1>2, <3>1, <4>2
    <3>2. CASE op # "kernel"
      <4>1. host \in [1..Len(host) -> Entries'] /\ Len(host) \in Nat
        BY <1>3, <2>2, HostTypes
      <4>2. QED
        BY <1>2, <3>2, <4>1, SeqDef
    <3>3. QED
      BY <3>1, <3>2
  <2>6. known' \subseteq Addresses
    BY <1>2, <1>6, <1>8
  <2>7. QED
    BY <1>1, <1>3, <1>4, <1>7, <2>1, <2>3, <2>4, <2>5, <2>6 DEF TypeOK
<1>12. LookupFindsOwn'
  BY <1>1, <1>3, <1>10, LookupKept
<1>13. ASSUME Careful PROVE Orderly'
  <2>1. Orderly
    BY <1>13 DEF HostMemInv
  <2>2. \A kind : Queued(kind)' \subseteq Queued(kind)
    <3>1. \A kind, a : a \in Queued(kind)' => a \in Queued(kind)
      BY <1>4, QueuedWords
    <3>2. QED
      BY <3>1
  (* Where a word is queued now, it is queued behind or in this operation. *)
  <2>3. \A a : \A kind : a \in Queued(kind) => a \in Queued(kind)' \/ (kind = op /\ a \in words)
    <3>1. SUFFICES ASSUME NEW a, NEW kind, NEW k \in DOMAIN queue, queue[k].op = kind, a \in queue[k].words
                   PROVE  a \in Queued(kind)' \/ (kind = op /\ a \in words)
      BY QueuedWords
    <3>2. CASE k = 1
      BY <1>5, <3>1, <3>2
    <3>3. CASE k # 1
      <4>1. k - 1 \in DOMAIN queue' /\ queue'[k - 1] = queue[k]
        BY <1>4, <3>3
      <4>2. QED
        BY <3>1, <4>1, QueuedWords
    <3>4. QED
      BY <3>2, <3>3
  (* Behind a kernel whose buffer has no flag there is a copy into it.     *)
  <2>4. ASSUME NEW b \in Buffers, NEW a \in Words(b), ~dirty[b], ~Launched(b), op = "kernel", a \in words
        PROVE  a \in Queued("dtoh")'
    <3>1. FilledAfter(1, a)
      BY <1>4, <1>5, <2>1, <2>4 DEF Orderly, KernelsInOrder
    <3>2. PICK j \in DOMAIN queue : 1 < j /\ queue[j].op = "dtoh" /\ a \in queue[j].words
      BY <3>1 DEF FilledAfter
    <3>3. j # 1
      BY <3>2
    <3>4. j - 1 \in DOMAIN queue' /\ queue'[j - 1] = queue[j]
      BY <1>4, <3>3
    <3>5. QED
      BY <3>2, <3>4, QueuedWords
  <2>5. \A i, k \in DOMAIN queue' \cup {0} : \A a : Between(i + 1, k + 1, a) => Between(i, k, a)'
    <3>1. SUFFICES ASSUME NEW i \in DOMAIN queue' \cup {0}, NEW k \in DOMAIN queue' \cup {0}, NEW a,
                          NEW j \in DOMAIN queue, i + 1 < j, j < k + 1, queue[j].op = "dtoh", a \in queue[j].words
                   PROVE  Between(i, k, a)'
      BY DEF Between
    <3>2. i \in Nat /\ k \in Nat
      BY <1>4
    <3>3. j \in Nat
      BY <1>3, QueueTypes
    <3>4. j # 1 /\ i < j - 1 /\ j - 1 < k
      BY <3>1, <3>2, <3>3
    <3>5. j - 1 \in DOMAIN queue' /\ queue'[j - 1] = queue[j]
      BY <1>4, <3>4
    <3>6. QED
      BY <3>1, <3>4, <3>5 DEF Between
  <2>6. LaunchesApart'
    BY <1>1, <1>7, <2>1 DEF Orderly, LaunchesApart
  <2>7. QueueInBuffers'
    BY <1>4, <1>7, <2>1 DEF Orderly, QueueInBuffers
  <2>8. \A b : (InLaunch(b)' <=> InLaunch(b)) /\ (Launched(b)' <=> Launched(b))
    BY <1>1 DEF InLaunch, Launched
  <2>9. NoCopyInto'
    BY <1>1, <1>7, <2>1, <2>2, <2>8 DEF Orderly, NoCopyInto
  <2>10. KernelsInOrder'
    <3>1. SUFFICES ASSUME NEW k \in DOMAIN queue', queue'[k].op = "kernel", NEW a \in queue'[k].words
                   PROVE  /\ Holders(a) # {} /\ (a \in known' => Real(a)' = newest'[a])
                          /\ \A j \in DOMAIN queue' : j < k /\ queue'[j].op = "dtoh" => a \notin queue'[j].words
                          /\ \A b \in Buffers : a \in Words(b) => dirty[b] \/ Launched(b) \/ FilledAfter(k, a)'
      BY <1>1, <1>7, <1>10, <2>8 DEF KernelsInOrder
    <3>2. k \in Nat /\ k + 1 \in DOMAIN queue /\ queue[k + 1] = queue'[k]
      BY <1>4
    <3>3. /\ Holders(a) # {} /\ (a \in known => Real(a) = newest[a])
          /\ \A j \in DOMAIN queue : j < k + 1 /\ queue[j].op = "dtoh" => a \notin queue[j].words
          /\ \A b \in Buffers : a \in Words(b) => dirty[b] \/ Launched(b) \/ FilledAfter(k + 1, a)
      BY <2>1, <3>1, <3>2 DEF Orderly, KernelsInOrder
    <3>4. a \in Addresses
      BY <1>3, <3>1, <3>2, QueueTypes
    <3>5. ASSUME a \in known' PROVE Real(a)' = newest'[a]
      <4>1. CASE a \in W
        <5>1. op # "dtoh"
          <6>1. 1 < k + 1
            BY <3>2, <1>4
          <6>2. QED
            BY <1>4, <1>5, <3>3, <4>1, <6>1
        <5>2. op = "kernel"
          BY <1>2, <1>5, <4>1, <5>1
        <5>3. QED
          BY <1>10, <3>3, <4>1, <5>2
      <4>2. CASE a \notin W
        <5>1. a \in known
          BY <1>2, <3>5, <4>2
        <5>2. QED
          BY <1>9, <1>10, <3>3, <3>4, <4>2, <5>1
      <4>3. QED
        BY <4>1, <4>2
    <3>6. \A j \in DOMAIN queue' : j < k /\ queue'[j].op = "dtoh" => a \notin queue'[j].words
      <4>1. SUFFICES ASSUME NEW j \in DOMAIN queue', j < k, queue'[j].op = "dtoh" PROVE a \notin queue'[j].words
        OBVIOUS
      <4>2. j \in Nat /\ j + 1 \in DOMAIN queue /\ queue'[j] = queue[j + 1]
        BY <1>4
      <4>3. j + 1 < k + 1
        BY <3>2, <4>1, <4>2
      <4>4. QED
        BY <3>3, <4>1, <4>2, <4>3
    <3>7. FilledAfter(k + 1, a) => FilledAfter(k, a)'
      <4>1. SUFFICES ASSUME NEW j \in DOMAIN queue, k + 1 < j, queue[j].op = "dtoh", a \in queue[j].words
                     PROVE  FilledAfter(k, a)'
        BY DEF FilledAfter
      <4>2. j \in Nat
        BY <1>3, QueueTypes
      <4>3. j # 1 /\ k < j - 1
        BY <3>2, <4>1, <4>2
      <4>4. j - 1 \in DOMAIN queue' /\ queue'[j - 1] = queue[j]
        BY <1>4, <4>3
      <4>5. QED
        BY <4>1, <4>3, <4>4 DEF FilledAfter
    <3>8. QED
      BY <3>3, <3>5, <3>6, <3>7
  <2>11. CopiesInOrder'
    <3>1. SUFFICES ASSUME NEW k \in DOMAIN queue', queue'[k].op = "htod", NEW a \in queue'[k].words
                   PROVE  /\ a \in known' => guest'[a] = newest'[a] \/ Between(0, k, a)'
                          /\ \A i \in DOMAIN queue' : i < k /\ queue'[i].op = "kernel" /\ a \in queue'[i].words =>
                               Between(i, k, a)'
      BY DEF CopiesInOrder
    <3>2. k \in Nat /\ k + 1 \in DOMAIN queue /\ queue[k + 1] = queue'[k] /\ 1 < k + 1
      BY <1>4
    <3>3. /\ a \in known => guest[a] = newest[a] \/ Between(0, k + 1, a)
          /\ \A i \in DOMAIN queue : i < k + 1 /\ queue[i].op = "kernel" /\ a \in queue[i].words =>
               Between(i, k + 1, a)
      BY <2>1, <3>1, <3>2 DEF Orderly, CopiesInOrder
    <3>4. a \in Addresses
      BY <1>3, <3>1, <3>2, QueueTypes
    <3>5. Between(1, k + 1, a) => Between(0, k, a)'
      <4>1. Between(0 + 1, k + 1, a) => Between(0, k, a)'
        BY <2>5
      <4>2. 0 + 1 = 1
        OBVIOUS
      <4>3. QED
        BY <4>1, <4>2
    <3>6. ASSUME a \in known' PROVE guest'[a] = newest'[a] \/ Between(0, k, a)'
      <4>1. CASE a \in W /\ op = "kernel"
        BY <1>2, <1>4, <1>5, <3>2, <3>3, <3>5, <4>1
      <4>2. CASE a \in W /\ op # "kernel"
        BY <1>9, <3>4, <4>2
      <4>3. CASE a \notin W
        <5>1. a \in known /\ a \notin lost
          BY <1>2, <3>6, <4>3
        <5>2. guest'[a] = guest[a] /\ newest'[a] = newest[a]
          BY <1>9, <3>4, <4>3
        <5>3. ASSUME Between(0, k + 1, a) PROVE Between(1, k + 1, a)
          <6>1. PICK j \in DOMAIN queue : 0 < j /\ j < k + 1 /\ queue[j].op = "dtoh" /\ a \in queue[j].words
            BY <5>3 DEF Between
          <6>2. j # 1
            BY <1>2, <1>5, <4>3, <5>1, <6>1
          <6>3. 1 < j
            <7>1. j \in Nat
              BY <1>3, QueueTypes
            <7>2. QED
              BY <6>1, <6>2, <7>1
          <6>4. QED
            BY <6>1, <6>3 DEF Between
        <5>4. QED
          BY <3>3, <3>5, <5>1, <5>2, <5>3
      <4>4. QED
        BY <4>1, <4>2, <4>3
    <3>7. ASSUME NEW i \in DOMAIN queue', i < k, queue'[i].op = "kernel", a \in queue'[i].words
          PROVE  Between(i, k, a)'
      <4>1. i \in Nat /\ i + 1 \in DOMAIN queue /\ queue'[i] = queue[i + 1]
        BY <1>4
      <4>2. i + 1 < k + 1
        BY <3>2, <3>7, <4>1
      <4>3. Between(i + 1, k + 1, a)
        BY <3>3, <3>7, <4>1, <4>2
      <4>4. QED
        BY <2>5, <4>3
    <3>8. QED
      BY <3>6, <3>7
  <2>12. FlagTells'
    <3>1. SUFFICES ASSUME NEW b \in Buffers, NEW a \in Words(b), a \in known'
                   PROVE  /\ (dirty[b] \/ \E t \in Threads : b \in call[t].args \ call[t].todo) /\ Holders(a) # {} =>
                               Real(a)' = newest'[a]
                          /\ ~dirty[b] /\ ~Launched(b) /\ a \notin Queued("kernel")' \cup Queued("dtoh")' =>
                               guest'[a] = newest'[a]
      BY <1>1, <1>7, <1>10, <2>8 DEF FlagTells
    <3>2. a \in Addresses
      BY <1>3, <3>1, Geometry
    <3>3. CASE a \in W
      <4>1. op \in {"kernel", "dtoh"} /\ a \in words
        BY <1>2, <1>5, <3>3
      <4>2. CASE op = "kernel"
        <5>1. Holders(a) # {} => Real(a)' = newest'[a]
          BY <1>10, <3>3, <4>2
        <5>2. ~dirty[b] /\ ~Launched(b) => a \in Queued("dtoh")'
          BY <2>4, <3>1, <4>1, <4>2
        <5>3. QED
          BY <5>1, <5>2
      <4>3. CASE op = "dtoh"
        <5>1. a \in Queued("dtoh")
          BY <1>4, <1>5, <4>1, <4>3, QueuedWords
        <5>2. ~dirty[b] /\ ~InLaunch(b)
          BY <2>1, <3>1, <5>1 DEF Orderly, NoCopyInto
        <5>3. ~ \E t \in Threads : b \in call[t].args \ call[t].todo
          BY <5>2 DEF InLaunch
        <5>4. guest'[a] = newest'[a]
          BY <1>9, <3>2, <3>3, <4>3
        <5>5. QED
          BY <5>2, <5>3, <5>4
      <4>4. QED
        BY <4>1, <4>2, <4>3
    <3>4. CASE a \notin W
      <4>1. a \in known /\ a \notin lost
        BY <1>2, <3>1, <3>4
      <4>2. guest'[a] = guest[a] /\ newest'[a] = newest[a] /\ (Holders(a) # {} => Real(a)' = Real(a))
        BY <1>9, <1>10, <3>2, <3>4
      <4>3. /\ (dirty[b] \/ \E t \in Threads : b \in call[t].args \ call[t].todo) /\ Holders(a) # {} =>
                 Real(a) = newest[a]
            /\ ~dirty[b] /\ ~Launched(b) /\ a \notin Queued("kernel") \cup Queued("dtoh") =>
                 guest[a] = newest[a]
        BY <2>1, <3>1, <4>1 DEF Orderly, FlagTells
      <4>4. ASSUME ~dirty[b], ~Launched(b), a \notin Queued("kernel")' \cup Queued("dtoh")'
            PROVE  a \notin Queued("kernel") \cup Queued("dtoh")
        <5>1. ~(op = "kernel" /\ a \in words)
          BY <2>4, <3>1, <4>4
        <5>2. ~(op = "dtoh" /\ a \in words)
          BY <1>2, <3>4, <4>1
        <5>3. QED
          BY <2>3, <4>4, <5>1, <5>2
      <4>5. QED
        BY <4>2, <4>3, <4>4
    <3>5. QED
      BY <3>3, <3>4
  <2>13. QED
    BY <2>6, <2>7, <2>9, <2>10, <2>11, <2>12 DEF Orderly
<1>14. QED
  BY <1>11, <1>12, <1>13 DEF HostMemInv

------------------------------------------------------------------------------
LEMMA HostMemInit ==
  Init => HostMemInv
<1> SUFFICES ASSUME Init PROVE HostMemInv
  OBVIOUS
<1>1. /\ up = FALSE /\ newest = guest /\ known = {}
      /\ guest = [a \in Addresses |-> 0]
      /\ size = [a \in Addresses |-> 0] /\ dirty = [a \in Addresses |-> FALSE]
      /\ host = <<>> /\ queue = <<>> /\ clock = 0
      /\ call = [t \in Threads |-> Idle]
  BY DEF Init
<1>2. Buffers = {} /\ WordsOf(Buffers) = {}
  BY <1>1 DEF Buffers, WordsOf
<1>3. Size \in Nat /\ MaxVersion \in Nat
  BY HostMemAssumption
<1>4. TypeOK
  <2>1. guest \in [Addresses -> Versions]
    BY <1>1 DEF Versions
  <2>2. size \in [Addresses -> 0..Size] /\ dirty \in [Addresses -> BOOLEAN]
    BY <1>1, <1>3
  <2>3. \A b \in Addresses : dirty[b] => b \in Buffers
    BY <1>1
  <2>4. host \in Seq(Entries) /\ queue \in Seq(Operations) /\ Len(queue) = 0
    BY <1>1, EmptySeq
  <2>5. call \in [Threads -> Calls]
    BY <1>1 DEF Calls, Idle
  <2>6. \A t \in Threads : call[t] = Idle /\ Idle.todo \subseteq Idle.args /\ Idle.at = "idle"
    BY <1>1 DEF Idle
  <2>7. clock \in 0..MaxVersion /\ clock + Len(queue) <= MaxVersion
    BY <1>1, <1>3, <2>4
  <2>8. QED
    BY <1>1, <1>2, <2>1, <2>2, <2>3, <2>4, <2>5, <2>6, <2>7 DEF TypeOK
<1>5. LookupFindsOwn
  BY <1>2 DEF LookupFindsOwn
<1>6. Orderly
  <2>1. DOMAIN queue = {}
    BY <1>1
  <2>2. LaunchesApart
    BY <1>1 DEF LaunchesApart, Idle
  <2>3. QueueInBuffers /\ KernelsInOrder /\ CopiesInOrder
    BY <2>1 DEF QueueInBuffers, KernelsInOrder, CopiesInOrder
  <2>4. NoCopyInto /\ FlagTells
    BY <1>2 DEF NoCopyInto, FlagTells
  <2>5. QED
    BY <2>2, <2>3, <2>4 DEF Orderly
<1>7. QED
  BY <1>4, <1>5, <1>6 DEF HostMemInv

LEMMA HostMemStutter ==
  HostMemInv /\ UNCHANGED vars => HostMemInv'
<1> SUFFICES ASSUME HostMemInv, UNCHANGED vars PROVE HostMemInv'
  OBVIOUS
<1>1. UNCHANGED <<up, guest, size, dirty, host, call, queue, clock, newest, known>>
  BY DEF vars
<1>2. Buffers' = Buffers /\ WordsOf(Buffers)' = WordsOf(Buffers) /\ \A b : Words(b)' = Words(b)
  BY <1>1, SameBuffers
<1>3. Versions' = Versions /\ Entries' = Entries
  BY <1>1 DEF Versions, Entries
<1>4. TypeOK'
  BY <1>1, <1>2, <1>3 DEF HostMemInv, TypeOK
<1>5. \A a : Holders(a)' = Holders(a) /\ Seen(a)' = Seen(a) /\ Real(a)' = Real(a)
  BY <1>1, SameLookup
<1>6. LookupFindsOwn'
  BY <1>1, <1>5, LookupKept DEF HostMemInv
<1>7. ASSUME Careful PROVE Orderly'
  <2>1. Orderly
    BY <1>7 DEF HostMemInv
  <2>2. \A op : Queued(op)' = Queued(op)
    BY <1>1, SameQueued
  <2>3. \A b : (InLaunch(b)' <=> InLaunch(b)) /\ (Launched(b)' <=> Launched(b))
    BY <1>1 DEF InLaunch, Launched
  <2>4. LaunchesApart' /\ QueueInBuffers' /\ NoCopyInto'
    BY <1>1, <1>2, <2>1, <2>2, <2>3 DEF Orderly, LaunchesApart, QueueInBuffers, NoCopyInto
  <2>5. KernelsInOrder'
    BY <1>1, <1>2, <1>5, <2>1, <2>3, KernelsKept DEF Orderly
  <2>6. CopiesInOrder'
    BY <1>1, <2>1, CopiesKept DEF Orderly
  <2>7. FlagTells'
    BY <1>1, <1>2, <1>5, <2>1, <2>2, <2>3 DEF Orderly, FlagTells
  <2>8. QED
    BY <2>1, <2>4, <2>5, <2>6, <2>7 DEF Orderly
<1>8. QED
  BY <1>4, <1>6, <1>7 DEF HostMemInv

LEMMA HostMemNext ==
  HostMemInv /\ [Next]_vars => HostMemInv'
<1> SUFFICES ASSUME HostMemInv, [Next]_vars PROVE HostMemInv'
  OBVIOUS
<1>1. CASE InitSession
  BY <1>1, InitSessionStep
<1>2. CASE Run
  BY <1>2, RunStep
<1>3. CASE \E b \in Addresses : MemFreeHost(b)
  BY <1>3, MemFreeHostStep
<1>4. CASE \E b, n \in Addresses : MemHostAlloc(b, n)
  BY <1>4, MemHostAllocStep
<1>5. CASE \E b, n, a \in Addresses, lib \in {"driver", "runtime"} : CopyToDevice(b, a, Span(a, n), lib)
  BY <1>5, CopyToDeviceStep
<1>6. CASE \E b, n, a \in Addresses, lib \in {"driver", "runtime"} : CopyToHost(b, a, Span(a, n), lib)
  BY <1>6, CopyToHostStep
<1>7. CASE \E b, a \in Addresses : CpuWrite(b, a)
  BY <1>7, CpuWriteStep
<1>8. CASE \E t \in Threads, A \in SUBSET Addresses : LaunchKernel(t, A)
  BY <1>8, LaunchKernelStep
<1>9. CASE \E t \in Threads, p \in Addresses : SyncHostMemArg(t, p)
  BY <1>9, SyncStep
<1>10. CASE \E t \in Threads : Launch(t)
  BY <1>10, LaunchStep
<1>11. CASE \E t \in Threads : MarkGpuDirty(t)
  BY <1>11, MarkGpuDirtyStep
<1>12. CASE UNCHANGED vars
  BY <1>12, HostMemStutter
<1>13. QED
  BY <1>1, <1>2, <1>3, <1>4, <1>5, <1>6, <1>7, <1>8, <1>9, <1>10, <1>11, <1>12 DEF Next

(* The inductive invariant: the registry, the daemon's list, the launches  *)
(* under way and the stream fit each other (hmcuda_transport.cpp:215-283). *)
THEOREM CopiesFit ==
  Spec => []HostMemInv
<1>1. Init => HostMemInv
  BY HostMemInit
<1>2. HostMemInv /\ [Next]_vars => HostMemInv'
  BY HostMemNext
<1>3. QED
  BY <1>1, <1>2, PTL DEF Spec

(* Whatever the program does and whatever fails, the daemon finds a word   *)
(* of a buffer in the entry made for this very buffer (resource.c).        *)
THEOREM OwnEntryFound ==
  Spec => []LookupFindsOwn
<1>1. HostMemInv => LookupFindsOwn
  BY DEF HostMemInv
<1>2. QED
  BY <1>1, CopiesFit, PTL

(* A kernel of a careful program reads what was written last: the push     *)
(* before the launch is enough (hmcuda_runtime.cpp:170-171).               *)
THEOREM KernelsReadNewest ==
  ASSUME Careful
  PROVE  Spec => []KernelReadsNewest
<1>1. HostMemInv => KernelReadsNewest
  <2>1. SUFFICES ASSUME HostMemInv, queue # <<>>, Head(queue).op = "kernel",
                        NEW a \in Head(queue).words \cap known
                 PROVE  Real(a) = newest[a]
    BY DEF KernelReadsNewest
  <2>2. 1 \in DOMAIN queue /\ Head(queue) = queue[1]
    BY <2>1, FirstOfQueue DEF HostMemInv
  <2>3. KernelsInOrder
    BY <2>1 DEF HostMemInv, Orderly
  <2>4. QED
    BY <2>1, <2>2, <2>3 DEF KernelsInOrder
<1>2. QED
  BY <1>1, CopiesFit, PTL

(* So does its copy to the device: the pull of a dirty buffer, and         *)
(* nothing for another, is enough (hmcuda_driver.cpp).                     *)
THEOREM CopiesReadNewest ==
  ASSUME Careful
  PROVE  Spec => []CopyReadsNewest
<1>1. HostMemInv => CopyReadsNewest
  <2>1. SUFFICES ASSUME HostMemInv, queue # <<>>, Head(queue).op = "htod",
                        NEW a \in Head(queue).words \cap known
                 PROVE  guest[a] = newest[a]
    BY DEF CopyReadsNewest
  <2>2. 1 \in DOMAIN queue /\ Head(queue) = queue[1] /\ \A j \in DOMAIN queue : j \in Nat
    BY <2>1, FirstOfQueue DEF HostMemInv
  <2>3. ~Between(0, 1, a)
    BY <2>2 DEF Between
  <2>4. CopiesInOrder
    BY <2>1 DEF HostMemInv, Orderly
  <2>5. QED
    BY <2>1, <2>2, <2>3, <2>4 DEF CopiesInOrder
<1>2. QED
  BY <1>1, CopiesFit, PTL

(* And so does the CPU, where the discipline lets it read: the flag is     *)
(* never down while the daemon's copy is the newer one                     *)
(* (hmcuda_transport.cpp:269-283).                                         *)
THEOREM CpuReadNewest ==
  ASSUME Careful
  PROVE  Spec => []CpuReadsNewest
<1>1. HostMemInv => CpuReadsNewest
  <2>1. SUFFICES ASSUME HostMemInv, NEW b \in Buffers, MayAccess(b), NEW a \in Words(b) \cap known
                 PROVE  guest[a] = newest[a]
    BY DEF CpuReadsNewest
  <2>2. /\ Words(b) \cap (InCall \cup Queued("kernel") \cup Queued("htod") \cup Queued("dtoh")) = {}
        /\ ~dirty[b]
    BY <2>1 DEF MayAccess
  <2>3. b \in Words(b)
    BY <2>1, Geometry DEF HostMemInv
  <2>4. ~Launched(b)
    BY <2>1, <2>2, <2>3, CallWords DEF Launched
  <2>5. FlagTells
    BY <2>1 DEF HostMemInv, Orderly
  <2>6. QED
    BY <2>1, <2>2, <2>4, <2>5 DEF FlagTells
<1>2. QED
  BY <1>1, CopiesFit, PTL
==============================================================================
