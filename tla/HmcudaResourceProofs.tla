------------------------- MODULE HmcudaResourceProofs -------------------------
(***************************************************************************)
(* The daemon's table against CUDA's objects, for any pointers, addresses  *)
(* and stubs, and any number of handles.                                   *)
(***************************************************************************)
EXTENDS HmcudaResource, SequenceTheorems, FiniteSetTheorems, TLAPS

(* The entries of a list, when n handles have been given out.              *)
EntryOf(t, n) ==
  IF t = "mem" THEN [handle : Addresses, ptr : Addresses, size : Nat \ {0}]
  ELSE IF t = "function" THEN [handle : Stubs, ptr : Pointers, size : {0}]
  ELSE [handle : 1..n, ptr : Pointers, size : {0}]

TableOK(tab, n) ==
  /\ DOMAIN tab = Types
  /\ \A t \in Types : tab[t] \in Seq(EntryOf(t, n))

LEMMA TypesOfTables ==
  /\ TypeOK <=> /\ up \in BOOLEAN /\ next \in 0..MaxHandles
                /\ live \subseteq Objects /\ lost \subseteq live
                /\ TableOK(table, next)
                /\ attempted \in BOOLEAN /\ ram \in {"pageable", "locked", "refused"}
                /\ stale \in BOOLEAN
  BY DEF TypeOK, TableOK, EntryOf, Types, Counted, Destroyable

LEMMA Numbers ==
  ASSUME ResourceInv
  PROVE  TypeOK /\ next \in Nat /\ MaxHandles \in Nat /\ next <= MaxHandles
<1>1. TypeOK
  BY DEF ResourceInv
<1>2. next \in 0..MaxHandles
  BY <1>1 DEF TypeOK
<1>3. QED
  BY <1>1, <1>2, ResourceAssumption

------------------------------------------------------------------------------
(* Lists.                                                                  *)

(* Entry j of a list that has lost entry i was entry Before(i, j) of it.   *)
Before(i, j) == IF j < i THEN j ELSE j + 1

LEMMA WithoutEntry ==
  ASSUME NEW S, NEW s \in Seq(S), NEW i \in DOMAIN s
  PROVE  /\ Without(s, i) \in Seq(S)
         /\ DOMAIN Without(s, i) = 1..(Len(s) - 1)
         /\ \A j \in DOMAIN Without(s, i) :
              /\ Before(i, j) \in DOMAIN s \ {i}
              /\ Without(s, i)[j] = s[Before(i, j)]
         /\ \A k \in DOMAIN s \ {i} :
              \E j \in DOMAIN Without(s, i) : Before(i, j) = k
         /\ \A j, k \in DOMAIN Without(s, i) : j # k => Before(i, j) # Before(i, k)
<1> DEFINE w == Without(s, i)
<1>1. Len(s) \in Nat /\ DOMAIN s = 1..Len(s) /\ \A k \in 1..Len(s) : s[k] \in S
  BY LenProperties, ElementOfSeq
<1>2. Len(s) - 1 \in Nat
  BY <1>1
<1>3. \A j \in 1..(Len(s) - 1) :
        /\ Before(i, j) \in (1..Len(s)) \ {i}
        /\ w[j] = s[Before(i, j)]
  BY <1>1 DEF Without, Before
<1>4. w \in [1..(Len(s) - 1) -> S]
  BY <1>1 DEF Without
<1>5. w \in Seq(S) /\ DOMAIN w = 1..(Len(s) - 1)
  BY <1>2, <1>4
<1>6. ASSUME NEW k \in DOMAIN s \ {i} PROVE \E j \in DOMAIN w : Before(i, j) = k
  <2>1. CASE k < i
    BY <1>1, <1>5, <2>1 DEF Before
  <2>2. CASE k > i
    <3>1. k - 1 \in 1..(Len(s) - 1) /\ ~(k - 1 < i)
      BY <1>1, <2>2
    <3>2. QED
      BY <1>1, <1>5, <3>1 DEF Before
  <2>3. QED
    BY <1>1, <2>1, <2>2
<1>7. \A j, k \in DOMAIN w : j # k => Before(i, j) # Before(i, k)
  BY <1>1, <1>5 DEF Before
<1>8. QED
  BY <1>1, <1>3, <1>5, <1>6, <1>7

LEMMA AddedEntry ==
  ASSUME NEW S, NEW s \in Seq(S), NEW e \in S
  PROVE  /\ <<e>> \o s \in Seq(S)
         /\ DOMAIN (<<e>> \o s) = 1..(Len(s) + 1)
         /\ (<<e>> \o s)[1] = e
         /\ \A j \in 2..(Len(s) + 1) : (<<e>> \o s)[j] = s[j - 1] /\ j - 1 \in DOMAIN s
         /\ \A j \in DOMAIN s : (<<e>> \o s)[j + 1] = s[j] /\ j + 1 \in DOMAIN (<<e>> \o s)
<1>1. <<e>> \in Seq(S) /\ Len(<<e>>) = 1 /\ <<e>>[1] = e
  OBVIOUS
<1>2. Len(s) \in Nat /\ DOMAIN s = 1..Len(s)
  BY LenProperties
<1>3. /\ <<e>> \o s \in Seq(S) /\ Len(<<e>> \o s) = 1 + Len(s)
      /\ \A j \in 1..(1 + Len(s)) : (<<e>> \o s)[j] = IF j <= 1 THEN <<e>>[j] ELSE s[j - 1]
  BY <1>1, ConcatProperties
<1>4. DOMAIN (<<e>> \o s) = 1..(Len(s) + 1)
  BY <1>2, <1>3, LenProperties
<1>5. QED
  BY <1>1, <1>2, <1>3, <1>4

(* More handles, and the same lists.                                       *)
LEMMA TableGrows ==
  ASSUME NEW tab, NEW n \in Nat, NEW m \in Nat, n <= m, TableOK(tab, n)
  PROVE  TableOK(tab, m)
<1>1. \A t \in Types : EntryOf(t, n) \subseteq EntryOf(t, m)
  BY DEF EntryOf
<1>2. QED
  BY <1>1, SeqMonotonic DEF TableOK

LEMMA NewTable ==
  ASSUME NEW n
  PROVE  /\ TableOK(NoTable, n)
         /\ \A t \in Types : DOMAIN NoTable[t] = {}
  BY EmptySeq DEF TableOK, NoTable

LEMMA TypedEntry ==
  ASSUME NEW tab, NEW n, TableOK(tab, n), NEW t \in Types, NEW i \in DOMAIN tab[t]
  PROVE  tab[t][i] \in EntryOf(t, n)
  BY LenProperties, ElementOfSeq DEF TableOK

------------------------------------------------------------------------------
(* Objects.                                                                *)

LEMMA KindsApart ==
  ASSUME NEW t \in Freed, NEW u \in Types, u # t, NEW e, NEW f
  PROVE  Behind(t, e) \cap Behind(u, f) = {}
<1>1. Kinds(t) \cap Kinds(u) = {}
  BY DEF Freed, Types, Counted, Destroyable, Kinds
<1>2. \A x \in Behind(t, e) : x.kind \in Kinds(t)
  BY DEF Behind, Object
<1>3. \A x \in Behind(u, f) : x.kind \in Kinds(u)
  BY DEF Behind, Object
<1>4. QED
  BY <1>1, <1>2, <1>3

LEMMA MemoryEntry ==
  ASSUME TypeOK, NEW i \in DOMAIN table["mem"]
  PROVE  /\ table["mem"][i].handle \in Nat /\ table["mem"][i].ptr \in Nat
         /\ table["mem"][i].size \in Nat \ {0}
<1>1. "mem" \in Types
  BY DEF Types
<1>2. table["mem"][i] \in [handle : Addresses, ptr : Addresses, size : Nat \ {0}]
  BY <1>1, TypesOfTables, TypedEntry DEF EntryOf
<1>3. QED
  BY <1>2, ResourceAssumption

(* No object has two entries of its own.                                   *)
LEMMA EntriesApart ==
  ASSUME TypeOK, Distinct, RangesDisjoint, NEW t \in Freed \cup {"module"},
         NEW i \in DOMAIN table[t], NEW j \in DOMAIN table[t], i # j
  PROVE  /\ table[t][i].ptr # table[t][j].ptr
         /\ Behind(t, table[t][i]) \cap Behind(t, table[t][j]) = {}
<1>1. table[t][i].ptr # table[t][j].ptr
  <2>1. CASE t = "mem"
    <3>1. /\ table[t][i].ptr \in Nat /\ table[t][i].size \in Nat \ {0}
          /\ table[t][j].ptr \in Nat /\ table[t][j].size \in Nat \ {0}
      BY <2>1, MemoryEntry
    <3>2. \/ table[t][i].ptr + table[t][i].size <= table[t][j].ptr
          \/ table[t][j].ptr + table[t][j].size <= table[t][i].ptr
      BY <2>1 DEF RangesDisjoint
    <3>3. QED
      BY <3>1, <3>2
  <2>2. CASE t # "mem"
    BY <2>2 DEF Distinct, Freed, Counted, Destroyable
  <2>3. QED
    BY <2>1, <2>2
<1>2. /\ \A x \in Behind(t, table[t][i]) : x.ptr = table[t][i].ptr
      /\ \A x \in Behind(t, table[t][j]) : x.ptr = table[t][j].ptr
  BY DEF Behind, Object
<1>3. QED
  BY <1>1, <1>2

(* The entry a handler has found for a handle is the one that is removed,  *)
(* unless the handle is an address inside a range: then none is.           *)
LEMMA RemovesFound ==
  ASSUME TypeOK, RangesDisjoint, NEW t \in Freed, NEW h, h \in Nat,
         NEW i \in DOMAIN table[t], Finds(t, h, i), Removed(t, h, table')
  PROVE  table' = IF h = table[t][i].handle
                  THEN [table EXCEPT ![t] = Without(@, i)] ELSE table
<1>1. DOMAIN table[t] = 1..Len(table[t]) /\ Len(table[t]) \in Nat
  <2>1. t \in Types
    BY DEF Types, Freed, Counted, Destroyable
  <2>2. table[t] \in Seq(EntryOf(t, next))
    BY <2>1, TypesOfTables DEF TableOK
  <2>3. QED
    BY <2>2, LenProperties
<1>2. CASE t = "mem"
  <2>1. ASSUME NEW j \in DOMAIN table[t], table[t][j].handle = h PROVE j = i
    <3>1. /\ table[t][i].handle = table[t][i].ptr /\ table[t][j].handle = table[t][j].ptr
          /\ i # j => \/ table[t][i].ptr + table[t][i].size <= table[t][j].ptr
                     \/ table[t][j].ptr + table[t][j].size <= table[t][i].ptr
      BY <1>2 DEF RangesDisjoint
    <3>2. table[t][i].handle <= h /\ h < table[t][i].handle + table[t][i].size
      BY <1>2 DEF Finds, Matches
    <3>3. QED
      BY <1>2, <2>1, <3>1, <3>2, MemoryEntry
  <2>2. CASE \A j \in DOMAIN table[t] : table[t][j].handle # h
    BY <2>2 DEF Removed
  <2>3. CASE \E j \in DOMAIN table[t] : table[t][j].handle = h
    <3>1. PICK j \in DOMAIN table[t] :
            table[t][j].handle = h /\ table' = [table EXCEPT ![t] = Without(@, j)]
      BY <2>3 DEF Removed
    <3>2. QED
      BY <2>1, <3>1
  <2>4. QED
    BY <2>2, <2>3
<1>3. CASE t # "mem"
  <2>1. table[t][i].handle = h /\ \A j \in 1..(i - 1) : table[t][j].handle # h
    BY <1>3 DEF Finds, Matches
  <2>2. PICK j \in DOMAIN table[t] :
          /\ table[t][j].handle = h /\ \A k \in 1..(j - 1) : table[t][k].handle # h
          /\ table' = [table EXCEPT ![t] = Without(@, j)]
    BY <2>1 DEF Removed
  <2>3. i \in 1..Len(table[t]) /\ j \in 1..Len(table[t]) /\ Len(table[t]) \in Nat
    BY <1>1
  <2>4. j = i
    BY <2>1, <2>2, <2>3
  <2>5. QED
    BY <2>1, <2>2, <2>4
<1>4. QED
  BY <1>2, <1>3
------------------------------------------------------------------------------
(* The table with an entry more, and with one less.                        *)

LEMMA AddedTable ==
  ASSUME TypeOK, NEW t \in Types, NEW n \in Nat, next <= n, NEW e \in EntryOf(t, n)
  PROVE  /\ TableOK(Add(t, e), n)
         /\ \A u \in Types \ {t} : Add(t, e)[u] = table[u]
         /\ 1 \in DOMAIN Add(t, e)[t] /\ Add(t, e)[t][1] = e
         /\ \A j \in DOMAIN Add(t, e)[t] \ {1} :
              j - 1 \in DOMAIN table[t] /\ Add(t, e)[t][j] = table[t][j - 1]
         /\ \A j \in DOMAIN table[t] :
              j + 1 \in DOMAIN Add(t, e)[t] /\ Add(t, e)[t][j + 1] = table[t][j]
         /\ \A j \in DOMAIN Add(t, e)[t] : j \in Nat
<1>1. TableOK(table, n) /\ next \in Nat
  BY TypesOfTables, TableGrows, ResourceAssumption
<1>2. table[t] \in Seq(EntryOf(t, n)) /\ DOMAIN table = Types
  BY <1>1 DEF TableOK
<1>3. Add(t, e)[t] = <<e>> \o table[t] /\ DOMAIN Add(t, e) = Types
      /\ \A u \in Types \ {t} : Add(t, e)[u] = table[u]
  BY <1>2 DEF Add
<1>4. TableOK(Add(t, e), n)
  <2>1. Add(t, e)[t] \in Seq(EntryOf(t, n))
    BY <1>2, <1>3, AddedEntry
  <2>2. \A u \in Types \ {t} : Add(t, e)[u] \in Seq(EntryOf(u, n))
    BY <1>1, <1>3 DEF TableOK
  <2>3. QED
    BY <1>3, <2>1, <2>2 DEF TableOK
<1>5. Len(table[t]) \in Nat
  BY <1>2, LenProperties
<1>6. /\ DOMAIN Add(t, e)[t] = 1..(Len(table[t]) + 1)
      /\ Add(t, e)[t][1] = e
      /\ \A j \in 2..(Len(table[t]) + 1) :
           Add(t, e)[t][j] = table[t][j - 1] /\ j - 1 \in DOMAIN table[t]
      /\ \A j \in DOMAIN table[t] :
           Add(t, e)[t][j + 1] = table[t][j] /\ j + 1 \in DOMAIN Add(t, e)[t]
  BY <1>2, <1>3, AddedEntry
<1>7. QED
  BY <1>3, <1>4, <1>5, <1>6

(* The table without entry i of a list.                                    *)
Dropped(t, i) == [table EXCEPT ![t] = Without(@, i)]

LEMMA RemovedTable ==
  ASSUME TypeOK, NEW t \in Types, NEW i \in DOMAIN table[t]
  PROVE  /\ TableOK(Dropped(t, i), next)
         /\ \A u \in Types \ {t} : Dropped(t, i)[u] = table[u]
         /\ \A j \in DOMAIN Dropped(t, i)[t] :
              Before(i, j) \in DOMAIN table[t] \ {i} /\ Dropped(t, i)[t][j] = table[t][Before(i, j)]
         /\ \A k \in DOMAIN table[t] \ {i} : \E j \in DOMAIN Dropped(t, i)[t] : Before(i, j) = k
         /\ \A j, k \in DOMAIN Dropped(t, i)[t] : j # k => Before(i, j) # Before(i, k)
<1>1. TableOK(table, next)
  BY TypesOfTables
<1>2. table[t] \in Seq(EntryOf(t, next)) /\ DOMAIN table = Types
  BY <1>1 DEF TableOK
<1>3. Dropped(t, i)[t] = Without(table[t], i) /\ DOMAIN Dropped(t, i) = Types
      /\ \A u \in Types \ {t} : Dropped(t, i)[u] = table[u]
  BY <1>2 DEF Dropped
<1>4. TableOK(Dropped(t, i), next)
  <2>1. Dropped(t, i)[t] \in Seq(EntryOf(t, next))
    BY <1>2, <1>3, WithoutEntry
  <2>2. \A u \in Types \ {t} : Dropped(t, i)[u] \in Seq(EntryOf(u, next))
    BY <1>1, <1>3 DEF TableOK
  <2>3. QED
    BY <1>3, <2>1, <2>2 DEF TableOK
<1>5. QED
  BY <1>2, <1>3, <1>4, WithoutEntry

------------------------------------------------------------------------------
(* Steps that add an entry.                                                *)

(* A new object of CUDA with a handle of its own.                          *)
LEMMA CreateStep ==
  ASSUME ResourceInv, NEW t \in Destroyable \cup {"module"}, Create(t)
  PROVE  ResourceInv'
<1>1. PICK p \in Pointers :
        /\ Object(t, p, 0) \notin live
        /\ live' = live \cup {Object(t, p, 0)}
        /\ table' = Add(t, Entry(NewHandle, p, 0))
  BY DEF Create
<1> DEFINE x == Object(t, p, 0)
           e == Entry(NewHandle, p, 0)
<1>2. /\ t \in Types /\ t \in Counted /\ t # "context" /\ t # "mem" /\ t # "function"
      /\ Kinds(t) = {t}
  BY DEF Types, Counted, Destroyable, Kinds
<1>3. /\ TypeOK /\ next \in Nat /\ next' = next + 1 /\ next' \in 0..MaxHandles
      /\ UNCHANGED <<up, lost, attempted, ram, stale>>
  <2>1. TypeOK /\ next \in 0..MaxHandles /\ MaxHandles \in Nat
    BY Numbers
  <2>2. next < MaxHandles /\ next' = next + 1 /\ UNCHANGED <<up, lost, attempted, ram, stale>>
    BY DEF Create, ramVars
  <2>3. QED
    BY <2>1, <2>2
<1>4. e \in EntryOf(t, next + 1) /\ Behind(t, e) = {x} /\ e.ptr = p
  BY <1>2, <1>3 DEF EntryOf, Entry, NewHandle, Behind
<1>5. /\ TableOK(table', next')
      /\ \A u \in Types \ {t} : table'[u] = table[u]
      /\ 1 \in DOMAIN table'[t] /\ table'[t][1] = e
      /\ \A j \in DOMAIN table'[t] \ {1} :
           j - 1 \in DOMAIN table[t] /\ table'[t][j] = table[t][j - 1]
      /\ \A j \in DOMAIN table[t] :
           j + 1 \in DOMAIN table'[t] /\ table'[t][j + 1] = table[t][j]
      /\ \A j \in DOMAIN table'[t] : j \in Nat
  BY <1>1, <1>2, <1>3, <1>4, AddedTable
<1>6. TypeOK'
  <2>1. x \in Objects
    BY <1>2 DEF Object, Objects
  <2>2. live' \subseteq Objects /\ lost' \subseteq live'
    BY <1>1, <1>3, <2>1 DEF TypeOK
  <2>3. QED
    BY <1>3, <1>5, <2>2, TypesOfTables DEF TypeOK, TableOK, EntryOf, Types, Counted, Destroyable
<1>7. EntriesAreLive'
  BY <1>1, <1>4, <1>5 DEF ResourceInv, EntriesAreLive
<1>8. RangesDisjoint'
  BY <1>2, <1>5 DEF ResourceInv, RangesDisjoint, Types
<1>9. Distinct'
  <2>1. \A j \in DOMAIN table[t] : table[t][j].ptr # p
    <3>1. SUFFICES ASSUME NEW j \in DOMAIN table[t], table[t][j].ptr = p PROVE FALSE
      OBVIOUS
    <3>2. table[t][j].size = 0
      <4>1. table[t][j] \in EntryOf(t, next)
        BY <1>2, <1>3, TypesOfTables, TypedEntry
      <4>2. QED
        BY <1>2, <4>1 DEF EntryOf
    <3>3. Behind(t, table[t][j]) = {x}
      BY <1>2, <3>1, <3>2 DEF Behind
    <3>4. QED
      BY <1>1, <1>2, <3>3 DEF ResourceInv, EntriesAreLive
  <2>2. SUFFICES ASSUME NEW u \in Counted \ {"context"},
                        NEW i \in DOMAIN table'[u], NEW j \in DOMAIN table'[u], i # j
                 PROVE  table'[u][i].ptr # table'[u][j].ptr
    BY DEF Distinct
  <2>3. CASE u # t
    BY <1>5, <2>2, <2>3 DEF ResourceInv, Distinct, Types
  <2>4. CASE u = t /\ i = 1
    BY <1>4, <1>5, <2>1, <2>2, <2>4
  <2>5. CASE u = t /\ j = 1
    BY <1>4, <1>5, <2>1, <2>2, <2>5
  <2>6. CASE u = t /\ i # 1 /\ j # 1
    <3>1. i - 1 # j - 1
      BY <1>5, <2>2, <2>6
    <3>2. QED
      BY <1>2, <1>5, <2>6, <3>1 DEF ResourceInv, Distinct
  <2>7. QED
    BY <2>3, <2>4, <2>5, <2>6
<1>10. LostUnlisted'
  <2>1. x \notin lost
    BY <1>1, <1>3 DEF TypeOK
  <2>2. QED
    BY <1>3, <1>4, <1>5, <2>1 DEF ResourceInv, LostUnlisted, Freed, Types, Counted
<1>11. LiveListed'
  <2>1. SUFFICES ASSUME NEW y \in live', y \notin lost', y.kind # "context"
                 PROVE  \E u \in Types \ {"function"} : \E i \in DOMAIN table'[u] :
                          y \in Behind(u, table'[u][i])
    BY DEF LiveListed
  <2>2. CASE y = x
    BY <1>2, <1>4, <1>5, <2>2
  <2>3. CASE y \in live
    <3>1. PICK u \in Types \ {"function"} :
            \E i \in DOMAIN table[u] : y \in Behind(u, table[u][i])
      BY <1>3, <2>1, <2>3 DEF ResourceInv, LiveListed
    <3>2. QED
      BY <1>5, <3>1
  <2>4. QED
    BY <1>1, <2>2, <2>3
<1>12. QED
  BY <1>6, <1>7, <1>8, <1>9, <1>10, <1>11 DEF ResourceInv

(* A range of device memory, which CUDA takes from where there is none.    *)
LEMMA AllocateStep ==
  ASSUME ResourceInv, NEW k \in {"mem", "va"}, Allocate(k)
  PROVE  ResourceInv'
<1>1. PICK a \in Addresses, n \in 1..Cardinality(Addresses) :
        /\ a..(a + n - 1) \subseteq Addresses
        /\ \A x \in Memory : x.ptr + x.size <= a \/ a + n <= x.ptr
        /\ live' = live \cup {Object(k, a, n)}
        /\ table' = Add("mem", Entry(a, a, n))
  BY DEF Allocate
<1> DEFINE e == Entry(a, a, n)
<1>2. /\ TypeOK /\ next \in Nat
      /\ UNCHANGED <<up, next, lost, attempted, ram, stale>>
      /\ a \in Nat /\ n \in Nat \ {0}
  <2>1. n \in Nat \ {0}
    BY <1>1
  <2>2. a \in Nat
    BY <1>1, ResourceAssumption
  <2>3. UNCHANGED <<up, next, lost, attempted, ram, stale>>
    BY DEF Allocate, ramVars
  <2>4. QED
    BY <2>1, <2>2, <2>3, Numbers
<1>3. /\ "mem" \in Types /\ e \in EntryOf("mem", next)
      /\ e.handle = a /\ e.ptr = a /\ e.size = n
      /\ Behind("mem", e) = {Object("mem", a, n), Object("va", a, n)}
  BY <1>2 DEF Types, EntryOf, Entry, Behind, Kinds
<1>4. /\ TableOK(table', next)
      /\ \A u \in Types \ {"mem"} : table'[u] = table[u]
      /\ 1 \in DOMAIN table'["mem"] /\ table'["mem"][1] = e
      /\ \A j \in DOMAIN table'["mem"] \ {1} :
           j - 1 \in DOMAIN table["mem"] /\ table'["mem"][j] = table["mem"][j - 1]
      /\ \A j \in DOMAIN table["mem"] :
           j + 1 \in DOMAIN table'["mem"] /\ table'["mem"][j + 1] = table["mem"][j]
      /\ \A j \in DOMAIN table'["mem"] : j \in Nat
  BY <1>1, <1>2, <1>3, AddedTable
<1>5. TypeOK'
  <2>1. Object(k, a, n) \in Objects
    BY <1>2 DEF Object, Objects
  <2>2. live' \subseteq Objects /\ lost' \subseteq live'
    BY <1>1, <1>2, <2>1 DEF TypeOK
  <2>3. QED
    BY <1>2, <1>4, <2>2, TypesOfTables DEF TypeOK, TableOK, EntryOf, Types, Counted, Destroyable
<1>6. EntriesAreLive'
  <2>1. Behind("mem", e) \cap live' # {}
    BY <1>1, <1>3
  <2>2. QED
    BY <1>1, <1>4, <2>1 DEF ResourceInv, EntriesAreLive
<1>7. RangesDisjoint'
  <2>1. ASSUME NEW j \in DOMAIN table["mem"]
        PROVE  LET f == table["mem"][j] IN f.ptr + f.size <= a \/ a + n <= f.ptr
    <3>1. PICK x \in live : x \in Behind("mem", table["mem"][j])
      BY <1>3 DEF ResourceInv, EntriesAreLive
    <3>2. /\ x \in Memory /\ x.ptr = table["mem"][j].ptr
          /\ x.size = table["mem"][j].size
      BY <3>1 DEF Behind, Object, Kinds, Memory
    <3>3. QED
      BY <1>1, <3>2
  <2>2. SUFFICES ASSUME NEW i \in DOMAIN table'["mem"], NEW j \in DOMAIN table'["mem"]
                 PROVE  LET m == table'["mem"] IN
                        /\ m[i].handle = m[i].ptr
                        /\ i # j => m[i].ptr + m[i].size <= m[j].ptr \/ m[j].ptr + m[j].size <= m[i].ptr
    BY DEF RangesDisjoint
  <2>3. CASE i = 1
    BY <1>3, <1>4, <2>1, <2>3
  <2>4. CASE i # 1 /\ j = 1
    BY <1>3, <1>4, <2>1, <2>4 DEF ResourceInv, RangesDisjoint
  <2>5. CASE i # 1 /\ j # 1
    <3>1. i # j => i - 1 # j - 1
      BY <1>4
    <3>2. QED
      BY <1>4, <2>5, <3>1 DEF ResourceInv, RangesDisjoint
  <2>6. QED
    BY <2>3, <2>4, <2>5
<1>8. Distinct'
  BY <1>4 DEF ResourceInv, Distinct, Types, Counted, Destroyable
<1>9. LostUnlisted'
  <2>1. Behind("mem", e) \cap lost = {}
    <3>1. SUFFICES ASSUME NEW x \in lost, x \in Behind("mem", e) PROVE FALSE
      OBVIOUS
    <3>2. x \in Memory /\ x.ptr = a /\ x.size = n
      BY <1>2, <1>3, <3>1 DEF TypeOK, Memory, Object
    <3>3. QED
      BY <1>1, <1>2, <3>2
  <2>2. QED
    BY <1>2, <1>4, <2>1 DEF ResourceInv, LostUnlisted, Freed, Types, Counted
<1>10. LiveListed'
  <2>1. SUFFICES ASSUME NEW y \in live', y \notin lost', y.kind # "context"
                 PROVE  \E u \in Types \ {"function"} : \E i \in DOMAIN table'[u] :
                          y \in Behind(u, table'[u][i])
    BY DEF LiveListed
  <2>2. CASE y = Object(k, a, n)
    <3>1. y \in Behind("mem", table'["mem"][1])
      BY <1>3, <1>4, <2>2
    <3>2. QED
      BY <1>3, <1>4, <3>1
  <2>3. CASE y \in live
    <3>1. PICK u \in Types \ {"function"} :
            \E i \in DOMAIN table[u] : y \in Behind(u, table[u][i])
      BY <1>2, <2>1, <2>3 DEF ResourceInv, LiveListed
    <3>2. QED
      BY <1>4, <3>1
  <2>4. QED
    BY <1>1, <2>2, <2>3
<1>11. QED
  BY <1>5, <1>6, <1>7, <1>8, <1>9, <1>10 DEF ResourceInv

(* A function stands for its module; a context may have several entries.   *)
LEMMA ContextListed ==
  ASSUME ResourceInv, NEW t \in {"context", "function"}, NEW n \in next..MaxHandles,
         NEW e \in EntryOf(t, n), Behind(t, e) \cap live' # {},
         table' = Add(t, e), next' = n,
         live \subseteq live', live' \subseteq Objects,
         \A x \in live' \ live : x.kind = "context",
         UNCHANGED <<up, lost, stale>>,
         attempted' \in BOOLEAN, ram' \in {"pageable", "locked", "refused"}
  PROVE  ResourceInv'
<1>1. TypeOK /\ next \in Nat /\ n \in Nat /\ n \in 0..MaxHandles /\ t \in Types
  BY Numbers DEF Types, Counted
<1>2. /\ TableOK(table', n)
      /\ \A u \in Types \ {t} : table'[u] = table[u]
      /\ table'[t][1] = e
      /\ \A j \in DOMAIN table'[t] \ {1} :
           j - 1 \in DOMAIN table[t] /\ table'[t][j] = table[t][j - 1]
      /\ \A j \in DOMAIN table[t] :
           j + 1 \in DOMAIN table'[t] /\ table'[t][j + 1] = table[t][j]
  BY <1>1, AddedTable
<1>3. TypeOK'
  <2>1. lost' \subseteq live'
    BY <1>1 DEF TypeOK
  <2>2. QED
    BY <1>1, <1>2, <2>1, TypesOfTables DEF TypeOK, TableOK, EntryOf, Types, Counted, Destroyable
<1>4. EntriesAreLive'
  BY <1>2 DEF ResourceInv, EntriesAreLive
<1>5. RangesDisjoint' /\ Distinct' /\ LostUnlisted'
  BY <1>2 DEF ResourceInv, RangesDisjoint, Distinct, LostUnlisted, Freed, Types, Counted, Destroyable
<1>6. LiveListed'
  <2>1. SUFFICES ASSUME NEW y \in live', y \notin lost', y.kind # "context"
                 PROVE  \E u \in Types \ {"function"} : \E i \in DOMAIN table'[u] :
                          y \in Behind(u, table'[u][i])
    BY DEF LiveListed
  <2>2. PICK u \in Types \ {"function"} :
          \E i \in DOMAIN table[u] : y \in Behind(u, table[u][i])
    BY <2>1 DEF ResourceInv, LiveListed
  <2>3. QED
    BY <1>2, <2>2
<1>7. QED
  BY <1>3, <1>4, <1>5, <1>6 DEF ResourceInv

LEMMA RegisterFunctionStep ==
  ASSUME ResourceInv, NEW h, NEW stub \in Stubs, RegisterFunction(h, stub)
  PROVE  ResourceInv'
<1>1. TypeOK /\ next \in Nat /\ "module" \in Types /\ next \in next..MaxHandles
  BY Numbers DEF Types, Counted
<1>2. PICK i \in DOMAIN table["module"] :
        table' = Add("function", Entry(stub, table["module"][i].ptr, 0))
  BY DEF RegisterFunction
<1>3. table["module"][i].ptr \in Pointers /\ table["module"][i].size = 0
  <2>1. table["module"][i] \in EntryOf("module", next)
    BY <1>1, TypesOfTables, TypedEntry
  <2>2. QED
    BY <2>1 DEF EntryOf
<1>4. Entry(stub, table["module"][i].ptr, 0) \in EntryOf("function", next)
  BY <1>3 DEF Entry, EntryOf
<1>5. Behind("function", Entry(stub, table["module"][i].ptr, 0)) = Behind("module", table["module"][i])
  BY <1>3 DEF Behind, Kinds, Entry
<1>6. Behind("module", table["module"][i]) \cap live # {}
  BY <1>1 DEF ResourceInv, EntriesAreLive
<1>7. UNCHANGED <<up, next, live, lost, attempted, ram, stale>>
  BY DEF RegisterFunction, ramVars
<1>8. live' \subseteq Objects /\ attempted' \in BOOLEAN /\ ram' \in {"pageable", "locked", "refused"}
  BY <1>1, <1>7 DEF TypeOK
<1>9. QED
  BY <1>1, <1>2, <1>4, <1>5, <1>6, <1>7, <1>8, ContextListed

LEMMA WithContextType ==
  ASSUME NEW objects, objects \subseteq Objects, NEW p \in Pointers, NEW new,
         WithContext(objects, p, new)
  PROVE  /\ new \subseteq Objects /\ objects \subseteq new
         /\ Object("context", p, 0) \in new
         /\ \A x \in new \ objects : x.kind = "context"
  BY DEF WithContext, Objects, Object, Counted

LEMMA RetainStep ==
  ASSUME ResourceInv, Retain
  PROVE  ResourceInv'
<1>1. PICK p \in Pointers :
        WithContext(live, p, live') /\ table' = Add("context", Entry(NewHandle, p, 0))
  BY DEF Retain
<1>2. TypeOK /\ next \in Nat /\ next' = next + 1 /\ next' \in next..MaxHandles
      /\ UNCHANGED <<up, lost, stale>>
  <2>1. TypeOK /\ next \in 0..MaxHandles /\ MaxHandles \in Nat
    BY Numbers
  <2>2. next < MaxHandles /\ next' = next + 1 /\ UNCHANGED <<up, lost, stale>>
    BY DEF Retain
  <2>3. QED
    BY <2>1, <2>2
<1>3. /\ live' \subseteq Objects /\ live \subseteq live'
      /\ Object("context", p, 0) \in live'
      /\ \A x \in live' \ live : x.kind = "context"
  BY <1>1, <1>2, WithContextType DEF TypeOK
<1>4. Entry(NewHandle, p, 0) \in EntryOf("context", next')
  BY <1>2 DEF Entry, NewHandle, EntryOf
<1>5. Behind("context", Entry(NewHandle, p, 0)) = {Object("context", p, 0)}
  BY DEF Behind, Kinds, Entry
<1>6. attempted' \in BOOLEAN /\ ram' \in {"pageable", "locked", "refused"}
  BY <1>2 DEF Retain, RegisterGuestMemory, TypeOK
<1>7. QED
  BY <1>1, <1>2, <1>3, <1>4, <1>5, <1>6, ContextListed

LEMMA StreamGetCtxStep ==
  ASSUME ResourceInv, StreamGetCtx
  PROVE  ResourceInv'
<1>1. PICK x \in Contexts(live) : table' = Add("context", Entry(NewHandle, x.ptr, 0))
  BY DEF StreamGetCtx
<1>2. TypeOK /\ next \in Nat /\ next' = next + 1 /\ next' \in next..MaxHandles
      /\ UNCHANGED <<up, live, lost, attempted, ram, stale>>
  <2>1. TypeOK /\ next \in 0..MaxHandles /\ MaxHandles \in Nat
    BY Numbers
  <2>2. next < MaxHandles /\ next' = next + 1
        /\ UNCHANGED <<up, live, lost, attempted, ram, stale>>
    BY DEF StreamGetCtx, ramVars
  <2>3. QED
    BY <2>1, <2>2
<1>3. x \in live /\ x.ptr \in Pointers /\ x = Object("context", x.ptr, 0)
  BY <1>2 DEF Contexts, TypeOK, Objects, Object
<1>4. Entry(NewHandle, x.ptr, 0) \in EntryOf("context", next')
  BY <1>2, <1>3 DEF Entry, NewHandle, EntryOf
<1>5. Behind("context", Entry(NewHandle, x.ptr, 0)) = {x}
  BY <1>3 DEF Behind, Kinds, Entry
<1>6. live' \subseteq Objects /\ attempted' \in BOOLEAN /\ ram' \in {"pageable", "locked", "refused"}
  BY <1>2 DEF TypeOK
<1>7. QED
  BY <1>1, <1>2, <1>3, <1>4, <1>5, <1>6, ContextListed

------------------------------------------------------------------------------
(* A step that takes an entry away: CUDA's call for an object of kind k.   *)

LEMMA ReleaseStep ==
  ASSUME ResourceInv, NEW t \in Freed, NEW k \in Kinds(t), NEW h \in Nat, Release(t, k, h)
  PROVE  ResourceInv'
<1>1. PICK i \in DOMAIN table[t], gone \in BOOLEAN :
        LET e == table[t][i]
            x == Behind(t, e) \cap live
        IN /\ Finds(t, h, i)
           /\ gone => h = e.handle /\ Object(k, e.ptr, e.size) \in live
           /\ live' = live \ (IF gone THEN x ELSE {})
           /\ lost' = lost \cup (IF gone \/ h # e.handle THEN {} ELSE x)
           /\ stale' = (stale \/ x = {})
           /\ Removed(t, h, table')
  BY DEF Release
<1> DEFINE e == table[t][i]
           x == Behind(t, e) \cap live
<1>2. /\ TypeOK /\ next' = next /\ UNCHANGED <<up, attempted, ram>>
      /\ t \in Types /\ t \in Freed \cup {"module"} /\ t # "function" /\ t # "context"
  <2>1. UNCHANGED <<up, next, attempted, ram>>
    BY DEF Release, ramVars
  <2>2. QED
    BY <2>1, Numbers DEF Types, Freed, Counted, Destroyable
<1>3. stale' \in BOOLEAN
  BY <1>1
<1>4. table' = IF h = e.handle THEN [table EXCEPT ![t] = Without(@, i)] ELSE table
  BY <1>1, <1>2, RemovesFound DEF ResourceInv
<1>5. CASE h # e.handle
  <2>1. UNCHANGED <<up, table, next, live, lost, attempted, ram>>
    BY <1>1, <1>2, <1>4, <1>5
  <2>2. TypeOK'
    BY <1>2, <1>3, <2>1 DEF TypeOK
  <2>3. QED
    BY <2>1, <2>2 DEF ResourceInv, EntriesAreLive, RangesDisjoint, Distinct, LostUnlisted, LiveListed
<1>6. CASE h = e.handle
  <2>1. table' = Dropped(t, i)
    BY <1>4, <1>6 DEF Dropped
  <2>2. /\ TableOK(table', next)
        /\ \A u \in Types \ {t} : table'[u] = table[u]
        /\ \A j \in DOMAIN table'[t] :
             Before(i, j) \in DOMAIN table[t] \ {i} /\ table'[t][j] = table[t][Before(i, j)]
        /\ \A j \in DOMAIN table[t] \ {i} : \E m \in DOMAIN table'[t] : Before(i, m) = j
        /\ \A j, m \in DOMAIN table'[t] : j # m => Before(i, j) # Before(i, m)
    BY <1>2, <2>1, RemovedTable
  <2>3. \/ live' = live \ x /\ lost' = lost
        \/ live' = live /\ lost' = lost \cup x
    BY <1>1, <1>6
  <2>4. x \cap lost = {}
    BY DEF ResourceInv, LostUnlisted
  <2>5. \A j \in DOMAIN table'[t] : Behind(t, table'[t][j]) \cap x = {}
    <3>1. SUFFICES ASSUME NEW j \in DOMAIN table'[t] PROVE Behind(t, table'[t][j]) \cap x = {}
      OBVIOUS
    <3> DEFINE m == Before(i, j)
    <3>2. m \in DOMAIN table[t] /\ m # i /\ table'[t][j] = table[t][m]
      BY <2>2
    <3> HIDE DEF m
    <3>3. Behind(t, table[t][m]) \cap Behind(t, table[t][i]) = {}
      BY <1>2, <3>2, EntriesApart DEF ResourceInv
    <3>4. QED
      BY <3>2, <3>3
  <2>6. \A u \in Types \ {t} : \A j \in DOMAIN table'[u] : Behind(u, table'[u][j]) \cap x = {}
    BY KindsApart
  <2>7. TypeOK'
    <3>1. live' \subseteq Objects /\ lost' \subseteq live'
      BY <1>2, <2>3, <2>4 DEF TypeOK
    <3>2. QED
      BY <1>2, <1>3, <2>2, <3>1, TypesOfTables DEF TypeOK, TableOK, EntryOf, Types, Counted, Destroyable
  <2>8. EntriesAreLive'
    <3>1. SUFFICES ASSUME NEW u \in Types, NEW j \in DOMAIN table'[u]
                   PROVE  Behind(u, table'[u][j]) \cap live' # {}
      BY DEF EntriesAreLive
    <3>2. Behind(u, table'[u][j]) \cap live # {}
      BY <2>2 DEF ResourceInv, EntriesAreLive
    <3>3. Behind(u, table'[u][j]) \cap x = {}
      BY <2>5, <2>6
    <3>4. QED
      BY <2>3, <3>2, <3>3
  <2>9. RangesDisjoint'
    <3>1. CASE t = "mem"
      BY <2>2, <3>1 DEF ResourceInv, RangesDisjoint
    <3>2. CASE t # "mem"
      BY <2>2, <3>2 DEF ResourceInv, RangesDisjoint, Types
    <3>3. QED
      BY <3>1, <3>2
  <2>10. Distinct'
    <3>1. SUFFICES ASSUME NEW u \in Counted \ {"context"},
                          NEW j \in DOMAIN table'[u], NEW m \in DOMAIN table'[u], j # m
                   PROVE  table'[u][j].ptr # table'[u][m].ptr
      BY DEF Distinct
    <3>2. CASE u = t
      BY <2>2, <3>1, <3>2 DEF ResourceInv, Distinct
    <3>3. CASE u # t
      BY <2>2, <3>1, <3>3 DEF ResourceInv, Distinct, Types
    <3>4. QED
      BY <3>2, <3>3
  <2>11. LostUnlisted'
    <3>1. SUFFICES ASSUME NEW u \in Freed, NEW j \in DOMAIN table'[u]
                   PROVE  Behind(u, table'[u][j]) \cap lost' = {}
      BY DEF LostUnlisted
    <3>2. u \in Types
      BY DEF Freed, Types, Counted, Destroyable
    <3>3. Behind(u, table'[u][j]) \cap lost = {}
      BY <2>2, <3>2 DEF ResourceInv, LostUnlisted
    <3>4. Behind(u, table'[u][j]) \cap x = {}
      BY <2>5, <2>6, <3>2
    <3>5. QED
      BY <2>3, <3>3, <3>4
  <2>12. LiveListed'
    <3>1. SUFFICES ASSUME NEW y \in live', y \notin lost', y.kind # "context"
                   PROVE  \E u \in Types \ {"function"} : \E j \in DOMAIN table'[u] :
                            y \in Behind(u, table'[u][j])
      BY DEF LiveListed
    <3>2. y \in live /\ y \notin lost /\ y \notin x
      BY <2>3, <3>1
    <3>3. PICK u \in Types \ {"function"} :
            \E j \in DOMAIN table[u] : y \in Behind(u, table[u][j])
      BY <3>1, <3>2 DEF ResourceInv, LiveListed
    <3>4. CASE u # t
      BY <2>2, <3>3, <3>4
    <3>5. CASE u = t
      <4>1. PICK j \in DOMAIN table[t] \ {i} : y \in Behind(t, table[t][j])
        BY <3>2, <3>3, <3>5
      <4>2. PICK m \in DOMAIN table'[t] : Before(i, m) = j
        BY <2>2
      <4>3. y \in Behind(t, table'[t][m])
        BY <2>2, <4>1, <4>2
      <4>4. QED
        BY <1>2, <4>3
    <3>6. QED
      BY <3>4, <3>5
  <2>13. QED
    BY <2>7, <2>8, <2>9, <2>10, <2>11, <2>12 DEF ResourceInv
<1>7. QED
  BY <1>5, <1>6

------------------------------------------------------------------------------
(* Steps with a new Context.                                               *)

LEMMA EmptyTable ==
  ASSUME table' = NoTable, TypeOK', \A x \in live' : x \in lost' \/ x.kind = "context"
  PROVE  ResourceInv'
<1>1. \A t \in Types : DOMAIN table'[t] = {}
  BY NewTable
<1>2. EntriesAreLive' /\ RangesDisjoint' /\ Distinct' /\ LostUnlisted'
  BY <1>1 DEF EntriesAreLive, RangesDisjoint, Distinct, LostUnlisted, Freed, Types, Counted, Destroyable
<1>3. LiveListed'
  BY DEF LiveListed
<1>4. QED
  BY <1>2, <1>3 DEF ResourceInv

LEMMA InitSessionStep ==
  ASSUME ResourceInv, InitSession
  PROVE  ResourceInv'
<1>1. PICK kept \in SUBSET Asked(live), p \in Pointers :
        LET rest == (live \ Asked(live)) \cup kept
        IN /\ {x \in Asked(live) : x.kind = "va"} \subseteq kept
           /\ \/ /\ live' = rest \/ WithContext(rest, p, live')
                 /\ lost' = lost \cup kept \cup {x \in live : x.kind = "module"}
                 /\ UNCHANGED ram
              \/ /\ live' = {} \/ WithContext({}, p, live')
                 /\ lost' = {}
                 /\ ram' = Unlocked
  BY DEF InitSession
<1> DEFINE rest == (live \ Asked(live)) \cup kept
<1>2. /\ TypeOK /\ next \in Nat /\ table' = NoTable /\ next' = next /\ up' = TRUE
      /\ attempted' = attempted /\ stale' \in BOOLEAN
  <2>1. table' = NoTable /\ next' = next /\ up' = TRUE /\ attempted' = attempted /\ stale' \in BOOLEAN
    BY DEF InitSession, TableOfNewContext, NextOfNewContext
  <2>2. QED
    BY <2>1, Numbers
<1>3. ram' \in {"pageable", "locked", "refused"}
  BY <1>1, <1>2 DEF TypeOK, Unlocked
<1>4. rest \subseteq live /\ live \subseteq Objects
  BY <1>2 DEF TypeOK, Asked
<1>5. /\ live' \subseteq Objects /\ lost' \subseteq live'
      /\ \A x \in live' : x \in lost' \/ x.kind = "context"
  <2>1. CASE /\ live' = rest \/ WithContext(rest, p, live')
             /\ lost' = lost \cup kept \cup {x \in live : x.kind = "module"}
    <3>1. rest \subseteq live' /\ live' \subseteq Objects
          /\ \A x \in live' \ rest : x.kind = "context"
      <4>1. rest \subseteq Objects
        BY <1>4
      <4>2. CASE WithContext(rest, p, live')
        <5> HIDE DEF rest
        <5>1. QED
          BY <4>1, <4>2, WithContextType
      <4>3. QED
        BY <2>1, <4>1, <4>2
    <3>2. lost \cap Asked(live) = {}
      BY DEF Asked, ResourceInv, LostUnlisted
    <3>3. \A x \in Asked(live) : x.kind \in Destroyable \cup {"mem", "va"}
      BY DEF Asked, Behind, Object, Kinds, Freed, Destroyable
    <3>4. lost' \subseteq rest
      <4>1. lost \subseteq rest
        BY <1>2, <3>2 DEF TypeOK
      <4>2. \A x \in live : x.kind = "module" => x \in rest
        BY <3>3 DEF Destroyable
      <4>3. QED
        BY <2>1, <4>1, <4>2
    <3>5. ASSUME NEW x \in rest, x.kind # "context" PROVE x \in lost'
      <4>1. CASE x \in kept \/ x \in lost \/ x.kind = "module"
        BY <1>4, <2>1, <4>1
      <4>2. CASE x \notin kept /\ x \notin lost /\ x.kind # "module"
        <5>1. x \in live /\ x \notin Asked(live)
          BY <1>4, <4>2
        <5>2. PICK u \in Types \ {"function"} :
                \E i \in DOMAIN table[u] : x \in Behind(u, table[u][i])
          BY <3>5, <4>2, <5>1 DEF ResourceInv, LiveListed
        <5>3. u \notin Freed
          BY <5>1, <5>2 DEF Asked
        <5>4. u \in {"module", "context"}
          BY <5>3 DEF Freed, Types, Counted
        <5>5. x.kind = u
          BY <5>2, <5>4 DEF Behind, Object, Kinds
        <5>6. QED
          BY <3>5, <4>2, <5>4, <5>5
      <4>3. QED
        BY <4>1, <4>2
    <3>6. QED
      BY <3>1, <3>4, <3>5
  <2>2. CASE (live' = {} \/ WithContext({}, p, live')) /\ lost' = {}
    BY <2>2, WithContextType
  <2>3. QED
    BY <1>1, <2>1, <2>2
<1>6. TableOK(table', next')
  BY <1>2, NewTable
<1>7. TypeOK'
  BY <1>2, <1>3, <1>5, <1>6, Numbers, TypesOfTables
       DEF TypeOK, TableOK, EntryOf, Types, Counted, Destroyable
<1>8. QED
  BY <1>2, <1>5, <1>7, EmptyTable

LEMMA RetainResetsStep ==
  ASSUME ResourceInv, RetainResets
  PROVE  ResourceInv'
<1>1. /\ TypeOK /\ next \in Nat /\ next <= MaxHandles /\ MaxHandles \in Nat
      /\ lost' = {} /\ stale' \in BOOLEAN /\ up' = up
  <2>1. lost' = {} /\ stale' \in BOOLEAN /\ up' = up
    BY DEF RetainResets
  <2>2. QED
    BY <2>1, Numbers
<1>2. CASE /\ live' = {} /\ table' = NoTable /\ next' = next
           /\ attempted' = attempted /\ ram' = Unlocked
  <2>1. TableOK(table', next') /\ ram' \in {"pageable", "locked", "refused"}
    BY <1>1, <1>2, NewTable DEF Unlocked, TypeOK
  <2>2. TypeOK'
    BY <1>1, <1>2, <2>1 DEF TypeOK, TableOK, EntryOf, Types, Counted, Destroyable
  <2>3. QED
    BY <1>2, <2>2, EmptyTable
<1>3. CASE /\ next < MaxHandles /\ next' = next + 1
           /\ \E p \in Pointers :
                /\ WithContext({}, p, live')
                /\ table' = [NoTable EXCEPT !["context"] = <<Entry(next', p, 0)>> \o @]
           /\ RegisterGuestMemory(Unlocked)
  <2>1. PICK p \in Pointers :
          /\ WithContext({}, p, live')
          /\ table' = [NoTable EXCEPT !["context"] = <<Entry(next', p, 0)>> \o @]
    BY <1>3
  <2> DEFINE e == Entry(next', p, 0)
  <2>2. /\ live' \subseteq Objects /\ Object("context", p, 0) \in live'
        /\ \A x \in live' : x.kind = "context"
    <3>1. WithContext({}, p, live') /\ {} \subseteq Objects
      BY <2>1
    <3>2. \A x \in live' \ {} : x.kind = "context"
      BY <3>1, WithContextType, Zenon
    <3>3. QED
      BY <3>1, <3>2, WithContextType
  <2>3. e \in EntryOf("context", next') /\ Behind("context", e) = {Object("context", p, 0)}
    BY <1>1, <1>3 DEF Entry, EntryOf, Behind, Kinds
  <2>4. /\ \A t \in Types \ {"context"} : table'[t] = <<>>
        /\ table'["context"] = <<e>> /\ DOMAIN table' = Types
    BY <2>1 DEF NoTable, Types, Counted
  <2>5. /\ \A t \in Types \ {"context"} : DOMAIN table'[t] = {}
        /\ DOMAIN table'["context"] = {1} /\ table'["context"][1] = e
    BY <2>4
  <2>6. TableOK(table', next')
    <3>1. <<e>> \in Seq(EntryOf("context", next'))
      BY <2>3
    <3>2. \A t \in Types \ {"context"} : table'[t] \in Seq(EntryOf(t, next'))
      BY <2>4, EmptySeq
    <3>3. QED
      BY <2>4, <3>1, <3>2 DEF TableOK
  <2>7. attempted' \in BOOLEAN /\ ram' \in {"pageable", "locked", "refused"}
    BY <1>1, <1>3 DEF RegisterGuestMemory, Unlocked, TypeOK
  <2>8. next' \in 0..MaxHandles
    BY <1>1, <1>3
  <2>9. TypeOK'
    BY <1>1, <2>2, <2>6, <2>7, <2>8 DEF TypeOK, TableOK, EntryOf, Types, Counted, Destroyable
  <2>10. EntriesAreLive'
    BY <2>2, <2>3, <2>5 DEF EntriesAreLive
  <2>11. RangesDisjoint' /\ Distinct' /\ LostUnlisted' /\ LiveListed'
    BY <2>2, <2>5 DEF RangesDisjoint, Distinct, LostUnlisted, LiveListed, Freed, Types, Counted, Destroyable
  <2>12. QED
    BY <2>9, <2>10, <2>11 DEF ResourceInv
<1>4. QED
  BY <1>2, <1>3 DEF RetainResets, TableOfNewContext, NextOfNewContext

------------------------------------------------------------------------------
(* Every step.                                                             *)

LEMMA ResourceInit == Init => ResourceInv
<1> SUFFICES ASSUME Init PROVE ResourceInv
  OBVIOUS
<1>1. TypeOK
  <2>1. table = NoTable /\ next = 0
    BY DEF Init
  <2>2. TableOK(table, next) /\ 0 \in 0..MaxHandles
    BY <2>1, NewTable, ResourceAssumption
  <2>3. QED
    BY <2>1, <2>2, TypesOfTables DEF Init
<1>2. \A t \in Types : DOMAIN table[t] = {}
  BY NewTable DEF Init
<1>3. live = {}
  BY DEF Init
<1>4. EntriesAreLive /\ RangesDisjoint /\ Distinct /\ LostUnlisted /\ LiveListed
  BY <1>2, <1>3 DEF EntriesAreLive, RangesDisjoint, Distinct, LostUnlisted, LiveListed,
       Freed, Types, Counted, Destroyable
<1>5. QED
  BY <1>1, <1>4 DEF ResourceInv

LEMMA ResourceNext == ResourceInv /\ [Next]_vars => ResourceInv'
<1> SUFFICES ASSUME ResourceInv, [Next]_vars PROVE ResourceInv'
  OBVIOUS
<1> USE DEF Freed, Destroyable, Kinds
<1>1. CASE InitSession
  BY <1>1, InitSessionStep
<1>2. CASE Retain
  BY <1>2, RetainStep
<1>3. CASE RetainResets
  BY <1>3, RetainResetsStep
<1>4. CASE StreamGetCtx
  BY <1>4, StreamGetCtxStep
<1>5. CASE StreamCreate \/ EventCreate \/ MemCreate \/ RegisterFatbin
  BY <1>5, CreateStep DEF StreamCreate, EventCreate, MemCreate, RegisterFatbin
<1>6. CASE MemAlloc \/ AddressReserve
  BY <1>6, AllocateStep DEF MemAlloc, AddressReserve
<1>7. ASSUME NEW h \in 1..MaxHandles,
             StreamDestroy(h) \/ EventDestroy(h) \/ MemRelease(h)
      PROVE  ResourceInv'
  <2>1. h \in Nat
    BY ResourceAssumption
  <2>2. QED
    BY <1>7, <2>1, ReleaseStep DEF StreamDestroy, EventDestroy, MemRelease
<1>8. ASSUME NEW h \in 1..MaxHandles, NEW s \in Stubs, RegisterFunction(h, s)
      PROVE  ResourceInv'
  BY <1>8, RegisterFunctionStep
<1>9. ASSUME NEW a \in Addresses, MemFree(a) \/ AddressFree(a)
      PROVE  ResourceInv'
  <2>1. a \in Nat
    BY ResourceAssumption
  <2>2. QED
    BY <1>9, <2>1, ReleaseStep DEF MemFree, AddressFree
<1>10. CASE UNCHANGED vars
  <2>1. UNCHANGED <<up, table, next, live, lost, attempted, ram, stale>>
    BY <1>10 DEF vars, ramVars
  <2>2. TypeOK'
    BY <2>1 DEF ResourceInv, TypeOK
  <2>3. EntriesAreLive' /\ RangesDisjoint'
    BY <2>1 DEF ResourceInv, EntriesAreLive, RangesDisjoint
  <2>4. Distinct' /\ LostUnlisted' /\ LiveListed'
    BY <2>1 DEF ResourceInv, Distinct, LostUnlisted, LiveListed
  <2>5. QED
    BY <2>2, <2>3, <2>4 DEF ResourceInv
<1>11. QED
  BY <1>1, <1>2, <1>3, <1>4, <1>5, <1>6, <1>7, <1>8, <1>9, <1>10 DEF Next

(* The invariant, with the types, that what the table lists exists, and    *)
(* that ranges of memory are apart and named by their first address.       *)
THEOREM TableAndCuda == Spec => []ResourceInv
<1>1. QED
  BY ResourceInit, ResourceNext, PTL DEF Spec

(* A lookup never gives a handler a pointer to something gone.             *)
THEOREM NothingStaleListed == Spec => []EntriesAreLive
<1>1. ResourceInv => EntriesAreLive
  BY DEF ResourceInv
<1>2. QED
  BY <1>1, TableAndCuda, PTL

(* The first range that has an address is the only one, and its handle is  *)
(* its address.                                                            *)
THEOREM OneRangePerAddress == Spec => []RangesDisjoint
<1>1. ResourceInv => RangesDisjoint
  BY DEF ResourceInv
<1>2. QED
  BY <1>1, TableAndCuda, PTL

(* The table neither forgets an object nor frees it twice.                 *)
THEOREM NoLeakNoDoubleFree == Spec => []ListedOnce
<1>1. ResourceInv => ListedOnce
  <2>1. SUFFICES ASSUME ResourceInv, NEW x \in live, x \notin lost, x.kind # "context"
                 PROVE  \E t \in Types \ {"function"} : x.kind \in Kinds(t) /\
                          \E i \in DOMAIN table[t] : \A j \in DOMAIN table[t] :
                            x \in Behind(t, table[t][j]) <=> i = j
    BY DEF ListedOnce
  <2>2. PICK t \in Types \ {"function"} : \E i \in DOMAIN table[t] : x \in Behind(t, table[t][i])
    BY <2>1 DEF ResourceInv, LiveListed
  <2>3. PICK i \in DOMAIN table[t] : x \in Behind(t, table[t][i])
    BY <2>2
  <2>4. x.kind \in Kinds(t)
    BY <2>3 DEF Behind, Object
  <2>5. t \in Freed \cup {"module"}
    BY <2>1, <2>4 DEF Freed, Types, Counted, Kinds
  <2>6. \A j \in DOMAIN table[t] : x \in Behind(t, table[t][j]) <=> i = j
    BY <2>1, <2>3, <2>5, EntriesApart DEF ResourceInv
  <2>7. QED
    BY <2>2, <2>4, <2>6
<1>2. QED
  BY <1>1, TableAndCuda, PTL

------------------------------------------------------------------------------
(* Handles.                                                                *)

(* No handle so far names something new.                                   *)
NoNewNames == \A t \in Counted : \A h \in 1..next : Named(t, h)' \subseteq Named(t, h)

LEMMA NamesKept ==
  ASSUME \A t \in Counted : \A i \in DOMAIN table'[t] :
           \/ table'[t][i].handle \notin 1..next
           \/ \E j \in DOMAIN table[t] : table[t][j] = table'[t][i]
  PROVE  NoNewNames
<1> SUFFICES ASSUME NEW t \in Counted, NEW h \in 1..next, NEW p \in Named(t, h)'
             PROVE  p \in Named(t, h)
  BY DEF NoNewNames
<1>1. PICK i \in DOMAIN table'[t] : table'[t][i].handle = h /\ p = table'[t][i].ptr
  BY DEF Named
<1>2. PICK j \in DOMAIN table[t] : table[t][j] = table'[t][i]
  BY <1>1
<1>3. QED
  BY <1>1, <1>2 DEF Named

(* An entry is added with a handle never given out, or to the list of      *)
(* another type.                                                           *)
LEMMA NamesAdded ==
  ASSUME TypeOK, NEW t \in Types, NEW n \in Nat, next <= n, NEW e \in EntryOf(t, n),
         table' = Add(t, e), t \in Counted => e.handle \notin 1..next
  PROVE  NoNewNames
<1>1. /\ \A u \in Types \ {t} : table'[u] = table[u]
      /\ table'[t][1] = e
      /\ \A j \in DOMAIN table'[t] \ {1} :
           j - 1 \in DOMAIN table[t] /\ table'[t][j] = table[t][j - 1]
  BY AddedTable
<1>2. Counted \subseteq Types
  BY DEF Types
<1>3. QED
  BY <1>1, <1>2, NamesKept

LEMMA NamesRemoved ==
  ASSUME TypeOK, NEW t \in Types, NEW i \in DOMAIN table[t], table' = Dropped(t, i)
  PROVE  NoNewNames
<1>1. /\ \A u \in Types \ {t} : table'[u] = table[u]
      /\ \A j \in DOMAIN table'[t] :
           Before(i, j) \in DOMAIN table[t] /\ table'[t][j] = table[t][Before(i, j)]
  BY RemovedTable
<1>2. Counted \subseteq Types
  BY DEF Types
<1>3. QED
  BY <1>1, <1>2, NamesKept

(* The counter is ahead of every handle in use, also when a reset or the   *)
(* INIT of another process replaces the Context: a handle kept too long    *)
(* finds nothing, not somebody else's object.                              *)
THEOREM HandlesNameOneObject == Spec => HandlesNeverSwitch
<1>1. ASSUME ResourceInv, [Next]_vars PROVE NoNewNames
  <2>1. TypeOK /\ next \in Nat
    BY <1>1, Numbers
  <2>2. CASE table' = NoTable
    <3>1. \A t \in Counted : DOMAIN table'[t] = {}
      BY <2>2, NewTable DEF Types
    <3>2. QED
      BY <3>1, NamesKept
  <2>3. CASE table' = table
    BY <2>3, NamesKept
  <2>4. ASSUME NEW t \in Counted, NEW p \in Pointers, table' = Add(t, Entry(NewHandle, p, 0))
        PROVE  NoNewNames
    <3>1. t \in Types /\ t # "mem" /\ t # "function"
      BY DEF Types, Counted, Destroyable
    <3>2. next + 1 \in Nat /\ next <= next + 1 /\ next + 1 \in 1..(next + 1) /\ next + 1 \notin 1..next
      BY <2>1
    <3>3. Entry(NewHandle, p, 0) = [handle |-> next + 1, ptr |-> p, size |-> 0]
      BY DEF Entry, NewHandle
    <3>4. Entry(NewHandle, p, 0) \in EntryOf(t, next + 1)
      BY <3>1, <3>2, <3>3 DEF EntryOf
    <3>5. QED
      BY <2>1, <2>4, <3>1, <3>2, <3>3, <3>4, NamesAdded
  <2>5. ASSUME NEW t \in Destroyable \cup {"module"}, Create(t) PROVE NoNewNames
    BY <2>4, <2>5 DEF Create, Counted
  <2>6. ASSUME NEW k \in {"mem", "va"}, Allocate(k) PROVE NoNewNames
    <3>1. PICK a \in Addresses, n \in 1..Cardinality(Addresses) :
            table' = Add("mem", Entry(a, a, n))
      BY <2>6 DEF Allocate
    <3>2. "mem" \in Types /\ "mem" \notin Counted
      BY DEF Types, Counted, Destroyable
    <3>3. n \in Nat \ {0}
      OBVIOUS
    <3>4. Entry(a, a, n) \in EntryOf("mem", next)
      BY <3>3 DEF Entry, EntryOf
    <3>5. QED
      BY <2>1, <3>1, <3>2, <3>4, NamesAdded
  <2>7. ASSUME NEW t \in Freed, NEW k, NEW h, Release(t, k, h) PROVE NoNewNames
    <3>1. CASE \E i \in DOMAIN table[t] : table' = Dropped(t, i)
      <4>1. t \in Types
        BY DEF Freed, Types, Counted
      <4>2. QED
        BY <2>1, <3>1, <4>1, NamesRemoved
    <3>2. QED
      BY <2>3, <2>7, <3>1 DEF Release, Removed, Dropped
  <2>8. ASSUME NEW h, NEW s \in Stubs, RegisterFunction(h, s) PROVE NoNewNames
    <3>1. PICK i \in DOMAIN table["module"] :
            table' = Add("function", Entry(s, table["module"][i].ptr, 0))
      BY <2>8 DEF RegisterFunction
    <3>2. /\ "function" \in Types /\ "function" \notin Counted /\ "module" \in Types
      BY DEF Types, Counted, Destroyable
    <3>3. table["module"][i].ptr \in Pointers
      <4>1. table["module"][i] \in EntryOf("module", next)
        BY <2>1, <3>2, TypesOfTables, TypedEntry
      <4>2. QED
        BY <4>1 DEF EntryOf
    <3>4. Entry(s, table["module"][i].ptr, 0) \in EntryOf("function", next)
      BY <3>3 DEF Entry, EntryOf
    <3>5. QED
      BY <2>1, <3>1, <3>2, <3>4, NamesAdded
  <2>9. CASE Retain
    BY <2>4, <2>9 DEF Retain, Counted
  <2>10. CASE StreamGetCtx
    <3>1. PICK x \in Contexts(live) : table' = Add("context", Entry(NewHandle, x.ptr, 0))
      BY <2>10 DEF StreamGetCtx
    <3>2. x.ptr \in Pointers
      BY <2>1 DEF Contexts, TypeOK, Objects
    <3>3. QED
      BY <2>4, <3>1, <3>2 DEF Counted
  <2>11. CASE InitSession
    BY <2>2, <2>11 DEF InitSession, TableOfNewContext
  <2>12. CASE RetainResets
    <3>1. CASE table' = TableOfNewContext
      BY <2>2, <3>1 DEF TableOfNewContext
    <3>2. CASE \E p \in Pointers :
                 table' = [TableOfNewContext EXCEPT !["context"] = <<Entry(next + 1, p, 0)>> \o @]
      <4>1. PICK p \in Pointers :
              table' = [NoTable EXCEPT !["context"] = <<Entry(next + 1, p, 0)>> \o @]
        BY <3>2 DEF TableOfNewContext
      <4>2. /\ \A t \in Counted \ {"context"} : table'[t] = <<>>
            /\ table'["context"] = <<Entry(next + 1, p, 0)>>
        BY <4>1 DEF NoTable, Types, Counted
      <4>3. /\ \A t \in Counted \ {"context"} : DOMAIN table'[t] = {}
            /\ \A i \in DOMAIN table'["context"] : table'["context"][i].handle = next + 1
        BY <4>2 DEF Entry
      <4>4. next + 1 \notin 1..next
        BY <2>1
      <4>5. QED
        BY <4>3, <4>4, NamesKept
    <3>3. QED
      BY <2>12, <3>1, <3>2 DEF RetainResets, NextOfNewContext
  <2>13. CASE UNCHANGED vars
    BY <2>3, <2>13 DEF vars
  <2>14. QED
    BY <1>1, <2>5, <2>6, <2>7, <2>8, <2>9, <2>10, <2>11, <2>12, <2>13
       DEF Next, StreamCreate, EventCreate, MemCreate, RegisterFatbin, MemAlloc, AddressReserve,
           StreamDestroy, EventDestroy, MemRelease, MemFree, AddressFree, Freed, Destroyable
<1>2. ASSUME ResourceInv, [Next]_vars
      PROVE  [\A t \in Counted : \A h \in 1..next : Named(t, h)' \subseteq Named(t, h)]_vars
  BY <1>1, <1>2 DEF NoNewNames
<1>3. QED
  BY <1>2, TableAndCuda, PTL DEF Spec, HandlesNeverSwitch
==============================================================================
